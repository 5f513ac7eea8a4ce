\* Every command, every failure, restarts and another client, without a bound.
CONSTANTS
  x = x
  y = y
  t = t
  a = a
  b = b
  Ids = {x, y}
  Tables = {t}
  Columns = {a, b}
  TableDefs <- AllDefs
  OtherTables = {t}
  NoColumn = NoColumn
  NoBinding = NoBinding
SYMMETRY Swap
SPECIFICATION Spec
INVARIANTS
  BindingsInTables
  BoundIsManaged
  NothingToLose
  TablesAreSchema
