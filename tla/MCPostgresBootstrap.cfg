\* create_table always names the same columns; a bootstrap may fail.
CONSTANTS
  x = x
  y = y
  t = t
  a = a
  b = b
  Ids = {x, y}
  Tables = {t}
  Columns = {a, b}
  TableDefs <- OneDef
  OtherTables = {}
  NoColumn = NoColumn
  NoBinding = NoBinding
SPECIFICATION Spec
PROPERTIES
  SavedBindingsKept
