------------------------ MODULE MCPostgresMetadata ------------------------
(* One table of two columns, two data ids. *)
EXTENDS PostgresMetadata, TLC

CONSTANTS x, y, t, a, b

AllDefs == {{a}, {a, b}}
OneDef == {{a, b}}
Swap == Permutations({x, y})

=============================================================================
