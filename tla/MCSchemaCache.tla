--------------------------- MODULE MCSchemaCache ---------------------------
(* Small instances of SchemaCache for TLC.                                  *)
EXTENDS SchemaCache, TLC

CONSTANTS t1, t2

\* The second version of a file has one table less.
DefinedTables == 1 :> {t1, t2} @@ 2 :> {t1}

HandleSymmetry == Permutations(Handles)
==============================================================================
