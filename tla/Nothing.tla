------------------------------- MODULE Nothing -------------------------------
(* null and undefined, in the modules that are checked together, and a table *)
(* with a row written, one more or in place of another.                      *)
CONSTANT None
With(table, id, row) == [x \in DOMAIN table \cup {id} |-> IF x = id THEN row ELSE table[x]]
=============================================================================
