---------------------------- MODULE MCFileLocks -----------------------------
(* Two threads of one process, and another process, open the database.      *)
EXTENDS FileLocks

CONSTANTS p1, p2, db1, db2, db3

TwoAndOne == [t \in Openers |-> IF t = db3 THEN p2 ELSE p1]
=============================================================================
