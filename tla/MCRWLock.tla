------------------------------ MODULE MCRWLock ------------------------------
(* Three threads for TLC: enough for a writer that is overtaken by readers *)
(* and by another writer between any two of its steps.                     *)
EXTENDS RWLock

CONSTANTS t1, t2, t3

Threads3 == {t1, t2, t3}
=============================================================================
