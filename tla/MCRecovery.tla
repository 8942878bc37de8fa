------------------------------ MODULE MCRecovery ------------------------------
(* Model-checking instances of Recovery.                                   *)
EXTENDS Recovery

CONSTANTS c1, c2

NoChunks    == {}
OneChunk    == {c1}
TwoChunks   == {c1, c2}
OneRelfork  == {1}
TwoRelforks == {1, 2}
=============================================================================
