---------------------------- MODULE MCIoPipeline ----------------------------
(* Model-checking instances of IoPipeline.                                 *)
EXTENDS IoPipeline, TLC

CONSTANTS b1, b2

MCBackends == {b1, b2}
=============================================================================
