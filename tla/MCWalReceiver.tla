---------------------------- MODULE MCWalReceiver ----------------------------
(* Model-checking instances of WalReceiver.                                *)
EXTENDS WalReceiver, TLC
=============================================================================
