---------------------------- MODULE MCDebugWaits ----------------------------
(* TLC instances of DebugWaits.                                            *)
EXTENDS DebugWaits, TLC
=============================================================================
