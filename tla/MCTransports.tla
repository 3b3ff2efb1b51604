---------------------------- MODULE MCTransports ----------------------------
(* TLC instances of Transports.                                            *)
EXTENDS Transports, TLC

TransportSymmetry == Permutations(Callers) \cup Permutations(Trs)
=============================================================================
