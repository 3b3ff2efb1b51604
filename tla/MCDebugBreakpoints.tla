------------------------- MODULE MCDebugBreakpoints -------------------------
(* TLC instances of DebugBreakpoints: callers and locations are            *)
(* interchangeable.                                                        *)
EXTENDS DebugBreakpoints, TLC

BreakpointSymmetry == Permutations(Callers) \cup Permutations(Locs)
\* Sets of Tolerable: rejected sets, missing IDs, and lost answers of either
\* scope each once.
Tolerated == {{"post", "reject", "lostDbg"}, {"post", "lost"},
              {"delete", "anonymous"}}
NoFaults  == {{}}
=============================================================================
