-------------------------- MODULE MCDebugSessions --------------------------
(* TLC instances of DebugSessions: S1 has a logon user, S2 is OAuth2.      *)
EXTENDS DebugSessions, TLC

TwoLogons == "S1" :> "U1" @@ "S2" :> NoUser
CallerSymmetry == Permutations(Callers)
=============================================================================
