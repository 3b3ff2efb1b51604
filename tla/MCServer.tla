------------------------------ MODULE MCServer ------------------------------
(* TLC instances of Server.                                                *)
EXTENDS Server, TLC

CONSTANT Main  \* the caller of everything; the others are there for the log

AllForMain ==
  [c \in Callers |-> IF c = Main THEN CallTools ELSE {"get_source", "abapgit_push"}]
ReleaseBuilds == {[host |-> "built", port |-> "built"], [host |-> "", port |-> ""]}
SomeGroups == {{}, {"all"}, {"objects", "debugg"}, {"debug"}}
=============================================================================
