---------------------------- MODULE RunLifecycle ----------------------------
(***************************************************************************)
(* What debug_run, debug_wait and debug_stop promise about runs, without   *)
(* goroutines, locks or requests: runs come one after another, a new one   *)
(* only after the previous one is stopped, and the status a client sees    *)
(* moves along the arrows of the design (docs/superpowers/specs/           *)
(* 2026-10-06-debug-run-design.md, "Result" and "Run state").              *)
(***************************************************************************)
EXTENDS Naturals

CONSTANT MaxRuns  \* bound: runs created

VARIABLES newest,  \* the number of the newest run, 0 before the first
          life     \* the status of each run

Runs == 1..MaxRuns

\* The statuses that may follow each status.
Successors(s) ==
  CASE s = "listening" -> {"attaching", "timeout", "ended", "stopping"}
    [] s = "attaching" -> {"attached", "ended", "stopping"}
    [] s = "attached"  -> {"ended", "stopping"}
    [] s = "ended"     -> {"listening", "stopping"}
    [] s = "timeout"   -> {"listening", "stopping"}
    [] s = "stopping"  -> {"stopped"}
    [] OTHER           -> {}

Init == newest = 0 /\ life = [r \in Runs |-> "none"]

\* debug_run: the previous run is stopped for good.
Create ==
  /\ newest < MaxRuns
  /\ newest # 0 => life[newest] = "stopped"
  /\ newest' = newest + 1
  /\ life' = [life EXCEPT ![newest + 1] = "listening"]

\* Only the newest run changes, one arrow at a time.
Change ==
  /\ newest # 0
  /\ \E s \in Successors(life[newest]) : life' = [life EXCEPT ![newest] = s]
  /\ UNCHANGED newest

Next == Create \/ Change

Spec == Init /\ [][Next]_<<newest, life>>
=============================================================================
