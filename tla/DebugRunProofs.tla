--------------------------- MODULE DebugRunProofs ---------------------------
(***************************************************************************)
(* Proofs about DebugRun for every number of runs, windows and callers;    *)
(* where a theorem needs that no deadline expires or no request fails, it  *)
(* says so.                                                                *)
(***************************************************************************)
EXTENDS DebugRun, FiniteSetTheorems, TLAPS

(* The strengthening.  OneActiveRun is not inductive: whether the run that *)
(* debug_run replaces is stopped depends on where the holder of startMu is *)
(* in its cleanup, and TypeOK needs inFlight to count the admitted calls.  *)

\* The statuses a run has between its publication and its cleanup.
Moving == {"listening", "attaching", "attached", "ended", "timeout"}

\* The holder of startMu, its phase and the status of the newest run.
LockInv ==
  /\ startMu = "free" => phase = "-"
  /\ startMu = "launch" => run < MaxRuns
  /\ startMu \in {"launch", "stop"} =>
       phase \in {"cleanup", "detach", "finish", "set", "drop"}
  /\ startMu = "idle" => phase \in {"detach", "finish"}
  /\ startMu = "rearm" => phase = "wait"

\* Only the holder of startMu makes the newest run stopping, and launch and stop
\* go on only when it is stopped.
CleanupInv ==
  /\ startMu \in {"launch", "stop"} /\ phase \in {"cleanup", "detach", "finish"}
       => target = run /\ run # 0 /\ status[run] = "stopping"
  /\ startMu \in {"launch", "stop"} /\ phase \in {"set", "drop"} /\ run # 0
       => status[run] = "stopped"
  /\ startMu \notin {"launch", "stop"} /\ run # 0 => status[run] # "stopping"

\* Runs are created in order and replaced only when stopped.
OrderInv ==
  /\ \A r \in Runs : r > run => status[r] = "none"
  /\ \A r \in Runs : r < run => status[r] = "stopped"
  /\ run # 0 => status[run] # "none"

\* inFlight counts the calls admitted to a run.
Admitted(r) == {c \in Callers : callRun[c] = r}
CountInv ==
  /\ \A r \in Runs : inFlight[r] = Cardinality(Admitted(r))
  /\ \A c \in Callers : callPc[c] = "idle" <=> callRun[c] = 0

\* An attached run without calls has a timer or is being detached.
TimerInv ==
  \A r \in Runs :
    status[r] = "attached" /\ inFlight[r] = 0 /\ ~detaching[r]
      => timer[r] # "off"

RunInv == LockInv /\ CleanupInv /\ OrderInv
IdleOK == TimerInv /\ IdleSparesCalls
IInv == TypeOK /\ RunInv /\ CountInv /\ IdleOK
-----------------------------------------------------------------------------
\* The constants are what the types of the variables need.
LEMMA ConstantFacts ==
  /\ MaxRuns \in Nat /\ MaxWindows \in Nat /\ 1 \in Windows
  /\ IsFiniteSet(Callers)
  /\ Runs \subseteq Nat /\ 0 \notin Runs
  /\ \A r \in Nat : r \in Runs <=> 1 <= r /\ r <= MaxRuns
  BY DebugRunAssumption DEF DebugRunAssumption, Runs, Windows

\* What SetListener and StartWindow store has the listener's type.
LEMMA ListenerType ==
  ASSUME listener \in [Runs -> [Windows -> ListenerPcs]],
         NEW r, NEW w, NEW pc \in ListenerPcs,
         SetListener(r, w, pc)
  PROVE  listener' \in [Runs -> [Windows -> ListenerPcs]]
<1>1. ASSUME NEW f \in [Runs -> [Windows -> ListenerPcs]]
      PROVE  [f EXCEPT ![r][w] = pc] \in [Runs -> [Windows -> ListenerPcs]]
  OBVIOUS
<1> QED
  BY <1>1 DEF SetListener

\* Counting one more call or one more given-up request keeps the type.
LEMMA IncrementType ==
  ASSUME NEW f \in [Runs -> Nat], NEW r
  PROVE  [f EXCEPT ![r] = @ + 1] \in [Runs -> Nat]
<1>1. CASE r \in Runs
  <2>1. f[r] + 1 \in Nat
    BY <1>1
  <2> QED
    BY <2>1
<1>2. CASE r \notin Runs
  BY <1>2
<1> QED
  BY <1>1, <1>2

\* A request given up is counted.
LEMMA GivenUpType ==
  ASSUME abandoned \in [Runs -> [Requests -> Nat]], NEW r,
         NEW q \in Requests, GivesUp(r, q)
  PROVE  abandoned' \in [Runs -> [Requests -> Nat]]
<1>1. CASE r \in Runs
  <2>1. abandoned[r][q] + 1 \in Nat
    BY <1>1
  <2> QED
    BY <2>1 DEF GivesUp
<1>2. CASE r \notin Runs
  BY <1>2 DEF GivesUp
<1> QED
  BY <1>1, <1>2

\* The initial state satisfies the invariant: nothing runs, nobody calls.
LEMMA InitIInv == Init => IInv
<1> SUFFICES ASSUME Init PROVE IInv
  OBVIOUS
<1>0. MaxRuns \in Nat /\ 1 \in Windows
  BY ConstantFacts
<1>1. TypeOK
  <2>1. /\ run = 0 /\ cur = 0 /\ target = 0 /\ sapListener = 0
        /\ window = [r \in Runs |-> 1]
        /\ callRun = [c \in Callers |-> 0]
    BY DEF Init
  <2>2. held = [s \in Sessions |-> 0]
    BY DEF Init
  <2>3. /\ run \in 0..MaxRuns /\ cur \in 0..MaxRuns /\ target \in 0..MaxRuns
        /\ sapListener \in 0..MaxRuns
        /\ window \in [Runs -> Windows]
        /\ callRun \in [Callers -> 0..MaxRuns]
    BY <1>0, <2>1
  <2>4. held \in [Sessions -> 0..MaxRuns]
    BY <1>0, <2>2
  <2>5. /\ status \in [Runs -> Statuses] /\ reason \in [Runs -> Reasons]
        /\ kind \in [Runs -> AllKinds] /\ sess \in [Runs -> Sessions]
        /\ listener \in [Runs -> [Windows -> ListenerPcs]]
    BY DEF Init, Statuses, Reasons, AllKinds, Sessions, ListenerPcs
  <2> QED
    BY <2>3, <2>4, <2>5
    DEF Init, TypeOK, Holders, Phases, TriggerPcs, CallPcs
<1>2. RunInv
  <2>1. /\ run = 0 /\ startMu = "free" /\ phase = "-"
        /\ status = [r \in Runs |-> "none"]
    BY DEF Init
  <2> QED
    BY <2>1, ConstantFacts DEF RunInv, LockInv, CleanupInv, OrderInv
<1>3. CountInv
  <2>1. /\ callRun = [c \in Callers |-> 0] /\ inFlight = [r \in Runs |-> 0]
        /\ callPc = [c \in Callers |-> "idle"]
    BY DEF Init
  <2>2. \A r \in Runs : Admitted(r) = {}
    BY <2>1, ConstantFacts DEF Admitted
  <2> QED
    BY <2>1, <2>2, FS_EmptySet DEF CountInv
<1>4. TimerInv /\ IdleSparesCalls
  BY DEF Init, TimerInv, IdleSparesCalls
<1> QED
  BY <1>1, <1>2, <1>3, <1>4 DEF IInv, IdleOK
-----------------------------------------------------------------------------
(* Type correctness, one lemma per part of the program.                    *)

\* debug_run, debug_stop and their cleanup keep the types.
LEMMA CleanupTypes ==
  ASSUME TypeOK, LockInv,
         \/ \E op \in {"launch", "stop"} : Begin(op)
         \/ CleanupStep \/ DropSession \/ LaunchFails
         \/ \E k \in Kinds : Publish(k)
  PROVE  TypeOK'
<1>0. MaxRuns \in Nat /\ Kinds \subseteq AllKinds /\ 1 \in Windows
  BY ConstantFacts, DebugRunAssumption DEF DebugRunAssumption
<1> USE <1>0 DEF lockVars, runVars, goVars, idleVars, callVars, sapVars
<1>1. ASSUME NEW op \in {"launch", "stop"}, Begin(op) PROVE TypeOK'
  <2>1. phase' \in Phases /\ startMu' \in Holders
    BY <1>1 DEF Begin, AfterCleanup, Phases, Holders
  <2> QED
    BY <1>1, <2>1 DEF TypeOK, Begin, SetStatus, StopIdle, WasAttached, Statuses
<1>2. CASE StopExternal
  BY <1>2 DEF TypeOK, StopExternal
<1>3. CASE CancelRun
  BY <1>3 DEF TypeOK, CancelRun
<1>4. CASE ListenerExited
  BY <1>4 DEF TypeOK, ListenerExited
<1>5. CASE Join
  BY <1>5 DEF TypeOK, Join, Phases
<1>6. CASE CleanupDetach
  <2>1. held' \in [Sessions -> 0..MaxRuns]
    <3>1. /\ 0 \in 0..MaxRuns /\ held \in [Sessions -> 0..MaxRuns]
          /\ \/ held' = [held EXCEPT ![sess[target]] = 0]
             \/ UNCHANGED held
      BY <1>6 DEF TypeOK, CleanupDetach
    <3> QED
      BY <3>1
  <2>2. report' \in [Runs -> {"none", "clean", "detach_failed"}]
    BY <1>6 DEF TypeOK, CleanupDetach
  <2> QED
    BY <1>6, <2>1, <2>2 DEF TypeOK, CleanupDetach, Phases
<1>7. CASE CleanupDetachGivenUp
  <2>1. abandoned' \in [Runs -> [Requests -> Nat]]
    BY <1>7, GivenUpType DEF TypeOK, CleanupDetachGivenUp, Requests
  <2> QED
    BY <1>7, <2>1 DEF TypeOK, CleanupDetachGivenUp, Phases
<1>8. CASE CleanupFinish
  BY <1>8 DEF TypeOK, CleanupFinish, AfterCleanup, SetStatus, Phases, Statuses
<1>9. CASE DropSession
  BY <1>9 DEF TypeOK, DropSession, Phases, Holders
<1>10. CASE LaunchFails
  BY <1>10 DEF TypeOK, LockInv, LaunchFails, OpenSession, Phases, Holders
<1>11. ASSUME NEW k \in Kinds, Publish(k) PROVE TypeOK'
  <2>1. /\ run' \in 0..MaxRuns /\ cur' \in 0..MaxRuns
        /\ OpenSession \in Sessions
    BY <1>11 DEF TypeOK, LockInv, Publish, OpenSession, Sessions, Runs
  <2>2. listener' \in [Runs -> [Windows -> ListenerPcs]]
    <3>1. SetListener(run + 1, 1, "start")
      BY <1>11 DEF Publish, StartWindow, SetListener
    <3> QED
      BY <3>1, ListenerType DEF TypeOK, ListenerPcs
  <2>3. /\ status' \in [Runs -> Statuses] /\ kind' \in [Runs -> AllKinds]
        /\ sess' \in [Runs -> Sessions] /\ window' \in [Runs -> Windows]
        /\ trigger' \in [Runs -> TriggerPcs]
    BY <1>11, <2>1
    DEF TypeOK, Publish, SetStatus, StartWindow, Statuses, TriggerPcs
  <2> QED
    BY <1>11, <2>1, <2>2, <2>3 DEF TypeOK, Publish, Phases, Holders
<1> QED
  BY <1>1, <1>2, <1>3, <1>4, <1>5, <1>6, <1>7, <1>8, <1>9, <1>10, <1>11
  DEF CleanupStep

\* The listener goroutine keeps the types.
LEMMA ListenerTypes ==
  ASSUME TypeOK, NEW r \in Runs, NEW w \in Windows, ListenerStep(r, w)
  PROVE  TypeOK'
<1> USE DEF lockVars, runVars, goVars, idleVars, callVars, sapVars
<1>0. MaxRuns \in Nat /\ r \in 0..MaxRuns
  BY ConstantFacts DEF Runs
<1>1. listener' \in [Runs -> [Windows -> ListenerPcs]]
  <2>1. PICK pc \in ListenerPcs : SetListener(r, w, pc)
    BY DEF ListenerStep, PollOpens, PollEnds, PollCancelled, Verdict,
           SapAttach, AttachGivenUp, AttachReturns, LateAnswer, LateDetach,
           LateDetachGivenUp, ListenerCloses, ListenerPcs
  <2> QED
    BY <2>1, ListenerType DEF TypeOK
<1>2. CASE PollOpens(r, w)
  BY <1>0, <1>1, <1>2 DEF TypeOK, PollOpens
<1>3. CASE PollEnds(r, w)
  BY <1>0, <1>1, <1>3 DEF TypeOK, PollEnds
<1>4. CASE PollCancelled(r, w)
  BY <1>1, <1>4 DEF TypeOK, PollCancelled
<1>5. CASE Verdict(r, w)
  BY <1>1, <1>5 DEF TypeOK, Verdict, SetStatus, Statuses
<1>6. CASE SapAttach(r, w)
  BY <1>0, <1>1, <1>6 DEF TypeOK, SapAttach
<1>7. CASE AttachReturns(r, w)
  BY <1>1, <1>7
  DEF TypeOK, AttachReturns, SetStatus, ResetIdle, Statuses, Reasons
<1>8. CASE LateDetach(r, w)
  BY <1>0, <1>1, <1>8 DEF TypeOK, LateDetach, SapDetaches
<1>9. CASE ListenerCloses(r, w)
  BY <1>1, <1>9 DEF TypeOK, ListenerCloses
<1>10. CASE AttachGivenUp(r, w)
  <2>1. abandoned' \in [Runs -> [Requests -> Nat]]
    BY <1>10, GivenUpType DEF TypeOK, AttachGivenUp, Requests
  <2> QED
    BY <1>1, <1>10, <2>1 DEF TypeOK, AttachGivenUp
<1>11. CASE LateDetachGivenUp(r, w)
  <2>1. abandoned' \in [Runs -> [Requests -> Nat]]
    BY <1>11, GivenUpType DEF TypeOK, LateDetachGivenUp, Requests
  <2> QED
    BY <1>1, <1>11, <2>1 DEF TypeOK, LateDetachGivenUp
<1> QED
  BY <1>2, <1>3, <1>4, <1>5, <1>6, <1>7, <1>8, <1>9, <1>10, <1>11
  DEF ListenerStep

\* The trigger goroutine, given-up requests and the debuggee keep the types.
LEMMA TriggerTypes ==
  ASSUME TypeOK,
         \/ \E r \in Runs : TriggerStep(r) \/ AbandonedStep(r)
         \/ \E s \in Sessions : DebuggeeEnds(s)
  PROVE  TypeOK'
<1> USE DEF lockVars, runVars, goVars, idleVars, callVars, sapVars
<1>0. MaxRuns \in Nat
  BY ConstantFacts
<1>1. ASSUME NEW r \in Runs, TriggerStarts(r) PROVE TypeOK'
  BY <1>1 DEF TypeOK, TriggerStarts, TriggerPcs
<1>2. ASSUME NEW r \in Runs, TriggerSkipped(r) PROVE TypeOK'
  BY <1>2 DEF TypeOK, TriggerSkipped, TriggerPcs
<1>3. ASSUME NEW r \in Runs, NEW ok \in BOOLEAN, TriggerReturns(r, ok)
      PROVE  TypeOK'
  BY <1>3
  DEF TypeOK, TriggerReturns, SetStatus, TriggerPcs, Statuses, Reasons
<1>4. ASSUME NEW r \in Runs, QuietStop(r) PROVE TypeOK'
  BY <1>0, <1>4 DEF TypeOK, QuietStop
<1>5. ASSUME NEW r \in Runs, AbandonedStep(r) PROVE TypeOK'
  <2>1. abandoned' \in [Runs -> [Requests -> Nat]]
    <3>1. PICK q \in Requests : AbandonedRuns(r, q)
      BY <1>5 DEF AbandonedStep, AbandonedDetach, AbandonedAttach, Requests
    <3>2. abandoned[r][q] - 1 \in Nat
      BY <3>1 DEF TypeOK, AbandonedRuns
    <3> QED
      BY <3>1, <3>2 DEF TypeOK, AbandonedRuns
  <2>2. r \in 0..MaxRuns
    BY <1>0 DEF Runs
  <2>3. held' \in [Sessions -> 0..MaxRuns]
    BY <1>0, <1>5, <2>2
    DEF TypeOK, AbandonedStep, AbandonedDetach, AbandonedAttach, SapDetaches
  <2>4. UNCHANGED <<lockVars, runVars, goVars, idleVars, callVars, sapListener,
                    report>>
    BY <1>5 DEF AbandonedStep, AbandonedDetach, AbandonedAttach, AbandonedRuns
  <2> QED
    BY <2>1, <2>3, <2>4 DEF TypeOK
<1>6. ASSUME NEW s \in Sessions, DebuggeeEnds(s) PROVE TypeOK'
  BY <1>0, <1>6 DEF TypeOK, DebuggeeEnds
<1> QED
  BY <1>1, <1>2, <1>3, <1>4, <1>5, <1>6 DEF TriggerStep

\* The idle limit and rearm keep the types.
LEMMA IdleTypes ==
  ASSUME TypeOK,
         \/ \E r \in Runs : IdleStep(r) \/ RearmBegins(r)
         \/ IdleLockStep \/ RearmStep
  PROVE  TypeOK'
<1> USE DEF lockVars, runVars, goVars, idleVars, callVars, sapVars
<1>0. MaxRuns \in Nat /\ MaxWindows \in Nat /\ Runs \subseteq 0..MaxRuns
  BY ConstantFacts DEF Runs
<1>1. ASSUME NEW r \in Runs, TimerFires(r) PROVE TypeOK'
  BY <1>1 DEF TypeOK, TimerFires
<1>2. ASSUME NEW r \in Runs, StaleCallback(r) PROVE TypeOK'
  BY <1>2 DEF TypeOK, StaleCallback
<1>3. ASSUME NEW r \in Runs, IdleBegins(r) PROVE TypeOK'
  BY <1>0, <1>3 DEF TypeOK, IdleBegins, Holders, Phases
<1>4. ASSUME NEW r \in Runs, RearmBegins(r) PROVE TypeOK'
  BY <1>0, <1>4 DEF TypeOK, RearmBegins, Holders, Phases
<1>5. CASE IdleDetach
  BY <1>0, <1>5 DEF TypeOK, IdleDetach, SapDetaches, Phases
<1>6. CASE IdleDetachGivenUp
  <2>1. abandoned' \in [Runs -> [Requests -> Nat]]
    BY <1>6, GivenUpType DEF TypeOK, IdleDetachGivenUp, Requests
  <2> QED
    BY <1>6, <2>1 DEF TypeOK, IdleDetachGivenUp, Phases
<1>7. CASE IdleEnds
  <2>1. /\ status' \in [Runs -> Statuses] /\ reason' \in [Runs -> Reasons]
        /\ detaching' \in [Runs -> BOOLEAN]
    BY <1>7 DEF TypeOK, IdleEnds, SetStatus, Statuses, Reasons
  <2> QED
    BY <1>0, <1>7, <2>1 DEF TypeOK, IdleEnds, Holders, Phases
<1>8. CASE RearmGoes
  <2>1. window' \in [Runs -> Windows]
    <3>1. CASE target \in Runs
      <4>1. window[target] \in Windows /\ window[target] < MaxWindows
        BY <1>8, <3>1 DEF TypeOK, RearmGoes
      <4>2. window[target] + 1 \in Windows
        BY <1>0, <4>1 DEF Windows
      <4> QED
        BY <1>8, <4>2 DEF TypeOK, RearmGoes, StartWindow
    <3>2. CASE target \notin Runs
      BY <1>8, <3>2 DEF TypeOK, RearmGoes, StartWindow
    <3> QED
      BY <3>1, <3>2
  <2>2. listener' \in [Runs -> [Windows -> ListenerPcs]]
    <3>1. \/ UNCHANGED listener
          \/ SetListener(target, window[target] + 1, "start")
      BY <1>8 DEF RearmGoes, StartWindow, SetListener
    <3> QED
      BY <3>1, ListenerType DEF TypeOK, ListenerPcs
  <2>3. status' \in [Runs -> Statuses] /\ reason' \in [Runs -> Reasons]
    BY <1>8 DEF TypeOK, RearmGoes, SetStatus, Statuses, Reasons
  <2> QED
    <3>1. /\ UNCHANGED <<wasAttached, extDone, waiting, run, cur, kind, sess,
                          cancelled, trigger, quiet, idleVars, callVars,
                          sapVars, report, abandoned>>
          /\ startMu' = "free" /\ phase' = "-" /\ target' = 0
      BY <1>8 DEF RearmGoes
    <3> QED
      BY <1>0, <2>1, <2>2, <2>3, <3>1 DEF TypeOK, Holders, Phases
<1>9. CASE RearmRefused
  BY <1>0, <1>9 DEF TypeOK, RearmRefused, Holders, Phases
<1> QED
  BY <1>1, <1>2, <1>3, <1>4, <1>5, <1>6, <1>7, <1>8, <1>9
  DEF IdleStep, IdleLockStep, RearmStep

\* A call in flight is counted, so inFlight can be decremented.
LEMMA CallCounted ==
  ASSUME TypeOK, CountInv, NEW c \in Callers, callPc[c] # "idle"
  PROVE  callRun[c] \in Runs /\ inFlight[callRun[c]] \in Nat \ {0}
<1>1. callRun[c] \in Runs
  BY ConstantFacts DEF TypeOK, CountInv, Runs
<1>2. c \in Admitted(callRun[c]) /\ IsFiniteSet(Admitted(callRun[c]))
  BY ConstantFacts, FS_Subset DEF Admitted
<1>3. Cardinality(Admitted(callRun[c])) # 0
  BY <1>2, FS_EmptySet
<1> QED
  BY <1>1, <1>3 DEF TypeOK, CountInv

\* The in-attempt calls keep the types.
LEMMA CallTypes ==
  ASSUME TypeOK, CountInv, NEW c \in Callers,
         \/ \E request \in {"look", "move", "detach"} : CallBegins(c, request)
         \/ CallStep(c)
  PROVE  TypeOK'
<1> USE DEF lockVars, runVars, goVars, idleVars, callVars, sapVars
<1>0. MaxRuns \in Nat
  BY ConstantFacts
<1>1. ASSUME NEW request \in {"look", "move", "detach"}, CallBegins(c, request)
      PROVE  TypeOK'
  <2>1. inFlight' \in [Runs -> Nat]
    BY <1>1, IncrementType DEF TypeOK, CallBegins
  <2>2. timer' \in [Runs -> {"off", "armed", "fired"}]
    BY <1>1 DEF TypeOK, CallBegins, StopIdle
  <2>3. stale' \in [Runs -> BOOLEAN]
    BY <1>1 DEF TypeOK, CallBegins, StopIdle
  <2>4. /\ callPc' \in [Callers -> CallPcs]
        /\ callRun' \in [Callers -> 0..MaxRuns]
    BY <1>1 DEF TypeOK, CallBegins, CallPcs
  <2> QED
    BY <1>1, <2>1, <2>2, <2>3, <2>4 DEF TypeOK, CallBegins
<1>2. CASE CallServed(c)
  <2>1. callPc' \in [Callers -> CallPcs]
    BY <1>2 DEF TypeOK, CallServed, CallPcs
  <2>2. held' \in [Sessions -> 0..MaxRuns]
    BY <1>0, <1>2 DEF TypeOK, CallServed
  <2> QED
    BY <1>2, <2>1, <2>2 DEF TypeOK, CallServed
<1>3. CASE CallReports(c)
  BY <1>3 DEF TypeOK, CallReports, SetStatus, CallPcs, Statuses, Reasons
<1>4. CASE CallEnds(c)
  <2>1. inFlight[callRun[c]] \in Nat \ {0}
    BY <1>4, CallCounted DEF CallEnds
  <2>2. inFlight' \in [Runs -> Nat]
    <3>1. inFlight[callRun[c]] - 1 \in Nat
      BY <2>1
    <3>2. inFlight' = [inFlight EXCEPT ![callRun[c]] = inFlight[callRun[c]] - 1]
      BY <1>4 DEF CallEnds
    <3> QED
      BY <3>1, <3>2 DEF TypeOK
  <2>3. timer' \in [Runs -> {"off", "armed", "fired"}]
    BY <1>4 DEF TypeOK, CallEnds, ResetIdle
  <2>4. stale' \in [Runs -> BOOLEAN]
    BY <1>4 DEF TypeOK, CallEnds, ResetIdle
  <2>5. /\ callPc' \in [Callers -> CallPcs]
        /\ callRun' \in [Callers -> 0..MaxRuns]
    BY <1>0, <1>4 DEF TypeOK, CallEnds, CallPcs
  <2> QED
    BY <1>4, <2>2, <2>3, <2>4, <2>5 DEF TypeOK, CallEnds
<1> QED
  BY <1>1, <1>2, <1>3, <1>4 DEF CallStep

\* Every step keeps the types.
LEMMA TypeStep == TypeOK /\ LockInv /\ CountInv /\ [Next]_vars => TypeOK'
<1> SUFFICES ASSUME TypeOK, LockInv, CountInv, [Next]_vars PROVE TypeOK'
  OBVIOUS
<1>1. CASE UNCHANGED vars
  BY <1>1
  DEF vars, lockVars, runVars, goVars, idleVars, callVars, sapVars, TypeOK
<1>2. CASE Next
  BY <1>2, CleanupTypes, ListenerTypes, TriggerTypes, IdleTypes, CallTypes
  DEF Next
<1> QED
  BY <1>1, <1>2
-----------------------------------------------------------------------------
(* The runs and the run-start lock.                                        *)

\* Only the newest run can be anything but stopped.
LEMMA ActiveIsNewest ==
  ASSUME TypeOK, RunInv, NEW r \in Runs, status[r] \notin {"none", "stopped"}
  PROVE  r = run /\ run \in Runs /\ run # 0
<1>1. run \in Nat /\ r \in Nat /\ r # 0
  BY ConstantFacts DEF TypeOK
<1> QED
  BY <1>1 DEF RunInv, OrderInv

\* A run in service may change its status among those of a run in service,
\* while the lock stays as it is or a holder that is not cleaning up frees it.
LEMMA MovingRun ==
  ASSUME TypeOK, RunInv, NEW r \in Runs, NEW s \in Moving,
         status[r] \in Moving, SetStatus(r, s), UNCHANGED run,
         \/ UNCHANGED <<startMu, phase, target>>
         \/ startMu \in {"idle", "rearm"} /\ startMu' = "free" /\ phase' = "-"
  PROVE  RunInv'
<1>1. r = run /\ run \in Runs /\ run # 0
  BY ActiveIsNewest DEF Moving
<1>2. status' = [status EXCEPT ![run] = s]
  BY <1>1 DEF SetStatus
<1>3. status'[run] = s /\ \A q \in Runs : q # run => status'[q] = status[q]
  BY <1>1, <1>2 DEF TypeOK
<1>4. startMu \in {"launch", "stop"} => FALSE
  BY <1>1 DEF RunInv, LockInv, CleanupInv, Moving
<1>5. run \in Nat /\ Runs \subseteq Nat
  BY ConstantFacts DEF TypeOK
<1> QED
  BY <1>1, <1>3, <1>4, <1>5
  DEF RunInv, LockInv, CleanupInv, OrderInv, Moving

\* A step that changes neither the runs' statuses nor the lock.
LEMMA QuietRun ==
  ASSUME RunInv, UNCHANGED <<run, status, startMu, phase, target>>
  PROVE  RunInv'
  BY DEF RunInv, LockInv, CleanupInv, OrderInv

\* debug_run, debug_stop and their cleanup keep the invariant.
LEMMA CleanupRuns ==
  ASSUME TypeOK, RunInv,
         \/ \E op \in {"launch", "stop"} : Begin(op)
         \/ CleanupStep \/ DropSession \/ LaunchFails
         \/ \E k \in Kinds : Publish(k)
  PROVE  RunInv'
<1>0. /\ run \in Nat /\ Runs \subseteq Nat /\ MaxRuns \in Nat
      /\ run # 0 => run \in Runs
      /\ run \in 0..MaxRuns
  BY ConstantFacts DEF TypeOK, Runs
<1> USE <1>0 DEF lockVars, runVars
<1>1. ASSUME NEW op \in {"launch", "stop"}, Begin(op) PROVE RunInv'
  <2>1. CASE run # 0 /\ Active(run)
    <3>1. /\ startMu' = op /\ target' = run /\ phase' = "cleanup"
          /\ run' = run /\ status' = [status EXCEPT ![run] = "stopping"]
          /\ op = "launch" => run < MaxRuns
      BY <1>1, <2>1 DEF Begin, SetStatus
    <3>2. /\ status'[run] = "stopping"
          /\ \A q \in Runs : q # run => status'[q] = status[q]
      BY <2>1, <3>1 DEF TypeOK
    <3> QED
      BY <2>1, <3>1, <3>2 DEF RunInv, LockInv, CleanupInv, OrderInv
  <2>2. CASE ~(run # 0 /\ Active(run))
    <3>1. /\ startMu' = op /\ phase' \in {"set", "drop"}
          /\ run' = run /\ status' = status
          /\ op = "launch" => run < MaxRuns
      BY <1>1, <2>2 DEF Begin, AfterCleanup
    <3>2. run # 0 => status[run] = "stopped"
      BY <1>1, <2>2 DEF Begin, Active, RunInv, CleanupInv, OrderInv
    <3> QED
      BY <3>1, <3>2 DEF RunInv, LockInv, CleanupInv, OrderInv
  <2> QED
    BY <2>1, <2>2
<1>2. CASE StopExternal
  BY <1>2, QuietRun DEF StopExternal
<1>3. CASE CancelRun
  BY <1>3, QuietRun DEF CancelRun
<1>4. CASE ListenerExited
  BY <1>4, QuietRun DEF ListenerExited
<1>5. CASE Join
  BY <1>5 DEF Join, RunInv, LockInv, CleanupInv, OrderInv
<1>6. CASE CleanupDetach
  BY <1>6 DEF CleanupDetach, RunInv, LockInv, CleanupInv, OrderInv
<1>7. CASE CleanupDetachGivenUp
  BY <1>7 DEF CleanupDetachGivenUp, RunInv, LockInv, CleanupInv, OrderInv
<1>8. CASE CleanupFinish
  <2>1. target = run /\ run # 0
    BY <1>8 DEF CleanupFinish, RunInv, CleanupInv
  <2>2. /\ phase' \in {"set", "drop"}
        /\ status' = [status EXCEPT ![run] = "stopped"]
        /\ UNCHANGED <<run, startMu, target>>
        /\ startMu \in {"launch", "stop"}
    BY <1>8, <2>1 DEF CleanupFinish, AfterCleanup, SetStatus
  <2>3. /\ status'[run] = "stopped"
        /\ \A q \in Runs : q # run => status'[q] = status[q]
    BY <2>1, <2>2 DEF TypeOK
  <2> QED
    BY <2>1, <2>2, <2>3 DEF RunInv, LockInv, CleanupInv, OrderInv
<1>9. CASE DropSession
  BY <1>9 DEF DropSession, RunInv, LockInv, CleanupInv, OrderInv
<1>10. CASE LaunchFails
  BY <1>10 DEF LaunchFails, RunInv, LockInv, CleanupInv, OrderInv
<1>11. ASSUME NEW k \in Kinds, Publish(k) PROVE RunInv'
  <2>1. /\ startMu' = "free" /\ phase' = "-" /\ run' = run + 1
        /\ status' = [status EXCEPT ![run + 1] = "listening"]
        /\ run + 1 \in Runs
    BY <1>11, ConstantFacts DEF Publish, SetStatus, RunInv, LockInv
  <2>2. /\ status'[run + 1] = "listening"
        /\ \A q \in Runs : q # run + 1 => status'[q] = status[q]
    BY <2>1 DEF TypeOK
  <2>3. run # 0 => status[run] = "stopped"
    BY <1>11 DEF Publish, RunInv, CleanupInv
  <2>4. \A q \in Runs : q < run + 1 => status'[q] = "stopped"
    <3> SUFFICES ASSUME NEW q \in Runs, q < run + 1
                 PROVE  status'[q] = "stopped"
      OBVIOUS
    <3>1. status'[q] = status[q] /\ q # 0 /\ (q < run \/ q = run)
      BY <2>2, ConstantFacts
    <3> QED
      BY <2>3, <3>1 DEF RunInv, OrderInv
  <2>5. \A q \in Runs : q > run + 1 => status'[q] = "none"
    BY <2>2 DEF RunInv, OrderInv
  <2> QED
    BY <2>1, <2>2, <2>4, <2>5 DEF RunInv, LockInv, CleanupInv, OrderInv
<1> QED
  BY <1>1, <1>2, <1>3, <1>4, <1>5, <1>6, <1>7, <1>8, <1>9, <1>10, <1>11
  DEF CleanupStep

\* The goroutines of a run, its calls and SAP keep the invariant.
LEMMA GoroutineRuns ==
  ASSUME TypeOK, RunInv,
         \/ \E r \in Runs, w \in Windows : ListenerStep(r, w)
         \/ \E r \in Runs : TriggerStep(r) \/ AbandonedStep(r)
         \/ \E c \in Callers :
              \/ \E request \in {"look", "move", "detach"} :
                   CallBegins(c, request)
              \/ CallStep(c)
         \/ \E s \in Sessions : DebuggeeEnds(s)
  PROVE  RunInv'
<1> USE DEF lockVars, runVars
<1>1. ASSUME NEW r \in Runs, NEW w \in Windows, Verdict(r, w) PROVE RunInv'
  <2>1. \/ UNCHANGED status
        \/ /\ status[r] \in Moving
           /\ SetStatus(r, "attaching") \/ SetStatus(r, "timeout")
    BY <1>1 DEF Verdict, MayReport, Moving
  <2> QED
    BY <1>1, <2>1, QuietRun, MovingRun DEF Verdict, Moving
<1>2. ASSUME NEW r \in Runs, NEW w \in Windows, AttachReturns(r, w)
      PROVE  RunInv'
  <2>1. \/ UNCHANGED status
        \/ /\ status[r] \in Moving
           /\ SetStatus(r, "ended") \/ SetStatus(r, "attached")
    BY <1>2 DEF AttachReturns, Moving
  <2> QED
    BY <1>2, <2>1, QuietRun, MovingRun DEF AttachReturns, Moving
<1>3. ASSUME NEW r \in Runs, NEW w \in Windows, ListenerStep(r, w),
             ~Verdict(r, w), ~AttachReturns(r, w)
      PROVE  RunInv'
  BY <1>3, QuietRun
  DEF ListenerStep, PollOpens, PollEnds, PollCancelled, SapAttach,
      AttachGivenUp, LateDetach, LateDetachGivenUp, ListenerCloses
<1>4. ASSUME NEW r \in Runs, NEW ok \in BOOLEAN, TriggerReturns(r, ok)
      PROVE  RunInv'
  <2>1. \/ UNCHANGED status
        \/ status[r] \in Moving /\ SetStatus(r, "ended")
    BY <1>4 DEF TriggerReturns, NoHit, Moving
  <2> QED
    BY <1>4, <2>1, QuietRun, MovingRun DEF TriggerReturns, Moving
<1>5. ASSUME NEW r \in Runs, \/ TriggerStarts(r) \/ TriggerSkipped(r)
                             \/ QuietStop(r) \/ AbandonedStep(r)
      PROVE  RunInv'
  BY <1>5, QuietRun
  DEF TriggerStarts, TriggerSkipped, QuietStop, AbandonedStep, AbandonedDetach,
      AbandonedAttach, AbandonedRuns
<1>6. ASSUME NEW c \in Callers, CallReports(c) PROVE RunInv'
  <2>1. \/ UNCHANGED status
        \/ status[callRun[c]] \in Moving /\ SetStatus(callRun[c], "ended")
    BY <1>6 DEF CallReports, Moving
  <2>2. CASE callRun[c] \in Runs
    BY <1>6, <2>1, <2>2, QuietRun, MovingRun DEF CallReports, Moving
  <2>3. CASE callRun[c] \notin Runs
    <3>1. UNCHANGED status
      BY <2>1, <2>3 DEF SetStatus, TypeOK
    <3> QED
      BY <1>6, <3>1, QuietRun DEF CallReports
  <2> QED
    BY <2>2, <2>3
<1>7. ASSUME NEW c \in Callers,
             \/ \E request \in {"look", "move", "detach"} :
                  CallBegins(c, request)
             \/ CallServed(c) \/ CallEnds(c)
      PROVE  RunInv'
  BY <1>7, QuietRun DEF CallBegins, CallServed, CallEnds
<1>8. ASSUME NEW s \in Sessions, DebuggeeEnds(s) PROVE RunInv'
  BY <1>8, QuietRun DEF DebuggeeEnds
<1> QED
  BY <1>1, <1>2, <1>3, <1>4, <1>5, <1>6, <1>7, <1>8
  DEF TriggerStep, CallStep

\* The idle limit and rearm keep the invariant.
LEMMA IdleRuns ==
  ASSUME TypeOK, RunInv,
         \/ \E r \in Runs : IdleStep(r) \/ RearmBegins(r)
         \/ IdleLockStep \/ RearmStep
  PROVE  RunInv'
<1> USE DEF lockVars, runVars
<1>1. ASSUME NEW r \in Runs, TimerFires(r) \/ StaleCallback(r) PROVE RunInv'
  BY <1>1, QuietRun DEF TimerFires, StaleCallback
<1>2. ASSUME NEW r \in Runs, IdleBegins(r) PROVE RunInv'
  BY <1>2 DEF IdleBegins, RunInv, LockInv, CleanupInv, OrderInv
<1>3. ASSUME NEW r \in Runs, RearmBegins(r) PROVE RunInv'
  BY <1>3 DEF RearmBegins, RunInv, LockInv, CleanupInv, OrderInv
<1>4. CASE IdleDetach
  BY <1>4 DEF IdleDetach, RunInv, LockInv, CleanupInv, OrderInv
<1>5. CASE IdleDetachGivenUp
  BY <1>5 DEF IdleDetachGivenUp, RunInv, LockInv, CleanupInv, OrderInv
<1>6. CASE IdleEnds
  <2>1. CASE target \in Runs /\ status[target] = "attached"
    BY <1>6, <2>1, MovingRun DEF IdleEnds, Moving
  <2>2. CASE ~(target \in Runs /\ status[target] = "attached")
    <3>1. UNCHANGED status
      BY <1>6, <2>2 DEF IdleEnds, SetStatus, TypeOK
    <3> QED
      BY <1>6, <3>1 DEF IdleEnds, RunInv, LockInv, CleanupInv, OrderInv
  <2> QED
    BY <2>1, <2>2
<1>7. CASE RearmGoes
  <2>1. CASE target \in Runs /\ MayRearm(target)
    BY <1>7, <2>1, MovingRun DEF RearmGoes, MayRearm, Moving, StartWindow
  <2>2. CASE ~(target \in Runs /\ MayRearm(target))
    <3>1. UNCHANGED status
      <4>1. (UNCHANGED status) \/ target \notin Runs
        BY <1>7, <2>2 DEF RearmGoes
      <4>2. \/ UNCHANGED status
            \/ status' = [status EXCEPT ![target] = "listening"]
        BY <1>7 DEF RearmGoes, SetStatus
      <4> QED
        BY <4>1, <4>2 DEF TypeOK
    <3> QED
      BY <1>7, <3>1 DEF RearmGoes, RunInv, LockInv, CleanupInv, OrderInv
  <2> QED
    BY <2>1, <2>2
<1>8. CASE RearmRefused
  BY <1>8 DEF RearmRefused, RunInv, LockInv, CleanupInv, OrderInv
<1> QED
  BY <1>1, <1>2, <1>3, <1>4, <1>5, <1>6, <1>7, <1>8
  DEF IdleStep, IdleLockStep, RearmStep

\* Every step keeps the runs in order and the lock with its holder.
LEMMA RunStep == TypeOK /\ RunInv /\ [Next]_vars => RunInv'
<1> SUFFICES ASSUME TypeOK, RunInv, [Next]_vars PROVE RunInv'
  OBVIOUS
<1>1. CASE UNCHANGED vars
  BY <1>1, QuietRun DEF vars, lockVars, runVars
<1>2. CASE Next
  BY <1>2, CleanupRuns, GoroutineRuns, IdleRuns DEF Next
<1> QED
  BY <1>1, <1>2
-----------------------------------------------------------------------------
(* The in-attempt calls and the idle limit.                                *)

\* A step that admits and ends no call.
LEMMA QuietCount ==
  ASSUME CountInv, UNCHANGED <<inFlight, callRun>>,
         \A c \in Callers : callPc'[c] = "idle" <=> callPc[c] = "idle"
  PROVE  CountInv'
<1>1. \A r \in Runs : Admitted(r)' = Admitted(r)
  BY DEF Admitted
<1> QED
  BY <1>1 DEF CountInv

\* inFlight stays exact when a call is admitted and when it ends.
LEMMA CountStep == TypeOK /\ CountInv /\ [Next]_vars => CountInv'
<1> SUFFICES ASSUME TypeOK, CountInv, [Next]_vars PROVE CountInv'
  OBVIOUS
<1>1. ASSUME NEW c \in Callers, NEW request \in {"look", "move", "detach"},
             CallBegins(c, request)
      PROVE  CountInv'
  <2>1. PICK r \in Runs : r = run /\ callRun[c] = 0
    BY <1>1, ConstantFacts DEF CallBegins, CountInv, TypeOK, Runs
  <2>2. /\ callRun' = [callRun EXCEPT ![c] = r]
        /\ callPc' = [callPc EXCEPT ![c] = request]
        /\ inFlight' = [inFlight EXCEPT ![r] = @ + 1]
    BY <1>1, <2>1 DEF CallBegins
  <2>3. r # 0 /\ c \notin Admitted(r) /\ IsFiniteSet(Admitted(r))
    BY <2>1, ConstantFacts, FS_Subset DEF Admitted
  <2>4. Admitted(r)' = Admitted(r) \cup {c}
    BY <2>2 DEF Admitted, TypeOK
  <2>5. \A q \in Runs : q # r => Admitted(q)' = Admitted(q)
    BY <2>1, <2>2, ConstantFacts DEF Admitted, TypeOK
  <2>6. Cardinality(Admitted(r)') = Cardinality(Admitted(r)) + 1
    BY <2>3, <2>4, FS_AddElement
  <2>7. inFlight'[r] = inFlight[r] + 1
    BY <2>2 DEF TypeOK
  <2>8. \A q \in Runs : q # r => inFlight'[q] = inFlight[q]
    BY <2>2 DEF TypeOK
  <2>9. \A q \in Runs : inFlight'[q] = Cardinality(Admitted(q)')
    BY <2>5, <2>6, <2>7, <2>8 DEF CountInv
  <2>10. \A d \in Callers : callPc'[d] = "idle" <=> callRun'[d] = 0
    BY <2>2, <2>3 DEF CountInv, TypeOK
  <2> QED
    BY <2>9, <2>10 DEF CountInv
<1>2. ASSUME NEW c \in Callers, CallServed(c) \/ CallReports(c)
      PROVE  CountInv'
  <2>1. \A d \in Callers : callPc'[d] = "idle" <=> callPc[d] = "idle"
    BY <1>2 DEF CallServed, CallReports, TypeOK
  <2> QED
    BY <1>2, <2>1, QuietCount DEF CallServed, CallReports
<1>3. ASSUME NEW c \in Callers, CallEnds(c) PROVE CountInv'
  <2>1. PICK r \in Runs : r = callRun[c] /\ inFlight[r] \in Nat \ {0}
    BY <1>3, CallCounted DEF CallEnds
  <2>2. /\ callRun' = [callRun EXCEPT ![c] = 0]
        /\ callPc' = [callPc EXCEPT ![c] = "idle"]
        /\ inFlight' = [inFlight EXCEPT ![r] = @ - 1]
    BY <1>3, <2>1 DEF CallEnds
  <2>3. r # 0 /\ c \in Admitted(r) /\ IsFiniteSet(Admitted(r))
    BY <2>1, ConstantFacts, FS_Subset DEF Admitted
  <2>4. Admitted(r)' = Admitted(r) \ {c}
    BY <2>2, <2>3 DEF Admitted, TypeOK
  <2>5. \A q \in Runs : q # r => Admitted(q)' = Admitted(q)
    BY <2>1, <2>2, ConstantFacts DEF Admitted, TypeOK
  <2>6. Cardinality(Admitted(r)') = Cardinality(Admitted(r)) - 1
    BY <2>3, <2>4, FS_RemoveElement
  <2>7. inFlight'[r] = inFlight[r] - 1
    BY <2>2 DEF TypeOK
  <2>8. \A q \in Runs : q # r => inFlight'[q] = inFlight[q]
    BY <2>2 DEF TypeOK
  <2>9. \A q \in Runs : inFlight'[q] = Cardinality(Admitted(q)')
    BY <2>5, <2>6, <2>7, <2>8 DEF CountInv
  <2>10. \A d \in Callers : callPc'[d] = "idle" <=> callRun'[d] = 0
    BY <2>2 DEF CountInv, TypeOK
  <2> QED
    BY <2>9, <2>10 DEF CountInv
<1>4. CASE UNCHANGED callVars
  BY <1>4, QuietCount DEF callVars
<1>5. CASE \/ \E op \in {"launch", "stop"} : Begin(op)
           \/ CleanupStep \/ DropSession \/ LaunchFails
           \/ \E k \in Kinds : Publish(k)
  BY <1>4, <1>5
  DEF CleanupStep, Begin, StopExternal, CancelRun, ListenerExited, Join,
      CleanupDetach, CleanupDetachGivenUp, CleanupFinish, DropSession,
      LaunchFails, Publish
<1>6. CASE \E r \in Runs, w \in Windows : ListenerStep(r, w)
  BY <1>4, <1>6
  DEF ListenerStep, PollOpens, PollEnds, PollCancelled, Verdict, SapAttach,
      AttachGivenUp, AttachReturns, LateDetach, LateDetachGivenUp,
      ListenerCloses
<1>7. CASE \/ \E r \in Runs : TriggerStep(r) \/ AbandonedStep(r)
           \/ \E s \in Sessions : DebuggeeEnds(s)
  BY <1>4, <1>7
  DEF TriggerStep, TriggerStarts, TriggerSkipped, QuietStop, TriggerReturns,
      AbandonedStep, AbandonedDetach, AbandonedAttach, AbandonedRuns,
      DebuggeeEnds
<1>8. CASE \/ \E r \in Runs : IdleStep(r) \/ RearmBegins(r)
           \/ IdleLockStep \/ RearmStep
  BY <1>4, <1>8
  DEF IdleStep, IdleLockStep, RearmStep, TimerFires, StaleCallback, IdleBegins,
      IdleDetach, IdleDetachGivenUp, IdleEnds, RearmBegins, RearmGoes,
      RearmRefused
<1>9. CASE UNCHANGED vars
  BY <1>4, <1>9 DEF vars
<1> QED
  BY <1>1, <1>2, <1>3, <1>5, <1>6, <1>7, <1>8, <1>9 DEF Next, CallStep
\* A step that admits no call, starts no idle detach, attaches no run and stops
\* no timer of an attached one.
LEMMA QuietTimer ==
  ASSUME IdleOK, UNCHANGED <<inFlight, detaching>>,
         \A r \in Runs : status'[r] = "attached" =>
                           status[r] = "attached" \/ timer'[r] # "off",
         \A r \in Runs : timer'[r] = "off" =>
                           timer[r] = "off" \/ status'[r] # "attached"
  PROVE  IdleOK'
  BY DEF IdleOK, TimerInv, IdleSparesCalls

\* A step that leaves all timers, calls and detaches alone and attaches no run.
LEMMA SameTimer ==
  ASSUME TypeOK, IdleOK, UNCHANGED <<timer, inFlight, detaching>>,
         \/ UNCHANGED status
         \/ \E r, s : s # "attached" /\ SetStatus(r, s)
  PROVE  IdleOK'
<1>1. \A r \in Runs : status'[r] = "attached" => status[r] = "attached"
  BY DEF SetStatus, TypeOK
<1> QED
  BY <1>1, QuietTimer

\* debug_run, debug_stop and their cleanup keep the idle invariant.
LEMMA CleanupTimers ==
  ASSUME TypeOK, IdleOK,
         \/ \E op \in {"launch", "stop"} : Begin(op)
         \/ CleanupStep \/ DropSession \/ LaunchFails
         \/ \E k \in Kinds : Publish(k)
  PROVE  IdleOK'
<1> USE DEF runVars, idleVars, callVars
<1>1. ASSUME NEW op \in {"launch", "stop"}, Begin(op) PROVE IdleOK'
  <2>1. CASE run # 0 /\ Active(run)
    <3>1. /\ status' = [status EXCEPT ![run] = "stopping"]
          /\ timer' = [timer EXCEPT ![run] = "off"]
          /\ UNCHANGED <<inFlight, detaching>>
      BY <1>1, <2>1 DEF Begin, SetStatus, StopIdle
    <3>2. \A r \in Runs : status'[r] = "attached" =>
                            status[r] = "attached" /\ timer'[r] = timer[r]
      BY <3>1 DEF TypeOK
    <3> QED
      BY <3>1, <3>2, QuietTimer
  <2>2. CASE ~(run # 0 /\ Active(run))
    <3>1. UNCHANGED <<status, timer, inFlight, detaching>>
      BY <1>1, <2>2 DEF Begin
    <3> QED
      BY <3>1, SameTimer
  <2> QED
    BY <2>1, <2>2
<1>2. CASE CleanupStep \/ DropSession \/ LaunchFails
  BY <1>2, SameTimer
  DEF CleanupStep, StopExternal, CancelRun, ListenerExited, Join,
      CleanupDetach, CleanupDetachGivenUp, CleanupFinish, DropSession,
      LaunchFails
<1>3. CASE \E k \in Kinds : Publish(k)
  BY <1>3, SameTimer DEF Publish
<1> QED
  BY <1>1, <1>2, <1>3

\* The listener, the trigger and SAP keep the idle invariant.
LEMMA GoroutineTimers ==
  ASSUME TypeOK, IdleOK,
         \/ \E r \in Runs, w \in Windows : ListenerStep(r, w)
         \/ \E r \in Runs : TriggerStep(r) \/ AbandonedStep(r)
         \/ \E s \in Sessions : DebuggeeEnds(s)
  PROVE  IdleOK'
<1> USE DEF runVars, idleVars, callVars
<1>1. ASSUME NEW r \in Runs, NEW w \in Windows, AttachReturns(r, w)
      PROVE  IdleOK'
  <2>1. CASE status' = [status EXCEPT ![r] = "attached"] /\ ResetIdle(r)
    <3>1. timer'[r] = "armed" /\ UNCHANGED <<inFlight, detaching>>
      BY <1>1, <2>1 DEF AttachReturns, ResetIdle, TypeOK
    <3>2. \A q \in Runs : q # r =>
            status'[q] = status[q] /\ timer'[q] = timer[q]
      BY <2>1 DEF ResetIdle, TypeOK
    <3> QED
      BY <3>1, <3>2, QuietTimer
  <2>2. CASE /\ UNCHANGED timer
             /\ \/ UNCHANGED status
                \/ SetStatus(r, "ended")
    BY <1>1, <2>2, SameTimer DEF AttachReturns
  <2> QED
    BY <1>1, <2>1, <2>2 DEF AttachReturns, SetStatus
<1>2. ASSUME NEW r \in Runs, NEW w \in Windows, ListenerStep(r, w),
             ~AttachReturns(r, w)
      PROVE  IdleOK'
  BY <1>2, SameTimer
  DEF ListenerStep, PollOpens, PollEnds, PollCancelled, Verdict, SapAttach,
      AttachGivenUp, LateDetach, LateDetachGivenUp, ListenerCloses
<1>3. ASSUME NEW r \in Runs, TriggerStep(r) \/ AbandonedStep(r)
      PROVE  IdleOK'
  BY <1>3, SameTimer
  DEF TriggerStep, TriggerStarts, TriggerSkipped, TriggerReturns, QuietStop,
      AbandonedStep, AbandonedDetach, AbandonedAttach, AbandonedRuns
<1>4. ASSUME NEW s \in Sessions, DebuggeeEnds(s) PROVE IdleOK'
  BY <1>4, SameTimer DEF DebuggeeEnds
<1> QED
  BY <1>1, <1>2, <1>3, <1>4

\* The idle limit itself and rearm keep the idle invariant.
LEMMA IdleTimers ==
  ASSUME TypeOK, IdleOK,
         \/ \E r \in Runs : IdleStep(r) \/ RearmBegins(r)
         \/ IdleLockStep \/ RearmStep
  PROVE  IdleOK'
<1> USE DEF runVars, idleVars, callVars
<1>1. ASSUME NEW r \in Runs, TimerFires(r) PROVE IdleOK'
  <2>1. timer' = [timer EXCEPT ![r] = "fired"]
    BY <1>1 DEF TimerFires
  <2>2. \A q \in Runs : timer'[q] = "off" => timer[q] = "off"
    BY <2>1 DEF TypeOK
  <2> QED
    BY <1>1, <2>2, QuietTimer DEF TimerFires
<1>2. ASSUME NEW r \in Runs, StaleCallback(r) \/ RearmBegins(r) PROVE IdleOK'
  BY <1>2, SameTimer DEF StaleCallback, RearmBegins
<1>3. ASSUME NEW r \in Runs, IdleBegins(r) PROVE IdleOK'
  <2>1. /\ timer' = [timer EXCEPT ![r] = "off"]
        /\ UNCHANGED <<status, inFlight>>
    BY <1>3 DEF IdleBegins
  <2>2. \A q \in Runs : q # r => timer'[q] = timer[q]
    BY <2>1 DEF TypeOK
  <2>3. CASE MayDetachIdle(r)
    <3>1. detaching' = [detaching EXCEPT ![r] = TRUE]
      BY <1>3, <2>3 DEF IdleBegins
    <3>2. /\ detaching'[r]
          /\ \A q \in Runs : q # r => (detaching'[q] <=> detaching[q])
      BY <3>1 DEF TypeOK
    <3> QED
      BY <2>1, <2>2, <2>3, <3>2
      DEF IdleOK, TimerInv, IdleSparesCalls, MayDetachIdle
  <2>4. CASE ~MayDetachIdle(r)
    <3>1. UNCHANGED detaching
      BY <1>3, <2>4 DEF IdleBegins
    <3> QED
      BY <2>1, <2>2, <2>4, <3>1
      DEF IdleOK, TimerInv, IdleSparesCalls, MayDetachIdle
  <2> QED
    BY <2>3, <2>4
<1>4. CASE IdleDetach \/ IdleDetachGivenUp
  BY <1>4, SameTimer DEF IdleDetach, IdleDetachGivenUp
<1>5. CASE IdleEnds
  <2>1. /\ detaching' = [detaching EXCEPT ![target] = FALSE]
        /\ UNCHANGED <<timer, inFlight>>
    BY <1>5 DEF IdleEnds
  <2>2. /\ \A q \in Runs : detaching'[q] => detaching[q]
        /\ \A q \in Runs : q # target => (detaching'[q] <=> detaching[q])
    BY <2>1 DEF TypeOK
  <2>3. \A q \in Runs : status'[q] = "attached" =>
          status[q] = "attached" /\ q # target
    BY <1>5 DEF IdleEnds, SetStatus, TypeOK
  <2> QED
    BY <2>1, <2>2, <2>3 DEF IdleOK, TimerInv, IdleSparesCalls
<1>6. CASE RearmStep
  BY <1>6, SameTimer DEF RearmStep, RearmGoes, RearmRefused
<1> QED
  BY <1>1, <1>2, <1>3, <1>4, <1>5, <1>6 DEF IdleStep, IdleLockStep

\* The calls keep the idle invariant: none is admitted to a run being
\* detached, and the last one restarts the timer.
LEMMA CallTimers ==
  ASSUME TypeOK, CountInv, IdleOK, NEW c \in Callers,
         \/ \E request \in {"look", "move", "detach"} : CallBegins(c, request)
         \/ CallStep(c)
  PROVE  IdleOK'
<1> USE DEF runVars, idleVars
<1>1. ASSUME NEW request \in {"look", "move", "detach"}, CallBegins(c, request)
      PROVE  IdleOK'
  <2>1. /\ run \in Runs /\ ~detaching[run]
        /\ inFlight' = [inFlight EXCEPT ![run] = @ + 1]
        /\ timer' = [timer EXCEPT ![run] = "off"]
        /\ UNCHANGED <<status, detaching>>
    BY <1>1, ConstantFacts DEF CallBegins, MayCall, StopIdle, TypeOK, Runs
  <2>2. inFlight[run] \in Nat /\ inFlight'[run] = inFlight[run] + 1
    BY <2>1 DEF TypeOK
  <2>3. \A q \in Runs : q # run =>
          inFlight'[q] = inFlight[q] /\ timer'[q] = timer[q]
    BY <2>1 DEF TypeOK
  <2>4. inFlight'[run] # 0
    BY <2>2
  <2> QED
    BY <2>1, <2>3, <2>4 DEF IdleOK, TimerInv, IdleSparesCalls
<1>2. CASE CallServed(c) \/ CallReports(c)
  BY <1>2, SameTimer DEF CallServed, CallReports
<1>3. CASE CallEnds(c)
  <2>1. PICK r \in Runs : r = callRun[c] /\ inFlight[r] \in Nat \ {0}
    BY <1>3, CallCounted DEF CallEnds
  <2>2. /\ inFlight' = [inFlight EXCEPT ![r] = @ - 1]
        /\ UNCHANGED <<status, detaching>>
        /\ IF LastCall(r) THEN ResetIdle(r) ELSE UNCHANGED timer
    BY <1>3, <2>1 DEF CallEnds
  <2>3. /\ inFlight'[r] = inFlight[r] - 1
        /\ \A q \in Runs : q # r => inFlight'[q] = inFlight[q]
    BY <2>2 DEF TypeOK
  <2>4. \A q \in Runs : q # r => timer'[q] = timer[q]
    BY <2>2 DEF ResetIdle, TypeOK
  <2>5. LastCall(r) => timer'[r] = "armed"
    BY <2>2 DEF ResetIdle, TypeOK
  <2>6. ~LastCall(r) => inFlight'[r] # 0 \/ status'[r] # "attached"
    BY <2>1, <2>2, <2>3 DEF LastCall
  <2>7. ~detaching[r]
    BY <2>1 DEF IdleOK, IdleSparesCalls
  <2> QED
    BY <2>2, <2>3, <2>4, <2>5, <2>6, <2>7
    DEF IdleOK, TimerInv, IdleSparesCalls
<1> QED
  BY <1>1, <1>2, <1>3 DEF CallStep

\* Every step keeps the idle invariant.
LEMMA TimerStep == TypeOK /\ CountInv /\ IdleOK /\ [Next]_vars => IdleOK'
<1> SUFFICES ASSUME TypeOK, CountInv, IdleOK, [Next]_vars PROVE IdleOK'
  OBVIOUS
<1>1. CASE UNCHANGED vars
  BY <1>1, SameTimer DEF vars, runVars, idleVars, callVars
<1>2. CASE Next
  BY <1>2, CleanupTimers, GoroutineTimers, IdleTimers, CallTimers DEF Next
<1> QED
  BY <1>1, <1>2
-----------------------------------------------------------------------------
(* The theorems.                                                           *)

\* The invariant is inductive and holds in every reachable state.
THEOREM Invariance == Spec => []IInv
<1>1. IInv /\ [Next]_vars => IInv'
  BY TypeStep, RunStep, CountStep, TimerStep DEF IInv, RunInv
<1> QED
  BY InitIInv, <1>1, PTL DEF Spec

\* Every variable keeps its type; in particular inFlight never goes below 0.
THEOREM TypeCorrect == Spec => []TypeOK
<1>1. IInv => TypeOK
  BY DEF IInv
<1> QED
  BY Invariance, <1>1, PTL

\* debugSessions holds at most one active run, for any number of runs, callers
\* and windows, and whichever deadline expires or request fails.
THEOREM AtMostOneActiveRun == Spec => []OneActiveRun
<1>1. IInv => OneActiveRun
  <2> SUFFICES ASSUME IInv, NEW r \in Runs, r # run
               PROVE  status[r] \in {"none", "stopped"}
    BY DEF OneActiveRun
  <2>1. run \in Nat /\ r \in Nat
    BY ConstantFacts DEF IInv, TypeOK
  <2> QED
    BY <2>1 DEF IInv, RunInv, OrderInv
<1> QED
  BY Invariance, <1>1, PTL

\* An idle detach and an in-attempt call of the same run exclude each other,
\* for any number of concurrent callers.
THEOREM CallsSparedByIdleLimit == Spec => []IdleSparesCalls
<1>1. IInv => IdleSparesCalls
  BY DEF IInv, IdleOK
<1> QED
  BY Invariance, <1>1, PTL

\* inFlight is the number of calls admitted and not ended, and an attached run
\* without any has a timer or is being detached.
THEOREM IdlePauseExact == Spec => []CallsCounted
<1>1. IInv => CallsCounted
  BY DEF IInv, IdleOK, CountInv, TimerInv, CallsCounted, Admitted
<1> QED
  BY Invariance, <1>1, PTL
-----------------------------------------------------------------------------
(* DebugRun implements RunLifecycle.                                       *)

\* A status that moves along an arrow of the design is an abstract change.
LEMMA Arrow ==
  ASSUME TypeOK, RunInv, NEW r \in Runs, status[r] \notin {"none", "stopped"},
         NEW s \in Lifecycle!Successors(status[r]), SetStatus(r, s),
         UNCHANGED run
  PROVE  Lifecycle!Change
  BY ActiveIsNewest DEF Lifecycle!Change, SetStatus

\* debug_run, debug_stop and their cleanup are abstract steps or stutter.
LEMMA CleanupRefines ==
  ASSUME TypeOK, RunInv,
         \/ \E op \in {"launch", "stop"} : Begin(op)
         \/ CleanupStep \/ DropSession \/ LaunchFails
         \/ \E k \in Kinds : Publish(k)
  PROVE  [Lifecycle!Next]_<<run, status>>
<1>0. run # 0 => run \in Runs
  BY ConstantFacts DEF TypeOK, Runs
<1> USE DEF runVars
<1>1. ASSUME NEW op \in {"launch", "stop"}, Begin(op)
      PROVE  Lifecycle!Change \/ UNCHANGED <<run, status>>
  <2>1. CASE run # 0 /\ Active(run)
    <3>1. SetStatus(run, "stopping") /\ UNCHANGED run
      BY <1>1, <2>1 DEF Begin
    <3>2. status[run] \in Moving
      BY <1>0, <2>1 DEF Active, TypeOK, Statuses, Moving
    <3>3. "stopping" \in Lifecycle!Successors(status[run])
      BY <3>2 DEF Lifecycle!Successors, Moving
    <3> QED
      BY <1>0, <2>1, <3>1, <3>2, <3>3, Arrow DEF Moving
  <2>2. CASE ~(run # 0 /\ Active(run))
    BY <1>1, <2>2 DEF Begin
  <2> QED
    BY <2>1, <2>2
<1>2. CASE CleanupFinish
  <2>1. target = run /\ run # 0 /\ status[run] = "stopping"
    BY <1>2 DEF CleanupFinish, RunInv, CleanupInv
  <2>2. "stopped" \in Lifecycle!Successors(status[run])
    BY <2>1 DEF Lifecycle!Successors
  <2>3. SetStatus(run, "stopped") /\ UNCHANGED run
    BY <1>2, <2>1 DEF CleanupFinish
  <2>4. Lifecycle!Change
    BY <1>0, <2>1, <2>2, <2>3, Arrow
  <2> QED
    BY <2>4 DEF Lifecycle!Next
<1>3. CASE \/ StopExternal \/ CancelRun \/ ListenerExited \/ Join
           \/ CleanupDetach \/ CleanupDetachGivenUp \/ DropSession
           \/ LaunchFails
  BY <1>3
  DEF StopExternal, CancelRun, ListenerExited, Join, CleanupDetach,
      CleanupDetachGivenUp, DropSession, LaunchFails
<1>4. ASSUME NEW k \in Kinds, Publish(k) PROVE Lifecycle!Create
  BY <1>4
  DEF Publish, SetStatus, RunInv, LockInv, CleanupInv, Lifecycle!Create
<1> QED
  BY <1>1, <1>2, <1>3, <1>4 DEF CleanupStep, Lifecycle!Next

\* The goroutines of a run, its calls and SAP are abstract changes or stutter.
LEMMA GoroutinesRefine ==
  ASSUME TypeOK, RunInv,
         \/ \E r \in Runs, w \in Windows : ListenerStep(r, w)
         \/ \E r \in Runs : TriggerStep(r) \/ AbandonedStep(r)
         \/ \E c \in Callers :
              \/ \E request \in {"look", "move", "detach"} :
                   CallBegins(c, request)
              \/ CallStep(c)
         \/ \E s \in Sessions : DebuggeeEnds(s)
  PROVE  [Lifecycle!Next]_<<run, status>>
<1> USE DEF runVars, Lifecycle!Next
<1>1. ASSUME NEW r \in Runs, NEW w \in Windows, Verdict(r, w)
      PROVE  [Lifecycle!Next]_<<run, status>>
  <2>1. CASE UNCHANGED status
    BY <1>1, <2>1 DEF Verdict
  <2>2. CASE ~UNCHANGED status
    <3>1. status[r] = "listening"
      BY <1>1, <2>2 DEF Verdict, MayReport
    <3>2. {"attaching", "timeout"} \subseteq Lifecycle!Successors(status[r])
      BY <3>1 DEF Lifecycle!Successors
    <3> QED
      BY <1>1, <2>2, <3>1, <3>2, Arrow DEF Verdict
  <2> QED
    BY <2>1, <2>2
<1>2. ASSUME NEW r \in Runs, NEW w \in Windows, AttachReturns(r, w)
      PROVE  [Lifecycle!Next]_<<run, status>>
  <2>1. CASE status[r] = "attaching"
    <3>1. {"attached", "ended"} \subseteq Lifecycle!Successors(status[r])
      BY <2>1 DEF Lifecycle!Successors
    <3> QED
      BY <1>2, <2>1, <3>1, Arrow DEF AttachReturns
  <2>2. CASE status[r] # "attaching"
    BY <1>2, <2>2 DEF AttachReturns
  <2> QED
    BY <2>1, <2>2
<1>3. ASSUME NEW r \in Runs, NEW w \in Windows, ListenerStep(r, w),
             ~Verdict(r, w), ~AttachReturns(r, w)
      PROVE  [Lifecycle!Next]_<<run, status>>
  BY <1>3
  DEF ListenerStep, PollOpens, PollEnds, PollCancelled, SapAttach,
      AttachGivenUp, LateDetach, LateDetachGivenUp, ListenerCloses
<1>4. ASSUME NEW r \in Runs, NEW ok \in BOOLEAN, TriggerReturns(r, ok)
      PROVE  [Lifecycle!Next]_<<run, status>>
  <2>1. CASE NoHit(r, ok)
    <3>1. status[r] = "listening"
      BY <2>1 DEF NoHit
    <3>2. "ended" \in Lifecycle!Successors(status[r])
      BY <3>1 DEF Lifecycle!Successors
    <3> QED
      BY <1>4, <2>1, <3>1, <3>2, Arrow DEF TriggerReturns
  <2>2. CASE ~NoHit(r, ok)
    BY <1>4, <2>2 DEF TriggerReturns
  <2> QED
    BY <2>1, <2>2
<1>5. ASSUME NEW r \in Runs, \/ TriggerStarts(r) \/ TriggerSkipped(r)
                             \/ QuietStop(r) \/ AbandonedStep(r)
      PROVE  [Lifecycle!Next]_<<run, status>>
  BY <1>5
  DEF TriggerStarts, TriggerSkipped, QuietStop, AbandonedStep, AbandonedDetach,
      AbandonedAttach, AbandonedRuns
<1>6. ASSUME NEW c \in Callers, CallReports(c)
      PROVE  [Lifecycle!Next]_<<run, status>>
  <2>1. CASE callRun[c] \in Runs /\ status[callRun[c]] = "attached"
    <3>1. "ended" \in Lifecycle!Successors(status[callRun[c]])
      BY <2>1 DEF Lifecycle!Successors
    <3> QED
      BY <1>6, <2>1, <3>1, Arrow DEF CallReports
  <2>2. CASE ~(callRun[c] \in Runs /\ status[callRun[c]] = "attached")
    <3>1. UNCHANGED status
      BY <1>6, <2>2 DEF CallReports, SetStatus, TypeOK
    <3> QED
      BY <1>6, <3>1 DEF CallReports
  <2> QED
    BY <2>1, <2>2
<1>7. ASSUME NEW c \in Callers,
             \/ \E request \in {"look", "move", "detach"} :
                  CallBegins(c, request)
             \/ CallServed(c) \/ CallEnds(c)
      PROVE  [Lifecycle!Next]_<<run, status>>
  BY <1>7 DEF CallBegins, CallServed, CallEnds
<1>8. ASSUME NEW s \in Sessions, DebuggeeEnds(s)
      PROVE  [Lifecycle!Next]_<<run, status>>
  BY <1>8 DEF DebuggeeEnds
<1> QED
  BY <1>1, <1>2, <1>3, <1>4, <1>5, <1>6, <1>7, <1>8
  DEF TriggerStep, CallStep

\* The idle limit and rearm are abstract changes or stutter.
LEMMA IdleRefines ==
  ASSUME TypeOK, RunInv,
         \/ \E r \in Runs : IdleStep(r) \/ RearmBegins(r)
         \/ IdleLockStep \/ RearmStep
  PROVE  [Lifecycle!Next]_<<run, status>>
<1> USE DEF runVars, Lifecycle!Next
<1>1. ASSUME NEW r \in Runs, \/ TimerFires(r) \/ StaleCallback(r)
                             \/ IdleBegins(r) \/ RearmBegins(r)
      PROVE  [Lifecycle!Next]_<<run, status>>
  BY <1>1 DEF TimerFires, StaleCallback, IdleBegins, RearmBegins
<1>2. CASE IdleDetach \/ IdleDetachGivenUp \/ RearmRefused
  BY <1>2 DEF IdleDetach, IdleDetachGivenUp, RearmRefused
<1>3. CASE IdleEnds
  <2>1. CASE target \in Runs /\ status[target] = "attached"
    <3>1. "ended" \in Lifecycle!Successors(status[target])
      BY <2>1 DEF Lifecycle!Successors
    <3> QED
      BY <1>3, <2>1, <3>1, Arrow DEF IdleEnds
  <2>2. CASE ~(target \in Runs /\ status[target] = "attached")
    <3>1. UNCHANGED status
      BY <1>3, <2>2 DEF IdleEnds, SetStatus, TypeOK
    <3> QED
      BY <1>3, <3>1 DEF IdleEnds
  <2> QED
    BY <2>1, <2>2
<1>4. CASE RearmGoes
  <2>1. CASE target \in Runs /\ MayRearm(target)
    <3>1. "listening" \in Lifecycle!Successors(status[target])
      BY <2>1 DEF Lifecycle!Successors, MayRearm
    <3> QED
      BY <1>4, <2>1, <3>1, Arrow DEF RearmGoes, MayRearm, StartWindow
  <2>2. CASE ~(target \in Runs /\ MayRearm(target))
    <3>1. (UNCHANGED status) \/ target \notin Runs
      BY <1>4, <2>2 DEF RearmGoes
    <3>2. \/ UNCHANGED status
          \/ status' = [status EXCEPT ![target] = "listening"]
      BY <1>4 DEF RearmGoes, SetStatus
    <3>3. UNCHANGED status
      BY <3>1, <3>2 DEF TypeOK
    <3> QED
      BY <1>4, <3>3 DEF RearmGoes
  <2> QED
    BY <2>1, <2>2
<1> QED
  BY <1>1, <1>2, <1>3, <1>4 DEF IdleStep, IdleLockStep, RearmStep

\* The statuses that clients see follow the abstract life cycle: a new run only
\* after the previous one is stopped, one arrow at a time, never back from
\* stopping or stopped.
THEOREM ImplementsLifecycle == Spec => LifecycleSpec
<1>1. Init => Lifecycle!Init
  BY DEF Init, Lifecycle!Init, Lifecycle!Runs, Runs
<1>2. IInv /\ [Next]_vars => [Lifecycle!Next]_<<run, status>>
  <2> SUFFICES ASSUME IInv, [Next]_vars
               PROVE  [Lifecycle!Next]_<<run, status>>
    OBVIOUS
  <2>1. TypeOK /\ RunInv
    BY DEF IInv
  <2>2. CASE UNCHANGED vars
    BY <2>2 DEF vars, runVars
  <2>3. CASE Next
    BY <2>1, <2>3, CleanupRefines, GoroutinesRefine, IdleRefines DEF Next
  <2> QED
    BY <2>2, <2>3
<1> QED
  BY Invariance, <1>1, <1>2, PTL DEF Spec, LifecycleSpec, Lifecycle!Spec
-----------------------------------------------------------------------------
(* Only one detach of a run is under way: it is sent when the listener      *)
(* goroutine of the current window is past its attach, and every earlier    *)
(* window's goroutine has exited.                                           *)

Exited == {"off", "done"}
Past == {"closing", "done"}

ListenerInv ==
  /\ \A r \in Runs, w \in Windows :
       w # window[r] => listener[r][w] \in Exited
  /\ \A r \in Runs : status[r] = "none" =>
       \A w \in Windows : listener[r][w] = "off"
  /\ \A r \in Runs : status[r] = "attached" =>
       listener[r][window[r]] \in Past
  /\ \/ phase = "detach"
     \/ phase = "cleanup" /\ wasAttached
     => \A r \in Runs : r = target => listener[r][window[r]] \in Past

\* A step that starts no listener, attaches no run and sends no detach.
LEMMA QuietListener ==
  ASSUME TypeOK, ListenerInv, UNCHANGED <<listener, window>>,
         \/ UNCHANGED status
         \/ \E r, s : s \notin {"attached", "none"} /\ SetStatus(r, s),
         \/ UNCHANGED <<phase, wasAttached, target>>
         \/ phase' \notin {"detach", "cleanup"}
         \/ /\ phase' = "detach" /\ phase = "cleanup" /\ wasAttached
            /\ UNCHANGED <<wasAttached, target>>
  PROVE  ListenerInv'
<1>1. \A r \in Runs : status'[r] \in {"attached", "none"} =>
                        status'[r] = status[r]
  BY DEF SetStatus, TypeOK
<1> QED
  BY <1>1 DEF ListenerInv

\* debug_run, debug_stop and their cleanup keep the listener invariant.
LEMMA CleanupListeners ==
  ASSUME TypeOK, RunInv, ListenerInv,
         \/ \E op \in {"launch", "stop"} : Begin(op)
         \/ CleanupStep \/ DropSession \/ LaunchFails
         \/ \E k \in Kinds : Publish(k)
  PROVE  ListenerInv'
<1> USE DEF runVars, goVars
<1>1. ASSUME NEW op \in {"launch", "stop"}, Begin(op) PROVE ListenerInv'
  <2>1. CASE run # 0 /\ Active(run)
    <3>1. /\ status' = [status EXCEPT ![run] = "stopping"]
          /\ UNCHANGED <<listener, window>>
          /\ phase' = "cleanup" /\ target' = run
          /\ wasAttached' = (status[run] = "attached")
      BY <1>1, <2>1 DEF Begin, SetStatus, WasAttached
    <3>2. \A r \in Runs : status'[r] \in {"attached", "none"} =>
                            status'[r] = status[r]
      BY <3>1 DEF TypeOK
    <3> QED
      BY <3>1, <3>2 DEF ListenerInv
  <2>2. CASE ~(run # 0 /\ Active(run))
    BY <1>1, <2>2, QuietListener DEF Begin, AfterCleanup
  <2> QED
    BY <2>1, <2>2
<1>2. CASE StopExternal \/ CancelRun \/ ListenerExited
  BY <1>2, QuietListener DEF StopExternal, CancelRun, ListenerExited
<1>3. CASE Join
  BY <1>3, QuietListener DEF Join
<1>4. CASE CleanupDetach \/ CleanupDetachGivenUp
  BY <1>4, QuietListener DEF CleanupDetach, CleanupDetachGivenUp
<1>5. CASE CleanupFinish
  BY <1>5, QuietListener DEF CleanupFinish, AfterCleanup
<1>6. CASE DropSession \/ LaunchFails
  BY <1>6, QuietListener DEF DropSession, LaunchFails
<1>7. ASSUME NEW k \in Kinds, Publish(k) PROVE ListenerInv'
  <2>1. PICK n \in Runs : n = run + 1 /\ status[n] = "none" /\ n # run
    BY <1>7, ConstantFacts
    DEF Publish, RunInv, LockInv, OrderInv, TypeOK, Runs
  <2>2. /\ status' = [status EXCEPT ![n] = "listening"]
        /\ window' = [window EXCEPT ![n] = 1]
        /\ listener' = [listener EXCEPT ![n][1] = "start"]
        /\ phase' = "-"
    BY <1>7, <2>1 DEF Publish, SetStatus, StartWindow
  <2>3. /\ \A r \in Runs : r # n => /\ status'[r] = status[r]
                                    /\ window'[r] = window[r]
                                    /\ listener'[r] = listener[r]
        /\ status'[n] = "listening" /\ window'[n] = 1
    BY <2>2 DEF TypeOK
  <2>4. \A w \in Windows : w # 1 => listener'[n][w] = listener[n][w]
    BY <2>2 DEF TypeOK
  <2> QED
    BY <2>1, <2>2, <2>3, <2>4 DEF ListenerInv, Exited
<1> QED
  BY <1>1, <1>2, <1>3, <1>4, <1>5, <1>6, <1>7 DEF CleanupStep

\* A listener goroutine moves on towards its exit.
LEMMA ListenerMoves ==
  ASSUME TypeOK, ListenerInv, NEW r \in Runs, NEW w \in Windows,
         listener[r][w] \notin Exited,
         NEW pc, SetListener(r, w, pc),
         listener[r][w] \in Past => pc \in Past,
         status'[r] = "attached" => status[r] = "attached" \/ pc \in Past,
         status'[r] = "none" => status[r] = "none",
         \A q \in Runs : q # r => status'[q] = status[q],
         UNCHANGED <<window, phase, wasAttached, target>>
  PROVE  ListenerInv'
<1>1. w = window[r]
  BY DEF ListenerInv
<1>2. listener' = [listener EXCEPT ![r][w] = pc]
  BY DEF SetListener
<1>3. /\ listener'[r][w] = pc
      /\ \A v \in Windows : v # w => listener'[r][v] = listener[r][v]
      /\ \A q \in Runs : q # r => listener'[q] = listener[q]
  BY <1>2 DEF TypeOK
<1>4. status[r] # "none"
  BY DEF ListenerInv, Exited
<1> QED
  BY <1>1, <1>3, <1>4 DEF ListenerInv

\* The goroutines of a run, its calls and SAP keep the listener invariant.
LEMMA GoroutineListeners ==
  ASSUME TypeOK, RunInv, ListenerInv,
         \/ \E r \in Runs, w \in Windows : ListenerStep(r, w)
         \/ \E r \in Runs : TriggerStep(r) \/ AbandonedStep(r)
         \/ \E c \in Callers :
              \/ \E request \in {"look", "move", "detach"} :
                   CallBegins(c, request)
              \/ CallStep(c)
         \/ \E s \in Sessions : DebuggeeEnds(s)
  PROVE  ListenerInv'
<1> USE DEF lockVars, runVars, goVars
<1>1. ASSUME NEW r \in Runs, NEW w \in Windows, Verdict(r, w)
      PROVE  ListenerInv'
  <2>1. /\ listener[r][w] \in {"hit", "none", "error"}
        /\ \E pc \in {"closing", "attach"} : SetListener(r, w, pc)
        /\ UNCHANGED <<window, phase, wasAttached, target>>
    BY <1>1 DEF Verdict
  <2>2. /\ status'[r] \in {status[r], "attaching", "timeout"}
        /\ \A q \in Runs : q # r => status'[q] = status[q]
    BY <1>1 DEF Verdict, SetStatus, TypeOK
  <2> QED
    BY <2>1, <2>2, ListenerMoves DEF Exited, Past
<1>2. ASSUME NEW r \in Runs, NEW w \in Windows, AttachReturns(r, w)
      PROVE  ListenerInv'
  <2>1. /\ listener[r][w] \in {"attached", "failed"}
        /\ \E pc \in {"closing", "late"} :
             /\ SetListener(r, w, pc)
             /\ status' = status \/ pc = "closing"
        /\ UNCHANGED <<window, phase, wasAttached, target>>
    BY <1>2 DEF AttachReturns, LateAnswer
  <2>2. /\ status'[r] \in {status[r], "attached", "ended"}
        /\ \A q \in Runs : q # r => status'[q] = status[q]
    BY <1>2 DEF AttachReturns, SetStatus, TypeOK
  <2> QED
    BY <2>1, <2>2, ListenerMoves DEF Exited, Past
<1>3. ASSUME NEW r \in Runs, NEW w \in Windows, ListenerStep(r, w),
             ~Verdict(r, w), ~AttachReturns(r, w)
      PROVE  ListenerInv'
  <2>1. /\ listener[r][w] \notin Exited
        /\ \E pc \in ListenerPcs :
             /\ SetListener(r, w, pc)
             /\ listener[r][w] \in Past => pc \in Past
    BY <1>3
    DEF ListenerStep, PollOpens, PollEnds, PollCancelled, SapAttach,
        AttachGivenUp, LateDetach, LateDetachGivenUp, ListenerCloses,
        ListenerPcs, Exited, Past
  <2>2. UNCHANGED <<status, window, phase, wasAttached, target>>
    BY <1>3
    DEF ListenerStep, PollOpens, PollEnds, PollCancelled, SapAttach,
        AttachGivenUp, LateDetach, LateDetachGivenUp, ListenerCloses
  <2> QED
    BY <2>1, <2>2, ListenerMoves
<1>4. ASSUME NEW r \in Runs, TriggerStep(r) \/ AbandonedStep(r)
      PROVE  ListenerInv'
  BY <1>4, QuietListener
  DEF TriggerStep, TriggerStarts, TriggerSkipped, TriggerReturns, QuietStop,
      AbandonedStep, AbandonedDetach, AbandonedAttach, AbandonedRuns
<1>5. ASSUME NEW c \in Callers,
             \/ \E request \in {"look", "move", "detach"} :
                  CallBegins(c, request)
             \/ CallStep(c)
      PROVE  ListenerInv'
  BY <1>5, QuietListener
  DEF CallStep, CallBegins, CallServed, CallReports, CallEnds
<1>6. ASSUME NEW s \in Sessions, DebuggeeEnds(s) PROVE ListenerInv'
  BY <1>6, QuietListener DEF DebuggeeEnds
<1> QED
  BY <1>1, <1>2, <1>3, <1>4, <1>5, <1>6

\* The idle limit and rearm keep the listener invariant.
LEMMA IdleListeners ==
  ASSUME TypeOK, RunInv, ListenerInv,
         \/ \E r \in Runs : IdleStep(r) \/ RearmBegins(r)
         \/ IdleLockStep \/ RearmStep
  PROVE  ListenerInv'
<1> USE DEF runVars, goVars, lockVars
<1>1. ASSUME NEW r \in Runs, TimerFires(r) \/ StaleCallback(r) \/ RearmBegins(r)
      PROVE  ListenerInv'
  BY <1>1, QuietListener DEF TimerFires, StaleCallback, RearmBegins
<1>2. ASSUME NEW r \in Runs, IdleBegins(r) PROVE ListenerInv'
  <2>1. CASE MayDetachIdle(r)
    BY <1>2, <2>1 DEF IdleBegins, MayDetachIdle, ListenerInv
  <2>2. CASE ~MayDetachIdle(r)
    BY <1>2, <2>2, QuietListener DEF IdleBegins
  <2> QED
    BY <2>1, <2>2
<1>3. CASE IdleDetach \/ IdleDetachGivenUp \/ IdleEnds \/ RearmRefused
  BY <1>3, QuietListener
  DEF IdleDetach, IdleDetachGivenUp, IdleEnds, RearmRefused
<1>4. CASE RearmGoes
  <2>1. CASE target \in Runs /\ MayRearm(target)
    <3>1. PICK r \in Runs : r = target
      BY <2>1
    <3>2. PICK v \in Windows : v = window[r] + 1
      <4>1. window[r] \in Windows /\ window[r] < MaxWindows
        BY <1>4, <3>1 DEF RearmGoes, TypeOK
      <4> QED
        BY <4>1, ConstantFacts DEF Windows
    <3>3. /\ status' = [status EXCEPT ![r] = "listening"]
          /\ window' = [window EXCEPT ![r] = v]
          /\ listener' = [listener EXCEPT ![r][v] = "start"]
          /\ phase' = "-"
          /\ listener[r][window[r]] = "done"
          /\ status[r] # "none"
      BY <1>4, <2>1, <3>1, <3>2
      DEF RearmGoes, StartWindow, SetStatus, AwaitedDone, MayRearm
    <3>4. /\ \A q \in Runs : q # r => /\ status'[q] = status[q]
                                      /\ window'[q] = window[q]
                                      /\ listener'[q] = listener[q]
          /\ status'[r] = "listening" /\ window'[r] = v
      BY <3>3 DEF TypeOK
    <3>5. \A w \in Windows : w # v => listener'[r][w] = listener[r][w]
      BY <3>3 DEF TypeOK
    <3> QED
      BY <3>3, <3>4, <3>5 DEF ListenerInv, Exited
  <2>2. CASE ~(target \in Runs /\ MayRearm(target))
    <3>1. \/ UNCHANGED <<status, window, listener>>
          \/ target \notin Runs /\ MayRearm(target)
      BY <1>4, <2>2 DEF RearmGoes
    <3>2. CASE target \notin Runs /\ MayRearm(target)
      <4>1. /\ status' = [status EXCEPT ![target] = "listening"]
            /\ window' = [window EXCEPT ![target] = window[target] + 1]
            /\ listener' =
                 [listener EXCEPT ![target][window[target] + 1] = "start"]
        BY <1>4, <3>2 DEF RearmGoes, SetStatus, StartWindow
      <4>2. UNCHANGED <<status, window, listener>>
        BY <3>2, <4>1 DEF TypeOK
      <4> QED
        BY <1>4, <4>2, QuietListener DEF RearmGoes
    <3> QED
      BY <1>4, <3>1, <3>2, QuietListener DEF RearmGoes
  <2> QED
    BY <2>1, <2>2
<1> QED
  BY <1>1, <1>2, <1>3, <1>4 DEF IdleStep, IdleLockStep, RearmStep

\* Every step keeps the listener invariant.
LEMMA ListenerInvariance == Spec => []ListenerInv
<1>1. Init => ListenerInv
  <2> SUFFICES ASSUME Init PROVE ListenerInv
    OBVIOUS
  <2>1. /\ status = [r \in Runs |-> "none"] /\ phase = "-"
        /\ listener = [r \in Runs |-> [w \in Windows |-> "off"]]
    BY DEF Init
  <2> QED
    BY <2>1 DEF ListenerInv, Exited
<1>2. IInv /\ ListenerInv /\ [Next]_vars => ListenerInv'
  <2> SUFFICES ASSUME TypeOK, RunInv, ListenerInv, [Next]_vars
               PROVE  ListenerInv'
    BY DEF IInv
  <2>1. CASE UNCHANGED vars
    BY <2>1, QuietListener DEF vars, lockVars, runVars, goVars
  <2>2. CASE Next
    BY <2>2, CleanupListeners, GoroutineListeners, IdleListeners DEF Next
  <2> QED
    BY <2>1, <2>2
<1> QED
  BY Invariance, <1>1, <1>2, PTL DEF Spec

\* Of the idle detach, the detach of cleanup and the late detaches of a run's
\* windows at most one is under way, also when every wait may end early.
THEOREM NeverDetachedTwice == Spec => []DetachedOnce
<1>1. ListenerInv => DetachedOnce
  <2> SUFFICES ASSUME ListenerInv, NEW r \in Runs
               PROVE  Cardinality(DetachesOnTheWay(r)) <= 1
    BY DEF DetachedOnce
  <2>1. \A w \in Windows : listener[r][w] = "late" => w = window[r]
    BY DEF ListenerInv, Exited
  <2>2. phase = "detach" /\ target = r =>
          \A w \in Windows : listener[r][w] # "late"
    BY <2>1 DEF ListenerInv, Past
  <2>3. \E x : DetachesOnTheWay(r) \subseteq {x}
    BY <2>1, <2>2 DEF DetachesOnTheWay
  <2>4. PICK x : DetachesOnTheWay(r) \subseteq {x}
    BY <2>3
  <2>5. IsFiniteSet({x}) /\ Cardinality({x}) = 1
    BY FS_Singleton
  <2>6. Cardinality(DetachesOnTheWay(r)) \in Nat
    BY <2>4, <2>5, FS_Subset, FS_CardinalityType
  <2> QED
    BY <2>4, <2>5, <2>6, FS_Subset
<1> QED
  BY ListenerInvariance, <1>1, PTL
-----------------------------------------------------------------------------
(* When no deadline of the code expires before SAP has answered (~ Slow),   *)
(* a run that is stopped has no listener goroutine any more.                *)

\* Where the goroutine of a run's current window is.
Here(r) == listener[r][window[r]]

\* Cleanup goes on only when the goroutine of the run it stops has exited.
ExitDue(r) ==
  \/ status[r] = "stopped"
  \/ /\ r = target /\ startMu \in {"launch", "stop"}
     /\ \/ phase \in {"detach", "finish"}
        \/ phase = "cleanup" /\ waiting = "done"

StopInv == \A r \in Runs : ExitDue(r) => Here(r) = "done"

\* A step that starts no listener and ends no wait.
LEMMA QuietStopped ==
  ASSUME TypeOK, StopInv, UNCHANGED <<listener, window>>,
         \/ UNCHANGED status
         \/ \E r, s : s # "stopped" /\ SetStatus(r, s),
         \/ UNCHANGED <<startMu, phase, target, waiting>>
         \/ startMu' \notin {"launch", "stop"}
         \/ phase' \notin {"cleanup", "detach", "finish"}
         \/ /\ UNCHANGED <<startMu, target>> /\ phase' \in {"detach", "finish"}
            /\ \/ phase \in {"detach", "finish"}
               \/ phase = "cleanup" /\ waiting = "done"
         \/ phase' = "cleanup" /\ waiting' # "done"
  PROVE  StopInv'
<1>1. \A r \in Runs : status'[r] = "stopped" => status[r] = "stopped"
  BY DEF SetStatus, TypeOK
<1>2. \A r \in Runs : ExitDue(r)' => ExitDue(r)
  BY <1>1 DEF ExitDue
<1> QED
  BY <1>2 DEF StopInv, Here

LEMMA CleanupStops ==
  ASSUME ~ Slow, TypeOK, RunInv, StopInv, ListenerInv,
         \/ \E op \in {"launch", "stop"} : Begin(op)
         \/ CleanupStep \/ DropSession \/ LaunchFails
         \/ \E k \in Kinds : Publish(k)
  PROVE  StopInv'
<1> USE DEF runVars, goVars
<1>1. ASSUME NEW op \in {"launch", "stop"}, Begin(op) PROVE StopInv'
  BY <1>1, QuietStopped DEF Begin, AfterCleanup
<1>2. CASE StopExternal \/ CancelRun
  BY <1>2, QuietStopped DEF StopExternal, CancelRun
<1>3. CASE ListenerExited
  <2>1. /\ AwaitedDone(target) /\ phase = "cleanup"
        /\ UNCHANGED <<status, listener, window, startMu, phase, target>>
    BY <1>3 DEF ListenerExited
  <2>2. \A r \in Runs : ExitDue(r)' => ExitDue(r) \/ r = target
    BY <2>1 DEF ExitDue
  <2> QED
    BY <2>1, <2>2 DEF StopInv, Here, AwaitedDone
<1>4. CASE Join
  BY <1>4, QuietStopped DEF Join
<1>5. CASE CleanupDetach \/ CleanupDetachGivenUp
  BY <1>5, QuietStopped DEF CleanupDetach, CleanupDetachGivenUp
<1>6. CASE CleanupFinish
  <2>1. /\ phase' \in {"set", "drop"} /\ UNCHANGED <<listener, window>>
        /\ phase = "finish" /\ startMu \in {"launch", "stop"}
        /\ \A r \in Runs : r # target => status'[r] = status[r]
    BY <1>6 DEF CleanupFinish, AfterCleanup, SetStatus, TypeOK
  <2>2. \A r \in Runs : ExitDue(r)' => ExitDue(r)
    BY <2>1 DEF ExitDue
  <2> QED
    BY <2>1, <2>2 DEF StopInv, Here
<1>7. CASE DropSession \/ LaunchFails
  BY <1>7, QuietStopped DEF DropSession, LaunchFails
<1>8. ASSUME NEW k \in Kinds, Publish(k) PROVE StopInv'
  <2>1. PICK n \in Runs : n = run + 1
    BY <1>8, ConstantFacts DEF Publish, RunInv, LockInv, TypeOK, Runs
  <2>2. /\ status' = [status EXCEPT ![n] = "listening"]
        /\ window' = [window EXCEPT ![n] = 1]
        /\ listener' = [listener EXCEPT ![n][1] = "start"]
        /\ startMu' = "free"
    BY <1>8, <2>1 DEF Publish, SetStatus, StartWindow
  <2>3. /\ \A r \in Runs : r # n => /\ status'[r] = status[r]
                                    /\ window'[r] = window[r]
                                    /\ listener'[r] = listener[r]
        /\ status'[n] = "listening"
    BY <2>2 DEF TypeOK
  <2>4. \A r \in Runs : ExitDue(r)' => r # n /\ ExitDue(r)
    BY <2>2, <2>3 DEF ExitDue
  <2> QED
    BY <2>3, <2>4 DEF StopInv, Here
<1> QED
  BY <1>1, <1>2, <1>3, <1>4, <1>5, <1>6, <1>7, <1>8 DEF CleanupStep

\* A listener goroutine that runs is not of a run that is stopped.
LEMMA ListenerStops ==
  ASSUME TypeOK, StopInv, ListenerInv,
         NEW r \in Runs, NEW w \in Windows, ListenerStep(r, w)
  PROVE  StopInv'
<1>1. PICK pc \in ListenerPcs : SetListener(r, w, pc)
  BY DEF ListenerStep, PollOpens, PollEnds, PollCancelled, Verdict, SapAttach,
         AttachGivenUp, AttachReturns, LateAnswer, LateDetach,
         LateDetachGivenUp, ListenerCloses, ListenerPcs
<1>2. /\ listener[r][w] \notin Exited
      /\ UNCHANGED <<window, startMu, phase, target, waiting>>
      /\ \/ UNCHANGED status
         \/ \E s : s # "stopped" /\ SetStatus(r, s)
  BY DEF ListenerStep, PollOpens, PollEnds, PollCancelled, Verdict, SapAttach,
         AttachGivenUp, AttachReturns, LateDetach, LateDetachGivenUp,
         ListenerCloses, Exited, lockVars, runVars
<1>3. /\ w = window[r]
      /\ \A q \in Runs : q # r => listener'[q] = listener[q]
  BY <1>1, <1>2 DEF ListenerInv, SetListener, TypeOK
<1>4. \A q \in Runs : status'[q] = "stopped" => status[q] = "stopped"
  BY <1>2 DEF SetStatus, TypeOK
<1>5. \A q \in Runs : ExitDue(q)' => ExitDue(q)
  BY <1>2, <1>4 DEF ExitDue
<1>6. ~ ExitDue(r)
  BY <1>2, <1>3 DEF StopInv, Here, Exited
<1> QED
  BY <1>2, <1>3, <1>5, <1>6 DEF StopInv, Here

LEMMA OthersStop ==
  ASSUME TypeOK, RunInv, StopInv,
         \/ \E r \in Runs : \/ TriggerStep(r) \/ AbandonedStep(r)
                            \/ IdleStep(r) \/ RearmBegins(r)
         \/ \E c \in Callers :
              \/ \E request \in {"look", "move", "detach"} :
                   CallBegins(c, request)
              \/ CallStep(c)
         \/ \E s \in Sessions : DebuggeeEnds(s)
         \/ IdleLockStep \/ RearmStep
  PROVE  StopInv'
<1> USE DEF lockVars, runVars, goVars
<1>1. ASSUME NEW r \in Runs, TriggerStep(r) \/ AbandonedStep(r)
      PROVE  StopInv'
  BY <1>1, QuietStopped
  DEF TriggerStep, TriggerStarts, TriggerSkipped, TriggerReturns, QuietStop,
      AbandonedStep, AbandonedDetach, AbandonedAttach, AbandonedRuns
<1>2. ASSUME NEW r \in Runs, TimerFires(r) \/ StaleCallback(r)
      PROVE  StopInv'
  BY <1>2, QuietStopped DEF TimerFires, StaleCallback
<1>3. ASSUME NEW r \in Runs, IdleBegins(r) \/ RearmBegins(r)
      PROVE  StopInv'
  BY <1>3, QuietStopped DEF IdleBegins, RearmBegins
<1>4. ASSUME NEW c \in Callers,
             \/ \E request \in {"look", "move", "detach"} :
                  CallBegins(c, request)
             \/ CallStep(c)
      PROVE  StopInv'
  BY <1>4, QuietStopped
  DEF CallStep, CallBegins, CallServed, CallReports, CallEnds
<1>5. ASSUME NEW s \in Sessions, DebuggeeEnds(s) PROVE StopInv'
  BY <1>5, QuietStopped DEF DebuggeeEnds
<1>6. CASE IdleLockStep \/ RearmRefused
  BY <1>6, QuietStopped
  DEF IdleLockStep, IdleDetach, IdleDetachGivenUp, IdleEnds, RearmRefused
<1>7. CASE RearmGoes
  <2>1. /\ startMu' = "free"
        /\ \/ UNCHANGED <<status, window, listener>>
           \/ /\ SetStatus(target, "listening")
              /\ StartWindow(target, window[target] + 1)
    BY <1>7 DEF RearmGoes
  <2>2. \A r \in Runs : /\ status'[r] = "stopped" => status[r] = "stopped"
                        /\ \/ status'[r] = "listening"
                           \/ Here(r)' = Here(r)
    BY <2>1 DEF SetStatus, StartWindow, Here, TypeOK
  <2>3. \A r \in Runs : ExitDue(r)' => ExitDue(r) /\ status'[r] = "stopped"
    BY <2>1, <2>2 DEF ExitDue
  <2> QED
    BY <2>2, <2>3 DEF StopInv
<1> QED
  BY <1>1, <1>2, <1>3, <1>4, <1>5, <1>6, <1>7 DEF IdleStep, RearmStep

LEMMA StopInvariance == ASSUME ~ Slow PROVE Spec => []StopInv
<1>1. Init => StopInv
  <2> SUFFICES ASSUME Init PROVE StopInv
    OBVIOUS
  <2>1. status = [r \in Runs |-> "none"] /\ startMu = "free"
    BY DEF Init
  <2> QED
    BY <2>1 DEF StopInv, ExitDue
<1>2. IInv /\ ListenerInv /\ StopInv /\ [Next]_vars => StopInv'
  <2> SUFFICES ASSUME TypeOK, RunInv, ListenerInv, StopInv, [Next]_vars
               PROVE  StopInv'
    BY DEF IInv
  <2>1. CASE UNCHANGED vars
    BY <2>1, QuietStopped DEF vars, lockVars, runVars, goVars
  <2>2. CASE Next
    BY <2>2, CleanupStops, ListenerStops, OthersStop DEF Next
  <2> QED
    BY <2>1, <2>2
<1> QED
  BY Invariance, ListenerInvariance, <1>1, <1>2, PTL DEF Spec

\* No listener goroutine of an older run is alive next to a newer run, also
\* when requests fail, as long as none outlives the deadlines that guard it
\* (with Slow it is false: the attach may take longer than cleanup waits).
THEOREM NewRunsAreAlone == ASSUME ~ Slow PROVE Spec => []NewRunAlone
<1>1. IInv /\ ListenerInv /\ StopInv => NewRunAlone
  <2> SUFFICES ASSUME IInv, ListenerInv, StopInv,
                      NEW q \in Runs, NEW r \in Runs, NEW w \in Windows,
                      q < r, status[r] # "none"
               PROVE  listener[q][w] \in {"off", "done"}
    BY DEF NewRunAlone
  <2>1. q < run
    <3>1. run \in Nat /\ q \in Nat /\ r \in Nat /\ ~ (r > run)
      BY ConstantFacts DEF IInv, TypeOK, RunInv, OrderInv
    <3> QED
      BY <3>1
  <2>2. status[q] = "stopped"
    BY <2>1 DEF IInv, RunInv, OrderInv
  <2>3. Here(q) = "done"
    BY <2>2 DEF StopInv, ExitDue
  <2> QED
    BY <2>3 DEF ListenerInv, Here, Exited
<1> QED
  BY <1>1, Invariance, ListenerInvariance, StopInvariance, PTL
-----------------------------------------------------------------------------
(* A listener goroutine attaches only while its run is attaching, or has    *)
(* been overtaken by cleanup; only then is its detach late.                 *)

Stopped == {"stopping", "stopped"}

AttachOK(pc, s) ==
  /\ pc \in {"attach", "attached", "failed"} => s \in {"attaching"} \cup Stopped
  /\ pc = "late" => s \in Stopped

AttachInv ==
  \A r \in Runs, w \in Windows : AttachOK(listener[r][w], status[r])

\* A step that starts no listener and ends no attach.
LEMMA QuietAttach ==
  ASSUME TypeOK, AttachInv, UNCHANGED listener,
         \A r \in Runs : status'[r] = status[r] \/ status'[r] \in Stopped
                           \/ status[r] \notin {"attaching"} \cup Stopped
  PROVE  AttachInv'
BY DEF AttachInv, AttachOK

\* A step that moves one goroutine.
LEMMA AttachMoves ==
  ASSUME TypeOK, AttachInv, ListenerInv, NEW r \in Runs, NEW w \in Windows,
         NEW pc, SetListener(r, w, pc),
         \A q \in Runs : q # r => status'[q] = status[q],
         w = window'[r], \A v \in Windows : v # w => listener[r][v] \in Exited,
         AttachOK(pc, status'[r])
  PROVE  AttachInv'
<1>1. /\ listener'[r][w] = pc
      /\ \A v \in Windows : v # w => listener'[r][v] = listener[r][v]
      /\ \A q \in Runs : q # r => listener'[q] = listener[q]
  BY DEF SetListener, TypeOK
<1> QED
  BY <1>1 DEF AttachInv, AttachOK, Exited

LEMMA ListenerAttaches ==
  ASSUME TypeOK, AttachInv, ListenerInv, NEW r \in Runs, NEW w \in Windows,
         ListenerStep(r, w)
  PROVE  AttachInv'
<1> USE DEF runVars
<1>1. /\ listener[r][w] \notin Exited /\ window' = window
      /\ \A q \in Runs : q # r => status'[q] = status[q]
  BY DEF ListenerStep, PollOpens, PollEnds, PollCancelled, Verdict, SapAttach,
         AttachGivenUp, AttachReturns, LateDetach, LateDetachGivenUp,
         ListenerCloses, Exited, SetStatus, TypeOK
<1>2. w = window'[r] /\ \A v \in Windows : v # w => listener[r][v] \in Exited
  BY <1>1 DEF ListenerInv
<1>3. AttachOK(listener[r][w], status[r])
  BY DEF AttachInv
<1>4. PICK pc \in ListenerPcs :
        SetListener(r, w, pc) /\ AttachOK(pc, status'[r])
  <2>1. CASE \/ PollOpens(r, w) \/ PollEnds(r, w) \/ PollCancelled(r, w)
             \/ LateDetach(r, w) \/ LateDetachGivenUp(r, w)
             \/ ListenerCloses(r, w)
    <3>1. PICK pc \in {"poll", "hit", "none", "error", "closing", "done"} :
            SetListener(r, w, pc)
      BY <2>1 DEF PollOpens, PollEnds, PollCancelled, LateDetach,
                  LateDetachGivenUp, ListenerCloses
    <3> QED
      BY <3>1 DEF ListenerPcs, AttachOK
  <2>2. CASE Verdict(r, w)
    <3>1. CASE SetListener(r, w, "closing")
      BY <3>1 DEF ListenerPcs, AttachOK
    <3>2. CASE SetListener(r, w, "attach") /\ SetStatus(r, "attaching")
      BY <3>2 DEF ListenerPcs, AttachOK, SetStatus, TypeOK
    <3> QED
      BY <2>2, <3>1, <3>2 DEF Verdict
  <2>3. CASE SapAttach(r, w) \/ AttachGivenUp(r, w)
    <3>1. /\ listener[r][w] = "attach" /\ UNCHANGED status
          /\ \E pc \in {"attached", "failed"} : SetListener(r, w, pc)
      BY <2>3 DEF SapAttach, AttachGivenUp
    <3> QED
      BY <1>3, <3>1 DEF ListenerPcs, AttachOK
  <2>4. CASE AttachReturns(r, w)
    <3>1. CASE SetListener(r, w, "closing")
      BY <3>1 DEF ListenerPcs, AttachOK
    <3>2. CASE SetListener(r, w, "late") /\ UNCHANGED status
                 /\ status[r] # "attaching"
      BY <1>3, <2>4, <3>2 DEF ListenerPcs, AttachOK, AttachReturns
    <3> QED
      BY <2>4, <3>1, <3>2 DEF AttachReturns, LateAnswer
  <2> QED
    BY <2>1, <2>2, <2>3, <2>4 DEF ListenerStep
<1> QED
  BY <1>1, <1>2, <1>4, AttachMoves

LEMMA CleanupAttaches ==
  ASSUME TypeOK, RunInv, AttachInv, ListenerInv,
         \/ \E op \in {"launch", "stop"} : Begin(op)
         \/ CleanupStep \/ DropSession \/ LaunchFails
         \/ \E k \in Kinds : Publish(k)
  PROVE  AttachInv'
<1> USE DEF runVars, goVars
<1>1. ASSUME NEW op \in {"launch", "stop"}, Begin(op) PROVE AttachInv'
  <2>1. UNCHANGED listener /\ (UNCHANGED status \/ SetStatus(run, "stopping"))
    BY <1>1 DEF Begin
  <2> QED
    BY <2>1, QuietAttach DEF SetStatus, TypeOK, Stopped
<1>2. CASE CleanupStep \/ DropSession \/ LaunchFails
  <2>1. /\ UNCHANGED listener
        /\ UNCHANGED status \/ SetStatus(target, "stopped")
    BY <1>2
    DEF CleanupStep, StopExternal, CancelRun, ListenerExited, Join,
        CleanupDetach, CleanupDetachGivenUp, CleanupFinish, DropSession,
        LaunchFails
  <2> QED
    BY <2>1, QuietAttach DEF SetStatus, TypeOK, Stopped
<1>3. ASSUME NEW k \in Kinds, Publish(k) PROVE AttachInv'
  <2>1. PICK n \in Runs : n = run + 1 /\ status[n] = "none"
    BY <1>3, ConstantFacts
    DEF Publish, RunInv, LockInv, OrderInv, TypeOK, Runs
  <2>2. /\ status' = [status EXCEPT ![n] = "listening"]
        /\ window' = [window EXCEPT ![n] = 1]
        /\ SetListener(n, 1, "start") /\ 1 \in Windows
    BY <1>3, <2>1, ConstantFacts
    DEF Publish, SetStatus, StartWindow, SetListener
  <2>3. /\ \A v \in Windows : listener[n][v] \in Exited
        /\ window'[n] = 1 /\ \A q \in Runs : q # n => status'[q] = status[q]
    BY <2>1, <2>2 DEF ListenerInv, Exited, TypeOK
  <2> QED
    BY <2>1, <2>2, <2>3, AttachMoves DEF AttachOK
<1> QED
  BY <1>1, <1>2, <1>3

LEMMA OthersAttach ==
  ASSUME TypeOK, AttachInv, ListenerInv,
         \/ \E r \in Runs : \/ TriggerStep(r) \/ AbandonedStep(r)
                            \/ IdleStep(r) \/ RearmBegins(r)
         \/ \E c \in Callers :
              \/ \E request \in {"look", "move", "detach"} :
                   CallBegins(c, request)
              \/ CallStep(c)
         \/ \E s \in Sessions : DebuggeeEnds(s)
         \/ IdleLockStep \/ RearmStep
  PROVE  AttachInv'
<1> USE DEF lockVars, runVars, goVars
<1>1. ASSUME NEW r \in Runs, TriggerStep(r) \/ AbandonedStep(r)
      PROVE  AttachInv'
  <2>1. /\ UNCHANGED listener
        /\ \/ UNCHANGED status
           \/ SetStatus(r, "ended") /\ status[r] = "listening"
    BY <1>1
    DEF TriggerStep, TriggerStarts, TriggerSkipped, TriggerReturns, QuietStop,
        AbandonedStep, AbandonedDetach, AbandonedAttach, AbandonedRuns, NoHit
  <2> QED
    BY <2>1, QuietAttach DEF SetStatus, TypeOK, Stopped
<1>2. ASSUME NEW r \in Runs, IdleStep(r) \/ RearmBegins(r)
      PROVE  AttachInv'
  BY <1>2, QuietAttach
  DEF IdleStep, TimerFires, StaleCallback, IdleBegins, RearmBegins
<1>3. ASSUME NEW c \in Callers,
             \/ \E request \in {"look", "move", "detach"} :
                  CallBegins(c, request)
             \/ CallStep(c)
      PROVE  AttachInv'
  <2>1. /\ UNCHANGED listener
        /\ \/ UNCHANGED status
           \/ SetStatus(callRun[c], "ended") /\ status[callRun[c]] = "attached"
    BY <1>3 DEF CallStep, CallBegins, CallServed, CallReports, CallEnds
  <2> QED
    BY <2>1, QuietAttach DEF SetStatus, TypeOK, Stopped
<1>4. ASSUME NEW s \in Sessions, DebuggeeEnds(s) PROVE AttachInv'
  BY <1>4, QuietAttach DEF DebuggeeEnds
<1>5. CASE IdleLockStep \/ RearmRefused
  <2>1. /\ UNCHANGED listener
        /\ \/ UNCHANGED status
           \/ SetStatus(target, "ended") /\ status[target] = "attached"
    BY <1>5
    DEF IdleLockStep, IdleDetach, IdleDetachGivenUp, IdleEnds, RearmRefused
  <2> QED
    BY <2>1, QuietAttach DEF SetStatus, TypeOK, Stopped
<1>6. CASE RearmGoes
  <2>1. CASE target \in Runs /\ MayRearm(target)
    <3>1. PICK r \in Runs : r = target
      BY <2>1
    <3>2. PICK v \in Windows : v = window[r] + 1
      <4>1. window[r] \in Windows /\ window[r] < MaxWindows
        BY <1>6, <3>1 DEF RearmGoes, TypeOK
      <4> QED
        BY <4>1, ConstantFacts DEF Windows
    <3>3. /\ status' = [status EXCEPT ![r] = "listening"]
          /\ window' = [window EXCEPT ![r] = v]
          /\ SetListener(r, v, "start")
          /\ listener[r][window[r]] = "done"
      BY <1>6, <2>1, <3>1, <3>2
      DEF RearmGoes, StartWindow, SetStatus, SetListener, AwaitedDone
    <3>4. /\ \A w \in Windows : listener[r][w] \in Exited
          /\ window'[r] = v /\ \A q \in Runs : q # r => status'[q] = status[q]
      BY <3>3 DEF ListenerInv, Exited, TypeOK
    <3> QED
      BY <3>3, <3>4, AttachMoves DEF AttachOK
  <2>2. CASE ~ MayRearm(target)
    BY <1>6, <2>2, QuietAttach DEF RearmGoes
  <2>3. CASE target \notin Runs /\ MayRearm(target)
    <3>1. /\ status' = [status EXCEPT ![target] = "listening"]
          /\ listener' =
               [listener EXCEPT ![target][window[target] + 1] = "start"]
      BY <1>6, <2>3 DEF RearmGoes, SetStatus, StartWindow
    <3>2. UNCHANGED <<status, listener>>
      BY <2>3, <3>1 DEF TypeOK
    <3> QED
      BY <3>2, QuietAttach
  <2> QED
    BY <2>1, <2>2, <2>3
<1> QED
  BY <1>1, <1>2, <1>3, <1>4, <1>5, <1>6 DEF RearmStep

LEMMA AttachInvariance == Spec => []AttachInv
<1>1. Init => AttachInv
  <2> SUFFICES ASSUME Init PROVE AttachInv
    OBVIOUS
  <2>1. listener = [r \in Runs |-> [w \in Windows |-> "off"]]
    BY DEF Init
  <2> QED
    BY <2>1 DEF AttachInv, AttachOK
<1>2. IInv /\ ListenerInv /\ AttachInv /\ [Next]_vars => AttachInv'
  <2> SUFFICES ASSUME TypeOK, RunInv, ListenerInv, AttachInv, [Next]_vars
               PROVE  AttachInv'
    BY DEF IInv
  <2>1. CASE UNCHANGED vars
    BY <2>1, QuietAttach DEF vars, runVars, goVars
  <2>2. CASE Next
    BY <2>2, CleanupAttaches, ListenerAttaches, OthersAttach DEF Next
  <2> QED
    BY <2>1, <2>2
<1> QED
  BY Invariance, ListenerInvariance, <1>1, <1>2, PTL DEF Spec
-----------------------------------------------------------------------------
(* When no deadline expires and no request fails, SAP holds a debuggee of a *)
(* run only on the way into its attached status, in it, and on the way out. *)
(* A call that is still on its way when another one has released the run   *)
(* could release the attachment of a later window and leave a run attached *)
(* that holds nothing, or the other way round; so runs have one window, or *)
(* there is one caller.                                                     *)

AttachesOnce == MaxWindows = 1 \/ \A c, d \in Callers : c = d

Holding(r) ==
  \/ Here(r) \in {"attached", "late"}
  \/ status[r] = "attached"
  \/ /\ r = target /\ startMu \in {"launch", "stop"}
     /\ phase = "detach" \/ (phase = "cleanup" /\ wasAttached)

HoldInv ==
  /\ \A r \in Runs : held[sess[r]] = r => Holding(r)
  /\ \A r \in Runs, s \in Sessions : held[s] = r => status[r] # "none"

\* While the idle limit detaches its run, no listener of it attaches.
IdleInv ==
  startMu = "idle" =>
    /\ target \in Runs /\ detaching[target] /\ Here(target) \in Past
    /\ phase = "finish" => held[sess[target]] # target

\* A call is served for the attachment it was admitted to.
Reached == {"attached"} \cup Stopped
Served  == {"look", "move", "detach", "gone"}
ServedOK(c) ==
  callPc[c] \in Served =>
    /\ Here(callRun[c]) \in Past
    /\ MaxWindows = 1 \/ status[callRun[c]] \in Reached
    /\ callPc[c] = "gone" => held[sess[callRun[c]]] # callRun[c]

ReleaseInv == HoldInv /\ IdleInv /\ \A c \in Callers : ServedOK(c)

\* A step that attaches no debuggee and publishes no run.
LEMMA QuietHold ==
  ASSUME TypeOK, HoldInv, UNCHANGED sess,
         \A s \in Sessions : held'[s] \in {0, held[s]},
         \A r \in Runs : held'[sess[r]] = r /\ Holding(r) => Holding(r)',
         \A r \in Runs : status[r] # "none" => status'[r] # "none"
  PROVE  HoldInv'
<1>1. \A r \in Runs, s \in Sessions : held'[s] = r => held[s] = r
  BY ConstantFacts
<1>2. \A r \in Runs : sess[r] \in Sessions
  BY DEF TypeOK
<1> QED
  BY <1>1, <1>2 DEF HoldInv

\* A step that neither starts nor advances the idle detach.
LEMMA QuietIdle ==
  ASSUME TypeOK, IdleInv, UNCHANGED sess,
         \A s \in Sessions : held'[s] \in {0, held[s]},
         \A r \in Runs : Here(r) \in Past => Here(r)' \in Past,
         \/ startMu' # "idle"
         \/ UNCHANGED <<startMu, phase, target, detaching>>
  PROVE  IdleInv'
<1>1. CASE startMu' = "idle"
  <2>1. /\ startMu = "idle" /\ phase' = phase /\ target' = target
        /\ detaching' = detaching
    BY <1>1
  <2>2. /\ target \in Runs /\ detaching[target] /\ Here(target) \in Past
        /\ phase = "finish" => held[sess[target]] # target
    BY <2>1 DEF IdleInv
  <2>3. /\ sess[target] \in Sessions /\ target # 0
        /\ held'[sess[target]] \in {0, held[sess[target]]}
    BY <2>2, ConstantFacts DEF TypeOK
  <2>4. Here(target)' \in Past
    <3>1. PICK t \in Runs : t = target
      BY <2>2
    <3>2. Here(t)' \in Past
      BY <2>2, <3>1
    <3> QED
      BY <2>1, <3>1, <3>2 DEF Here
  <2> QED
    BY <2>1, <2>2, <2>3, <2>4 DEF IdleInv
<1> QED
  BY <1>1 DEF IdleInv

\* A step that leaves a call where it is, or answers it.
LEMMA QuietServed ==
  ASSUME TypeOK, CountInv, UNCHANGED sess, NEW c \in Callers, ServedOK(c),
         \A s \in Sessions : held'[s] \in {0, held[s]},
         callPc'[c] \in Served =>
           /\ callPc[c] \in Served /\ callRun'[c] = callRun[c]
           /\ Here(callRun[c]) \in Past =>
                listener'[callRun[c]][window'[callRun[c]]] \in Past
           /\ status[callRun[c]] \in Reached =>
                MaxWindows = 1 \/ status'[callRun[c]] \in Reached
           /\ callPc'[c] = "gone" =>
                callPc[c] = "gone" \/ held'[sess[callRun[c]]] = 0
  PROVE  ServedOK(c)'
<1>1. SUFFICES ASSUME callPc'[c] \in Served PROVE ServedOK(c)'
  BY DEF ServedOK
<1>2. callRun[c] \in Runs /\ callRun[c] # 0
  BY <1>1, CallCounted, ConstantFacts DEF Served
<1>3. held'[sess[callRun[c]]] \in {0, held[sess[callRun[c]]]}
  BY <1>2 DEF TypeOK
<1> QED
  BY <1>1, <1>2, <1>3 DEF ServedOK, Here

\* A step that moves no listener and no call.
LEMMA QuietRelease ==
  ASSUME TypeOK, CountInv, ReleaseInv,
         UNCHANGED <<sess, listener, window, callRun, callPc>>,
         \A s \in Sessions : held'[s] \in {0, held[s]},
         \A r \in Runs : held'[sess[r]] = r /\ Holding(r) => Holding(r)',
         \A r \in Runs :
           \/ status'[r] = status[r]
           \/ status[r] # "none" /\ status'[r] \in Stopped
           \/ status[r] \notin {"none"} \cup Reached /\ status'[r] # "none",
         \/ startMu' # "idle"
         \/ UNCHANGED <<startMu, phase, target, detaching>>
  PROVE  ReleaseInv'
<1>1. \A r \in Runs : /\ Here(r)' = Here(r)
                      /\ status[r] # "none" => status'[r] # "none"
                      /\ status[r] \in Reached => status'[r] \in Reached
  BY DEF Here, Reached, Stopped
<1>2. HoldInv' /\ IdleInv'
  BY <1>1, QuietHold, QuietIdle DEF ReleaseInv
<1>3. ASSUME NEW c \in Callers PROVE ServedOK(c)'
  <2>1. callPc[c] \in Served => callRun[c] \in Runs
    BY CallCounted DEF Served
  <2>2. callPc[c] \in Served =>
          /\ Here(callRun[c]) \in Past =>
               listener'[callRun[c]][window'[callRun[c]]] \in Past
          /\ status[callRun[c]] \in Reached => status'[callRun[c]] \in Reached
    BY <1>1, <2>1 DEF Here
  <2>3. ServedOK(c) /\ callPc'[c] = callPc[c] /\ callRun'[c] = callRun[c]
    BY DEF ReleaseInv
  <2> QED
    BY <2>2, <2>3, QuietServed
<1> QED
  BY <1>2, <1>3 DEF ReleaseInv

\* debug_run, debug_stop and their cleanup: a run that was attached is let go
\* before it is stopped.
LEMMA CleanupReleases ==
  ASSUME ~ Slow, ~ Lossy,
         TypeOK, RunInv, CountInv, ListenerInv, ReleaseInv,
         \/ \E op \in {"launch", "stop"} : Begin(op)
         \/ CleanupStep \/ DropSession \/ LaunchFails
  PROVE  ReleaseInv'
<1> USE DEF runVars, goVars, idleVars, callVars, sapVars
<1>1. ASSUME NEW op \in {"launch", "stop"}, Begin(op) PROVE ReleaseInv'
  <2>1. CASE run # 0 /\ Active(run)
    <3>1. /\ status' = [status EXCEPT ![run] = "stopping"]
          /\ wasAttached' = (status[run] = "attached")
          /\ startMu = "free" /\ startMu' \in {"launch", "stop"}
          /\ phase' = "cleanup" /\ target' = run
          /\ UNCHANGED <<sess, listener, window, callRun, callPc, held>>
          /\ status[run] # "none"
      BY <1>1, <2>1 DEF Begin, SetStatus, WasAttached, Active
    <3>2. \A r \in Runs : /\ r # run => status'[r] = status[r]
                          /\ r = run => status'[r] = "stopping"
                          /\ status[r] = "attached" => r = run
      BY <3>1, ActiveIsNewest DEF TypeOK
    <3>3. ASSUME NEW r \in Runs, Holding(r) PROVE Holding(r)'
      BY <3>1, <3>2, <3>3 DEF Holding, Here
    <3> QED
      BY <3>1, <3>2, <3>3, QuietRelease DEF Stopped
  <2>2. CASE ~(run # 0 /\ Active(run))
    <3>1. /\ startMu = "free" /\ startMu' # "idle"
          /\ UNCHANGED <<status, sess, listener, window, callRun, callPc, held>>
      BY <1>1, <2>2 DEF Begin
    <3>2. \A r \in Runs : Holding(r) => Holding(r)'
      BY <3>1 DEF Holding, Here
    <3> QED
      BY <3>1, <3>2, QuietRelease
  <2> QED
    BY <2>1, <2>2
<1>2. CASE StopExternal \/ CancelRun \/ ListenerExited
  <2>1. /\ UNCHANGED <<startMu, phase, target, wasAttached, status, sess,
                       listener, window, callRun, callPc, detaching>>
        /\ \/ UNCHANGED held
           \/ held' = [held EXCEPT ![sess[target]] = 0]
    BY <1>2 DEF StopExternal, CancelRun, ListenerExited
  <2>2. \A s \in Sessions : held'[s] \in {0, held[s]}
    BY <2>1 DEF TypeOK
  <2>3. \A r \in Runs : Holding(r) => Holding(r)'
    BY <2>1 DEF Holding, Here
  <2> QED
    BY <2>1, <2>2, <2>3, QuietRelease
<1>3. CASE Join
  <2>1. /\ UNCHANGED <<startMu, target, wasAttached, status, sess, listener,
                       window, callRun, callPc, detaching, held>>
        /\ phase = "cleanup" /\ wasAttached => phase' = "detach"
        /\ phase = "cleanup"
    BY <1>3 DEF Join
  <2>2. startMu' # "idle"
    BY <2>1 DEF RunInv, LockInv
  <2>3. \A r \in Runs : Holding(r) => Holding(r)'
    BY <2>1 DEF Holding, Here
  <2> QED
    BY <2>1, <2>2, <2>3, QuietRelease
<1>4. CASE CleanupDetach
  <2>1. /\ UNCHANGED <<startMu, target, status, sess, listener, window, callRun,
                       callPc>>
        /\ held' = [held EXCEPT ![sess[target]] = 0]
        /\ startMu' # "idle" /\ phase = "detach"
    BY <1>4 DEF CleanupDetach
  <2>2. \A s \in Sessions : held'[s] \in {0, held[s]}
    BY <2>1 DEF TypeOK
  <2>3. ASSUME NEW r \in Runs, held'[sess[r]] = r, Holding(r)
        PROVE  Holding(r)'
    <3>1. r # target
      BY <2>1, <2>3, ConstantFacts DEF TypeOK
    <3> QED
      BY <2>1, <2>3, <3>1 DEF Holding, Here
  <2> QED
    BY <2>1, <2>2, <2>3, QuietRelease
<1>5. CASE CleanupFinish
  <2>1. /\ status' = [status EXCEPT ![target] = "stopped"]
        /\ UNCHANGED <<sess, listener, window, callRun, callPc, held>>
        /\ startMu' # "idle" /\ phase = "finish"
    BY <1>5 DEF CleanupFinish, SetStatus
  <2>2. status[target] = "stopping"
    BY <1>5 DEF CleanupFinish, RunInv, CleanupInv
  <2>3. \A r \in Runs : \/ status'[r] = status[r]
                        \/ status[r] = "stopping" /\ status'[r] = "stopped"
    BY <2>1, <2>2 DEF TypeOK
  <2>4. \A r \in Runs : Holding(r) => Holding(r)'
    BY <2>1, <2>3 DEF Holding, Here
  <2> QED
    BY <2>1, <2>3, <2>4, QuietRelease DEF Stopped
<1>6. CASE DropSession \/ LaunchFails
  <2>1. /\ UNCHANGED <<status, sess, listener, window, callRun, callPc, held>>
        /\ startMu' # "idle" /\ phase \in {"set", "drop"}
    BY <1>6 DEF DropSession, LaunchFails
  <2>2. \A r \in Runs : Holding(r) => Holding(r)'
    BY <2>1 DEF Holding, Here
  <2> QED
    BY <2>1, <2>2, QuietRelease
<1> QED
  BY <1>1, <1>2, <1>3, <1>4, <1>5, <1>6
  DEF CleanupStep, CleanupDetachGivenUp, GivesUp

\* A new run holds nothing yet and is not one that a call is served for.
LEMMA PublishReleases ==
  ASSUME TypeOK, RunInv, CountInv, ListenerInv, ReleaseInv,
         NEW k \in Kinds, Publish(k)
  PROVE  ReleaseInv'
<1> USE DEF callVars, sapVars
<1>1. PICK n \in Runs : n = run + 1 /\ status[n] = "none"
  BY ConstantFacts DEF Publish, RunInv, LockInv, OrderInv, TypeOK, Runs
<1>2. /\ startMu = "launch" /\ phase = "set"
      /\ sess' = [sess EXCEPT ![n] = OpenSession]
      /\ status' = [status EXCEPT ![n] = "listening"]
      /\ window' = [window EXCEPT ![n] = 1]
      /\ listener' = [listener EXCEPT ![n][1] = "start"]
      /\ startMu' = "free"
      /\ UNCHANGED <<callRun, callPc, held>>
  BY <1>1 DEF Publish, SetStatus, StartWindow
<1>3. /\ \A r \in Runs : r # n => /\ status'[r] = status[r]
                                  /\ sess'[r] = sess[r]
                                  /\ Here(r)' = Here(r)
      /\ status'[n] = "listening"
  BY <1>2 DEF TypeOK, Here
<1>4. \A s \in Sessions : held[s] # n
  BY <1>1 DEF ReleaseInv, HoldInv
<1>5. sess'[n] \in Sessions
  <2>1. OpenSession \in Sessions
    BY <1>1, ConstantFacts DEF OpenSession, TypeOK, Sessions, Runs
  <2> QED
    BY <1>2, <2>1 DEF TypeOK
<1>6. HoldInv'
  <2>1. ASSUME NEW r \in Runs, held'[sess'[r]] = r PROVE Holding(r)'
    <3>1. r # n
      BY <1>2, <1>4, <1>5, <2>1
    <3>2. held[sess[r]] = r
      BY <1>2, <1>3, <2>1, <3>1
    <3>3. Holding(r)
      BY <3>2 DEF ReleaseInv, HoldInv
    <3> QED
      BY <1>2, <1>3, <3>1, <3>3 DEF Holding
  <2>2. ASSUME NEW r \in Runs, NEW s \in Sessions, held'[s] = r
        PROVE  status'[r] # "none"
    BY <1>2, <1>3, <2>2 DEF ReleaseInv, HoldInv
  <2> QED
    BY <2>1, <2>2 DEF HoldInv
<1>7. IdleInv'
  BY <1>2 DEF IdleInv
<1>8. ASSUME NEW c \in Callers PROVE ServedOK(c)'
  <2>1. SUFFICES ASSUME callPc[c] \in Served PROVE ServedOK(c)'
    BY <1>2 DEF ServedOK
  <2>2. callRun[c] \in Runs
    BY <2>1, CallCounted DEF Served
  <2>3. Here(n) = "off"
    BY <1>1 DEF ListenerInv, Here, TypeOK
  <2>4. ServedOK(c)
    BY DEF ReleaseInv
  <2>5. callRun[c] # n
    BY <2>1, <2>3, <2>4 DEF ServedOK, Past
  <2> QED
    BY <1>2, <1>3, <2>1, <2>2, <2>4, <2>5 DEF ServedOK, Here
<1> QED
  BY <1>6, <1>7, <1>8 DEF ReleaseInv

\* A listener goroutine moves on without an attach in SAP.
LEMMA ListenerKeepsHold ==
  ASSUME TypeOK, CountInv, ListenerInv, ReleaseInv,
         NEW r \in Runs, NEW w \in Windows, w = window[r],
         NEW pc, SetListener(r, w, pc),
         UNCHANGED <<lockVars, window, sess, detaching, callVars>>,
         listener[r][w] \in Past => pc \in Past,
         \A s \in Sessions : held'[s] \in {0, held[s]},
         held'[sess[r]] = r /\ listener[r][w] \in {"attached", "late"} =>
           pc \in {"attached", "late"} \/ status'[r] = "attached",
         \A q \in Runs : q # r => status'[q] = status[q],
         \/ status'[r] = status[r]
         \/ status[r] \notin {"none"} \cup Reached /\ status'[r] # "none"
  PROVE  ReleaseInv'
<1> USE DEF lockVars, callVars
<1>1. /\ Here(r) = listener[r][w] /\ Here(r)' = pc
      /\ \A q \in Runs : q # r => Here(q)' = Here(q)
  BY DEF SetListener, TypeOK, Here
<1>2. \A q \in Runs : /\ Here(q) \in Past => Here(q)' \in Past
                      /\ status[q] # "none" => status'[q] # "none"
                      /\ status[q] \in Reached => status'[q] \in Reached
  BY <1>1
<1>3. \A q \in Runs : status[q] = "attached" => status'[q] = "attached"
  BY DEF Reached
<1>4. ASSUME NEW q \in Runs, held'[sess[q]] = q, Holding(q) PROVE Holding(q)'
  <2>1. CASE q = r
    BY <1>1, <1>3, <1>4, <2>1 DEF Holding
  <2>2. CASE q # r
    BY <1>1, <1>3, <1>4, <2>2 DEF Holding
  <2> QED
    BY <2>1, <2>2
<1>5. HoldInv' /\ IdleInv'
  BY <1>2, <1>4, QuietHold, QuietIdle DEF ReleaseInv
<1>6. ASSUME NEW c \in Callers PROVE ServedOK(c)'
  <2>1. callPc[c] \in Served => callRun[c] \in Runs
    BY CallCounted DEF Served
  <2>2. callPc[c] \in Served =>
          /\ Here(callRun[c]) \in Past =>
               listener'[callRun[c]][window'[callRun[c]]] \in Past
          /\ status[callRun[c]] \in Reached => status'[callRun[c]] \in Reached
    BY <1>2, <2>1 DEF Here
  <2>3. ServedOK(c) /\ callPc'[c] = callPc[c] /\ callRun'[c] = callRun[c]
    BY DEF ReleaseInv
  <2> QED
    BY <2>2, <2>3, QuietServed
<1> QED
  BY <1>5, <1>6 DEF ReleaseInv

\* SAP attaches: to a session that holds nothing, for a run that nobody is
\* detaching and no call is served for.
LEMMA AttachReleases ==
  ASSUME TypeOK, CountInv, ListenerInv, ReleaseInv,
         NEW r \in Runs, NEW w \in Windows, w = window[r],
         listener[r][w] = "attach", SetListener(r, w, "attached"),
         held' = [held EXCEPT ![sess[r]] = r],
         UNCHANGED <<lockVars, runVars, detaching, callVars>>
  PROVE  ReleaseInv'
<1> USE DEF lockVars, runVars, callVars
<1>1. /\ Here(r) = "attach" /\ Here(r)' = "attached" /\ status[r] # "none"
      /\ \A q \in Runs : q # r => Here(q)' = Here(q)
  BY DEF SetListener, TypeOK, Here, ListenerInv
<1>2. /\ \A s \in Sessions : held'[s] \in {r, held[s]}
      /\ \A q \in Runs : sess[q] \in Sessions
  BY DEF TypeOK
<1>3. HoldInv'
  <2>1. ASSUME NEW q \in Runs, held'[sess[q]] = q PROVE Holding(q)'
    <3>1. CASE q = r
      BY <1>1, <3>1 DEF Holding
    <3>2. CASE q # r
      <4>1. Holding(q)
        BY <1>2, <2>1, <3>2 DEF ReleaseInv, HoldInv
      <4> QED
        BY <1>1, <3>2, <4>1 DEF Holding
    <3> QED
      BY <3>1, <3>2
  <2>2. \A q \in Runs, s \in Sessions : held'[s] = q => status[q] # "none"
    BY <1>1, <1>2 DEF ReleaseInv, HoldInv
  <2> QED
    BY <2>1, <2>2 DEF HoldInv
<1>4. IdleInv'
  <2>1. SUFFICES ASSUME startMu = "idle" PROVE IdleInv'
    BY DEF IdleInv
  <2>2. /\ target \in Runs /\ detaching[target] /\ Here(target) \in Past
        /\ phase = "finish" => held[sess[target]] # target
    BY <2>1 DEF ReleaseInv, IdleInv
  <2>3. target # r
    BY <1>1, <2>2 DEF Past
  <2>4. Here(target)' = Here(target)
    BY <1>1, <2>2, <2>3 DEF Here
  <2>5. phase = "finish" => held'[sess[target]] # target
    BY <1>2, <2>2, <2>3
  <2> QED
    BY <2>2, <2>4, <2>5 DEF IdleInv
<1>5. ASSUME NEW c \in Callers PROVE ServedOK(c)'
  <2>1. SUFFICES ASSUME callPc[c] \in Served PROVE ServedOK(c)'
    BY DEF ServedOK
  <2>2. callRun[c] \in Runs
    BY <2>1, CallCounted DEF Served
  <2>3. ServedOK(c)
    BY DEF ReleaseInv
  <2>4. callRun[c] # r
    BY <1>1, <2>1, <2>3 DEF ServedOK, Past
  <2>5. Here(callRun[c])' = Here(callRun[c])
    BY <1>1, <2>2, <2>4 DEF Here
  <2>6. held'[sess[callRun[c]]] \in {r, held[sess[callRun[c]]]}
    BY <1>2, <2>2
  <2> QED
    BY <2>1, <2>3, <2>4, <2>5, <2>6 DEF ServedOK
<1> QED
  BY <1>3, <1>4, <1>5 DEF ReleaseInv

\* The listener goroutines: what a late attach has caught is let go at once.
LEMMA ListenerReleases ==
  ASSUME ~ Slow, ~ Lossy, TypeOK, CountInv, ListenerInv, ReleaseInv,
         NEW r \in Runs, NEW w \in Windows, ListenerStep(r, w)
  PROVE  ReleaseInv'
<1> USE DEF runVars, idleVars, sapVars
<1>1. /\ listener[r][w] \notin Exited
      /\ UNCHANGED <<lockVars, window, sess, detaching, callVars>>
  BY DEF ListenerStep, PollOpens, PollEnds, PollCancelled, Verdict, SapAttach,
         AttachGivenUp, AttachReturns, LateDetach, LateDetachGivenUp,
         ListenerCloses, Exited
<1>2. w = window[r]
  BY <1>1 DEF ListenerInv
<1>3. CASE \/ PollOpens(r, w) \/ PollEnds(r, w) \/ PollCancelled(r, w)
           \/ ListenerCloses(r, w)
  <2>1. UNCHANGED <<status, held>>
    BY <1>3 DEF PollOpens, PollEnds, PollCancelled, ListenerCloses
  <2>2. PICK pc : /\ SetListener(r, w, pc)
                  /\ listener[r][w] \in Past => pc \in Past
                  /\ listener[r][w] \notin {"attached", "late"}
    BY <1>3 DEF PollOpens, PollEnds, PollCancelled, ListenerCloses, Past
  <2> QED
    BY <1>1, <1>2, <2>1, <2>2, ListenerKeepsHold
<1>4. CASE Verdict(r, w)
  <2>1. /\ listener[r][w] \in {"hit", "none", "error"} /\ UNCHANGED held
        /\ \E pc : SetListener(r, w, pc)
    BY <1>4 DEF Verdict
  <2>2. /\ \A q \in Runs : q # r => status'[q] = status[q]
        /\ \/ status'[r] = status[r]
           \/ status[r] = "listening" /\ status'[r] # "none"
    BY <1>4 DEF Verdict, MayReport, SetStatus, TypeOK
  <2> QED
    BY <1>1, <1>2, <2>1, <2>2, ListenerKeepsHold DEF Past, Reached, Stopped
<1>5. CASE SapAttach(r, w)
  <2>1. CASE UNCHANGED held
    BY <1>1, <1>2, <1>5, <2>1, ListenerKeepsHold DEF SapAttach, Past
  <2>2. CASE ~ UNCHANGED held
    BY <1>1, <1>2, <1>5, <2>2, AttachReleases DEF SapAttach
  <2> QED
    BY <2>1, <2>2
<1>6. CASE AttachReturns(r, w)
  <2>1. listener[r][w] \in {"attached", "failed"} /\ UNCHANGED held
    BY <1>6 DEF AttachReturns
  <2>2. PICK pc : /\ SetListener(r, w, pc)
                  /\ listener[r][w] = "attached" =>
                       pc = "late" \/ status'[r] = "attached"
    BY <1>6 DEF AttachReturns, LateAnswer, SetStatus, TypeOK
  <2>3. /\ \A q \in Runs : q # r => status'[q] = status[q]
        /\ \/ status'[r] = status[r]
           \/ status[r] = "attaching" /\ status'[r] # "none"
    BY <1>6 DEF AttachReturns, SetStatus, TypeOK
  <2> QED
    BY <1>1, <1>2, <2>1, <2>2, <2>3, ListenerKeepsHold
    DEF Past, Reached, Stopped
<1>7. CASE LateDetach(r, w)
  <2>1. /\ listener[r][w] = "late" /\ SetListener(r, w, "closing")
        /\ held' = [held EXCEPT ![sess[r]] = 0] /\ UNCHANGED status
    BY <1>7 DEF LateDetach, SapDetaches
  <2>2. /\ \A s \in Sessions : held'[s] \in {0, held[s]}
        /\ held'[sess[r]] # r
    BY <2>1, ConstantFacts DEF TypeOK
  <2> QED
    BY <1>1, <1>2, <2>1, <2>2, ListenerKeepsHold DEF Past
<1>8. ~ AttachGivenUp(r, w) /\ ~ LateDetachGivenUp(r, w)
  BY DEF AttachGivenUp, LateDetachGivenUp, GivesUp
<1> QED
  BY <1>3, <1>4, <1>5, <1>6, <1>7, <1>8 DEF ListenerStep

\* When no deadline expires no request is given up, so SAP executes none late.
NothingLeft == \A r \in Runs, q \in Requests : abandoned[r][q] = 0

LEMMA NothingLeftInvariance == ASSUME ~ Slow PROVE Spec => []NothingLeft
<1>1. Init => NothingLeft
  <2> SUFFICES ASSUME Init PROVE NothingLeft
    OBVIOUS
  <2>1. abandoned = [r \in Runs |-> [q \in Requests |-> 0]]
    BY DEF Init
  <2> QED
    BY <2>1 DEF NothingLeft
<1>2. NothingLeft /\ [Next]_vars => NothingLeft'
  <2> SUFFICES ASSUME NothingLeft, [Next]_vars PROVE UNCHANGED abandoned
    BY DEF NothingLeft
  <2>1. ASSUME NEW r \in Runs, NEW q \in Requests
        PROVE  ~ GivesUp(r, q) /\ ~ AbandonedRuns(r, q)
    BY <2>1 DEF GivesUp, AbandonedRuns, NothingLeft
  <2>2. CASE \/ \E op \in {"launch", "stop"} : Begin(op)
             \/ CleanupStep \/ DropSession \/ LaunchFails
             \/ \E k \in Kinds : Publish(k)
    BY <2>2
    DEF Begin, CleanupStep, StopExternal, CancelRun, ListenerExited, Join,
        CleanupDetach, CleanupDetachGivenUp, GivesUp, CleanupFinish,
        DropSession, LaunchFails, Publish
  <2>3. CASE \E r \in Runs, w \in Windows : ListenerStep(r, w)
    BY <2>3
    DEF ListenerStep, PollOpens, PollEnds, PollCancelled, Verdict, SapAttach,
        AttachGivenUp, GivesUp, AttachReturns, LateDetach, LateDetachGivenUp,
        ListenerCloses
  <2>4. CASE \E r \in Runs : \/ TriggerStep(r) \/ AbandonedStep(r)
                              \/ IdleStep(r) \/ RearmBegins(r)
    BY <2>1, <2>4
    DEF TriggerStep, TriggerStarts, TriggerSkipped, TriggerReturns, QuietStop,
        AbandonedStep, AbandonedDetach, AbandonedAttach, Requests, IdleStep,
        TimerFires, StaleCallback, IdleBegins, RearmBegins
  <2>5. CASE IdleLockStep \/ RearmStep
    BY <2>5
    DEF IdleLockStep, IdleDetach, IdleDetachGivenUp, GivesUp, IdleEnds,
        RearmStep, RearmGoes, RearmRefused
  <2>6. CASE \/ \E c \in Callers :
                  \/ \E request \in {"look", "move", "detach"} :
                       CallBegins(c, request)
                  \/ CallStep(c)
             \/ \E s \in Sessions : DebuggeeEnds(s)
    BY <2>6
    DEF CallBegins, CallStep, CallServed, CallReports, CallEnds, DebuggeeEnds
  <2>7. CASE UNCHANGED vars
    BY <2>7 DEF vars
  <2> QED
    BY <2>2, <2>3, <2>4, <2>5, <2>6, <2>7 DEF Next
<1> QED
  BY <1>1, <1>2, PTL DEF Spec

\* The triggers, the idle limit and the rearm.
LEMMA IdleReleases ==
  ASSUME ~ Slow, ~ Lossy, NothingLeft,
         TypeOK, RunInv, CountInv, IdleOK, ListenerInv, ReleaseInv,
         \/ \E r \in Runs : \/ TriggerStep(r) \/ AbandonedStep(r)
                            \/ IdleStep(r) \/ RearmBegins(r)
         \/ IdleLockStep \/ RearmRefused
  PROVE  ReleaseInv'
<1> USE DEF lockVars, runVars, goVars, idleVars, callVars, sapVars
<1>1. ASSUME NEW r \in Runs, TriggerStep(r) \/ AbandonedStep(r)
      PROVE  ReleaseInv'
  <2>0. TriggerStep(r)
    BY <1>1
    DEF AbandonedStep, AbandonedDetach, AbandonedAttach, AbandonedRuns,
        NothingLeft, Requests
  <2>1. /\ UNCHANGED <<startMu, phase, target, wasAttached, sess, listener,
                       window, callRun, callPc, detaching>>
        /\ \/ UNCHANGED status
           \/ SetStatus(r, "ended") /\ status[r] = "listening"
        /\ UNCHANGED held
    BY <2>0
    DEF TriggerStep, TriggerStarts, TriggerSkipped, TriggerReturns, QuietStop,
        NoHit
  <2>2. \A s \in Sessions : held'[s] \in {0, held[s]}
    BY <2>1 DEF TypeOK
  <2>3. \A q \in Runs : \/ status'[q] = status[q]
                        \/ status[q] = "listening" /\ status'[q] = "ended"
    BY <2>1 DEF SetStatus, TypeOK
  <2>4. \A q \in Runs : Holding(q) => Holding(q)'
    BY <2>1, <2>3 DEF Holding, Here
  <2> QED
    BY <2>1, <2>2, <2>3, <2>4, QuietRelease DEF Reached, Stopped
<1>2. ASSUME NEW r \in Runs,
             \/ TimerFires(r) \/ StaleCallback(r) \/ RearmBegins(r)
             \/ IdleBegins(r) /\ ~ MayDetachIdle(r)
      PROVE  ReleaseInv'
  <2>1. /\ UNCHANGED <<status, sess, listener, window, callRun, callPc, held>>
        /\ \/ UNCHANGED <<startMu, phase, target, wasAttached, detaching>>
           \/ startMu = "free" /\ startMu' # "idle"
    BY <1>2 DEF TimerFires, StaleCallback, RearmBegins, IdleBegins
  <2>2. \A q \in Runs : Holding(q) => Holding(q)'
    BY <2>1 DEF Holding, Here
  <2> QED
    BY <2>1, <2>2, QuietRelease
<1>3. ASSUME NEW r \in Runs, IdleBegins(r), MayDetachIdle(r)
      PROVE  ReleaseInv'
  <2>1. /\ UNCHANGED <<status, sess, listener, window, callRun, callPc, held>>
        /\ startMu = "free" /\ phase' = "detach" /\ target' = r
        /\ detaching' = [detaching EXCEPT ![r] = TRUE]
        /\ Here(r) \in Past
    BY <1>3 DEF IdleBegins, MayDetachIdle, ListenerInv, Here
  <2>2. detaching'[r]
    BY <2>1 DEF TypeOK
  <2>3. \A q \in Runs : Holding(q) => Holding(q)'
    BY <2>1 DEF Holding, Here
  <2>4. HoldInv'
    BY <2>1, <2>3, QuietHold DEF ReleaseInv
  <2>5. IdleInv'
    BY <2>1, <2>2 DEF IdleInv, Here
  <2>6. \A c \in Callers : ServedOK(c)'
    BY <2>1 DEF ReleaseInv, ServedOK, Here
  <2> QED
    BY <2>4, <2>5, <2>6 DEF ReleaseInv
<1>4. CASE IdleDetach
  <2>1. /\ UNCHANGED <<startMu, target, wasAttached, status, sess, listener,
                       window, callRun, callPc, detaching>>
        /\ startMu = "idle"
        /\ held' = [held EXCEPT ![sess[target]] = 0]
    BY <1>4 DEF IdleDetach, SapDetaches
  <2>2. /\ target \in Runs /\ detaching[target] /\ Here(target) \in Past
    BY <2>1 DEF ReleaseInv, IdleInv
  <2>3. /\ \A s \in Sessions : held'[s] \in {0, held[s]}
        /\ held'[sess[target]] = 0 /\ target # 0
    BY <2>1, <2>2, ConstantFacts DEF TypeOK
  <2>4. \A q \in Runs : Holding(q) => Holding(q)'
    BY <2>1 DEF Holding, Here
  <2>5. HoldInv'
    BY <2>1, <2>3, <2>4, QuietHold DEF ReleaseInv
  <2>6. IdleInv'
    BY <2>1, <2>2, <2>3 DEF IdleInv, Here
  <2>7. ASSUME NEW c \in Callers PROVE ServedOK(c)'
    <3>1. /\ listener'[callRun[c]][window'[callRun[c]]] = Here(callRun[c])
          /\ status'[callRun[c]] = status[callRun[c]]
          /\ callPc'[c] = callPc[c] /\ callRun'[c] = callRun[c]
      BY <2>1 DEF Here
    <3>2. ServedOK(c)
      BY DEF ReleaseInv
    <3> QED
      BY <2>1, <2>3, <3>1, <3>2, QuietServed
  <2> QED
    BY <2>5, <2>6, <2>7 DEF ReleaseInv
<1>5. CASE IdleEnds
  <2>1. /\ UNCHANGED <<sess, listener, window, callRun, callPc, held>>
        /\ startMu = "idle" /\ startMu' = "free" /\ phase = "finish"
        /\ \/ UNCHANGED status
           \/ status' = [status EXCEPT ![target] = "ended"]
    BY <1>5 DEF IdleEnds, SetStatus
  <2>2. /\ target \in Runs /\ detaching[target]
        /\ held[sess[target]] # target
    BY <2>1 DEF ReleaseInv, IdleInv
  <2>3. \A q \in Runs : /\ q # target => status'[q] = status[q]
                        /\ status[q] # "none" => status'[q] # "none"
    BY <2>1 DEF TypeOK
  <2>4. \A q \in Runs : held'[sess[q]] = q /\ Holding(q) => Holding(q)'
    BY <2>1, <2>2, <2>3 DEF Holding, Here
  <2>5. HoldInv'
    BY <2>1, <2>3, <2>4, QuietHold DEF ReleaseInv
  <2>6. IdleInv'
    BY <2>1 DEF IdleInv
  <2>7. ASSUME NEW c \in Callers PROVE ServedOK(c)'
    <3>1. callPc[c] \in Served => callRun[c] \in Runs /\ callRun[c] # target
      BY <2>2, CallCounted DEF Served, IdleOK, IdleSparesCalls
    <3>2. callPc[c] \in Served => status'[callRun[c]] = status[callRun[c]]
      BY <2>3, <3>1
    <3>3. callPc[c] \in Served =>
            listener'[callRun[c]][window'[callRun[c]]] = Here(callRun[c])
      BY <2>1 DEF Here
    <3>4. ServedOK(c)
      BY DEF ReleaseInv
    <3>5. \A s \in Sessions : held'[s] \in {0, held[s]}
      BY <2>1
    <3>6. callPc'[c] = callPc[c] /\ callRun'[c] = callRun[c]
      BY <2>1
    <3> QED
      BY <2>1, <3>2, <3>3, <3>4, <3>5, <3>6, QuietServed
  <2> QED
    BY <2>5, <2>6, <2>7 DEF ReleaseInv
<1>6. CASE RearmRefused
  <2>1. /\ UNCHANGED <<status, sess, listener, window, callRun, callPc, held>>
        /\ startMu = "rearm" /\ startMu' # "idle"
    BY <1>6 DEF RearmRefused
  <2>2. \A q \in Runs : Holding(q) => Holding(q)'
    BY <2>1 DEF Holding, Here
  <2> QED
    BY <2>1, <2>2, QuietRelease
<1> QED
  BY <1>1, <1>2, <1>3, <1>4, <1>5, <1>6
  DEF IdleStep, IdleLockStep, IdleDetachGivenUp, GivesUp

\* A new window starts for a run that holds nothing and serves no call.
LEMMA RearmReleases ==
  ASSUME AttachesOnce, TypeOK, RunInv, CountInv, ReleaseInv, RearmGoes
  PROVE  ReleaseInv'
<1> USE DEF callVars, sapVars
<1>1. CASE target \in Runs /\ MayRearm(target)
  <2>1. PICK r \in Runs : r = target
    BY <1>1
  <2>2. MaxWindows # 1
    <3>1. window[r] \in Windows /\ window[r] < MaxWindows
      BY <2>1 DEF RearmGoes, TypeOK
    <3> QED
      BY <3>1, ConstantFacts DEF Windows
  <2>3. /\ status' = [status EXCEPT ![r] = "listening"]
        /\ window' = [window EXCEPT ![r] = window[r] + 1]
        /\ listener' = [listener EXCEPT ![r][window[r] + 1] = "start"]
        /\ startMu = "rearm" /\ startMu' = "free"
        /\ UNCHANGED <<sess, callRun, callPc, held>>
        /\ status[r] \in {"timeout", "ended"} /\ Here(r) = "done"
    BY <1>1, <2>1
    DEF RearmGoes, StartWindow, SetStatus, AwaitedDone, MayRearm, Here
  <2>4. \A q \in Runs : /\ q # r => /\ status'[q] = status[q]
                                    /\ Here(q)' = Here(q)
                        /\ status[q] # "none" => status'[q] # "none"
    BY <2>3 DEF TypeOK, Here
  <2>5. held[sess[r]] # r
    BY <2>3 DEF ReleaseInv, HoldInv, Holding
  <2>6. \A q \in Runs : held'[sess[q]] = q /\ Holding(q) => Holding(q)'
    BY <2>3, <2>4, <2>5 DEF Holding
  <2>7. HoldInv'
    BY <2>3, <2>4, <2>6, QuietHold DEF ReleaseInv
  <2>8. IdleInv'
    BY <2>3 DEF IdleInv
  <2>9. ASSUME NEW c \in Callers PROVE ServedOK(c)'
    <3>1. SUFFICES ASSUME callPc[c] \in Served PROVE ServedOK(c)'
      BY <2>3 DEF ServedOK
    <3>2. ServedOK(c) /\ callRun[c] \in Runs
      BY <3>1, CallCounted DEF ReleaseInv, Served
    <3>3. callRun[c] # r
      BY <2>2, <2>3, <3>1, <3>2 DEF ServedOK, Reached, Stopped
    <3>4. /\ Here(callRun[c])' = Here(callRun[c])
          /\ status'[callRun[c]] = status[callRun[c]]
      BY <2>3, <2>4, <3>2, <3>3 DEF Here
    <3> QED
      BY <2>3, <3>1, <3>2, <3>4 DEF ServedOK
  <2> QED
    BY <2>7, <2>8, <2>9 DEF ReleaseInv
<1>2. CASE ~(target \in Runs /\ MayRearm(target))
  <2>1. UNCHANGED <<status, window, listener>>
    <3>1. CASE ~ MayRearm(target)
      BY <3>1 DEF RearmGoes
    <3>2. CASE target \notin Runs /\ MayRearm(target)
      <4>1. /\ status' = [status EXCEPT ![target] = "listening"]
            /\ window' = [window EXCEPT ![target] = window[target] + 1]
            /\ listener' =
                 [listener EXCEPT ![target][window[target] + 1] = "start"]
        BY <3>2 DEF RearmGoes, SetStatus, StartWindow
      <4> QED
        BY <3>2, <4>1 DEF TypeOK
    <3> QED
      BY <1>2, <3>1, <3>2
  <2>2. /\ UNCHANGED <<sess, callRun, callPc, held>>
        /\ startMu = "rearm" /\ startMu' # "idle"
    BY DEF RearmGoes
  <2>3. \A q \in Runs : Holding(q) => Holding(q)'
    BY <2>1, <2>2 DEF Holding, Here
  <2> QED
    BY <2>1, <2>2, <2>3, QuietRelease
<1> QED
  BY <1>1, <1>2

\* The in-attempt calls, and a debuggee that ends by itself.
LEMMA CallReleases ==
  ASSUME AttachesOnce, ~ Lossy,
         TypeOK, RunInv, CountInv, ListenerInv, ReleaseInv,
         \/ \E c \in Callers :
              \/ \E request \in {"look", "move", "detach"} :
                   CallBegins(c, request)
              \/ CallStep(c)
         \/ \E s \in Sessions : DebuggeeEnds(s)
  PROVE  ReleaseInv'
<1> USE DEF lockVars, runVars, goVars, idleVars, callVars, sapVars
<1>1. ASSUME NEW c \in Callers, NEW request \in {"look", "move", "detach"},
             CallBegins(c, request)
      PROVE  ReleaseInv'
  <2>1. /\ UNCHANGED <<lockVars, status, sess, listener, window, detaching,
                       held>>
        /\ callPc' = [callPc EXCEPT ![c] = request]
        /\ callRun' = [callRun EXCEPT ![c] = run]
        /\ run # 0 /\ status[run] = "attached"
    BY <1>1 DEF CallBegins, MayCall
  <2>2. HoldInv' /\ IdleInv'
    BY <2>1 DEF ReleaseInv, HoldInv, IdleInv, Holding, Here
  <2>3. run \in Runs
    BY <2>1, ConstantFacts DEF TypeOK, Runs
  <2>4. Here(run) \in Past
    BY <2>1, <2>3 DEF ListenerInv, Here
  <2>5. ASSUME NEW d \in Callers PROVE ServedOK(d)'
    <3>1. CASE d = c
      <4>1. callPc'[d] = request /\ callRun'[d] = run
        BY <2>1, <3>1 DEF TypeOK
      <4> QED
        BY <2>1, <2>4, <4>1 DEF ServedOK, Reached, Here
    <3>2. CASE d # c
      <4>1. callPc'[d] = callPc[d] /\ callRun'[d] = callRun[d] /\ ServedOK(d)
        BY <2>1, <3>2 DEF TypeOK, ReleaseInv
      <4> QED
        BY <2>1, <4>1 DEF ServedOK, Here
    <3> QED
      BY <3>1, <3>2
  <2> QED
    BY <2>2, <2>5 DEF ReleaseInv
<1>2. ASSUME NEW c \in Callers, CallServed(c) \/ CallEnds(c)
      PROVE  ReleaseInv'
  <2>1. /\ UNCHANGED <<lockVars, status, sess, listener, window, detaching>>
        /\ \A d \in Callers : d # c =>
             callPc'[d] = callPc[d] /\ callRun'[d] = callRun[d]
        /\ callPc[c] # "idle"
    BY <1>2 DEF CallServed, CallEnds, TypeOK
  <2>2. /\ UNCHANGED held \/ held' = [held EXCEPT ![sess[callRun[c]]] = 0]
        /\ callPc'[c] \in Served =>
             /\ callPc[c] \in Served /\ callRun'[c] = callRun[c]
             /\ held' = [held EXCEPT ![sess[callRun[c]]] = 0]
    BY <1>2 DEF CallServed, CallEnds, TypeOK, Served
  <2>3. /\ \A s \in Sessions : held'[s] \in {0, held[s]}
        /\ callPc'[c] \in Served => held'[sess[callRun[c]]] = 0
    BY <2>1, <2>2, CallCounted DEF TypeOK
  <2>4. \A r \in Runs : /\ Holding(r) => Holding(r)'
                        /\ Here(r) \in Past => Here(r)' \in Past
    BY <2>1 DEF Holding, Here
  <2>5. HoldInv' /\ IdleInv'
    BY <2>1, <2>3, <2>4, QuietHold, QuietIdle DEF ReleaseInv
  <2>6. ASSUME NEW d \in Callers PROVE ServedOK(d)'
    <3>1. ServedOK(d)
      BY DEF ReleaseInv
    <3>2. /\ listener'[callRun[d]][window'[callRun[d]]] = Here(callRun[d])
          /\ status'[callRun[d]] = status[callRun[d]]
      BY <2>1 DEF Here
    <3>3. callPc'[d] \in Served =>
            /\ callPc[d] \in Served /\ callRun'[d] = callRun[d]
            /\ callPc'[d] = "gone" =>
                 callPc[d] = "gone" \/ held'[sess[callRun[d]]] = 0
      BY <2>1, <2>2, <2>3
    <3> QED
      BY <2>1, <2>3, <3>1, <3>2, <3>3, QuietServed
  <2> QED
    BY <2>5, <2>6 DEF ReleaseInv
<1>3. ASSUME NEW c \in Callers, CallReports(c) PROVE ReleaseInv'
  <2>1. PICK r \in Runs : r = callRun[c]
    BY <1>3, CallCounted DEF CallReports
  <2>2. /\ UNCHANGED <<lockVars, sess, listener, window, detaching, callRun,
                       held>>
        /\ callPc' = [callPc EXCEPT ![c] = "ending"]
        /\ UNCHANGED status \/ status' = [status EXCEPT ![r] = "ended"]
    BY <1>3, <2>1 DEF CallReports, SetStatus
  <2>3. held[sess[r]] # r
    BY <1>3, <2>1 DEF CallReports, ReleaseInv, ServedOK, Served
  <2>4. \A q \in Runs : /\ q # r => status'[q] = status[q]
                        /\ status[q] # "none" => status'[q] # "none"
    BY <2>2 DEF TypeOK
  <2>5. \A q \in Runs : held'[sess[q]] = q /\ Holding(q) => Holding(q)'
    BY <2>2, <2>3, <2>4 DEF Holding, Here
  <2>6. HoldInv' /\ IdleInv'
    <3>1. \A s \in Sessions : held'[s] \in {0, held[s]}
      BY <2>2
    <3>2. \A q \in Runs : Here(q) \in Past => Here(q)' \in Past
      BY <2>2 DEF Here
    <3> QED
      BY <2>2, <2>4, <2>5, <3>1, <3>2, QuietHold, QuietIdle DEF ReleaseInv
  <2>7. ASSUME NEW d \in Callers PROVE ServedOK(d)'
    <3>1. SUFFICES ASSUME callPc'[d] \in Served PROVE ServedOK(d)'
      BY DEF ServedOK
    <3>2. d # c
      BY <2>2, <3>1 DEF TypeOK, Served
    <3>3. MaxWindows = 1
      BY <3>2 DEF AttachesOnce
    <3>4. callPc'[d] = callPc[d] /\ callRun'[d] = callRun[d] /\ ServedOK(d)
      BY <2>2, <3>2 DEF TypeOK, ReleaseInv
    <3> QED
      BY <2>2, <3>1, <3>3, <3>4 DEF ServedOK, Here
  <2> QED
    BY <2>6, <2>7 DEF ReleaseInv
<1>4. ASSUME NEW s \in Sessions, DebuggeeEnds(s) PROVE ReleaseInv'
  <2>1. /\ UNCHANGED <<lockVars, status, sess, listener, window, detaching,
                       callRun, callPc>>
        /\ held' = [held EXCEPT ![s] = 0]
    BY <1>4 DEF DebuggeeEnds
  <2>2. \A t \in Sessions : held'[t] \in {0, held[t]}
    BY <2>1 DEF TypeOK
  <2>3. \A r \in Runs : Holding(r) => Holding(r)'
    BY <2>1 DEF Holding, Here
  <2> QED
    BY <2>1, <2>2, <2>3, QuietRelease
<1> QED
  BY <1>1, <1>2, <1>3, <1>4 DEF CallStep

LEMMA ReleaseInvariance ==
  ASSUME ~ Slow, ~ Lossy, AttachesOnce
  PROVE  Spec => []ReleaseInv
<1>1. Init => ReleaseInv
  <2> SUFFICES ASSUME Init PROVE ReleaseInv
    OBVIOUS
  <2>1. /\ held = [s \in Sessions |-> 0] /\ startMu = "free"
        /\ callPc = [c \in Callers |-> "idle"]
        /\ sess = [r \in Runs |-> r]
    BY DEF Init
  <2> QED
    BY <2>1, ConstantFacts
    DEF ReleaseInv, HoldInv, IdleInv, ServedOK, Served, Sessions
<1>2. IInv /\ ListenerInv /\ NothingLeft /\ ReleaseInv /\ [Next]_vars
        => ReleaseInv'
  <2> SUFFICES ASSUME TypeOK, RunInv, CountInv, IdleOK, ListenerInv,
                      NothingLeft, ReleaseInv, [Next]_vars
               PROVE  ReleaseInv'
    BY DEF IInv
  <2>1. CASE UNCHANGED vars
    <3>1. UNCHANGED <<lockVars, status, sess, listener, window, detaching,
                      callRun, callPc, held>>
      BY <2>1 DEF vars, runVars, goVars, idleVars, callVars, sapVars
    <3>2. \A r \in Runs : Holding(r) => Holding(r)'
      BY <3>1 DEF Holding, Here, lockVars
    <3> QED
      BY <3>1, <3>2, QuietRelease DEF lockVars
  <2>2. CASE Next
    BY <2>2, CleanupReleases, PublishReleases, ListenerReleases, IdleReleases,
       RearmReleases, CallReleases
    DEF Next, RearmStep
  <2> QED
    BY <2>1, <2>2
<1> QED
  BY Invariance, ListenerInvariance, NothingLeftInvariance, <1>1, <1>2, PTL
  DEF Spec

\* A run that is stopped with a clean report holds no debuggee in SAP, when no
\* deadline expires, no request fails, and no second call is still on its way
\* to a run that another call has released and a rearm has listened for again.
THEOREM CleanStopsRelease ==
  ASSUME ~ Slow, ~ Lossy, AttachesOnce
  PROVE  Spec => []CleanStopReleases
<1>1. IInv /\ StopInv /\ ReleaseInv => CleanStopReleases
  <2> SUFFICES ASSUME IInv, StopInv, ReleaseInv, NEW r \in Runs,
                      status[r] = "stopped"
               PROVE  held[sess[r]] # r
    BY DEF CleanStopReleases
  <2>1. Here(r) = "done"
    BY DEF StopInv, ExitDue
  <2>2. ~ (/\ r = target /\ startMu \in {"launch", "stop"}
           /\ phase \in {"cleanup", "detach"})
    BY DEF IInv, RunInv, CleanupInv
  <2>3. ~ Holding(r)
    BY <2>1, <2>2 DEF Holding
  <2> QED
    BY <2>3 DEF ReleaseInv, HoldInv
<1> QED
  BY <1>1, Invariance, StopInvariance, ReleaseInvariance, PTL

\* Under the same conditions a run that reports ended holds no debuggee, however
\* its attachment ended.
THEOREM EndedRunsRelease ==
  ASSUME ~ Slow, ~ Lossy, AttachesOnce
  PROVE  Spec => []EndedReleased
<1>1. IInv /\ AttachInv /\ ReleaseInv => EndedReleased
  <2> SUFFICES ASSUME IInv, AttachInv, ReleaseInv, NEW r \in Runs,
                      status[r] = "ended"
               PROVE  held[sess[r]] # r
    BY DEF EndedReleased
  <2>1. Here(r) \notin {"attached", "late"}
    BY DEF AttachInv, AttachOK, Stopped, Here, IInv, TypeOK
  <2>2. ~ (/\ r = target /\ startMu \in {"launch", "stop"}
           /\ phase \in {"cleanup", "detach"})
    BY DEF IInv, RunInv, CleanupInv
  <2>3. ~ Holding(r)
    BY <2>1, <2>2 DEF Holding
  <2> QED
    BY <2>3 DEF ReleaseInv, HoldInv
<1> QED
  BY <1>1, Invariance, AttachInvariance, ReleaseInvariance, PTL
=============================================================================
