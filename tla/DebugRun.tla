------------------------------ MODULE DebugRun ------------------------------
(***************************************************************************)
(* The debug runs of one server process (tools/debugsession.go,            *)
(* debugrun.go, debugrun_cleanup.go): debug_run, debug_stop, debug_wait's  *)
(* rearm, the in-attempt tools, and the goroutines a run starts: one       *)
(* listener per listening window, an optional trigger, the idle timer and  *)
(* the quiet StopListener.  Each action is one critical section of run.mu, *)
(* one start or end of startMu, or the execution of one request by SAP.    *)
(*                                                                         *)
(* Runs are numbered in the order debug_run creates them.  Two faults are  *)
(* switched by constants: Slow lets the deadlines of the code (10 s, 20 s, *)
(* 30 s) expire before SAP has answered, and SAP executes a request given  *)
(* up that way later or never; Lossy lets SAP's answer be an error whether *)
(* or not SAP did the work.  Breakpoint lists and version numbers are left *)
(* to other modules.                                                       *)
(***************************************************************************)
EXTENDS Naturals, FiniteSets

CONSTANTS MaxRuns,     \* bound: debug_run calls that create a run
          MaxWindows,  \* bound: listening windows of one run (its budget)
          Callers,     \* concurrent in-attempt tool calls
          Kinds,       \* trigger kinds, a subset of AllKinds
          Slow,        \* a deadline may expire before SAP answers
          Lossy        \* a request may be answered with an error

\* "manual" also stands for gui in a build without a triggerer: nothing is
\* started by the server.  "gui" is a build with a DebugTriggerer.
AllKinds == {"manual", "gui", "unit_tests"}

ASSUME DebugRunAssumption ==
  /\ MaxRuns \in Nat /\ MaxWindows \in Nat \ {0}
  /\ IsFiniteSet(Callers)
  /\ Kinds \subseteq AllKinds
  /\ Slow \in BOOLEAN /\ Lossy \in BOOLEAN

VARIABLES
  run,          \* debugSessions.run: the newest run, 0 before the first
  cur,          \* debugSessions.cur: the shared debug session, 0 when dropped
  status,       \* st.Status per run, "none" before it exists
  reason,       \* st.EndReason
  kind,         \* debugRun.kind
  sess,         \* debugRun.sess
  window,       \* the run's current listening window
  startMu,      \* who holds the run-start lock
  phase,        \* how far the holder of startMu is
  target,       \* the run the holder of startMu works on
  wasAttached,  \* cleanupRun's local "attached"
  extDone,      \* cleanup step 2a has returned
  waiting,      \* cleanup step 2b: "cancel", "waiting" or "done"
  listener,     \* the listener goroutine of each run and window
  cancelled,    \* runCtx or the window's context is cancelled
  trigger,      \* the trigger goroutine and st.Trigger.State
  quiet,        \* the stopListenerQuietly goroutine
  timer,        \* the current idle timer: "off", "armed" or "fired"
  stale,        \* a superseded idle callback still waits for startMu
  detaching,    \* debugRun.detaching
  inFlight,     \* debugRun.inFlight
  callRun,      \* the run an in-attempt call was admitted to
  callPc,       \* where that call is
  report,       \* what the last cleanup of each run reported
  abandoned,    \* requests given up at a deadline that SAP may yet execute
  sapListener,  \* the run whose listener SAP has registered, 0 for none
  held          \* per debug session, the run whose debuggee it holds, 0 none

lockVars == <<startMu, phase, target, wasAttached, extDone, waiting>>
runVars  == <<run, cur, status, reason, kind, sess, window>>
goVars   == <<listener, cancelled, trigger, quiet>>
idleVars == <<timer, stale, detaching>>
callVars == <<inFlight, callRun, callPc>>
sapVars  == <<sapListener, held>>
vars == <<lockVars, runVars, goVars, idleVars, callVars, sapVars, report,
          abandoned>>

Runs     == 1..MaxRuns
Windows  == 1..MaxWindows
Sessions == Runs

Statuses == {"none", "listening", "attaching", "attached", "ended",
             "timeout", "stopping", "stopped"}
\* "released" stands for detached, completed and terminated: the debuggee
\* left by an in-attempt call.
Reasons  == {"", "released", "no_hit", "attach_failed", "idle_detached"}
Holders  == {"free", "launch", "stop", "idle", "rearm"}
Phases   == {"-", "cleanup", "detach", "finish", "set", "drop",
             "wait"}
\* "start" and "poll": StartListener in flight, before and after SAP has
\* registered it.  "hit", "none", "error": its answer.  "attach": Attach in
\* flight; "attached", "failed": its answer.  "late": detachLate in flight.
ListenerPcs == {"off", "start", "poll", "hit", "none", "error", "attach",
                "attached", "failed", "late", "closing", "done"}
TriggerPcs == {"none", "pending", "running", "done", "failed", "skipped"}
\* "look", "move", "detach": the request is in flight.  "ok": answered with no
\* change of the run; "gone": answered that the debuggee left; "ending": the
\* run state is updated, endCall is due.
CallPcs == {"idle", "look", "move", "detach", "ok", "gone", "ending"}

\* The requests that count when SAP executes them too late.
Requests == {"attach", "detach"}

TypeOK ==
  /\ run \in 0..MaxRuns /\ cur \in 0..MaxRuns
  /\ status \in [Runs -> Statuses]
  /\ reason \in [Runs -> Reasons]
  /\ kind \in [Runs -> AllKinds]
  /\ sess \in [Runs -> Sessions]
  /\ window \in [Runs -> Windows]
  /\ startMu \in Holders /\ phase \in Phases /\ target \in 0..MaxRuns
  /\ wasAttached \in BOOLEAN /\ extDone \in BOOLEAN
  /\ waiting \in {"cancel", "waiting", "done"}
  /\ listener \in [Runs -> [Windows -> ListenerPcs]]
  /\ cancelled \in [Runs -> BOOLEAN]
  /\ trigger \in [Runs -> TriggerPcs]
  /\ quiet \in [Runs -> BOOLEAN]
  /\ timer \in [Runs -> {"off", "armed", "fired"}]
  /\ stale \in [Runs -> BOOLEAN]
  /\ detaching \in [Runs -> BOOLEAN]
  /\ inFlight \in [Runs -> Nat]
  /\ callRun \in [Callers -> 0..MaxRuns]
  /\ callPc \in [Callers -> CallPcs]
  /\ report \in [Runs -> {"none", "clean", "detach_failed"}]
  /\ abandoned \in [Runs -> [Requests -> Nat]]
  /\ sapListener \in 0..MaxRuns
  /\ held \in [Sessions -> 0..MaxRuns]

Init ==
  /\ run = 0 /\ cur = 0
  /\ status = [r \in Runs |-> "none"]
  /\ reason = [r \in Runs |-> ""]
  /\ kind = [r \in Runs |-> "manual"]
  /\ sess = [r \in Runs |-> r]
  /\ window = [r \in Runs |-> 1]
  /\ startMu = "free" /\ phase = "-" /\ target = 0
  /\ wasAttached = FALSE /\ extDone = FALSE /\ waiting = "done"
  /\ listener = [r \in Runs |-> [w \in Windows |-> "off"]]
  /\ cancelled = [r \in Runs |-> FALSE]
  /\ trigger = [r \in Runs |-> "none"]
  /\ quiet = [r \in Runs |-> FALSE]
  /\ timer = [r \in Runs |-> "off"]
  /\ stale = [r \in Runs |-> FALSE]
  /\ detaching = [r \in Runs |-> FALSE]
  /\ inFlight = [r \in Runs |-> 0]
  /\ callRun = [c \in Callers |-> 0]
  /\ callPc = [c \in Callers |-> "idle"]
  /\ report = [r \in Runs |-> "none"]
  /\ abandoned = [r \in Runs |-> [q \in Requests |-> 0]]
  /\ sapListener = 0
  /\ held = [s \in Sessions |-> 0]
-----------------------------------------------------------------------------
(* Helpers of run.mu's critical sections.  An operator whose name ends in    *)
(* _bug is a wrong version of the definition that follows it; no action uses *)
(* it.  Put in its place, it breaks the property named in PROJECT.json.      *)

Active_bug(r) == status[r] \in {"listening", "attaching", "attached"}

\* debugRun.active, for a run that exists.
Active(r) == status[r] \notin {"none", "stopping", "stopped"}

WasAttached_bug(r) == status[r] \in {"attaching", "attached"}

\* cleanupRun's step 1: whether step 3 is due.
WasAttached(r) == status[r] = "attached"

SetStatus(r, s) == status' = [status EXCEPT ![r] = s]

\* stopIdleLocked: the timer is stopped; a callback that has fired already
\* keeps an outdated generation and does nothing when it gets startMu.
StopIdle(r) ==
  /\ timer' = [timer EXCEPT ![r] = "off"]
  /\ stale' = [stale EXCEPT ![r] = @ \/ timer[r] = "fired"]

\* resetIdleLocked.
ResetIdle(r) ==
  /\ timer' = [timer EXCEPT ![r] = "armed"]
  /\ stale' = [stale EXCEPT ![r] = @ \/ timer[r] = "fired"]

\* startWindowLocked for window w: a new listener goroutine.
StartWindow(r, w) ==
  /\ window' = [window EXCEPT ![r] = w]
  /\ listener' = [listener EXCEPT ![r][w] = "start"]

SetListener(r, w, pc) == listener' = [listener EXCEPT ![r][w] = pc]

\* SAP serialises the requests of one stateful session: while a long poll is
\* open on it, nothing else is served.
Busy(s) == \E r \in Runs, w \in Windows : sess[r] = s /\ listener[r][w] = "poll"

\* SAP executes detachDebugger on session s, whoever's debuggee it holds.
SapDetaches(s) ==
  /\ ~Busy(s)
  /\ \/ held' = [held EXCEPT ![s] = 0]
     \/ Lossy /\ UNCHANGED held

\* The client stops waiting for a request of run r at its deadline.
GivesUp(r, request) ==
  /\ Slow
  /\ abandoned' = [abandoned EXCEPT ![r][request] = @ + 1]

AwaitedDone_bug(r) == listener[r][window[r]] \in {"done", "attach"}

\* The done channel of the run's current window is closed.
AwaitedDone(r) == listener[r][window[r]] = "done"

-----------------------------------------------------------------------------
(* debug_run and debug_stop: launchRun, stop, cleanupRun.                  *)

AfterCleanup_bug(op) ==
  IF \E r \in Runs : r = target /\ report[r] = "detach_failed"
  THEN "finish" ELSE IF op = "launch" THEN "set" ELSE "drop"

\* What launchRun and stop go on with when cleanupRun has returned.
AfterCleanup(op) == IF op = "launch" THEN "set" ELSE "drop"

\* launchRun or stop takes startMu.  cleanupRun's step 1: an active run
\* becomes "stopping" and its idle timer is stopped; a run that was cleaned
\* up before is left alone.
Begin(op) ==
  /\ startMu = "free"
  /\ op = "launch" => run < MaxRuns
  /\ startMu' = op
  /\ target' = run
  /\ IF run # 0 /\ Active(run)
     THEN /\ phase' = "cleanup"
          /\ wasAttached' = WasAttached(run)
          /\ extDone' = FALSE
          /\ waiting' = "cancel"
          /\ SetStatus(run, "stopping")
          /\ StopIdle(run)
     ELSE /\ phase' = AfterCleanup(op)
          /\ UNCHANGED <<wasAttached, extDone, waiting, status, timer, stale>>
  /\ UNCHANGED <<run, cur, reason, kind, sess, window, goVars, detaching,
                 callVars, sapVars, report, abandoned>>

\* Step 2a: stopExternal from the cleanup session.  SAP deregisters whatever
\* listener the user and IDE ID have, unless the cleanup budget ends first;
\* deleting the external breakpoints may end an attachment (the code allows
\* for it in step 3).
StopExternal ==
  /\ phase = "cleanup" /\ ~extDone
  /\ extDone' = TRUE
  /\ \/ sapListener' = 0
     \/ (Lossy \/ Slow) /\ UNCHANGED sapListener
  /\ \/ held' = [held EXCEPT ![sess[target]] = 0]
     \/ UNCHANGED held
  /\ UNCHANGED <<startMu, phase, target, wasAttached, waiting, runVars, goVars,
                 idleVars, callVars, report, abandoned>>

\* Step 2b: awaitListenerExit cancels the run context ...
CancelRun ==
  /\ phase = "cleanup" /\ waiting = "cancel"
  /\ waiting' = "waiting"
  /\ cancelled' = [cancelled EXCEPT ![target] = TRUE]
  /\ UNCHANGED <<startMu, phase, target, wasAttached, extDone, runVars,
                 listener, trigger, quiet, idleVars, callVars, sapVars, report,
                 abandoned>>

\* ... and waits for the listener goroutine, at most listenerExitWait.
ListenerExited ==
  /\ phase = "cleanup" /\ waiting = "waiting"
  /\ AwaitedDone(target) \/ Slow
  /\ waiting' = "done"
  /\ UNCHANGED <<startMu, phase, target, wasAttached, extDone, runVars, goVars,
                 idleVars, callVars, sapVars, report, abandoned>>

\* wg.Wait(): both halves of step 2 are done.  Step 3 only if the run was
\* attached at step 1.
Join ==
  /\ phase = "cleanup" /\ extDone /\ waiting = "done"
  /\ phase' = IF wasAttached THEN "detach" ELSE "finish"
  /\ UNCHANGED <<startMu, target, wasAttached, extDone, waiting, runVars, goVars,
                 idleVars, callVars, sapVars, report, abandoned>>

\* Step 3: detachWithin; SAP executes detachDebugger on the run's session.
CleanupDetach ==
  /\ startMu \in {"launch", "stop"} /\ phase = "detach"
  /\ ~Busy(sess[target])
  /\ phase' = "finish"
  /\ \/ /\ held' = [held EXCEPT ![sess[target]] = 0]
        /\ UNCHANGED report
     \/ /\ Lossy
        /\ report' = [report EXCEPT ![target] = "detach_failed"]
        /\ UNCHANGED held
  /\ UNCHANGED <<startMu, target, wasAttached, extDone, waiting, runVars, goVars,
                 idleVars, callVars, sapListener, abandoned>>

\* Step 3 when the cleanup budget ends first: the request is abandoned and may
\* still be executed.
CleanupDetachGivenUp ==
  /\ startMu \in {"launch", "stop"} /\ phase = "detach"
  /\ GivesUp(target, "detach")
  /\ phase' = "finish"
  /\ report' = [report EXCEPT ![target] = "detach_failed"]
  /\ UNCHANGED <<startMu, target, wasAttached, extDone, waiting, runVars, goVars,
                 idleVars, callVars, sapVars>>

\* Step 5: stopped.
CleanupFinish ==
  /\ startMu \in {"launch", "stop"} /\ phase = "finish"
  /\ phase' = AfterCleanup(startMu)
  /\ SetStatus(target, "stopped")
  /\ report' = [report EXCEPT ![target] = IF @ = "none" THEN "clean" ELSE @]
  /\ UNCHANGED <<startMu, target, wasAttached, extDone, waiting, run, cur,
                 reason, kind, sess, window, goVars, idleVars, callVars,
                 sapVars, abandoned>>

\* The end of stop: the session is dropped, the run stays readable.
DropSession ==
  /\ startMu = "stop" /\ phase = "drop"
  /\ cur' = 0
  /\ startMu' = "free" /\ phase' = "-" /\ target' = 0
  /\ UNCHANGED <<wasAttached, extDone, waiting, run, status, reason, kind, sess,
                 window, goVars, idleVars, callVars, sapVars, report,
                 abandoned>>

OpenSession_bug == cur

\* open's result: the current session is reused, or a new one is created.
OpenSession == IF cur = 0 THEN run + 1 ELSE cur

\* The rest of launchRun when every breakpoint was set: publish the new run,
\* start its first window and its trigger.
Publish(k) ==
  /\ startMu = "launch" /\ phase = "set"
  /\ ~Busy(OpenSession)
  /\ run' = run + 1
  /\ cur' = OpenSession
  /\ sess' = [sess EXCEPT ![run + 1] = OpenSession]
  /\ kind' = [kind EXCEPT ![run + 1] = k]
  /\ SetStatus(run + 1, "listening")
  /\ StartWindow(run + 1, 1)
  /\ trigger' = [trigger EXCEPT ![run + 1] =
                   IF k = "manual" THEN "none" ELSE "pending"]
  /\ startMu' = "free" /\ phase' = "-" /\ target' = 0
  /\ UNCHANGED <<wasAttached, extDone, waiting, reason, cancelled, quiet,
                 idleVars, callVars, sapVars, report, abandoned>>

\* launchRun when setExternal failed: the session stays, no run is created.
LaunchFails ==
  /\ startMu = "launch" /\ phase = "set"
  /\ cur' = OpenSession
  /\ startMu' = "free" /\ phase' = "-" /\ target' = 0
  /\ UNCHANGED <<wasAttached, extDone, waiting, run, status, reason, kind, sess,
                 window, goVars, idleVars, callVars, sapVars, report,
                 abandoned>>
-----------------------------------------------------------------------------
(* The listener goroutine: listen, attach, detachLate.                     *)

\* SAP registers the listener; the user has one per IDE ID.
PollOpens(r, w) ==
  /\ listener[r][w] = "start" /\ ~cancelled[r]
  /\ ~Busy(sess[r])
  /\ SetListener(r, w, "poll")
  /\ sapListener' = r
  /\ UNCHANGED <<lockVars, runVars, cancelled, trigger, quiet, idleVars,
                 callVars, held, report, abandoned>>

\* The poll ends: a caught debuggee (only while registered), the end of the
\* window or a StopListener, or an error.
PollEnds(r, w) ==
  /\ listener[r][w] = "poll"
  /\ \/ /\ sapListener = r
        /\ sapListener' = 0
        /\ \E answer \in {"hit", "none"} : SetListener(r, w, answer)
     \/ /\ sapListener # r
        /\ SetListener(r, w, "none")
        /\ UNCHANGED sapListener
     \/ /\ SetListener(r, w, "error")
        /\ UNCHANGED sapListener
  /\ UNCHANGED <<lockVars, runVars, cancelled, trigger, quiet, idleVars,
                 callVars, held, report, abandoned>>

\* The context is cancelled: the client gives the request up.
PollCancelled(r, w) ==
  /\ listener[r][w] \in {"start", "poll"} /\ cancelled[r]
  /\ SetListener(r, w, "error")
  /\ UNCHANGED <<lockVars, runVars, cancelled, trigger, quiet, idleVars,
                 callVars, sapVars, report, abandoned>>

MayReport_bug(r) == ~cancelled[r]

\* listen reports nothing after a cancel, or when cleanup or the trigger has
\* moved the run on.
MayReport(r) == ~cancelled[r] /\ status[r] = "listening"

\* What listen does with the answer.
Verdict(r, w) ==
  /\ listener[r][w] \in {"hit", "none", "error"}
  /\ IF ~MayReport(r)
     THEN SetListener(r, w, "closing") /\ UNCHANGED status
     ELSE IF listener[r][w] = "hit"
     THEN SetListener(r, w, "attach") /\ SetStatus(r, "attaching")
     ELSE SetListener(r, w, "closing") /\ SetStatus(r, "timeout")
  /\ UNCHANGED <<lockVars, run, cur, reason, kind, sess, window, cancelled,
                 trigger, quiet, idleVars, callVars, sapVars, report,
                 abandoned>>

\* SAP executes Attach, or refuses it; with Lossy the call may fail although
\* SAP attached.
SapAttach(r, w) ==
  /\ listener[r][w] = "attach"
  /\ ~Busy(sess[r])
  /\ \/ /\ held[sess[r]] = 0
        /\ held' = [held EXCEPT ![sess[r]] = r]
        /\ \/ SetListener(r, w, "attached")
           \/ Lossy /\ SetListener(r, w, "failed")
     \/ SetListener(r, w, "failed") /\ UNCHANGED held
  /\ UNCHANGED <<lockVars, runVars, cancelled, trigger, quiet, idleVars,
                 callVars, sapListener, report, abandoned>>

\* attachTimeout ends before SAP has answered.
AttachGivenUp(r, w) ==
  /\ listener[r][w] = "attach"
  /\ GivesUp(r, "attach")
  /\ SetListener(r, w, "failed")
  /\ UNCHANGED <<lockVars, runVars, cancelled, trigger, quiet, idleVars,
                 callVars, sapVars, report>>

LateAnswer_bug(pc) == "closing"

\* The end of an attach that cleanup has overtaken.
LateAnswer(pc) == IF pc = "attached" THEN "late" ELSE "closing"

\* The end of attach: the run is attached or ended, unless cleanup started
\* meanwhile; then a completed attach is detached by this goroutine.
AttachReturns(r, w) ==
  /\ listener[r][w] \in {"attached", "failed"}
  /\ \/ /\ status[r] # "attaching"
        /\ SetListener(r, w, LateAnswer(listener[r][w]))
        /\ UNCHANGED <<status, reason, timer, stale>>
     \/ /\ status[r] = "attaching" /\ listener[r][w] = "failed"
        /\ SetListener(r, w, "closing")
        /\ SetStatus(r, "ended")
        /\ reason' = [reason EXCEPT ![r] = "attach_failed"]
        /\ UNCHANGED <<timer, stale>>
     \/ /\ status[r] = "attaching" /\ listener[r][w] = "attached"
        /\ SetListener(r, w, "closing")
        /\ SetStatus(r, "attached")
        /\ ResetIdle(r)
        /\ UNCHANGED reason
  /\ UNCHANGED <<lockVars, run, cur, kind, sess, window, cancelled, trigger,
                 quiet, detaching, callVars, sapVars, report, abandoned>>

\* SAP executes detachLate's detachDebugger; its error is dropped.
LateDetach(r, w) ==
  /\ listener[r][w] = "late"
  /\ SapDetaches(sess[r])
  /\ SetListener(r, w, "closing")
  /\ UNCHANGED <<lockVars, runVars, cancelled, trigger, quiet, idleVars,
                 callVars, sapListener, report, abandoned>>

\* attachTimeout ends detachLate as well.
LateDetachGivenUp(r, w) ==
  /\ listener[r][w] = "late"
  /\ GivesUp(r, "detach")
  /\ SetListener(r, w, "closing")
  /\ UNCHANGED <<lockVars, runVars, cancelled, trigger, quiet, idleVars,
                 callVars, sapVars, report>>

\* The deferred close(done).
ListenerCloses(r, w) ==
  /\ listener[r][w] = "closing"
  /\ SetListener(r, w, "done")
  /\ UNCHANGED <<lockVars, runVars, cancelled, trigger, quiet, idleVars,
                 callVars, sapVars, report, abandoned>>

\* SAP executes a request after all that the client has given up.  It may as
\* well never do so.
AbandonedRuns(r, request) ==
  /\ abandoned[r][request] > 0
  /\ abandoned' = [abandoned EXCEPT ![r][request] = @ - 1]
  /\ UNCHANGED <<lockVars, runVars, goVars, idleVars, callVars, sapListener,
                 report>>

AbandonedDetach(r) == AbandonedRuns(r, "detach") /\ SapDetaches(sess[r])

AbandonedAttach(r) ==
  /\ AbandonedRuns(r, "attach")
  /\ ~Busy(sess[r]) /\ held[sess[r]] = 0
  /\ held' = [held EXCEPT ![sess[r]] = r]

\* The debuggee runs to its end or is killed in SAP.
DebuggeeEnds(s) ==
  /\ held[s] # 0
  /\ held' = [held EXCEPT ![s] = 0]
  /\ UNCHANGED <<lockVars, runVars, goVars, idleVars, callVars, sapListener,
                 report, abandoned>>
-----------------------------------------------------------------------------
(* The trigger goroutine: runTrigger, stopListenerQuietly.                 *)

\* triggerDelay is over.  When the run context is cancelled too, Go's select
\* picks either branch.
TriggerStarts(r) ==
  /\ trigger[r] = "pending"
  /\ trigger' = [trigger EXCEPT ![r] = "running"]
  /\ UNCHANGED <<lockVars, runVars, listener, cancelled, quiet, idleVars,
                 callVars, sapVars, report, abandoned>>

TriggerSkipped(r) ==
  /\ trigger[r] = "pending" /\ cancelled[r]
  /\ trigger' = [trigger EXCEPT ![r] = "skipped"]
  /\ UNCHANGED <<lockVars, runVars, listener, cancelled, quiet, idleVars,
                 callVars, sapVars, report, abandoned>>

NoHit_bug(r, ok) == kind[r] = "unit_tests" /\ ok

\* A finished unit-test run that is still listening was not caught.
NoHit(r, ok) == kind[r] = "unit_tests" /\ ok /\ status[r] = "listening"

\* fn returns; without a hit the run ends and the window is cancelled.
TriggerReturns(r, ok) ==
  /\ trigger[r] = "running"
  /\ trigger' = [trigger EXCEPT ![r] = IF ok THEN "done" ELSE "failed"]
  /\ IF NoHit(r, ok)
     THEN /\ SetStatus(r, "ended")
          /\ reason' = [reason EXCEPT ![r] = "no_hit"]
          /\ cancelled' = [cancelled EXCEPT ![r] = TRUE]
          /\ quiet' = [quiet EXCEPT ![r] = TRUE]
     ELSE UNCHANGED <<status, reason, cancelled, quiet>>
  /\ UNCHANGED <<lockVars, run, cur, kind, sess, window, listener, idleVars,
                 callVars, sapVars, report, abandoned>>

\* stopListenerQuietly: SAP deregisters the user's listener for this IDE ID,
\* whichever run it belongs to by then.
QuietStop(r) ==
  /\ quiet[r]
  /\ quiet' = [quiet EXCEPT ![r] = FALSE]
  /\ \/ sapListener' = 0
     \/ (Lossy \/ Slow) /\ UNCHANGED sapListener
  /\ UNCHANGED <<lockVars, runVars, listener, cancelled, trigger, idleVars,
                 callVars, held, report, abandoned>>
-----------------------------------------------------------------------------
(* The idle limit: onIdle.                                                 *)

TimerFires(r) ==
  /\ timer[r] = "armed"
  /\ timer' = [timer EXCEPT ![r] = "fired"]
  /\ UNCHANGED <<lockVars, runVars, goVars, stale, detaching, callVars, sapVars,
                 report, abandoned>>

\* A superseded callback gets startMu and finds another generation.
StaleCallback(r) ==
  /\ startMu = "free" /\ stale[r]
  /\ stale' = [stale EXCEPT ![r] = FALSE]
  /\ UNCHANGED <<lockVars, runVars, goVars, timer, detaching, callVars, sapVars,
                 report, abandoned>>

MayDetachIdle(r) == status[r] = "attached" /\ inFlight[r] = 0

\* The current callback gets startMu and starts the detach, or finds the run
\* not idle any more.
IdleBegins(r) ==
  /\ startMu = "free" /\ timer[r] = "fired"
  /\ timer' = [timer EXCEPT ![r] = "off"]
  /\ IF MayDetachIdle(r)
     THEN /\ startMu' = "idle" /\ phase' = "detach" /\ target' = r
          /\ detaching' = [detaching EXCEPT ![r] = TRUE]
     ELSE UNCHANGED <<startMu, phase, target, detaching>>
  /\ UNCHANGED <<wasAttached, extDone, waiting, runVars, goVars, stale, callVars,
                 sapVars, report, abandoned>>

IdleDetach ==
  /\ startMu = "idle" /\ phase = "detach"
  /\ SapDetaches(sess[target])
  /\ phase' = "finish"
  /\ UNCHANGED <<startMu, target, wasAttached, extDone, waiting, runVars, goVars,
                 idleVars, callVars, sapListener, report, abandoned>>

\* attachTimeout ends first: detachWithin leaves the request behind.
IdleDetachGivenUp ==
  /\ startMu = "idle" /\ phase = "detach"
  /\ GivesUp(target, "detach")
  /\ phase' = "finish"
  /\ UNCHANGED <<startMu, target, wasAttached, extDone, waiting, runVars, goVars,
                 idleVars, callVars, sapVars, report>>

\* The end of onIdle.
IdleEnds ==
  /\ startMu = "idle" /\ phase = "finish"
  /\ startMu' = "free" /\ phase' = "-" /\ target' = 0
  /\ detaching' = [detaching EXCEPT ![target] = FALSE]
  /\ IF status[target] = "attached"
     THEN /\ SetStatus(target, "ended")
          /\ reason' = [reason EXCEPT ![target] = "idle_detached"]
     ELSE UNCHANGED <<status, reason>>
  /\ UNCHANGED <<wasAttached, extDone, waiting, run, cur, kind, sess, window,
                 goVars, timer, stale, callVars, sapVars, report, abandoned>>
-----------------------------------------------------------------------------
(* debug_wait rearm.                                                       *)

MayRearm(r) == status[r] \in {"timeout", "ended"}

\* rearm takes startMu and reads the status; anything else is an early return.
RearmBegins(r) ==
  /\ startMu = "free"
  /\ kind[r] # "unit_tests" /\ MayRearm(r)
  /\ startMu' = "rearm" /\ phase' = "wait" /\ target' = r
  /\ UNCHANGED <<wasAttached, extDone, waiting, runVars, goVars, idleVars,
                 callVars, sapVars, report, abandoned>>

\* The previous listener goroutine has exited and budget is left: the next
\* window starts.
RearmGoes ==
  /\ startMu = "rearm" /\ phase = "wait"
  /\ AwaitedDone(target)
  /\ window[target] < MaxWindows
  /\ startMu' = "free" /\ phase' = "-" /\ target' = 0
  /\ IF MayRearm(target)
     THEN /\ SetStatus(target, "listening")
          /\ reason' = [reason EXCEPT ![target] = ""]
          /\ StartWindow(target, window[target] + 1)
     ELSE UNCHANGED <<status, reason, window, listener>>
  /\ UNCHANGED <<wasAttached, extDone, waiting, run, cur, kind, sess, cancelled,
                 trigger, quiet, idleVars, callVars, sapVars, report,
                 abandoned>>

\* The previous listener still runs after listenerExitWait, or the budget is
\* used up.
RearmRefused ==
  /\ startMu = "rearm" /\ phase = "wait"
  /\ (~AwaitedDone(target) /\ Slow) \/ window[target] = MaxWindows
  /\ startMu' = "free" /\ phase' = "-" /\ target' = 0
  /\ UNCHANGED <<wasAttached, extDone, waiting, runVars, goVars, idleVars,
                 callVars, sapVars, report, abandoned>>
-----------------------------------------------------------------------------
(* The in-attempt tools: beginCall, the request, the transition, endCall.  *)

MayCall_bug(r) == status[r] = "attached"

MayCall(r) == status[r] = "attached" /\ ~detaching[r]

\* attachedRun and beginCall.
CallBegins(c, request) ==
  /\ callPc[c] = "idle"
  /\ run # 0 /\ MayCall(run)
  /\ callPc' = [callPc EXCEPT ![c] = request]
  /\ callRun' = [callRun EXCEPT ![c] = run]
  /\ inFlight' = [inFlight EXCEPT ![run] = @ + 1]
  /\ StopIdle(run)
  /\ UNCHANGED <<lockVars, runVars, goVars, detaching, sapVars, report,
                 abandoned>>

\* SAP answers on the run's session.  A read, a failed step and a step that
\* halts again leave the run as it is ("ok"); "gone" is a debuggee that was
\* detached, terminated or ran to its end, or none being there.
CallServed(c) ==
  LET s == sess[callRun[c]]
      answer(pc) == callPc' = [callPc EXCEPT ![c] = pc]
  IN
  /\ callPc[c] \in {"look", "move", "detach"}
  /\ ~Busy(s)
  /\ \/ /\ callPc[c] = "look" \/ callPc[c] = "move" \/ held[s] = 0 \/ Lossy
        /\ answer("ok") /\ UNCHANGED held
     \/ /\ callPc[c] # "look"
        /\ answer("gone") /\ held' = [held EXCEPT ![s] = 0]
  /\ UNCHANGED <<lockVars, runVars, goVars, idleVars, inFlight, callRun,
                 sapListener, report, abandoned>>

\* debugRun.end, through transitionIfAttached.
CallReports(c) ==
  LET r == callRun[c] IN
  /\ callPc[c] = "gone"
  /\ callPc' = [callPc EXCEPT ![c] = "ending"]
  /\ IF status[r] = "attached"
     THEN SetStatus(r, "ended") /\ reason' = [reason EXCEPT ![r] = "released"]
     ELSE UNCHANGED <<status, reason>>
  /\ UNCHANGED <<lockVars, run, cur, kind, sess, window, goVars, idleVars,
                 inFlight, callRun, sapVars, report, abandoned>>

LastCall_bug(r) == inFlight[r] = 0 /\ status[r] = "attached"

\* endCall's condition, on inFlight before it is decremented.
LastCall(r) == inFlight[r] = 1 /\ status[r] = "attached"

\* endCall: the last call restarts the idle timer of an attached run.
CallEnds(c) ==
  LET r == callRun[c] IN
  /\ callPc[c] \in {"ok", "ending"}
  /\ callPc' = [callPc EXCEPT ![c] = "idle"]
  /\ callRun' = [callRun EXCEPT ![c] = 0]
  /\ inFlight' = [inFlight EXCEPT ![r] = @ - 1]
  /\ IF LastCall(r)
     THEN ResetIdle(r)
     ELSE UNCHANGED <<timer, stale>>
  /\ UNCHANGED <<lockVars, runVars, goVars, detaching, sapVars, report,
                 abandoned>>
-----------------------------------------------------------------------------
CleanupStep ==
  StopExternal \/ CancelRun \/ ListenerExited \/ Join \/ CleanupDetach
    \/ CleanupDetachGivenUp \/ CleanupFinish

ListenerStep(r, w) ==
  PollOpens(r, w) \/ PollEnds(r, w) \/ PollCancelled(r, w) \/ Verdict(r, w)
    \/ SapAttach(r, w) \/ AttachGivenUp(r, w) \/ AttachReturns(r, w)
    \/ LateDetach(r, w) \/ LateDetachGivenUp(r, w) \/ ListenerCloses(r, w)

TriggerStep(r) ==
  TriggerStarts(r) \/ TriggerSkipped(r) \/ QuietStop(r)
    \/ \E ok \in BOOLEAN : TriggerReturns(r, ok)

AbandonedStep(r) == AbandonedDetach(r) \/ AbandonedAttach(r)

IdleStep(r) == TimerFires(r) \/ StaleCallback(r) \/ IdleBegins(r)

IdleLockStep == IdleDetach \/ IdleDetachGivenUp \/ IdleEnds

RearmStep == RearmGoes \/ RearmRefused

CallStep(c) == CallServed(c) \/ CallReports(c) \/ CallEnds(c)

Next ==
  \/ \E op \in {"launch", "stop"} : Begin(op)
  \/ CleanupStep
  \/ DropSession \/ LaunchFails
  \/ \E k \in Kinds : Publish(k)
  \/ \E r \in Runs, w \in Windows : ListenerStep(r, w)
  \/ \E r \in Runs : TriggerStep(r) \/ IdleStep(r) \/ AbandonedStep(r)
  \/ IdleLockStep
  \/ \E r \in Runs : RearmBegins(r)
  \/ RearmStep
  \/ \E c \in Callers :
        \/ \E request \in {"look", "move", "detach"} : CallBegins(c, request)
        \/ CallStep(c)
  \/ \E s \in Sessions : DebuggeeEnds(s)

Spec == Init /\ [][Next]_vars

\* The Go scheduler runs every goroutine, SAP answers every request or its
\* deadline passes, and timers fire.  SAP need not execute a request that was
\* given up, users need not call anything, and a debuggee need not be caught.
Fairness ==
  /\ WF_vars(CleanupStep) /\ WF_vars(DropSession)
  /\ WF_vars(LaunchFails \/ \E k \in Kinds : Publish(k))
  /\ WF_vars(IdleLockStep) /\ WF_vars(RearmStep)
  /\ \A r \in Runs :
       /\ \A w \in Windows : WF_vars(ListenerStep(r, w))
       /\ WF_vars(TriggerStep(r))
       /\ WF_vars(TimerFires(r)) /\ SF_vars(StaleCallback(r))
       /\ SF_vars(IdleBegins(r))
  /\ \A c \in Callers : WF_vars(CallStep(c))

FairSpec == Spec /\ Fairness
-----------------------------------------------------------------------------
(* Properties.                                                             *)

\* debugSessions "holds at most one active run" (design, Ownership and locks):
\* every run but the newest has been cleaned up completely, whatever its
\* goroutines still do.
OneActiveRun == \A r \in Runs : r # run => status[r] \in {"none", "stopped"}

\* onIdle never detaches under an in-attempt call (beginCall and onIdle exclude
\* each other although the timer may fire at any time).
IdleSparesCalls == \A r \in Runs : detaching[r] => inFlight[r] = 0

\* The idle timer's pause is exact: inFlight counts the admitted calls of each
\* run, and an attached run without calls or a detach under way has a timer
\* (so it cannot hold a SAP work process forever).
CallsCounted ==
  \A r \in Runs :
    /\ inFlight[r] = Cardinality({c \in Callers : callRun[c] = r})
    /\ status[r] = "attached" /\ inFlight[r] = 0 /\ ~detaching[r]
         => timer[r] # "off"

\* onIdle "holds the run-start lock across its HTTP call, so it and cleanup
\* never detach twice": of the idle detach, the detach of cleanup and
\* detachLate at most one is under way per run (not counting a request given
\* up at its deadline).  Windows stand for their late detach, 0 for
\* detachWithin.
DetachesOnTheWay(r) ==
  (IF phase = "detach" /\ target = r THEN {0} ELSE {})
    \cup {w \in Windows : listener[r][w] = "late"}
DetachedOnce == \A r \in Runs : Cardinality(DetachesOnTheWay(r)) <= 1

\* debug_stop "detach[es] a halted debuggee" and reports "anything that could
\* not be removed or detached": a run stopped with a clean report holds no
\* debuggee in SAP.
CleanStopReleases ==
  \A r \in Runs :
    status[r] = "stopped" /\ report[r] = "clean" => held[sess[r]] # r

\* "A new run on the same debug session starts only after cleanup has waited
\* for that goroutine" (detachLate): no listener goroutine of an older run is
\* alive next to a newer run on the same session.
NewRunAlone ==
  \A q, r \in Runs :
    q < r /\ status[r] # "none" /\ sess[q] = sess[r] =>
      \A w \in Windows : listener[q][w] \in {"off", "done"}

\* "ended: no debuggee any more" (design): a run that reports ended has no
\* debuggee attached in SAP, however the attachment ended.
EndedReleased ==
  \A r \in Runs : status[r] = "ended" => held[sess[r]] # r

\* The statuses clients see follow RunLifecycle: late attaches, triggers, idle
\* callbacks and calls never move a stopping, stopped or older run.
Lifecycle == INSTANCE RunLifecycle WITH newest <- run, life <- status
LifecycleSpec == Lifecycle!Spec

\* startMu is always released: debug_run, debug_stop, rearm and the idle
\* detach end, whatever the listener and SAP do.
LockReleased == startMu # "free" ~> startMu = "free"

\* "Must not hold a SAP work process indefinitely": an attached run without a
\* call in flight is detached, or a new call comes.
IdleRunEnds ==
  \A r \in Runs :
    status[r] = "attached" ~> (status[r] # "attached" \/ inFlight[r] > 0)

\* A stopped run's debuggee does not stay suspended: an attach that outlasts
\* the cleanup's wait for the listener is detached by the listener goroutine
\* (detachLate).  Runs with a request given up at its own deadline are excepted:
\* SAP may never execute a detach, or execute an attach nobody detaches.
GaveUp(r) == \E request \in Requests : abandoned[r][request] > 0
StoppedLetsGo ==
  \A r \in Runs :
    <>GaveUp(r) \/ (status[r] = "stopped" ~> held[sess[r]] # r)
=============================================================================
