----------------------------- MODULE DebugWaits -----------------------------
(***************************************************************************)
(* Who is told of a run: the versions of the run states, which count across *)
(* all runs of the process, the channel that a change closes, debug_wait,   *)
(* and the wait of debug_run for a run that the server starts itself        *)
(* (transitionLocked, waitUntil, debug_wait in tools/debugrun.go and        *)
(* debugger.go).                                                           *)
(*                                                                         *)
(* A run moves along the arrows of RunLifecycle, and its trigger returns at *)
(* any time, also when the run was stopped long ago.  Other clients start   *)
(* and rearm runs meanwhile.                                               *)
(***************************************************************************)
EXTENDS Naturals, FiniteSets

CONSTANTS Callers,    \* tool calls in flight at a time
          MaxRuns,    \* bound: runs created
          MaxVersion  \* bound: no window is rearmed past this version

ASSUME WaitsAssumption == MaxRuns \in Nat /\ MaxVersion \in Nat

VARIABLES
  run,      \* debugSessions.run: the number of the newest run
  runs,     \* every run
  version,  \* debugSessions.versions
  call      \* the handler each caller is in

vars == <<run, runs, version, call>>
runVars == <<run, runs, version>>

LC == INSTANCE RunLifecycle WITH newest <- run, life <- [r \in 1..MaxRuns |-> runs[r].status]

Statuses == {"listening", "attaching", "attached", "ended", "timeout",
             "stopping", "stopped"}
Run == [status : Statuses \cup {"none"}, trigger : {"none", "pending", "done"},
        version : Nat]
NoRun == [status |-> "none", trigger |-> "none", version |-> 0]

(* A wait: the run it has a pointer to, whether it waits for the run to     *)
(* settle or for a version past since, and the version of the state it took *)
(* its channel with: the next change closes that channel.                  *)
Call == [at : {"idle", "rearm", "look", "select"}, run : 0..MaxRuns,
         settle : BOOLEAN, since : Nat, channel : Nat]
NoCall == [at |-> "idle", run |-> 0, settle |-> FALSE, since |-> 0, channel |-> 0]

TypeOK ==
  /\ run \in 0..MaxRuns /\ runs \in [1..MaxRuns -> Run] /\ version \in Nat
  /\ call \in [Callers -> Call]
  /\ \A c \in Callers : call[c].at # "idle" => call[c].run # 0

Init ==
  /\ run = 0 /\ runs = [r \in 1..MaxRuns |-> NoRun] /\ version = 0
  /\ call = [c \in Callers |-> NoCall]

-----------------------------------------------------------------------------
(* Runs.                                                                   *)

\* Wrong: every run counts its own versions.
NextVersion_bug(r) == runs[r].version + 1
\* nextVersion: the counter of the process.
NextVersion(r) == version + 1

\* transitionLocked: the state and its version; every waiter is woken.
Transition(r, f) ==
  /\ runs' = [runs EXCEPT ![r] = [f EXCEPT !.version = NextVersion(r)]]
  /\ version' = version + 1

SetStatus(r, s) == Transition(r, [runs[r] EXCEPT !.status = s])

\* The listener, the in-attempt tools, the idle timer, cleanupRun, and the
\* rearm of another client.
RunChanges(r) ==
  /\ \E s \in LC!Successors(runs[r].status) :
       /\ s = "listening" => version < MaxVersion
       /\ SetStatus(r, s)
  /\ UNCHANGED <<run, call>>

TriggerReturns(r) ==
  /\ runs[r].trigger = "pending"
  /\ Transition(r, [runs[r] EXCEPT !.trigger = "done"])
  /\ UNCHANGED <<run, call>>

\* launchRun: newRun takes its version when the previous run is stopped.
LaunchRun(trigger) ==
  /\ run < MaxRuns /\ (run # 0 => runs[run].status = "stopped")
  /\ Transition(run + 1, [NoRun EXCEPT !.status = "listening", !.trigger = trigger])
  /\ run' = run + 1

\* Someone else starts the run: the state is returned at once.
RunStarted == LaunchRun("none") /\ UNCHANGED call

\* startRun, when the server starts the run (unit tests, gui in some builds).
StartRun(c) ==
  /\ call[c].at = "idle"
  /\ LaunchRun("pending")
  /\ call' = [call EXCEPT ![c] =
                [NoCall EXCEPT !.at = "look", !.run = run + 1, !.settle = TRUE]]

-----------------------------------------------------------------------------
(* debug_wait: it keeps the run it found first.                            *)

\* Wrong: a nil run is handed out before the first debug_run.
CurrentRun_bug == {run}
CurrentRun == {run} \ {0}

\* since is any version that some answer has given.
DebugWait(c) ==
  /\ call[c].at = "idle"
  /\ \E r \in CurrentRun, rearm \in BOOLEAN, since \in 0..version :
       call' = [call EXCEPT ![c] =
         [NoCall EXCEPT !.at = IF rearm THEN "rearm" ELSE "look", !.run = r,
                        !.since = since]]
  /\ UNCHANGED runVars

\* A unit-test run or one without budget is refused in any state.
Rearm(c) ==
  LET r == call[c].run IN
  /\ call[c].at = "rearm"
  /\ \/ /\ runs[r].status \in {"timeout", "ended"} /\ version < MaxVersion
        /\ SetStatus(r, "listening")
        /\ call' = [call EXCEPT ![c].at = "look"]
        /\ UNCHANGED run
     \/ /\ call' = [call EXCEPT ![c] = NoCall]
        /\ UNCHANGED runVars

\* settledAfterTrigger.
Settled(r) ==
  \/ runs[r].status \notin {"listening", "attaching"}
  \/ runs[r].trigger = "done"

Satisfied(k) == IF k.settle THEN Settled(k.run) ELSE runs[k.run].version > k.since

\* Wrong: the channel is read after the state, without the lock: a change in
\* between closes the channel the waiter should have waited for.
Channel_bug(r) == runs[r].version + 1
\* The channel that is read together with the state.
Channel(r) == runs[r].version

Look(c) ==
  /\ call[c].at = "look"
  /\ IF Satisfied(call[c]) THEN call' = [call EXCEPT ![c] = NoCall]
     ELSE call' = [call EXCEPT ![c].at = "select", ![c].channel = Channel(call[c].run)]
  /\ UNCHANGED runVars

Woken(c) ==
  /\ call[c].at = "select" /\ runs[call[c].run].version > call[c].channel
  /\ call' = [call EXCEPT ![c].at = "look"]
  /\ UNCHANGED runVars

\* The timeout, or the client cancels: the state as it is.
GivesUp(c) ==
  /\ call[c].at = "select"
  /\ call' = [call EXCEPT ![c] = NoCall]
  /\ UNCHANGED runVars

Next ==
  \/ \E c \in Callers :
       StartRun(c) \/ DebugWait(c) \/ Rearm(c) \/ Look(c) \/ Woken(c) \/ GivesUp(c)
  \/ \E r \in 1..MaxRuns : RunChanges(r) \/ TriggerReturns(r)
  \/ RunStarted

(* A goroutine that can run does run.  Timeouts, clients and SAP are not    *)
(* fair: nothing but a change of the run ends a wait for certain.           *)
Spec == Init /\ [][Next]_vars /\ \A c \in Callers : WF_vars(Look(c) \/ Woken(c))

-----------------------------------------------------------------------------
(* "With since_version (the version you saw last) it returns as soon as the *)
(* run's version is greater" (debug_wait), and "concurrent waiters each see *)
(* every change" (waitUntil): a change of the run during a wait ends it     *)
(* without a timeout, whichever run since_version came from.                *)
Due(c) ==
  LET r == runs[call[c].run] IN
  /\ call[c].at = "select" /\ ~ call[c].settle
  /\ r.version > call[c].since \/ r.version # call[c].channel
WaitReturns == \A c \in Callers : Due(c) ~> call[c].at \notin {"select", "look"}

(* debug_run answers when the run it started has something to report        *)
(* (settledAfterTrigger), unless another call rearms the run first: a        *)
(* waiter sees the state it is woken to, not every state in between.         *)
SettledReturns ==
  \A c \in Callers :
    LET waits == call[c].settle /\ Settled(call[c].run)
    IN  waits ~> ~ waits
=============================================================================
