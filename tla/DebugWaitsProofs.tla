-------------------------- MODULE DebugWaitsProofs --------------------------
(***************************************************************************)
(* Theorems about DebugWaits: no change of a run is missed by those who    *)
(* wait for it, and its versions tell the states of all runs apart, for    *)
(* any callers, runs and rearms.                                           *)
(***************************************************************************)
EXTENDS DebugWaits, TLAPS

-----------------------------------------------------------------------------
(* What is claimed.                                                        *)

(* "Concurrent waiters each see every change" (waitUntil): a caller that    *)
(* waits on a channel while what it waits for has come about waits on a    *)
(* channel that is closed.                                                 *)
NoLostWakeup ==
  \A c \in Callers :
    call[c].at = "select" /\ Satisfied(call[c]) =>
      runs[call[c].run].version > call[c].channel

(* "since_version (the version you saw last)" (debug_wait) identifies the   *)
(* run too: no two runs are ever in states of the same version, and none    *)
(* is ahead of the counter.                                                *)
VersionsDiffer ==
  /\ \A r \in 1..MaxRuns : runs[r].version <= version
  /\ \A q, r \in 1..MaxRuns :
       q # r /\ runs[q].status # "none" /\ runs[r].status # "none" =>
         runs[q].version # runs[r].version

-----------------------------------------------------------------------------
(* The invariants.                                                         *)

\* Runs are created in order and replaced only when stopped.
OrderInv ==
  /\ \A r \in 1..MaxRuns : r > run => runs[r].status = "none"
  /\ \A r \in 1..MaxRuns : r < run => runs[r].status = "stopped"
  /\ run # 0 => runs[run].status # "none"

(* The channel of a waiter is that of the present state, and then what it   *)
(* waits for has not come about, or of an earlier one.                     *)
WakeInv ==
  \A c \in Callers : call[c].at = "select" =>
    /\ runs[call[c].run].version >= call[c].channel
    /\ runs[call[c].run].version = call[c].channel => ~ Satisfied(call[c])

\* A new run, and a step of a run that there is.
Creates(r, f) ==
  /\ run # 0 => runs[run].status = "stopped"
  /\ r = run + 1 /\ run' = run + 1 /\ f.status = "listening"

Advances(r, f) ==
  /\ run' = run
  /\ \/ f.status = runs[r].status
     \/ f.status \in LC!Successors(runs[r].status)

-----------------------------------------------------------------------------
LEMMA NoRunType == NoRun \in Run
  BY DEF NoRun, Run

LEMMA SuccessorTypes ==
  ASSUME NEW s PROVE LC!Successors(s) \subseteq Statuses
  BY DEF LC!Successors, Statuses

\* The arrows leave only the statuses of a run that is not stopped.
LEMMA SuccessorsLeave ==
  /\ LC!Successors("none") = {} /\ LC!Successors("stopped") = {}
  BY DEF LC!Successors

\* A change of a run: its state has a version past all others.
LEMMA Transits ==
  ASSUME TypeOK, NEW r \in 1..MaxRuns, NEW f \in Run, Transition(r, f)
  PROVE  /\ runs' \in [1..MaxRuns -> Run] /\ version' = version + 1
         /\ runs'[r].version = version + 1 /\ runs'[r].status = f.status
         /\ \A q \in 1..MaxRuns : q # r => runs'[q] = runs[q]
<1> DEFINE g == [f EXCEPT !.version = version + 1]
<1>1. g \in Run /\ g.version = version + 1 /\ g.status = f.status
  BY DEF Run, TypeOK
<1>2. runs' = [runs EXCEPT ![r] = g] /\ version' = version + 1
  BY DEF Transition, NextVersion
<1> HIDE DEF g
<1>3. runs' \in [1..MaxRuns -> Run]
  BY <1>1, <1>2 DEF TypeOK
<1>4. runs'[r] = g /\ \A q \in 1..MaxRuns : q # r => runs'[q] = runs[q]
  BY <1>2 DEF TypeOK
<1> QED
  BY <1>1, <1>2, <1>3, <1>4

\* Every step leaves the runs alone, creates one or moves one on.
LEMMA RunSteps ==
  ASSUME TypeOK, Next
  PROVE  \/ UNCHANGED <<run, runs, version>>
         \/ \E r \in 1..MaxRuns, f \in Run :
              Transition(r, f) /\ (Creates(r, f) \/ Advances(r, f))
<1>1. ASSUME NEW r \in 1..MaxRuns, NEW s \in Statuses, SetStatus(r, s),
             s \in LC!Successors(runs[r].status), UNCHANGED run
      PROVE  \E q \in 1..MaxRuns, f \in Run :
               Transition(q, f) /\ (Creates(q, f) \/ Advances(q, f))
  <2> DEFINE f == [runs[r] EXCEPT !.status = s]
  <2>1. f \in Run /\ f.status = s
    BY DEF TypeOK, Run
  <2>2. Transition(r, f)
    BY <1>1 DEF SetStatus
  <2>3. Advances(r, f)
    BY <1>1, <2>1 DEF Advances
  <2> HIDE DEF f
  <2> QED
    BY <2>1, <2>2, <2>3
<1>2. ASSUME NEW t \in {"none", "pending"}, LaunchRun(t)
      PROVE  \E q \in 1..MaxRuns, f \in Run :
               Transition(q, f) /\ (Creates(q, f) \/ Advances(q, f))
  <2> DEFINE f == [NoRun EXCEPT !.status = "listening", !.trigger = t]
  <2>1. f \in Run /\ f.status = "listening"
    BY DEF NoRun, Run, Statuses
  <2>2. run + 1 \in 1..MaxRuns
    BY <1>2, WaitsAssumption DEF LaunchRun, TypeOK, WaitsAssumption
  <2>3. Transition(run + 1, f) /\ Creates(run + 1, f)
    BY <1>2, <2>1 DEF LaunchRun, Creates
  <2> HIDE DEF f
  <2> QED
    BY <2>1, <2>2, <2>3
<1>3. ASSUME NEW c \in Callers, StartRun(c) PROVE LaunchRun("pending")
  BY <1>3 DEF StartRun
<1>4. CASE RunStarted
  BY <1>2, <1>4 DEF RunStarted
<1>5. ASSUME NEW c \in Callers, DebugWait(c) \/ Look(c) \/ Woken(c) \/ GivesUp(c)
      PROVE  UNCHANGED <<run, runs, version>>
  BY <1>5 DEF DebugWait, Look, Woken, GivesUp, runVars
<1>6. ASSUME NEW c \in Callers, Rearm(c), ~ UNCHANGED <<run, runs, version>>
      PROVE  \E q \in 1..MaxRuns, f \in Run :
               Transition(q, f) /\ (Creates(q, f) \/ Advances(q, f))
  <2>1. /\ runs[call[c].run].status \in {"timeout", "ended"} /\ UNCHANGED run
        /\ SetStatus(call[c].run, "listening") /\ call[c].at = "rearm"
    BY <1>6 DEF Rearm, runVars
  <2>2. call[c].run \in 1..MaxRuns
    BY <2>1, WaitsAssumption DEF TypeOK, Call, WaitsAssumption
  <2>3. "listening" \in LC!Successors(runs[call[c].run].status)
    BY <2>1 DEF LC!Successors
  <2> QED
    BY <1>1, <2>1, <2>2, <2>3 DEF Statuses
<1>7. ASSUME NEW r \in 1..MaxRuns, RunChanges(r)
      PROVE  \E q \in 1..MaxRuns, f \in Run :
               Transition(q, f) /\ (Creates(q, f) \/ Advances(q, f))
  BY <1>1, <1>7, SuccessorTypes DEF RunChanges
<1>8. ASSUME NEW r \in 1..MaxRuns, TriggerReturns(r)
      PROVE  \E q \in 1..MaxRuns, f \in Run :
               Transition(q, f) /\ (Creates(q, f) \/ Advances(q, f))
  <2> DEFINE f == [runs[r] EXCEPT !.trigger = "done"]
  <2>1. f \in Run /\ f.status = runs[r].status
    BY DEF TypeOK, Run
  <2>2. Transition(r, f) /\ Advances(r, f)
    BY <1>8, <2>1 DEF TriggerReturns, Advances
  <2> HIDE DEF f
  <2> QED
    BY <2>1, <2>2
<1> QED
  BY <1>2, <1>3, <1>4, <1>5, <1>6, <1>7, <1>8 DEF Next

-----------------------------------------------------------------------------
(* The types.                                                              *)

LEMMA CallTypes ==
  ASSUME TypeOK, Next
  PROVE  /\ call' \in [Callers -> Call]
         /\ \A c \in Callers : call'[c].at # "idle" => call'[c].run # 0
<1>1. ASSUME NEW c \in Callers, NEW k \in Call, k.at # "idle" => k.run # 0,
             call' = [call EXCEPT ![c] = k]
      PROVE  /\ call' \in [Callers -> Call]
             /\ \A d \in Callers : call'[d].at # "idle" => call'[d].run # 0
  BY <1>1 DEF TypeOK
<1>2. NoCall \in Call /\ NoCall.at = "idle"
  BY WaitsAssumption DEF NoCall, Call, WaitsAssumption
<1>3. ASSUME NEW c \in Callers, StartRun(c)
      PROVE  \E k \in Call : /\ k.at # "idle" => k.run # 0
                             /\ call' = [call EXCEPT ![c] = k]
  <2>1. run + 1 \in 0..MaxRuns /\ run + 1 # 0
    BY <1>3, WaitsAssumption DEF StartRun, LaunchRun, TypeOK, WaitsAssumption
  <2> DEFINE k == [NoCall EXCEPT !.at = "look", !.run = run + 1, !.settle = TRUE]
  <2>2. k \in Call /\ k.run # 0
    BY <2>1 DEF NoCall, Call
  <2>3. call' = [call EXCEPT ![c] = k]
    BY <1>3 DEF StartRun
  <2> HIDE DEF k
  <2> QED
    BY <2>2, <2>3
<1>4. ASSUME NEW c \in Callers, DebugWait(c)
      PROVE  \E k \in Call : /\ k.at # "idle" => k.run # 0
                             /\ call' = [call EXCEPT ![c] = k]
  <2>1. PICK r \in CurrentRun, rearm \in BOOLEAN, since \in 0..version :
          call' = [call EXCEPT ![c] =
            [NoCall EXCEPT !.at = IF rearm THEN "rearm" ELSE "look", !.run = r,
                           !.since = since]]
    BY <1>4 DEF DebugWait
  <2> DEFINE k == [NoCall EXCEPT !.at = IF rearm THEN "rearm" ELSE "look",
                                 !.run = r, !.since = since]
  <2>2. r \in 0..MaxRuns /\ r # 0 /\ since \in Nat
    BY DEF CurrentRun, TypeOK
  <2>3. k \in Call /\ k.run # 0
    BY <2>2 DEF NoCall, Call
  <2> HIDE DEF k
  <2> QED
    BY <2>1, <2>3 DEF k
<1>5. ASSUME NEW c \in Callers,
             Rearm(c) \/ Look(c) \/ Woken(c) \/ GivesUp(c)
      PROVE  \E k \in Call : /\ k.at # "idle" => k.run # 0
                             /\ call' = [call EXCEPT ![c] = k]
  <2>1. call[c] \in Call /\ call[c].at # "idle" /\ call[c].run # 0
    BY <1>5 DEF Rearm, Look, Woken, GivesUp, TypeOK
  <2>2. call[c].run \in 1..MaxRuns
    BY <2>1, WaitsAssumption DEF Call, WaitsAssumption
  <2>3. Channel(call[c].run) \in Nat
    BY <2>2 DEF Channel, TypeOK, Run
  <2>4. CASE call' = [call EXCEPT ![c] = NoCall]
    BY <1>2, <2>4
  <2>5. CASE call' = [call EXCEPT ![c].at = "look"]
    <3> DEFINE k == [call[c] EXCEPT !.at = "look"]
    <3>1. k \in Call /\ k.run # 0
      BY <2>1 DEF Call
    <3>2. call' = [call EXCEPT ![c] = k]
      BY <2>5
    <3> HIDE DEF k
    <3> QED
      BY <3>1, <3>2
  <2>6. CASE call' = [call EXCEPT ![c].at = "select",
                                  ![c].channel = Channel(call[c].run)]
    <3> DEFINE k == [call[c] EXCEPT !.at = "select",
                                    !.channel = Channel(call[c].run)]
    <3>1. k \in Call /\ k.run # 0
      BY <2>1, <2>3 DEF Call
    <3>2. call' = [call EXCEPT ![c] = k]
      BY <2>6 DEF TypeOK
    <3> HIDE DEF k
    <3> QED
      BY <3>1, <3>2
  <2> QED
    BY <1>5, <2>4, <2>5, <2>6 DEF Rearm, Look, Woken, GivesUp
<1>6. ASSUME NEW r \in 1..MaxRuns, RunChanges(r) \/ TriggerReturns(r)
      PROVE  UNCHANGED call
  BY <1>6 DEF RunChanges, TriggerReturns
<1>7. CASE UNCHANGED call
  BY <1>7 DEF TypeOK
<1> QED
  BY <1>1, <1>3, <1>4, <1>5, <1>6, <1>7 DEF Next, RunStarted

LEMMA TypeStep == TypeOK /\ [Next]_vars => TypeOK'
<1> SUFFICES ASSUME TypeOK, [Next]_vars PROVE TypeOK'
  OBVIOUS
<1>1. CASE UNCHANGED vars
  BY <1>1 DEF vars, TypeOK
<1>2. CASE Next
  <2>1. run' \in 0..MaxRuns /\ runs' \in [1..MaxRuns -> Run] /\ version' \in Nat
    <3>1. CASE UNCHANGED <<run, runs, version>>
      BY <3>1 DEF TypeOK
    <3>2. ASSUME NEW r \in 1..MaxRuns, NEW f \in Run, Transition(r, f),
                 Creates(r, f) \/ Advances(r, f)
          PROVE  /\ run' \in 0..MaxRuns /\ version' \in Nat
                 /\ runs' \in [1..MaxRuns -> Run]
      <4>1. run' \in {run, r}
        BY <3>2 DEF Creates, Advances
      <4>2. run \in 0..MaxRuns /\ r \in 0..MaxRuns /\ version \in Nat
        BY WaitsAssumption DEF TypeOK, WaitsAssumption
      <4> QED
        BY <3>2, <4>1, <4>2, Transits
    <3> QED
      BY <1>2, <3>1, <3>2, RunSteps
  <2> QED
    BY <1>2, <2>1, CallTypes DEF TypeOK
<1> QED
  BY <1>1, <1>2

\* TypeOK: the states of the runs, and what each handler keeps of them.
THEOREM WaitTypes == Spec => []TypeOK
<1>1. Init => TypeOK
  BY WaitsAssumption, NoRunType
  DEF Init, TypeOK, NoCall, Call, WaitsAssumption
<1> QED
  BY TypeStep, <1>1, PTL DEF Spec

-----------------------------------------------------------------------------
(* The runs.                                                               *)

\* Only the newest run changes its status, and a new one replaces a stopped one.
LEMMA OrderInvariance == Spec => []OrderInv
<1>1. Init => OrderInv
  BY DEF Init, OrderInv, NoRun
<1>2. TypeOK /\ OrderInv /\ [Next]_vars => OrderInv'
  <2> SUFFICES ASSUME TypeOK, OrderInv, [Next]_vars PROVE OrderInv'
    OBVIOUS
  <2>1. CASE UNCHANGED <<run, runs, version>>
    BY <2>1 DEF OrderInv
  <2>2. ASSUME NEW r \in 1..MaxRuns, NEW f \in Run, Transition(r, f),
               Creates(r, f) \/ Advances(r, f)
        PROVE  OrderInv'
    <3>1. /\ \A q \in 1..MaxRuns : q # r => runs'[q] = runs[q]
          /\ runs'[r].status = f.status
          /\ run \in Nat /\ r \in Nat /\ 1..MaxRuns \subseteq Nat
          /\ run # 0 => run \in 1..MaxRuns
      BY <2>2, Transits, WaitsAssumption DEF Run, TypeOK, WaitsAssumption
    <3>2. CASE Creates(r, f)
      BY <3>1, <3>2 DEF Creates, OrderInv
    <3>3. CASE Advances(r, f) /\ f.status = runs[r].status
      BY <3>1, <3>3 DEF Advances, OrderInv
    <3>4. CASE Advances(r, f) /\ f.status \in LC!Successors(runs[r].status)
      <4>1. r = run
        BY <3>1, <3>4, SuccessorsLeave DEF OrderInv
      <4>2. f.status # "none"
        BY <3>4, SuccessorTypes DEF Statuses
      <4> QED
        BY <3>1, <3>4, <4>1, <4>2 DEF Advances, OrderInv
    <3> QED
      BY <2>2, <3>2, <3>3, <3>4 DEF Advances
  <2> QED
    BY <2>1, <2>2, RunSteps DEF vars
<1> QED
  BY WaitTypes, <1>1, <1>2, PTL DEF Spec

\* The runs that debug_wait sees follow the life cycle that DebugRun and
\* DebugSessions implement.
THEOREM WaitsImplementLifecycle == Spec => LC!Spec
<1>1. Init => LC!Init
  BY DEF Init, NoRun, LC!Init, LC!Runs
<1>2. TypeOK /\ OrderInv /\ [Next]_vars
        => [LC!Next]_<<run, [r \in 1..MaxRuns |-> runs[r].status]>>
  <2> SUFFICES ASSUME TypeOK, OrderInv, [Next]_vars
               PROVE  [LC!Next]_<<run, [r \in 1..MaxRuns |-> runs[r].status]>>
    OBVIOUS
  <2> DEFINE life == [q \in 1..MaxRuns |-> runs[q].status]
  <2>1. CASE UNCHANGED <<run, runs, version>>
    BY <2>1
  <2>2. ASSUME NEW r \in 1..MaxRuns, NEW f \in Run, Transition(r, f),
               Creates(r, f) \/ Advances(r, f)
        PROVE  LC!Next \/ UNCHANGED <<run, life>>
    <3>1. life' = [life EXCEPT ![r] = f.status]
      <4>1. /\ \A q \in 1..MaxRuns : q # r => runs'[q] = runs[q]
            /\ runs'[r].status = f.status
        BY <2>2, Transits DEF Run
      <4> QED
        BY <4>1
    <3>2. run \in Nat /\ r \in Nat /\ r <= MaxRuns /\ 1..MaxRuns \subseteq Nat
          /\ MaxRuns \in Nat
      BY WaitsAssumption DEF TypeOK, WaitsAssumption
    <3>3. CASE Creates(r, f)
      <4>1. run < MaxRuns
        BY <3>2, <3>3 DEF Creates
      <4>2. run # 0 => life[run] = "stopped"
        BY <3>2, <3>3 DEF Creates, TypeOK
      <4> QED
        BY <3>1, <3>3, <4>1, <4>2 DEF Creates, LC!Next, LC!Create
    <3>4. CASE Advances(r, f) /\ f.status = runs[r].status
      BY <3>1, <3>4 DEF Advances
    <3>5. CASE Advances(r, f) /\ f.status \in LC!Successors(runs[r].status)
      <4>1. r = run /\ run # 0
        BY <3>2, <3>5, SuccessorsLeave DEF OrderInv
      <4>2. life[run] = runs[run].status
        BY <4>1
      <4> QED
        BY <3>1, <3>5, <4>1, <4>2 DEF Advances, LC!Next, LC!Change
    <3> QED
      BY <2>2, <3>3, <3>4, <3>5 DEF Advances
  <2> QED
    BY <2>1, <2>2, RunSteps DEF vars
<1> QED
  BY WaitTypes, OrderInvariance, <1>1, <1>2, PTL DEF Spec, LC!Spec

\* VersionsDiffer: a version that a client has seen belongs to one state of one
\* run, although every run goes on counting while others exist.
THEOREM VersionsIdentify == Spec => []VersionsDiffer
<1>1. Init => VersionsDiffer
  BY DEF Init, VersionsDiffer, NoRun
<1>2. TypeOK /\ VersionsDiffer /\ [Next]_vars => VersionsDiffer'
  <2> SUFFICES ASSUME TypeOK, VersionsDiffer, [Next]_vars PROVE VersionsDiffer'
    OBVIOUS
  <2>1. CASE UNCHANGED <<run, runs, version>>
    BY <2>1 DEF VersionsDiffer
  <2>2. ASSUME NEW r \in 1..MaxRuns, NEW f \in Run, Transition(r, f),
               Creates(r, f) \/ Advances(r, f)
        PROVE  VersionsDiffer'
    <3>1. /\ \A q \in 1..MaxRuns : q # r => runs'[q] = runs[q]
          /\ runs'[r].version = version + 1 /\ version' = version + 1
          /\ version \in Nat /\ \A q \in 1..MaxRuns : runs[q].version \in Nat
      BY <2>2, Transits DEF Run, TypeOK
    <3>2. \A q \in 1..MaxRuns : q # r => runs'[q].version < version + 1
      BY <3>1 DEF VersionsDiffer
    <3>3. \A q \in 1..MaxRuns : runs'[q].version <= version'
      BY <3>1, <3>2 DEF VersionsDiffer
    <3> QED
      BY <3>1, <3>2, <3>3 DEF VersionsDiffer
  <2> QED
    BY <2>1, <2>2, RunSteps DEF vars
<1> QED
  BY WaitTypes, <1>1, <1>2, PTL DEF Spec

-----------------------------------------------------------------------------
(* The waiters.                                                            *)

\* A run that changes closes the channel of its present state.
LEMMA RunsWake ==
  ASSUME TypeOK, VersionsDiffer, NEW r \in 1..MaxRuns, [Next]_vars
  PROVE  \/ runs'[r] = runs[r]
         \/ runs'[r].version > runs[r].version
<1>1. CASE UNCHANGED <<run, runs, version>>
  BY <1>1
<1>2. ASSUME NEW q \in 1..MaxRuns, NEW f \in Run, Transition(q, f)
      PROVE  runs'[r] = runs[r] \/ runs'[r].version > runs[r].version
  <2>1. CASE q = r
    <3>1. /\ runs'[r].version = version + 1 /\ version \in Nat
          /\ runs[r].version \in Nat /\ runs[r].version <= version
      BY <1>2, <2>1, Transits DEF Run, TypeOK, VersionsDiffer
    <3> QED
      BY <3>1
  <2>2. CASE q # r
    BY <1>2, <2>2, Transits
  <2> QED
    BY <2>1, <2>2
<1> QED
  BY <1>1, <1>2, RunSteps DEF vars

\* Where a call comes to wait: with the channel of the state it has looked at.
LEMMA CallWaits ==
  ASSUME TypeOK, [Next]_vars, NEW c \in Callers, call'[c].at = "select"
  PROVE  \/ call'[c] = call[c]
         \/ /\ call'[c] = [call[c] EXCEPT !.at = "select",
                                          !.channel = Channel(call[c].run)]
            /\ call[c].at = "look" /\ ~ Satisfied(call[c])
            /\ UNCHANGED runs
<1>1. CASE UNCHANGED call
  BY <1>1
<1>2. ASSUME NEW d \in Callers, StartRun(d) \/ DebugWait(d)
      PROVE  call'[c] = call[c]
  <2>1. c # d
    BY <1>2 DEF StartRun, DebugWait, NoCall, TypeOK
  <2> QED
    BY <1>2, <2>1 DEF StartRun, DebugWait, TypeOK
<1>3. ASSUME NEW d \in Callers, Rearm(d) \/ Woken(d) \/ GivesUp(d)
      PROVE  call'[c] = call[c]
  <2>1. c # d
    BY <1>3 DEF Rearm, Woken, GivesUp, NoCall, TypeOK, Call
  <2> QED
    BY <1>3, <2>1 DEF Rearm, Woken, GivesUp, TypeOK
<1>4. ASSUME NEW d \in Callers, Look(d), d # c PROVE call'[c] = call[c]
  BY <1>4 DEF Look, TypeOK
<1>5. CASE Look(c)
  <2>1. ~ Satisfied(call[c])
    BY <1>5 DEF Look, NoCall, TypeOK
  <2> QED
    BY <1>5, <2>1 DEF Look, TypeOK, runVars
<1> QED
  BY <1>1, <1>2, <1>3, <1>4, <1>5
  DEF Next, RunChanges, TriggerReturns, RunStarted, vars

\* NoLostWakeup: the condition is looked at and the channel taken in one
\* critical section of run.mu, and every later change closes that channel.
THEOREM NoChangeIsMissed == Spec => []NoLostWakeup
<1>1. Init => WakeInv
  BY DEF Init, WakeInv, NoCall
<1>2. TypeOK /\ VersionsDiffer /\ WakeInv /\ [Next]_vars => WakeInv'
  <2> SUFFICES ASSUME TypeOK, VersionsDiffer, WakeInv, [Next]_vars,
                      NEW c \in Callers, call'[c].at = "select"
               PROVE  /\ runs'[call'[c].run].version >= call'[c].channel
                      /\ runs'[call'[c].run].version = call'[c].channel
                           => ~ Satisfied(call[c])'
    BY DEF WakeInv
  <2>1. CASE call'[c] = call[c]
    <3>1. PICK r \in 1..MaxRuns : r = call[c].run
      BY <2>1, WaitsAssumption DEF TypeOK, Call, WaitsAssumption
    <3>2. /\ call[c].channel \in Nat /\ runs[r].version \in Nat
          /\ runs[r].version >= call[c].channel
          /\ runs[r].version = call[c].channel => ~ Satisfied(call[c])
      BY <2>1, <3>1 DEF WakeInv, TypeOK, Call, Run
    <3>3. CASE runs'[r] = runs[r]
      BY <2>1, <3>1, <3>2, <3>3 DEF Satisfied, Settled
    <3>4. CASE runs'[r].version > runs[r].version
      <4>1. runs'[r].version \in Nat
        <5>1. TypeOK'
          BY TypeStep
        <5> QED
          BY <5>1 DEF TypeOK, Run
      <4>2. runs'[r].version > call[c].channel
        BY <3>2, <3>4, <4>1
      <4> QED
        BY <2>1, <3>1, <3>2, <4>1, <4>2
    <3> QED
      BY <3>3, <3>4, RunsWake
  <2>2. CASE /\ call'[c] = [call[c] EXCEPT !.at = "select",
                                           !.channel = Channel(call[c].run)]
             /\ call[c].at = "look" /\ ~ Satisfied(call[c])
             /\ UNCHANGED runs
    <3>1. /\ call'[c].run = call[c].run /\ call'[c].settle = call[c].settle
          /\ call'[c].since = call[c].since
          /\ call'[c].channel = runs[call[c].run].version
      BY <2>2 DEF Channel, TypeOK, Call
    <3>2. runs[call[c].run].version \in Nat
      BY <2>2, WaitsAssumption DEF TypeOK, Call, Run, WaitsAssumption
    <3> QED
      BY <2>2, <3>1, <3>2 DEF Satisfied, Settled
  <2> QED
    BY <2>1, <2>2, CallWaits
<1>3. TypeOK /\ WakeInv => NoLostWakeup
  <2> SUFFICES ASSUME TypeOK, WakeInv, NEW c \in Callers,
                      call[c].at = "select", Satisfied(call[c])
               PROVE  runs[call[c].run].version > call[c].channel
    BY DEF NoLostWakeup
  <2>1. /\ runs[call[c].run].version \in Nat /\ call[c].channel \in Nat
    BY WaitsAssumption DEF TypeOK, Call, Run, WaitsAssumption
  <2> QED
    BY <2>1 DEF WakeInv
<1> QED
  BY WaitTypes, VersionsIdentify, <1>1, <1>2, <1>3, PTL DEF Spec
=============================================================================
