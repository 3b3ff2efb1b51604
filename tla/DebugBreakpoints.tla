-------------------------- MODULE DebugBreakpoints --------------------------
(***************************************************************************)
(* The breakpoints of the debug runs (tools/debugrun_breakpoints.go, the   *)
(* breakpoint parts of debugsession.go and debugrun_cleanup.go): the list  *)
(* the newest run keeps, against the breakpoints SAP has.  debug_run sets  *)
(* its list in one request; debug_set_breakpoint deletes every external    *)
(* breakpoint and sets the list again, or talks to the attached debugger;  *)
(* debug_remove_breakpoint and the cleanup delete.  An action is one       *)
(* request with what the code does with its answer (only the holder of     *)
(* startMu changes the external part of the list), or one access to the    *)
(* run.  The status of the run follows RunLifecycle; how it gets there is  *)
(* the subject of DebugRun.                                                *)
(*                                                                         *)
(* SAP knows at most one external breakpoint per location: setting a known *)
(* one answers "existing" with its ID.  An ID is a number per location and  *)
(* scope.                                                                  *)
(* A detach always succeeds and takes the debugger-scope breakpoints with  *)
(* it, so their deletes before it are left out.                            *)
(***************************************************************************)
EXTENDS Naturals, FiniteSets

CONSTANTS Callers,    \* tool calls in flight at a time
          Locs,       \* source lines
          MaxRuns,    \* bound: runs
          MaxIds,     \* bound: external IDs of one location in use at a time
          FaultSets,  \* what may go wrong, a set of subsets of Faults
          Overlap     \* a debugger-scope call may outlive its attachment

\* "post": a set request fails without effect.  "reject": SAP rejects some
\* locations of a request.  "delete": a delete fails without effect.
\* "anonymous": SAP returns no ID for a breakpoint it sets.  "lost": SAP
\* carries a request of external scope out and the client gets an error, for the
\* answer is lost, late, or the call was cancelled meanwhile.  "lostDbg": so it
\* does with a request of debugger scope.
Faults == {"post", "reject", "delete", "anonymous", "lost", "lostDbg"}

ASSUME DebugBreakpointsAssumption ==
  /\ MaxRuns \in Nat /\ MaxIds \in Nat \ {0}
  /\ FaultSets \subseteq SUBSET Faults /\ FaultSets # {}
  /\ Overlap \in BOOLEAN /\ "free" \notin Callers

VARIABLES
  faults,    \* what may go wrong in this behaviour
  replaces,  \* SAP_BASIS 816: a set request replaces the external list; on
             \* 750 it adds to it, and an external request detaches
  run,       \* the newest run, 0 before the first
  status,    \* its st.Status; "ended" stands for timeout too
  bps,       \* its st.Breakpoints
  startMu,   \* the caller that holds the run-start lock, or "free"
  call,      \* the handler each caller is in
  sapExt,    \* SAP: the ID of the external breakpoint per location, 0 if none
  sapDbg,    \* SAP: the breakpoints of the attached debugger
  attached,  \* SAP: a debuggee is attached
  unheard,   \* locations whose external breakpoint SAP last set or deleted in
             \* a request whose answer did not reach the client
  unheardDbg,\* the attached debugger's breakpoints of which that is true
  reported   \* locations cleanups have reported as not removed, and that no
             \* answered request has set, or replaced, since

vars == <<faults, replaces, run, status, bps, startMu, call, sapExt, sapDbg,
          attached, unheard, unheardDbg, reported>>
world == <<faults, replaces>>
sap   == <<sapExt, sapDbg, attached, unheard, unheardDbg>>

Bp == [loc : Locs, id : 0..MaxIds, scope : {"external", "debugger"}]

(* A handler in flight.  at: its next step.  run: the run it looked up.     *)
(* want: the locations asked for.  todo: breakpoints still to be deleted   *)
(* or stored.  prev: the external list when the reset began.  again: the   *)
(* previous list is being set again.  halted: cleanup saw an attached run. *)
(* failed: what cleanup could not remove.  ok, named: the answer, and the  *)
(* locations it says are no longer set.                                    *)
Ops   == {"", "add", "remove", "run", "stop"}
Steps == {"idle", "admit", "debugger", "store", "lock", "delete", "set",
          "undo", "answer"}
Call  == [op : Ops, at : Steps, run : 0..MaxRuns, want : SUBSET Locs,
          todo : SUBSET Bp, prev : SUBSET Bp, again : BOOLEAN,
          halted : BOOLEAN, failed : SUBSET Bp, ok : BOOLEAN,
          named : SUBSET Locs]
NoCall == [op |-> "", at |-> "idle", run |-> 0, want |-> {}, todo |-> {},
           prev |-> {}, again |-> FALSE, halted |-> FALSE, failed |-> {},
           ok |-> FALSE, named |-> {}]

Statuses == {"none", "listening", "attaching", "attached", "ended",
             "stopping", "stopped"}

TypeOK ==
  /\ faults \in FaultSets /\ replaces \in BOOLEAN
  /\ run \in 0..MaxRuns /\ status \in Statuses
  /\ bps \subseteq Bp
  /\ startMu \in Callers \cup {"free"}
  /\ call \in [Callers -> Call]
  /\ sapExt \in [Locs -> 0..MaxIds] /\ sapDbg \subseteq Bp
  /\ attached \in BOOLEAN /\ reported \subseteq Locs
  /\ unheard \subseteq Locs /\ unheardDbg \subseteq Bp

Init ==
  /\ faults \in FaultSets /\ replaces \in BOOLEAN
  /\ run = 0 /\ status = "none" /\ bps = {}
  /\ startMu = "free" /\ call = [c \in Callers |-> NoCall]
  /\ sapExt = [l \in Locs |-> 0] /\ sapDbg = {} /\ attached = FALSE
  /\ unheard = {} /\ unheardDbg = {} /\ reported = {}

-----------------------------------------------------------------------------
External(S) == {b \in S : b.scope = "external"}
Debugger(S) == {b \in S : b.scope = "debugger"}
WithId(S)   == {b \in S : b.id # 0}
LocsOf(S)   == {b.loc : b \in S}

Active  == status \notin {"none", "stopping", "stopped"}
Caught  == status \in {"attaching", "attached"}
Idle(c) == call[c].at = "idle"

\* The clients are done with the attachment before the next window starts.
Settled == Overlap \/ \A c \in Callers : call[c].at \notin {"debugger", "store"}

Done(c) == call' = [call EXCEPT ![c] = NoCall]
Answer(c, good, lost) ==
  call' = [call EXCEPT ![c] = [@ EXCEPT !.at = "answer", !.ok = good,
                                        !.named = lost]]

-----------------------------------------------------------------------------
(* SAP.                                                                    *)

\* Bound: one debugger-scope breakpoint per location at a time.  It always has
\* an ID.
IdBound(scope) == IF scope = "external" THEN MaxIds ELSE 1

\* What the run, the attached debugger or a call remembers; the IDs of
\* location l and a scope that nobody does.
Known == (IF Active THEN bps ELSE {}) \cup sapDbg
           \cup UNION {call[c].todo \cup call[c].prev : c \in Callers}
Free(l, scope) ==
  {n \in 1..IdBound(scope) : /\ [loc |-> l, id |-> n, scope |-> scope] \notin Known
                             /\ scope = "external" => n # sapExt[l]}
NewId(l, scope) ==
  CHOOSE n \in Free(l, scope) : \A m \in Free(l, scope) : n <= m

\* SAP's external list when locations A of a request are accepted.
AfterSet(A) ==
  [l \in Locs |->
     IF l \in A THEN IF sapExt[l] = 0 THEN NewId(l, "external") ELSE sapExt[l]
                ELSE IF replaces THEN 0 ELSE sapExt[l]]

\* On 750 an external request detaches the debugger.
ExternalRequest ==
  /\ attached' = (attached /\ replaces)
  /\ sapDbg' = IF replaces THEN sapDbg ELSE {}
  /\ unheardDbg' = IF replaces THEN unheardDbg ELSE {}

\* The client hears, or does not, what SAP did to the external breakpoints of
\* locations L.
Learns(L, heard) == unheard' = IF heard THEN unheard \ L ELSE unheard \cup L

Forgets(b, heard) ==
  /\ sapExt' = [sapExt EXCEPT ![b.loc] = IF @ = b.id THEN 0 ELSE @]
  /\ Learns(IF sapExt[b.loc] = b.id THEN {b.loc} ELSE {}, heard)
  /\ ExternalRequest

\* A debuggee that is let go takes its debugger-scope breakpoints along.
LetsGo ==
  /\ attached' = FALSE /\ sapDbg' = {} /\ unheardDbg' = {}
  /\ UNCHANGED <<sapExt, unheard>>

-----------------------------------------------------------------------------
(* The run's status, as the listener and the in-attempt tools move it.     *)

Hit ==
  /\ status = "listening"
  /\ status' = "attaching"
  /\ UNCHANGED <<world, run, bps, startMu, call, sap, reported>>

Attach ==
  /\ status = "attaching"
  /\ status' = "attached" /\ attached' = TRUE
  /\ sapDbg' = {} /\ unheardDbg' = {}
  /\ UNCHANGED <<world, run, bps, startMu, call, sapExt, unheard, reported>>

WindowEnds ==
  /\ status \in {"listening", "attaching"}
  /\ status' = "ended"
  /\ UNCHANGED <<world, run, bps, startMu, call, sap, reported>>

\* debug_step or the idle limit ends the attachment.
AttachmentEnds ==
  /\ status = "attached"
  /\ status' = "ended" /\ LetsGo
  /\ UNCHANGED <<world, run, bps, startMu, call, reported>>

\* The debuggee ends in SAP; the run does not know yet.
DebuggeeEnds ==
  /\ attached /\ LetsGo
  /\ UNCHANGED <<world, run, status, bps, startMu, call, reported>>

\* Wrong: the next window keeps the debugger-scope breakpoints.
Rearm_bug ==
  /\ startMu = "free" /\ status = "ended" /\ Settled
  /\ status' = "listening"
  /\ UNCHANGED <<world, run, bps, startMu, call, sap, reported>>

\* rearm: the next window's list is what outlives an attachment.
Rearm ==
  /\ startMu = "free" /\ status = "ended" /\ Settled
  /\ status' = "listening"
  /\ bps' = External(bps)
  /\ UNCHANGED <<world, run, startMu, call, sap, reported>>

-----------------------------------------------------------------------------
(* debug_set_breakpoint and debug_remove_breakpoint: the choice of scope.  *)

\* addBreakpoint's first look at the status.
AddBegins(c, l) ==
  /\ Idle(c) /\ Active /\ status # "attaching"
  /\ call' = [call EXCEPT ![c] =
       [NoCall EXCEPT !.op = "add", !.run = run, !.want = {l},
                      !.at = IF status = "attached" THEN "admit" ELSE "lock"]]
  /\ UNCHANGED <<world, run, status, bps, startMu, sap, reported>>

RemoveBegins(c, b) ==
  /\ Idle(c) /\ Active /\ b \in WithId(bps)
  /\ call' = [call EXCEPT ![c] =
       [NoCall EXCEPT !.op = "remove", !.run = run, !.todo = {b},
                      !.at = IF b.scope = "debugger" THEN "admit" ELSE "lock"]]
  /\ UNCHANGED <<world, run, status, bps, startMu, sap, reported>>

\* beginCall.
Admit(c) ==
  /\ call[c].at = "admit"
  /\ IF status = "attached" /\ call[c].run = run
       THEN call' = [call EXCEPT ![c].at = "debugger"]
       ELSE Done(c)
  /\ UNCHANGED <<world, run, status, bps, startMu, sap, reported>>

\* The breakpoint goes to the attached debugger.
DebuggerSet(c) ==
  /\ call[c].at = "debugger" /\ call[c].op = "add" /\ attached
  /\ \E l \in call[c].want :
       LET b == [loc |-> l, id |-> NewId(l, "debugger"), scope |-> "debugger"] IN
       /\ Free(l, "debugger") # {}
       /\ sapDbg' = sapDbg \cup {b} /\ unheardDbg' = unheardDbg \ {b}
       /\ call' = [call EXCEPT ![c] = [@ EXCEPT !.at = "store", !.todo = {b}]]
  /\ UNCHANGED <<world, run, status, bps, startMu, sapExt, attached, unheard,
                 reported>>

\* "No debugger is attached any more" counts as deleted.
DebuggerDelete(c) ==
  /\ call[c].at = "debugger" /\ call[c].op = "remove"
  /\ sapDbg' = sapDbg \ call[c].todo
  /\ unheardDbg' = unheardDbg \ call[c].todo
  /\ call' = [call EXCEPT ![c].at = "store"]
  /\ UNCHANGED <<world, run, status, bps, startMu, sapExt, attached, unheard,
                 reported>>

DebuggerFails(c) ==
  /\ call[c].at = "debugger"
  /\ IF call[c].op = "add" THEN ~ attached \/ faults \cap {"post", "reject"} # {}
                           ELSE attached /\ "delete" \in faults
  /\ Done(c)
  /\ UNCHANGED <<world, run, status, bps, startMu, sap, reported>>

\* The debugger sets or deletes the breakpoint; the call fails all the same.
DebuggerLost(c) ==
  /\ call[c].at = "debugger" /\ attached /\ "lostDbg" \in faults
  /\ IF call[c].op = "add"
       THEN \E l \in call[c].want :
              LET b == [loc |-> l, id |-> NewId(l, "debugger"),
                        scope |-> "debugger"] IN
              /\ Free(l, "debugger") # {}
              /\ sapDbg' = sapDbg \cup {b} /\ unheardDbg' = unheardDbg \cup {b}
       ELSE /\ sapDbg' = sapDbg \ call[c].todo
            /\ unheardDbg' = unheardDbg \cup call[c].todo
  /\ Done(c)
  /\ UNCHANGED <<world, run, status, bps, startMu, sapExt, attached, unheard,
                 reported>>

\* Wrong: the location is stored without its ID and scope.
Store_bug(c) ==
  /\ call[c].at = "store"
  /\ bps' = bps \cup call[c].want
  /\ Done(c)
  /\ UNCHANGED <<world, run, status, startMu, sap, reported>>

\* The transition that follows, whatever the status is by now; the list of a
\* run that was replaced is not looked at any more.
Store(c) ==
  /\ call[c].at = "store"
  /\ bps' = IF call[c].run # run THEN bps
            ELSE IF call[c].op = "add" THEN bps \cup call[c].todo
            ELSE bps \ call[c].todo
  /\ Done(c)
  /\ UNCHANGED <<world, run, status, startMu, sap, reported>>

-----------------------------------------------------------------------------
(* The external list, under the run-start lock.                            *)

\* The run was stopped, replaced or caught while the call waited.
Refused(c) ==
  /\ call[c].at = "lock" /\ startMu = "free"
  /\ ~ Active \/ call[c].run # run \/ Caught
  /\ Done(c)
  /\ UNCHANGED <<world, run, status, bps, startMu, sap, reported>>

Lock(c) ==
  /\ call[c].at = "lock" /\ startMu = "free"
  /\ Active /\ call[c].run = run /\ ~ Caught
  /\ startMu' = c
  /\ call' = [call EXCEPT ![c] =
       IF call[c].op = "add"
         THEN [@ EXCEPT !.at = "delete", !.prev = External(bps),
                        !.todo = WithId(External(bps))]
         ELSE [@ EXCEPT !.at = "delete"]]
  /\ UNCHANGED <<world, run, status, bps, sap, reported>>

\* One DELETE.  debug_remove_breakpoint forgets its breakpoint; the reset and
\* the cleanup go on to the next one.
Delete(c) ==
  /\ call[c].at = "delete"
  /\ \E b \in call[c].todo :
       /\ Forgets(b, TRUE)
       /\ IF call[c].op = "remove"
            THEN Answer(c, TRUE, {}) /\ bps' = bps \ {b}
            ELSE /\ call' = [call EXCEPT ![c].todo = @ \ {b}]
                 /\ UNCHANGED bps
  /\ UNCHANGED <<world, run, status, startMu, reported>>

\* SAP may answer the DELETE of an ID it does not know with an error.
MayFail(b) == "delete" \in faults \/ sapExt[b.loc] # b.id

\* Wrong: the breakpoints deleted before stay in the list.
DeleteFailed_bug(c, b) ==
  /\ IF call[c].op \in {"run", "stop"}
       THEN call' = [call EXCEPT ![c].todo = @ \ {b}, ![c].failed = @ \cup {b}]
       ELSE Answer(c, FALSE, {})
  /\ UNCHANGED bps

\* What the error of a DELETE leads to: it ends the reset, and what was deleted
\* before is dropped from the list and named.  The cleanup notes it and goes on.
DeleteFailed(c, b) ==
  LET gone == WithId(call[c].prev) \ call[c].todo IN
  IF call[c].op \in {"run", "stop"}
    THEN /\ call' = [call EXCEPT ![c].todo = @ \ {b}, ![c].failed = @ \cup {b}]
         /\ UNCHANGED bps
    ELSE Answer(c, FALSE, LocsOf(gone)) /\ bps' = bps \ gone

DeleteFails(c) ==
  /\ call[c].at = "delete"
  /\ \E b \in call[c].todo : MayFail(b) /\ DeleteFailed(c, b)
  /\ UNCHANGED <<world, run, status, startMu, sap, reported>>

\* SAP deletes the breakpoint; the client gets an error.
DeleteLost(c) ==
  /\ call[c].at = "delete" /\ "lost" \in faults
  /\ \E b \in call[c].todo : Forgets(b, FALSE) /\ DeleteFailed(c, b)
  /\ UNCHANGED <<world, run, status, startMu, reported>>

\* debug_run sets its list; the reset does so when every delete is done.
Setting(c) ==
  \/ call[c].at = "set"
  \/ call[c].at = "delete" /\ call[c].op = "add" /\ call[c].todo = {}

\* The locations of the next set request: with the new one, or, when that
\* failed, without it.
Request(c) == LocsOf(call[c].prev) \cup IF call[c].again THEN {} ELSE call[c].want

\* What the answer says was set: locations N got no ID.
SetBy(A, N) ==
  {[loc |-> l, id |-> IF l \in N THEN 0 ELSE AfterSet(A)[l],
    scope |-> "external"] : l \in A}
Anonymous(A) == IF "anonymous" \in faults THEN SUBSET A ELSE {{}}

\* setExternal sends its request (an empty list is not sent) and SAP accepts
\* locations A of it.
SapSets(A, heard) ==
  /\ \A l \in A : sapExt[l] = 0 => Free(l, "external") # {}
  /\ sapExt' = AfterSet(A)
  /\ Learns(A \cup {l \in Locs : AfterSet(A)[l] # sapExt[l]}, heard)
  /\ ExternalRequest
NothingToSet(c) == Request(c) = {} /\ UNCHANGED sap

\* Every location was accepted: the new list of the run, or a new run.
SetAll(c) ==
  /\ Setting(c)
  /\ call[c].op = "run" => Settled
  /\ NothingToSet(c) \/ (Request(c) # {} /\ SapSets(Request(c), TRUE))
  /\ reported' = IF replaces /\ Request(c) # {} THEN {} ELSE reported \ Request(c)
  /\ \E N \in Anonymous(Request(c)) :
       LET set == SetBy(Request(c), N) IN
       IF call[c].op = "run"
         THEN /\ bps' = set
              /\ run' = run + 1 /\ status' = "listening"
              /\ startMu' = "free" /\ Done(c)
         ELSE /\ bps' = set \cup Debugger(bps)
              /\ Answer(c, ~ call[c].again, {})
              /\ UNCHANGED <<run, status, startMu>>
  /\ UNCHANGED world

\* Wrong: no second attempt; the answer names nothing.
SetFailed_bug(c) ==
  IF call[c].op = "run"
    THEN Done(c) /\ startMu' = "free" /\ UNCHANGED bps
    ELSE bps' = Debugger(bps) /\ Answer(c, FALSE, {}) /\ UNCHANGED startMu

\* What a failed setExternal leads to: debug_run gives up, the reset sets the
\* previous list again, and when that failed too it names what is lost.
SetFailed(c) ==
  IF call[c].op = "run"
    THEN Done(c) /\ startMu' = "free" /\ UNCHANGED bps
    ELSE IF call[c].again
      THEN /\ bps' = Debugger(bps)
           /\ Answer(c, FALSE, LocsOf(call[c].prev)) /\ UNCHANGED startMu
      ELSE /\ call' = [call EXCEPT ![c] = [@ EXCEPT !.at = "set",
                                             !.again = TRUE, !.todo = {}]]
           /\ UNCHANGED <<bps, startMu>>

SetRefused(c) ==
  /\ Setting(c) /\ Request(c) # {} /\ "post" \in faults
  /\ SetFailed(c)
  /\ UNCHANGED <<world, run, status, sap, reported>>

\* SAP sets the locations, or some of them; the client gets an error.
SetLost(c) ==
  /\ Setting(c) /\ Request(c) # {} /\ "lost" \in faults
  /\ \E A \in SUBSET Request(c) :
       (A = Request(c) \/ "reject" \in faults) /\ SapSets(A, FALSE)
  /\ SetFailed(c)
  /\ UNCHANGED <<world, run, status, reported>>

\* Some locations are rejected: the others have to be removed again.
SetPartly(c) ==
  /\ Setting(c) /\ Request(c) # {} /\ "reject" \in faults
  /\ \E A \in SUBSET Request(c) : \E N \in Anonymous(A) :
       /\ A # Request(c) /\ SapSets(A, TRUE)
       /\ call' = [call EXCEPT ![c] =
                     [@ EXCEPT !.at = "undo", !.todo = WithId(SetBy(A, N))]]
  /\ UNCHANGED <<world, run, status, bps, startMu, reported>>

\* removeSetBreakpoints: best effort, whatever the answers say.
Undo(c) ==
  /\ call[c].at = "undo"
  /\ \E b \in call[c].todo :
       /\ call' = [call EXCEPT ![c].todo = @ \ {b}]
       /\ \/ Forgets(b, TRUE)
          \/ MayFail(b) /\ UNCHANGED sap
  /\ UNCHANGED <<world, run, status, bps, startMu, reported>>

\* Wrong: what was set stays set.
Undone_bug(c) ==
  /\ call[c].at = "undo"
  /\ SetFailed(c)
  /\ UNCHANGED <<world, run, status, sap, reported>>

Undone(c) ==
  /\ call[c].at = "undo" /\ call[c].todo = {}
  /\ SetFailed(c)
  /\ UNCHANGED <<world, run, status, sap, reported>>

Answered(c) ==
  /\ call[c].at = "answer"
  /\ startMu' = "free" /\ Done(c)
  /\ UNCHANGED <<world, run, status, bps, sap, reported>>

-----------------------------------------------------------------------------
(* debug_run and debug_stop.                                               *)

\* launchRun or stop takes the run-start lock.  cleanupRun's step 1 copies the
\* list; a breakpoint without an ID cannot be removed.
LaunchBegins(c, op, L) ==
  /\ Idle(c) /\ startMu = "free"
  /\ IF op = "run" THEN run < MaxRuns /\ L # {} ELSE L = {}
  /\ startMu' = c
  /\ IF Active
       THEN /\ status' = "stopping"
            /\ call' = [call EXCEPT ![c] =
                 [NoCall EXCEPT !.op = op, !.want = L, !.at = "delete",
                                !.todo = WithId(External(bps)),
                                !.failed = External(bps) \ WithId(bps),
                                !.halted = status = "attached"]]
       ELSE /\ call' = [call EXCEPT ![c] =
                 [NoCall EXCEPT !.op = op, !.want = L,
                                !.at = IF op = "run" THEN "set" ELSE "answer"]]
            /\ UNCHANGED status
  /\ UNCHANGED <<world, run, bps, sap, reported>>

\* Steps 3 and 5 of cleanupRun.  stop returns, launchRun sets its list.
CleanedUp(c) ==
  /\ call[c].at = "delete" /\ call[c].op \in {"run", "stop"}
  /\ call[c].todo = {}
  /\ IF call[c].halted THEN LetsGo ELSE UNCHANGED sap
  /\ status' = "stopped"
  /\ reported' = reported \cup LocsOf(call[c].failed)
  /\ IF call[c].op = "stop"
       THEN Done(c) /\ startMu' = "free"
       ELSE /\ call' = [call EXCEPT ![c] = [@ EXCEPT !.at = "set",
                                              !.failed = {}, !.halted = FALSE]]
            /\ UNCHANGED startMu
  /\ UNCHANGED <<world, run, bps>>

-----------------------------------------------------------------------------
StatusStep == Hit \/ Attach \/ WindowEnds \/ AttachmentEnds \/ DebuggeeEnds
                \/ Rearm
Begins(c) ==
  \/ \E l \in Locs : AddBegins(c, l)
  \/ \E b \in bps : RemoveBegins(c, b)
  \/ \E op \in {"run", "stop"}, L \in SUBSET Locs : LaunchBegins(c, op, L)
DebuggerStep(c) ==
  Admit(c) \/ DebuggerSet(c) \/ DebuggerDelete(c) \/ DebuggerFails(c)
    \/ DebuggerLost(c) \/ Store(c)
ExternalStep(c) ==
  \/ Refused(c) \/ Lock(c) \/ Delete(c) \/ DeleteFails(c) \/ DeleteLost(c)
  \/ SetAll(c) \/ SetRefused(c) \/ SetLost(c) \/ SetPartly(c)
  \/ Undo(c) \/ Undone(c) \/ Answered(c) \/ CleanedUp(c)

Next ==
  \/ StatusStep
  \/ \E c \in Callers : Begins(c) \/ DebuggerStep(c) \/ ExternalStep(c)

Spec == Init /\ [][Next]_vars

-----------------------------------------------------------------------------
(* A run never claims a breakpoint that is gone: whenever no call holds    *)
(* the run-start lock, each listed external breakpoint is set in SAP, under *)
(* the listed ID ("the stored IDs stay right on both releases"), but where *)
(* SAP last set or deleted it in a request whose answer was lost.          *)
ListTruthful ==
  startMu = "free" /\ Active =>
    \A b \in External(bps) :
      b.loc \notin unheard => sapExt[b.loc] # 0 /\ b.id \in {0, sapExt[b.loc]}

\* The faults under which the next two hold.  A breakpoint without an ID
\* cannot be removed before the list is set again, and a breakpoint of a
\* request that SAP rejects in part stays set when its delete fails.
Tolerable ==
  {f \in SUBSET Faults : /\ f \cap {"post", "reject"} # {} => "anonymous" \notin f
                         /\ "reject" \in f => "delete" \notin f}

(* No breakpoint is left behind in SAP: each one is in the run's list, so  *)
(* that a cleanup will delete it, or a cleanup has reported it as not      *)
(* removed (debug_stop), or SAP set it in a request whose answer was lost. *)
NothingForgotten ==
  startMu = "free" =>
    \A l \in Locs \ unheard : sapExt[l] # 0 =>
      l \in reported \/ (Active /\ l \in LocsOf(External(bps)))

(* A failed debug_set_breakpoint loses nothing silently: each location     *)
(* that was set before is in the list again or is named, and none of those *)
(* it names is set (resetExternalBreakpoints), unless SAP set it in a      *)
(* request whose answer was lost.  One that succeeds has the new location  *)
(* and the old ones.                                                       *)
LossesNamed ==
  \A c \in Callers :
    call[c].at = "answer" /\ call[c].op = "add" =>
      /\ LocsOf(call[c].prev) \cup (IF call[c].ok THEN call[c].want ELSE {})
           \subseteq LocsOf(External(bps)) \cup call[c].named
      /\ \A l \in call[c].named \ unheard : sapExt[l] = 0

(* While attached, the debugger-scope breakpoints of the list are those of *)
(* the attached debugger: none of an earlier attachment, which SAP has     *)
(* dropped (rearm), and none unlisted but those of lost answers.           *)
DebuggerListExact ==
  status = "attached" /\ attached
    /\ (\A c \in Callers : call[c].at \notin {"debugger", "store"})
    => Debugger(bps) \ unheardDbg = sapDbg \ unheardDbg

(* "An external request then detaches the debugger on SAP_BASIS 750", so   *)
(* the breakpoint tools send none while a debuggee is attached             *)
(* (addBreakpoint, removeBreakpoint).                                      *)
ExternalSpares ==
  \A c \in Callers :
    call[c].op \in {"add", "remove"} /\ startMu = c /\ ~ replaces
      /\ call[c].at \in {"delete", "set", "undo"} => ~ attached
=============================================================================
