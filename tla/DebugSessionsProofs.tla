------------------------- MODULE DebugSessionsProofs -------------------------
(***************************************************************************)
(* Theorems about DebugSessions: what the debug session and the runs are   *)
(* bound to, and what is left when the process ends, for any callers,      *)
(* users, systems and runs.                                                *)
(***************************************************************************)
EXTENDS DebugSessions, TLAPS

-----------------------------------------------------------------------------
(* What a call knows at each step, whatever the others do.                 *)

InCreate == {"create", "bind", "recheck"}

CallOK(k) ==
  /\ k.at \in {"lock", "cleaning"} => k.tool \in {"debug_run", "debug_stop"}
  /\ k.at \in {"open", "set"} => k.tool = "debug_run"
  /\ k.at = "drop" => k.tool = "debug_stop"
  /\ k.at = "use" => k.tool = "debug_get_sessions"
  /\ k.at \in InCreate => k.tool \in {"debug_run", "debug_get_sessions"}
  /\ k.at = "rearm" => k.run \in 1..MaxRuns
  /\ k.tool = "in_attempt" => k.run \in 1..MaxRuns
  /\ k.tool \in {"debug_run", "debug_get_sessions"} => k.user \in Users
  /\ k.at \in {"bind", "recheck"} => k.new \in Session /\ k.new.key.user = k.user
  /\ k.tool = "debug_run" /\ k.kind = "unit_tests"
       => k.askedOn \in Systems /\ Logon[k.askedOn] \in {NoUser, k.user}

CallsOK == \A c \in Threads : CallOK(call[c])

(* Who holds startMu, and who mu.  While debug_get_sessions creates a      *)
(* session there is none, and the session that debug_run is about to give  *)
(* to its run has that run's user.                                         *)
Holds(k) ==
  \/ k.at \in {"cleaning", "open", "set", "drop"}
  \/ k.at \in InCreate /\ k.tool = "debug_run"

LockOf(c, k, owner, m, session) ==
  /\ Holds(k) <=> owner = c
  /\ k.at \in {"bind", "recheck"} => m = c
  /\ m = c => k.at \in InCreate
  /\ k.at \in InCreate /\ k.tool = "debug_get_sessions" => m = c /\ session = NoSession
  /\ k.at = "set" => session \in Session /\ session.key.user = k.user

LockInv == \A c \in Threads : LockOf(c, call[c], startMu, mu, cur)

(* While a thread holds startMu no run is active; otherwise at most the     *)
(* newest is, on the session there is.  A run is only being stopped by a    *)
(* thread that cleans up.                                                  *)
RunInv ==
  /\ startMu \in Threads => \A r \in 1..MaxRuns : ~ Active(r)
  /\ \A r \in 1..MaxRuns : Active(r) => r = run /\ cur = runs[r].on /\ cur \in Session
  /\ \A r \in 1..MaxRuns : runs[r].status = "stopping" =>
       r = run /\ \E c \in Threads : call[c].at = "cleaning"

\* The end of the process: no handler but the hook's, and then nothing to stop.
ExitInv ==
  /\ exit = "running" => call[Hook].at = "idle"
  /\ exit # "running" => \A c \in Callers : call[c].at = "idle"
  /\ call[Hook].at \in {"idle", "lock", "cleaning", "drop"}
  /\ call[Hook].at # "idle" => call[Hook].tool = "debug_stop"
  /\ exit = "out" => call[Hook].at = "idle"
  /\ exit \in {"cleaning", "out"} /\ call[Hook].at = "idle" =>
       \A r \in 1..MaxRuns : ~ Active(r) /\ runs[r].status # "stopping"

SafeInv == TypeOK /\ CallsOK /\ LockInv /\ RunInv /\ ExitInv

(* The sessions.  A pair that was bound to the wrong system is not kept:    *)
(* the active system does not come back to the one of the key.             *)
BoundInv ==
  /\ cur.bound = cur.key.system
  /\ \A r \in 1..MaxRuns : runs[r].on.bound = runs[r].on.key.system
  /\ \A c \in Threads :
       call[c].at = "recheck" /\ active = call[c].new.key.system
         => call[c].new.bound = call[c].new.key.system

\* The user of a run of unit tests.
LogonInv ==
  \A r \in 1..MaxRuns :
    LET on == runs[r].on IN
    runs[r].kind = "unit_tests" /\ runs[r].askedOn = on.key.system
      => Logon[on.key.system] \in {NoUser, on.key.user}

-----------------------------------------------------------------------------
\* The threads, and the two that hold a lock without being one.
LEMMA ThreadFacts ==
  /\ Hook \in Threads /\ Callers \subseteq Threads
  /\ None \notin Threads /\ Idle \notin Threads /\ None # Idle
<1>1. None # Idle
  BY DEF None, Idle
<1> QED
  BY <1>1, SessionsAssumption DEF SessionsAssumption, Threads

LEMMA MaxRunsNat == MaxRuns \in Nat
BY SessionsAssumption DEF SessionsAssumption

\* The records that handlers begin with.
LEMMA NewCallType ==
  /\ NoCall \in Call /\ CallOK(NoCall) /\ NoCall.at = "idle" /\ NoCall.tool = ""
  /\ NoSession \notin Session /\ NoSession.bound = NoSession.key.system
<1>1. NoCall \in Call /\ NoCall.at = "idle" /\ NoCall.tool = ""
  <2>1. 0 \in 0..MaxRuns
    BY MaxRunsNat
  <2>2. "idle" \in Pcs /\ "other" \in Kinds /\ "" \in Asked
    BY DEF Pcs, Kinds, Asked
  <2> QED
    BY <2>1, <2>2 DEF NoCall, Call
<1>2. CallOK(NoCall)
  BY DEF NoCall, CallOK, InCreate
<1>3. NoSession \notin Session
  <2> SUFFICES ASSUME NoSession \in Session PROVE FALSE
    OBVIOUS
  <2>1. NoSession.key.user \in Users
    BY DEF Session, Key
  <2> QED
    BY <2>1, SessionsAssumption DEF SessionsAssumption, NoSession
<1>4. NoSession.bound = NoSession.key.system
  BY DEF NoSession
<1> QED
  BY <1>1, <1>2, <1>3, <1>4

LEMMA KeyType ==
  ASSUME TypeOK, NEW user \in Users
  PROVE  KeyFor(user) \in Key /\ KeyFor(user).user = user
         /\ KeyFor(user).system = active /\ KeyFor(user) # NoSession.key
BY SessionsAssumption DEF SessionsAssumption, TypeOK, KeyFor, Key, NoSession

\* One call becomes another.
LEMMA OneCall ==
  ASSUME TypeOK, NEW c \in Threads, NEW k \in Call, call' = [call EXCEPT ![c] = k]
  PROVE  /\ call' \in [Threads -> Call] /\ call'[c] = k
         /\ \A d \in Threads : d # c => call'[d] = call[d]
BY DEF TypeOK

\* A run that there is changes its status, and nothing else.
LEMMA OneStatus ==
  ASSUME TypeOK, NEW r \in 1..MaxRuns,
         NEW s \in {"listening", "attaching", "attached", "ended", "timeout",
                    "stopping", "stopped"}, SetStatus(r, s)
  PROVE  /\ runs' \in [1..MaxRuns -> Run] /\ runs'[r].status = s
         /\ runs'[r].on = runs[r].on /\ runs'[r].kind = runs[r].kind
         /\ runs'[r].askedOn = runs[r].askedOn
         /\ \A q \in 1..MaxRuns : q # r => runs'[q] = runs[q]
BY DEF TypeOK, SetStatus, Run

-----------------------------------------------------------------------------
\* Every step moves one call, or none.
CallMoves(c, k) == k \in Call /\ CallOK(k) /\ call' = [call EXCEPT ![c] = k]

\* A handler goes on to its next step, or returns.
LEMMA Goes ==
  ASSUME TypeOK, NEW c \in Threads, NEW pc \in Pcs, Go(c, pc),
         CallOK([call[c] EXCEPT !.at = pc])
  PROVE  \E k \in Call : CallMoves(c, k)
<1>1. [call[c] EXCEPT !.at = pc] \in Call
  BY DEF TypeOK, Call
<1> QED
  BY <1>1 DEF Go, CallMoves

LEMMA Returns ==
  ASSUME TypeOK, NEW c \in Threads, Return(c)
  PROVE  \E k \in Call : CallMoves(c, k)
BY NewCallType DEF Return, CallMoves

LEMMA BeginMoves ==
  ASSUME TypeOK, NEW c \in Threads, DebugTool(c)
  PROVE  \E k \in Call : CallMoves(c, k) /\ k.at \in {"lock", "rearm", "begin", "use"}
<1>1. CASE DebugRun(c)
  <2>1. PICK kind \in Kinds, given \in Users \cup {NoUser} :
          /\ RunUser(kind, given) # NoUser
          /\ Calls(c, [NoCall EXCEPT !.tool = "debug_run", !.at = "lock", !.kind = kind,
                        !.user = RunUser(kind, given),
                        !.askedOn = IF kind = "unit_tests" THEN active ELSE ""])
    BY <1>1 DEF DebugRun
  <2>2. active \in Systems /\ Logon[active] \in Users \cup {NoUser}
    BY SessionsAssumption DEF SessionsAssumption, TypeOK
  <2>3. /\ RunUser(kind, given) \in Users
        /\ kind = "unit_tests" => Logon[active] \in {NoUser, RunUser(kind, given)}
    BY <2>1, <2>2 DEF RunUser, Resolved
  <2>4. active \in Asked /\ "" \in Asked
    BY <2>2 DEF Asked
  <2> DEFINE k == [NoCall EXCEPT !.tool = "debug_run", !.at = "lock", !.kind = kind,
                     !.user = RunUser(kind, given),
                     !.askedOn = IF kind = "unit_tests" THEN active ELSE ""]
  <2>5. k \in Call
    BY <2>3, <2>4, NewCallType DEF Call, Tools, Pcs
  <2>6. CallOK(k) /\ k.at = "lock"
    BY <2>2, <2>3, NewCallType DEF Call, CallOK, InCreate
  <2> QED
    BY <2>1, <2>5, <2>6 DEF Calls, CallMoves
<1>2. CASE DebugStop(c)
  <2> DEFINE k == [NoCall EXCEPT !.tool = "debug_stop", !.at = "lock"]
  <2>1. k \in Call /\ CallOK(k) /\ k.at = "lock"
    BY NewCallType DEF Call, Tools, Pcs, CallOK, InCreate
  <2> QED
    BY <1>2, <2>1 DEF DebugStop, Calls, CallMoves
<1>3. CASE DebugWait(c)
  <2> DEFINE k == [NoCall EXCEPT !.tool = "debug_wait", !.at = "rearm", !.run = run]
  <2>1. run \in 1..MaxRuns /\ run \in 0..MaxRuns
    BY <1>3, MaxRunsNat DEF DebugWait, TypeOK
  <2>2. k \in Call
    BY <2>1, NewCallType DEF Call, Tools, Pcs
  <2>3. CallOK(k) /\ k.at \in {"rearm", "begin"}
    BY <2>1, NewCallType DEF Call, CallOK, InCreate
  <2> QED
    BY <1>3, <2>2, <2>3 DEF DebugWait, Calls, CallMoves
<1>4. CASE InAttempt(c)
  <2> DEFINE k == [NoCall EXCEPT !.tool = "in_attempt", !.at = "begin", !.run = run]
  <2>1. run \in 1..MaxRuns /\ run \in 0..MaxRuns
    BY <1>4, MaxRunsNat DEF InAttempt, TypeOK
  <2>2. k \in Call
    BY <2>1, NewCallType DEF Call, Tools, Pcs
  <2>3. CallOK(k) /\ k.at \in {"rearm", "begin"}
    BY <2>1, NewCallType DEF Call, CallOK, InCreate
  <2> QED
    BY <1>4, <2>2, <2>3 DEF InAttempt, Calls, CallMoves
<1>5. CASE GetSessions(c)
  <2>1. PICK given \in Users \cup {NoUser} :
          /\ Resolved(given) # NoUser
          /\ Calls(c, [NoCall EXCEPT !.tool = "debug_get_sessions", !.at = "use",
                                     !.user = Resolved(given)])
    BY <1>5 DEF GetSessions
  <2>2. Resolved(given) \in Users
    BY <2>1, SessionsAssumption DEF SessionsAssumption, TypeOK, Resolved
  <2> DEFINE k == [NoCall EXCEPT !.tool = "debug_get_sessions", !.at = "use",
                                 !.user = Resolved(given)]
  <2>3. k \in Call /\ CallOK(k) /\ k.at = "use"
    BY <2>2, NewCallType DEF Call, Tools, Pcs, CallOK, InCreate
  <2> QED
    BY <2>1, <2>3 DEF Calls, CallMoves
<1> QED
  BY <1>1, <1>2, <1>3, <1>4, <1>5 DEF DebugTool

LEMMA LaunchMoves ==
  ASSUME TypeOK, CallsOK, NEW c \in Threads, Launches(c)
  PROVE  \E k \in Call : CallMoves(c, k)
<1>0. call[c] \in Call /\ CallOK(call[c])
  BY DEF TypeOK, CallsOK
<1>1. CASE StartLocked(c) \/ Cleaned(c)
  <2>1. PICK pc \in {"cleaning", AfterCleanup(c)} : Go(c, pc)
    BY <1>1 DEF StartLocked, Cleaned
  <2>2. pc \in Pcs /\ CallOK([call[c] EXCEPT !.at = pc])
    BY <1>0, <1>1, <2>1 DEF StartLocked, Cleaned, AfterCleanup, Pcs, Call, CallOK, InCreate
  <2> QED
    BY <2>1, <2>2, Goes
<1>2. CASE Drop(c) \/ Publish(c) \/ SetFails(c)
  BY <1>2, Returns DEF Drop, Publish, SetFails
<1>3. CASE Open(c)
  <2>1. PICK pc \in {"set", "create"} : Go(c, pc)
    BY <1>3 DEF Open
  <2>2. pc \in Pcs /\ CallOK([call[c] EXCEPT !.at = pc])
    BY <1>0, <1>3, <2>1 DEF Open, Pcs, Call, CallOK, InCreate
  <2> QED
    BY <2>1, <2>2, Goes
<1>4. CASE CreateLocked(c)
  <2> DEFINE n == [key |-> KeyFor(call[c].user), bound |-> active]
             k == [call[c] EXCEPT !.at = "bind", !.new = n]
  <2>1. call[c].user \in Users
    BY <1>0, <1>4 DEF CreateLocked, CallOK, InCreate
  <2>2. n \in Session /\ n.key.user = call[c].user
    BY <2>1, KeyType DEF Session, TypeOK
  <2>3. call' = [call EXCEPT ![c] = k]
    BY <1>0, <1>4 DEF CreateLocked, TypeOK, Call
  <2> HIDE DEF n
  <2>4. k \in Call
    BY <1>0, <2>2 DEF Call, Pcs
  <2>5. CallOK(k)
    BY <1>0, <1>4, <2>2 DEF CreateLocked, Call, CallOK, InCreate
  <2> QED
    BY <2>3, <2>4, <2>5 DEF CallMoves
<1>5. CASE Bind(c)
  <2> DEFINE n == [call[c].new EXCEPT !.bound = active]
             k == [call[c] EXCEPT !.at = "recheck", !.new = n]
  <2>1. call[c].new \in Session /\ call[c].new.key.user = call[c].user
    BY <1>0, <1>5 DEF Bind, CallOK
  <2>2. n \in Session /\ n.key.user = call[c].user
    BY <2>1 DEF Session, TypeOK
  <2>3. call' = [call EXCEPT ![c] = k]
    BY <1>0, <1>5 DEF Bind, TypeOK, Call
  <2> HIDE DEF n
  <2>4. k \in Call
    BY <1>0, <2>2 DEF Call, Pcs
  <2>5. CallOK(k)
    BY <1>0, <1>5, <2>2 DEF Bind, Call, CallOK, InCreate
  <2> QED
    BY <2>3, <2>4, <2>5 DEF CallMoves
<1>6. CASE Recheck(c)
  <2>1. CASE SameKey(c)
    <3> DEFINE k == [call[c] EXCEPT !.new = NoSession,
                  !.at = IF call[c].tool = "debug_run" THEN "set" ELSE "request"]
    <3>1. call' = [call EXCEPT ![c] = k]
      BY <1>0, <1>6, <2>1 DEF Recheck, TypeOK, Call
    <3>2. k \in Call
      BY <1>0 DEF Call, Pcs
    <3>3. CallOK(k)
      BY <1>0, <1>6 DEF Recheck, Call, CallOK, InCreate
    <3> QED
      BY <3>1, <3>2, <3>3 DEF CallMoves
  <2>2. CASE ~ SameKey(c)
    <3>1. Go(c, "create") /\ "create" \in Pcs
      BY <1>6, <2>2 DEF Recheck, Pcs
    <3>2. CallOK([call[c] EXCEPT !.at = "create"])
      BY <1>0, <1>6 DEF Recheck, Call, CallOK, InCreate
    <3> QED
      BY <3>1, <3>2, Goes
  <2> QED
    BY <2>1, <2>2
<1> QED
  BY <1>1, <1>2, <1>3, <1>4, <1>5, <1>6 DEF Launches

\* Where createLocked goes next.
LEMMA CreateAt ==
  ASSUME TypeOK, NEW c \in Threads
  PROVE  /\ CreateLocked(c) => call'[c].at = "bind"
         /\ Bind(c) => call'[c].at = "recheck"
         /\ Recheck(c) => call'[c].at \in {"set", "request", "create"}
<1>1. call[c] \in Call
  BY DEF TypeOK
<1>2. ASSUME CreateLocked(c) PROVE call'[c].at = "bind"
  <2>1. call'[c] = [call[c] EXCEPT !.at = "bind",
                      !.new = [key |-> KeyFor(call[c].user), bound |-> active]]
    BY <1>2 DEF CreateLocked, TypeOK
  <2> QED
    BY <1>1, <2>1 DEF Call
<1>3. ASSUME Bind(c) PROVE call'[c].at = "recheck"
  <2>1. call'[c] = [call[c] EXCEPT !.at = "recheck", !.new.bound = active]
    BY <1>3 DEF Bind, TypeOK
  <2> QED
    BY <1>1, <2>1 DEF Call
<1>4. ASSUME Recheck(c), SameKey(c) PROVE call'[c].at \in {"set", "request"}
  <2>1. call'[c] = [call[c] EXCEPT !.new = NoSession,
                      !.at = IF call[c].tool = "debug_run" THEN "set" ELSE "request"]
    BY <1>4 DEF Recheck, TypeOK
  <2> QED
    BY <1>1, <2>1 DEF Call
<1>5. ASSUME Recheck(c), ~ SameKey(c) PROVE call'[c].at = "create"
  <2>1. call'[c] = [call[c] EXCEPT !.at = "create"]
    BY <1>5 DEF Recheck, Go, TypeOK
  <2> QED
    BY <1>1, <2>1 DEF Call
<1> QED
  BY <1>2, <1>3, <1>4, <1>5

LEMMA WorkMoves ==
  ASSUME TypeOK, CallsOK, NEW c \in Threads, Works(c)
  PROVE  \E k \in Call : CallMoves(c, k)
<1>0. call[c] \in Call /\ CallOK(call[c])
  BY DEF TypeOK, CallsOK
<1>1. CASE Rearm(c) \/ Answered(c)
  BY <1>1, Returns DEF Rearm, Answered
<1>2. CASE BeginCall(c)
  <2>1. Go(c, "request") \/ Return(c)
    BY <1>2 DEF BeginCall
  <2>2. "request" \in Pcs /\ CallOK([call[c] EXCEPT !.at = "request"])
    BY <1>0 DEF Pcs, Call, CallOK, InCreate
  <2> QED
    BY <2>1, <2>2, Goes, Returns
<1>3. CASE Use(c)
  <2>1. Return(c) \/ \E pc \in {"create", "request"} : Go(c, pc)
    BY <1>3 DEF Use, Fits
  <2>2. ASSUME NEW pc \in {"create", "request"}
        PROVE  pc \in Pcs /\ CallOK([call[c] EXCEPT !.at = pc])
    BY <1>0, <1>3 DEF Use, Pcs, Call, CallOK, InCreate
  <2> QED
    BY <2>1, <2>2, Goes, Returns
<1> QED
  BY <1>1, <1>2, <1>3 DEF Works

\* What any step does to the calls.
LEMMA CallStep ==
  ASSUME TypeOK, CallsOK, [Next]_vars
  PROVE  UNCHANGED call \/ \E c \in Threads : \E k \in Call : CallMoves(c, k)
<1>1. CASE \E c \in Threads : DebugTool(c) \/ Launches(c) \/ Works(c)
  BY <1>1, BeginMoves, LaunchMoves, WorkMoves
<1>2. CASE ExitBegins
  <2> DEFINE k == [NoCall EXCEPT !.tool = "debug_stop", !.at = "lock"]
  <2>1. k \in Call /\ CallOK(k)
    BY NewCallType DEF Call, Tools, Pcs, CallOK, InCreate
  <2> QED
    BY <1>2, <2>1, ThreadFacts DEF ExitBegins, CallMoves
<1>3. CASE (\E r \in 1..MaxRuns : Background(r)) \/ SelectSystem \/ HookWaits
             \/ LogOut \/ UNCHANGED vars
  BY <1>3 DEF Background, Listens, IdleBegins, IdleEnds, SelectSystem, HookWaits,
              LogOut, vars
<1> QED
  BY <1>1, <1>2, <1>3 DEF Next

\* What any step does to the runs: a run that is active and stays so moves on,
\* or debug_run or debug_stop, with startMu, stops a run or makes the next one.
RunMoves(r, s) ==
  /\ Active(r) /\ SetStatus(r, s) /\ s \in LC!Successors(runs[r].status) \ {"stopping"}
  /\ UNCHANGED <<active, mu, cur, run>> /\ startMu' \in {startMu, None}

LEMMA RunSteps ==
  ASSUME TypeOK, CallsOK, [Next]_vars
  PROVE  \/ UNCHANGED runVars
         \/ \E r \in 1..MaxRuns : \E s \in {"listening", "attaching", "attached",
                                            "ended", "timeout"} : RunMoves(r, s)
         \/ \E c \in Threads : StartLocked(c) \/ Cleaned(c) \/ Publish(c)
<1>1. CASE \E c \in Threads : DebugTool(c) \/ Use(c) \/ BeginCall(c)
  BY <1>1 DEF DebugTool, DebugRun, DebugStop, DebugWait, InAttempt, GetSessions, Use,
              BeginCall, runVars
<1>2. CASE \E c \in Threads : Launches(c)
  BY <1>2 DEF Launches, Drop, Open, CreateLocked, Bind, Recheck, SetFails, runVars
<1>3. ASSUME NEW c \in Threads, Rearm(c)
      PROVE  UNCHANGED runVars \/ \E r \in 1..MaxRuns : RunMoves(r, "listening")
  <2>1. call[c].run \in 1..MaxRuns
    BY <1>3 DEF Rearm, CallsOK, CallOK
  <2>2. CASE MayRearm(call[c].run)
    BY <1>3, <2>1, <2>2 DEF Rearm, MayRearm, RunMoves, Active, LC!Successors, locks
  <2>3. CASE ~ MayRearm(call[c].run)
    BY <1>3, <2>3 DEF Rearm, runVars
  <2> QED
    BY <2>2, <2>3
<1>4. ASSUME NEW c \in Threads, Answered(c)
      PROVE  UNCHANGED runVars \/ \E r \in 1..MaxRuns : RunMoves(r, "ended")
  <2>1. call[c].tool = "in_attempt" => call[c].run \in 1..MaxRuns
    BY DEF CallsOK, CallOK
  <2> QED
    BY <1>4, <2>1 DEF Answered, RunMoves, Active, LC!Successors, locks, runVars
<1>5. ASSUME NEW r \in 1..MaxRuns, Background(r)
      PROVE  UNCHANGED runVars
             \/ \E s \in {"attaching", "attached", "ended", "timeout"} : RunMoves(r, s)
  <2>1. CASE Listens(r)
    <3>1. PICK s \in LC!Successors(runs[r].status) \ {"stopping"} : SetStatus(r, s)
      BY <2>1 DEF Listens
    <3>2. s \in {"attaching", "attached", "ended", "timeout"} /\ Active(r)
      BY <2>1, <3>1 DEF Listens, LC!Successors, Active
    <3> QED
      BY <2>1, <3>1, <3>2 DEF Listens, RunMoves, locks
  <2>2. CASE IdleBegins(r)
    BY <2>2 DEF IdleBegins, runVars
  <2>3. CASE IdleEnds(r)
    BY <2>3 DEF IdleEnds, RunMoves, Active, LC!Successors
  <2> QED
    BY <1>5, <2>1, <2>2, <2>3 DEF Background
<1>6. CASE SelectSystem \/ ExitBegins \/ HookWaits \/ LogOut \/ UNCHANGED vars
  BY <1>6 DEF SelectSystem, ExitBegins, HookWaits, LogOut, runVars, vars
<1> QED
  BY <1>1, <1>2, <1>3, <1>4, <1>5, <1>6 DEF Next, Works

-----------------------------------------------------------------------------
\* Types, and what the calls know.
LEMMA TypeStep == ASSUME TypeOK, CallsOK, [Next]_vars PROVE TypeOK'
<1>1. call' \in [Threads -> Call]
  BY CallStep, OneCall DEF TypeOK, CallMoves
<1>2. runs' \in [1..MaxRuns -> Run] /\ run' \in 0..MaxRuns
  <2>1. CASE UNCHANGED runVars
    BY <2>1 DEF runVars, TypeOK
  <2>2. ASSUME NEW r \in 1..MaxRuns,
               NEW s \in {"listening", "attaching", "attached", "ended", "timeout"},
               RunMoves(r, s)
        PROVE  runs' \in [1..MaxRuns -> Run] /\ run' \in 0..MaxRuns
    BY <2>2, OneStatus DEF RunMoves, TypeOK
  <2>3. ASSUME NEW c \in Threads, StartLocked(c) \/ Cleaned(c)
        PROVE  runs' \in [1..MaxRuns -> Run] /\ run' \in 0..MaxRuns
    BY <2>3 DEF StartLocked, Cleaned, SetStatus, runVars, TypeOK, Run
  <2>4. ASSUME NEW c \in Threads, Publish(c)
        PROVE  runs' \in [1..MaxRuns -> Run] /\ run' \in 0..MaxRuns
    <3> DEFINE n == [status |-> "listening", kind |-> call[c].kind, on |-> cur,
                     askedOn |-> call[c].askedOn]
    <3>1. n \in Run
      BY DEF Run, TypeOK, Call
    <3>2. runs' = [runs EXCEPT ![run + 1] = n] /\ run' = run + 1 /\ run < MaxRuns
      BY <2>4 DEF Publish
    <3> HIDE DEF n
    <3> QED
      BY <3>1, <3>2, MaxRunsNat DEF TypeOK
  <2> QED
    BY <2>1, <2>2, <2>3, <2>4, RunSteps
<1>3. active' \in Systems
  BY DEF Next, vars, TypeOK, DebugTool, DebugRun, DebugStop, DebugWait, InAttempt,
         GetSessions, Launches, StartLocked, Cleaned, Drop, Open, CreateLocked, Bind,
         Recheck, Publish, SetFails, Works, Rearm, BeginCall, Use, Answered, Background,
         Listens, IdleBegins, IdleEnds, SelectSystem, ExitBegins, HookWaits, LogOut
<1>4. startMu' \in Threads \cup {None, Idle} /\ mu' \in Threads \cup {None}
  BY DEF Next, vars, TypeOK, DebugTool, DebugRun, DebugStop, DebugWait, InAttempt,
         GetSessions, Launches, StartLocked, Cleaned, Drop, Open, CreateLocked, Bind,
         Recheck, Publish, SetFails, Works, Rearm, BeginCall, Use, Answered, Background,
         Listens, IdleBegins, IdleEnds, SelectSystem, ExitBegins, HookWaits, LogOut, locks
<1>5. cur' \in Session \cup {NoSession}
  <2>1. ASSUME NEW c \in Threads, Recheck(c) PROVE cur' \in Session \cup {NoSession}
    BY <2>1 DEF Recheck, TypeOK, CallsOK, CallOK
  <2> QED
  BY <2>1 DEF Next, vars, TypeOK, DebugTool, DebugRun, DebugStop, DebugWait, InAttempt,
         GetSessions, Launches, StartLocked, Cleaned, Drop, Open, CreateLocked, Bind,
         Publish, SetFails, Works, Rearm, BeginCall, Use, Answered, Background,
         Listens, IdleBegins, IdleEnds, SelectSystem, ExitBegins, HookWaits, LogOut
<1>6. exit' \in {"running", "cleaning", "late", "out", "aborted"}
  BY DEF Next, vars, TypeOK, DebugTool, DebugRun, DebugStop, DebugWait, InAttempt,
         GetSessions, Launches, StartLocked, Cleaned, Drop, Open, CreateLocked, Bind,
         Recheck, Publish, SetFails, Works, Rearm, BeginCall, Use, Answered, Background,
         Listens, IdleBegins, IdleEnds, SelectSystem, ExitBegins, HookWaits, LogOut
<1> QED
  BY <1>1, <1>2, <1>3, <1>4, <1>5, <1>6 DEF TypeOK

LEMMA CallsStep == ASSUME TypeOK, CallsOK, [Next]_vars PROVE CallsOK'
BY CallStep, OneCall DEF CallsOK, CallMoves

-----------------------------------------------------------------------------
(* The locks.  One call moves from k0 to k; the others see neither lock     *)
(* change hands, nor the session if they depend on it.                     *)
LEMMA LockKept ==
  ASSUME TypeOK, LockInv, NEW c \in Threads, NEW k \in Call,
         call' = [call EXCEPT ![c] = k],
         LockOf(c, k, startMu', mu', cur'),
         \A d \in Threads : d # c => (startMu' = d <=> startMu = d) /\ (mu' = d <=> mu = d),
         \/ cur' = cur
         \/ \A d \in Threads : d # c => mu # d /\ call[d].at # "set"
  PROVE  LockInv'
<1> SUFFICES ASSUME NEW d \in Threads
             PROVE  LockOf(d, call'[d], startMu', mu', cur')
  BY DEF LockInv
<1>1. CASE d = c
  BY <1>1, OneCall
<1>2. CASE d # c
  <2>1. call'[d] = call[d] /\ LockOf(d, call[d], startMu, mu, cur)
    BY <1>2, OneCall DEF LockInv
  <2> QED
    BY <1>2, <2>1 DEF LockOf
<1> QED
  BY <1>1, <1>2

\* A call that has no lock and gets none.
LEMMA LockApart ==
  ASSUME TypeOK, LockInv, NEW c \in Threads, NEW k \in Call,
         call' = [call EXCEPT ![c] = k], UNCHANGED <<locks, cur>>,
         k.at \notin {"cleaning", "open", "set", "drop"} \cup InCreate,
         call[c].at \notin {"cleaning", "open", "set", "drop"} \cup InCreate
  PROVE  LockInv'
<1>1. LockOf(c, call[c], startMu, mu, cur)
  BY DEF LockInv
<1>2. LockOf(c, k, startMu', mu', cur')
  BY <1>1 DEF LockOf, Holds, locks, InCreate
<1> QED
  BY <1>2, LockKept DEF locks

LEMMA BeginLock ==
  ASSUME TypeOK, LockInv, NEW c \in Threads, DebugTool(c)
  PROVE  LockInv'
<1>1. PICK k \in Call : CallMoves(c, k) /\ k.at \in {"lock", "rearm", "begin", "use"}
  BY BeginMoves
<1>2. UNCHANGED <<locks, cur>> /\ call[c].at = "idle"
  BY DEF DebugTool, DebugRun, DebugStop, DebugWait, InAttempt, GetSessions, Calls
<1> QED
  BY <1>1, <1>2, LockApart DEF CallMoves, InCreate

LEMMA LaunchLock ==
  ASSUME TypeOK, CallsOK, LockInv, NEW c \in Threads, Launches(c)
  PROVE  LockInv'
<1>0. /\ call[c] \in Call /\ CallOK(call[c]) /\ LockOf(c, call[c], startMu, mu, cur)
      /\ None \notin Threads
  BY ThreadFacts DEF TypeOK, CallsOK, LockInv
<1>1. CASE StartLocked(c)
  <2>1. PICK pc \in {"cleaning", "open", "drop"} : Go(c, pc)
    BY <1>1 DEF StartLocked, AfterCleanup
  <2> DEFINE k == [call[c] EXCEPT !.at = pc]
  <2>2. k \in Call /\ k.at = pc
    BY <1>0 DEF Call, Pcs
  <2>3. LockOf(c, k, startMu', mu', cur')
    BY <1>0, <1>1, <2>2 DEF StartLocked, LockOf, Holds, InCreate
  <2> QED
    BY <1>0, <1>1, <2>1, <2>2, <2>3, LockKept DEF StartLocked, Go
<1>2. CASE Cleaned(c)
  <2>1. PICK pc \in {"open", "drop"} : Go(c, pc)
    BY <1>2 DEF Cleaned, AfterCleanup
  <2> DEFINE k == [call[c] EXCEPT !.at = pc]
  <2>2. k \in Call /\ k.at = pc
    BY <1>0 DEF Call, Pcs
  <2>3. LockOf(c, k, startMu', mu', cur')
    BY <1>0, <1>2, <2>2 DEF Cleaned, LockOf, Holds, InCreate, locks
  <2> QED
    BY <1>0, <1>2, <2>1, <2>2, <2>3, LockKept DEF Cleaned, Go, locks
<1>3. CASE Drop(c)
  <2>1. LockOf(c, NoCall, startMu', mu', cur')
    BY <1>0, <1>3, NewCallType DEF Drop, LockOf, Holds, InCreate
  <2>2. startMu = c /\ \A d \in Threads : d # c => mu # d /\ call[d].at # "set"
    BY <1>0, <1>3 DEF Drop, LockInv, LockOf, Holds
  <2> QED
    BY <1>0, <1>3, <2>1, <2>2, NewCallType, LockKept DEF Drop, Return
<1>4. CASE Open(c)
  <2>1. PICK pc \in {"set", "create"} :
          Go(c, pc) /\ (pc = "set" => cur.key = KeyFor(call[c].user))
    BY <1>4 DEF Open
  <2> DEFINE k == [call[c] EXCEPT !.at = pc]
  <2>2. k \in Call /\ k.at = pc /\ k.user = call[c].user /\ k.tool = "debug_run"
        /\ call[c].user \in Users
    BY <1>0, <1>4 DEF Open, Call, Pcs, CallOK
  <2>3. pc = "set" => cur \in Session /\ cur.key.user = call[c].user
    BY <2>1, <2>2, KeyType DEF TypeOK
  <2>4. LockOf(c, k, startMu', mu', cur')
    BY <1>0, <1>4, <2>2, <2>3 DEF Open, LockOf, Holds, InCreate, locks
  <2> QED
    BY <1>0, <1>4, <2>1, <2>2, <2>4, LockKept DEF Open, Go, locks
<1>5. CASE CreateLocked(c) \/ Bind(c) \/ (Recheck(c) /\ ~ SameKey(c))
  <2>1. PICK k \in Call : CallMoves(c, k)
    BY <1>5, LaunchMoves DEF Launches
  <2>2. k.at \in InCreate /\ k.tool = call[c].tool /\ call[c].at \in InCreate
    <3>1. call'[c] = k
      BY <2>1, OneCall DEF CallMoves
    <3>0. call \in [Threads -> Call] /\ call[c] \in Call
      BY <1>0 DEF TypeOK
    <3>2. CASE CreateLocked(c)
      BY <3>0, <3>1, <3>2 DEF CreateLocked, Call, InCreate
    <3>3. CASE Bind(c)
      BY <3>0, <3>1, <3>3 DEF Bind, Call, InCreate
    <3>4. CASE Recheck(c) /\ ~ SameKey(c)
      <4>1. /\ call[c].at = "recheck"
            /\ call' = [call EXCEPT ![c] = [call[c] EXCEPT !.at = "create"]]
        BY <3>0, <3>4 DEF Recheck, Go
      <4>2. k = [call[c] EXCEPT !.at = "create"]
        BY <3>0, <3>1, <4>1
      <4> QED
        BY <3>0, <4>1, <4>2 DEF Call, InCreate
    <3> QED
      BY <1>5, <3>2, <3>3, <3>4
  <2>3. mu' = c /\ mu \in {None, c} /\ UNCHANGED <<startMu, cur>>
    BY <1>0, <1>5 DEF CreateLocked, Bind, Recheck, LockOf, locks
  <2>4. LockOf(c, k, startMu', mu', cur')
    BY <1>0, <2>2, <2>3 DEF LockOf, Holds, InCreate
  <2> QED
    BY <1>0, <2>1, <2>3, <2>4, LockKept DEF CallMoves
<1>6. CASE Recheck(c) /\ SameKey(c)
  <2> DEFINE k == [call[c] EXCEPT !.new = NoSession,
                !.at = IF call[c].tool = "debug_run" THEN "set" ELSE "request"]
  <2>1. call' = [call EXCEPT ![c] = k]
    BY <1>0, <1>6 DEF Recheck, TypeOK, Call
  <2>2. /\ k \in Call /\ k.tool = call[c].tool /\ k.user = call[c].user
        /\ k.at = IF call[c].tool = "debug_run" THEN "set" ELSE "request"
    BY <1>0 DEF Call, Pcs
  <2>3. /\ cur' = call[c].new /\ mu = c /\ mu' = None /\ startMu' = startMu
        /\ call[c].new \in Session /\ call[c].new.key.user = call[c].user
        /\ call[c].tool \in {"debug_run", "debug_get_sessions"}
        /\ call[c].at = "recheck"
    BY <1>0, <1>6 DEF Recheck, LockOf, CallOK, InCreate
  <2> HIDE DEF k
  <2>4. LockOf(c, k, startMu', mu', cur')
    BY <1>0, <2>2, <2>3 DEF LockOf, Holds, InCreate
  <2>5. ASSUME NEW d \in Threads, d # c PROVE mu # d /\ call[d].at # "set"
    <3>1. LockOf(d, call[d], startMu, mu, cur)
      BY DEF LockInv
    <3>2. startMu = c \/ cur = NoSession
      BY <1>0, <2>3 DEF LockOf, Holds, InCreate
    <3> QED
      BY <2>3, <2>5, <3>1, <3>2, NewCallType DEF LockOf, Holds
  <2> QED
    BY <1>0, <2>1, <2>2, <2>3, <2>4, <2>5, LockKept
<1>7. CASE Publish(c) \/ SetFails(c)
  <2>1. LockOf(c, NoCall, startMu', mu', cur')
    BY <1>0, <1>7, NewCallType DEF Publish, SetFails, LockOf, Holds, InCreate
  <2>2. startMu = c
    BY <1>0, <1>7 DEF Publish, SetFails, LockOf, Holds
  <2> QED
    BY <1>0, <1>7, <2>1, <2>2, NewCallType, LockKept DEF Publish, SetFails, Return
<1> QED
  BY <1>1, <1>2, <1>3, <1>4, <1>5, <1>6, <1>7 DEF Launches

LEMMA WorkLock ==
  ASSUME TypeOK, CallsOK, LockInv, NEW c \in Threads, Works(c)
  PROVE  LockInv'
<1>0. /\ call[c] \in Call /\ CallOK(call[c]) /\ LockOf(c, call[c], startMu, mu, cur)
      /\ None \notin Threads
  BY ThreadFacts DEF TypeOK, CallsOK, LockInv
<1>1. CASE Rearm(c) \/ Answered(c)
  BY <1>1, NewCallType, LockApart DEF Rearm, Answered, Return, locks, InCreate
<1>2. CASE BeginCall(c)
  <2>1. [call[c] EXCEPT !.at = "request"] \in Call
        /\ [call[c] EXCEPT !.at = "request"].at = "request"
    BY <1>0 DEF Call, Pcs
  <2> QED
    BY <1>2, <2>1, NewCallType, LockApart DEF BeginCall, Go, Return, InCreate
<1>3. CASE Use(c) /\ Fits(c) = "create"
  <2> DEFINE k == [call[c] EXCEPT !.at = "create"]
  <2>1. k \in Call /\ k.at = "create" /\ k.tool = "debug_get_sessions"
    BY <1>0, <1>3 DEF Use, Call, Pcs, CallOK
  <2>2. /\ call' = [call EXCEPT ![c] = k] /\ mu' = c /\ mu = None /\ cur = NoSession
        /\ UNCHANGED <<startMu, cur>>
    BY <1>3 DEF Use, Fits, Go
  <2>3. LockOf(c, k, startMu', mu', cur')
    BY <1>0, <1>3, <2>1, <2>2 DEF Use, LockOf, Holds, InCreate
  <2> QED
    BY <1>0, <2>1, <2>2, <2>3, LockKept
<1>4. CASE Use(c) /\ Fits(c) # "create"
  <2>1. [call[c] EXCEPT !.at = "request"] \in Call
        /\ [call[c] EXCEPT !.at = "request"].at = "request"
    BY <1>0 DEF Call, Pcs
  <2>2. Go(c, "request") \/ Return(c)
    BY <1>4 DEF Use, Fits
  <2>3. UNCHANGED <<locks, cur>> /\ call[c].at = "use"
    BY <1>4 DEF Use, locks
  <2> QED
    BY <2>1, <2>2, <2>3, NewCallType, LockApart DEF Go, Return, InCreate
<1> QED
  BY <1>1, <1>2, <1>3, <1>4 DEF Works

LEMMA LockStep ==
  ASSUME TypeOK, CallsOK, LockInv, ExitInv, [Next]_vars PROVE LockInv'
<1>1. CASE \E c \in Threads : DebugTool(c) \/ Launches(c) \/ Works(c)
  BY <1>1, BeginLock, LaunchLock, WorkLock
<1>2. CASE ExitBegins
  <2> DEFINE k == [NoCall EXCEPT !.tool = "debug_stop", !.at = "lock"]
  <2>1. k \in Call /\ k.at = "lock"
    BY NewCallType DEF Call, Tools, Pcs
  <2> QED
    BY <1>2, <2>1, ThreadFacts, LockApart DEF ExitBegins, ExitInv, InCreate
<1>3. CASE \E r \in 1..MaxRuns : IdleBegins(r) \/ IdleEnds(r)
  BY <1>3, ThreadFacts DEF IdleBegins, IdleEnds, LockInv, LockOf
<1>4. CASE (\E r \in 1..MaxRuns : Listens(r)) \/ SelectSystem \/ HookWaits \/ LogOut
             \/ UNCHANGED vars
  BY <1>4 DEF Listens, SelectSystem, HookWaits, LogOut, vars, locks, LockInv
<1> QED
  BY <1>1, <1>2, <1>3, <1>4 DEF Next, Background

-----------------------------------------------------------------------------
\* What a cleanup leaves.
LEMMA NobodyCleans ==
  ASSUME LockInv, RunInv, NEW c \in Threads, startMu = c, call[c].at # "cleaning"
  PROVE  \A r \in 1..MaxRuns : ~ Active(r) /\ runs[r].status # "stopping"
BY DEF LockInv, LockOf, Holds, RunInv

\* A thread that has just got startMu, or makes another step with it.
LEMMA RunKept ==
  ASSUME RunInv, UNCHANGED runVars,
         startMu' \in Threads => startMu' = startMu \/ \A r \in 1..MaxRuns : ~ Active(r),
         \/ cur' = cur
         \/ \A r \in 1..MaxRuns : ~ Active(r),
         \A c \in Threads : call[c].at = "cleaning" => call'[c].at = "cleaning"
  PROVE  RunInv'
BY DEF RunInv, Active, runVars

LEMMA RunStep ==
  ASSUME TypeOK, CallsOK, LockInv, RunInv, ExitInv, [Next]_vars
  PROVE  RunInv'
<1>1. CASE UNCHANGED runVars
  <2>1. startMu' \in Threads => startMu' = startMu \/ \A r \in 1..MaxRuns : ~ Active(r)
    <3>1. ASSUME NEW c \in Threads, StartLocked(c)
          PROVE  \A r \in 1..MaxRuns : ~ Active(r)
      <4>1. ~ (run # 0 /\ Active(run))
        <5> SUFFICES ASSUME run # 0, Active(run) PROVE FALSE
          OBVIOUS
        <5>1. run \in 1..MaxRuns /\ runs'[run].status = "stopping"
          BY <3>1, MaxRunsNat DEF StartLocked, SetStatus, TypeOK, Run
        <5>2. runs[run].status = "stopping"
          BY <1>1, <5>1 DEF runVars
        <5> QED
          BY <5>2 DEF Active
      <4> QED
        BY <4>1, MaxRunsNat DEF RunInv, TypeOK
    <3> QED
      BY <3>1, ThreadFacts DEF Next, vars, DebugTool, DebugRun, DebugStop, DebugWait,
         InAttempt, GetSessions, Launches, Cleaned, Drop, Open, CreateLocked, Bind,
         Recheck, Publish, SetFails, Works, Rearm, BeginCall, Use, Answered, Background,
         Listens, IdleBegins, IdleEnds, SelectSystem, ExitBegins, HookWaits, LogOut, locks
  <2>2. cur' = cur \/ \A r \in 1..MaxRuns : ~ Active(r)
    <3>1. ASSUME NEW c \in Threads, Drop(c) \/ Recheck(c)
          PROVE  \A r \in 1..MaxRuns : ~ Active(r)
      <4>1. LockOf(c, call[c], startMu, mu, cur) /\ CallOK(call[c])
        BY DEF LockInv, CallsOK
      <4>2. startMu = c \/ cur = NoSession
        BY <3>1, <4>1 DEF Drop, Recheck, LockOf, Holds, CallOK, InCreate
      <4> QED
        BY <4>2, NewCallType DEF RunInv
    <3> QED
      BY <3>1 DEF Next, vars, DebugTool, DebugRun, DebugStop, DebugWait, InAttempt,
         GetSessions, Launches, StartLocked, Cleaned, Open, CreateLocked, Bind,
         Publish, SetFails, Works, Rearm, BeginCall, Use, Answered, Background,
         Listens, IdleBegins, IdleEnds, SelectSystem, ExitBegins, HookWaits, LogOut
  <2>3. ASSUME NEW d \in Threads, call[d].at = "cleaning"
        PROVE  call'[d].at = "cleaning" \/ Cleaned(d)
    <3>1. ASSUME NEW c \in Threads, DebugTool(c) \/ Launches(c) \/ Works(c)
          PROVE  call'[d].at = "cleaning" \/ Cleaned(d)
      <4>1. CASE c = d
        BY <2>3, <3>1, <4>1 DEF DebugTool, DebugRun, DebugStop, DebugWait, InAttempt,
           GetSessions, Calls, Launches, StartLocked, Drop, Open, CreateLocked, Bind,
           Recheck, Publish, SetFails, Works, Rearm, BeginCall, Use, Answered
      <4>2. CASE c # d
        <5>1. \E k \in Call : CallMoves(c, k)
          BY <3>1, BeginMoves, LaunchMoves, WorkMoves
        <5> QED
          BY <2>3, <4>2, <5>1, OneCall DEF CallMoves
      <4> QED
        BY <4>1, <4>2
    <3>2. CASE ExitBegins
      BY <2>3, <3>2 DEF ExitBegins, ExitInv, Threads
    <3> QED
      BY <2>3, <3>1, <3>2 DEF Next, vars, Background, Listens, IdleBegins, IdleEnds,
         SelectSystem, HookWaits, LogOut
  <2>4. CASE \E d \in Threads : Cleaned(d)
    <3>1. PICK d \in Threads : Cleaned(d)
      BY <2>4
    <3>2. startMu = d /\ UNCHANGED <<startMu, cur>>
      BY <3>1 DEF Cleaned, LockInv, LockOf, Holds, locks
    <3>3. \A r \in 1..MaxRuns : ~ Active(r) /\ runs[r].status # "stopping"
      <4> SUFFICES ASSUME NEW r \in 1..MaxRuns, runs[r].status = "stopping" PROVE FALSE
        BY <3>2 DEF RunInv
      <4>1. r = run /\ runs'[r].status = "stopped"
        BY <3>1 DEF Cleaned, SetStatus, RunInv, TypeOK, Run
      <4> QED
        BY <1>1, <4>1 DEF runVars
    <3> QED
      BY <1>1, <3>3 DEF RunInv, Active, runVars
  <2> QED
    BY <1>1, <2>1, <2>2, <2>3, <2>4, RunKept
<1>2. ASSUME NEW r \in 1..MaxRuns,
             NEW s \in {"listening", "attaching", "attached", "ended", "timeout"},
             RunMoves(r, s)
      PROVE  RunInv'
  <2>1. /\ runs'[r].status = s /\ runs'[r].on = runs[r].on
        /\ \A q \in 1..MaxRuns : q # r => runs'[q] = runs[q]
    BY <1>2, OneStatus DEF RunMoves
  <2>2. startMu' \notin Threads
    BY <1>2, ThreadFacts DEF RunMoves, RunInv
  <2>3. r = run /\ cur = runs[r].on /\ cur \in Session /\ UNCHANGED <<cur, run>>
    BY <1>2 DEF RunMoves, RunInv
  <2>4. \A q \in 1..MaxRuns : runs'[q].status # "stopping"
    BY <1>2, <2>1, <2>3 DEF RunMoves, RunInv, Active
  <2> QED
    BY <2>1, <2>2, <2>3, <2>4 DEF RunInv, Active
<1>3. ASSUME NEW c \in Threads, StartLocked(c), ~ UNCHANGED runVars
      PROVE  RunInv'
  <2>1. /\ run # 0 /\ Active(run) /\ SetStatus(run, "stopping") /\ Go(c, "cleaning")
        /\ UNCHANGED <<run, cur>>
    BY <1>3 DEF StartLocked, runVars
  <2>2. run \in 1..MaxRuns
    BY <2>1, MaxRunsNat DEF TypeOK
  <2>3. /\ runs'[run].status = "stopping"
        /\ \A q \in 1..MaxRuns : q # run => runs'[q] = runs[q] /\ ~ Active(q)
    BY <2>1, <2>2, OneStatus DEF RunInv
  <2>4. \A q \in 1..MaxRuns : q # run => runs[q].status # "stopping"
    BY DEF RunInv
  <2>5. call'[c].at = "cleaning"
    BY <2>1 DEF Go, TypeOK, Call
  <2> QED
    BY <2>1, <2>3, <2>4, <2>5 DEF RunInv, Active
<1>4. ASSUME NEW c \in Threads, Cleaned(c), ~ UNCHANGED runVars
      PROVE  RunInv'
  <2>1. startMu = c /\ SetStatus(run, "stopped") /\ UNCHANGED run
    BY <1>4 DEF Cleaned, LockInv, LockOf, Holds
  <2>2. \A q \in 1..MaxRuns :
          /\ runs'[q].status = "stopped" \/ runs'[q] = runs[q]
          /\ q = run => runs'[q].status = "stopped"
    BY <2>1 DEF SetStatus, TypeOK, Run
  <2>3. \A q \in 1..MaxRuns : ~ Active(q) /\ (runs[q].status = "stopping" => q = run)
    BY <2>1 DEF RunInv
  <2> QED
    BY <2>2, <2>3 DEF RunInv, Active
<1>5. ASSUME NEW c \in Threads, Publish(c)
      PROVE  RunInv'
  <2>1. startMu = c /\ call[c].at = "set" /\ cur \in Session
    BY <1>5 DEF Publish, LockInv, LockOf, Holds
  <2>2. \A r \in 1..MaxRuns : ~ Active(r) /\ runs[r].status # "stopping"
    BY <2>1, NobodyCleans
  <2>3. /\ run' = run + 1 /\ run' \in 1..MaxRuns /\ cur' = cur
        /\ runs'[run'].status = "listening" /\ runs'[run'].on = cur
        /\ \A q \in 1..MaxRuns : q # run' => runs'[q] = runs[q]
        /\ startMu' \notin Threads
    BY <1>5, MaxRunsNat, ThreadFacts DEF Publish, TypeOK
  <2> QED
    BY <2>1, <2>2, <2>3 DEF RunInv, Active
<1> QED
  BY <1>1, <1>2, <1>3, <1>4, <1>5, RunSteps

-----------------------------------------------------------------------------
(* The end of the process.  The hook makes the three steps of debug_stop,   *)
(* and nobody else moves.                                                  *)
LEMMA HookSteps ==
  ASSUME TypeOK, CallsOK, ExitInv, DebugTool(Hook) \/ Launches(Hook) \/ Works(Hook)
  PROVE  /\ StartLocked(Hook) \/ Cleaned(Hook) \/ Drop(Hook)
         /\ call[Hook].at # "idle" /\ exit # "running"
         /\ call'[Hook].at \in {"idle", "cleaning", "drop"}
         /\ call'[Hook].at # "idle" => call'[Hook].tool = "debug_stop"
         /\ call'[Hook].at = "idle" => Drop(Hook)
<1>0. /\ Hook \in Threads /\ Hook \notin Callers /\ call[Hook] \in Call
      /\ call[Hook].at \in {"idle", "lock", "cleaning", "drop"}
      /\ call[Hook].at # "idle" => call[Hook].tool = "debug_stop"
  BY ThreadFacts, SessionsAssumption DEF SessionsAssumption, TypeOK, ExitInv
<1>1. StartLocked(Hook) \/ Cleaned(Hook) \/ Drop(Hook)
  BY <1>0 DEF DebugTool, DebugRun, DebugStop, DebugWait, InAttempt, GetSessions, Calls,
     Launches, Open, CreateLocked, Bind, Recheck, Publish, SetFails, Works, Rearm,
     BeginCall, Use, Answered
<1>2. call[Hook].at # "idle" /\ exit # "running"
  BY <1>1 DEF StartLocked, Cleaned, Drop, ExitInv
<1>3. CASE StartLocked(Hook) \/ Cleaned(Hook)
  <2>1. PICK pc \in {"cleaning", "drop"} : Go(Hook, pc)
    BY <1>0, <1>2, <1>3 DEF StartLocked, Cleaned, AfterCleanup
  <2>2. call'[Hook] = [call[Hook] EXCEPT !.at = pc]
    BY <1>0, <2>1 DEF Go, TypeOK
  <2> QED
    BY <1>0, <1>1, <1>2, <2>2 DEF Call
<1>4. CASE Drop(Hook)
  <2>1. call'[Hook] = NoCall
    BY <1>0, <1>4 DEF Drop, Return, TypeOK
  <2> QED
    BY <1>2, <1>4, <2>1, NewCallType
<1> QED
  BY <1>1, <1>3, <1>4

\* A thread that has no handler can begin one only before the input ends.
LEMMA IdleThreads ==
  ASSUME NEW c \in Threads, DebugTool(c) \/ Launches(c) \/ Works(c), call[c].at = "idle"
  PROVE  c \in Callers /\ exit = "running" /\ UNCHANGED exit
BY DEF DebugTool, DebugRun, DebugStop, DebugWait, InAttempt, GetSessions, Calls,
   Launches, StartLocked, Cleaned, Drop, Open, CreateLocked, Bind, Recheck, Publish,
   SetFails, Works, Rearm, BeginCall, Use, Answered

LEMMA ThreadExit ==
  ASSUME NEW c \in Threads, DebugTool(c) \/ Launches(c) \/ Works(c)
  PROVE  UNCHANGED exit
BY DEF DebugTool, DebugRun, DebugStop, DebugWait, InAttempt, GetSessions,
   Launches, StartLocked, Cleaned, Drop, Open, CreateLocked, Bind, Recheck, Publish,
   SetFails, Works, Rearm, BeginCall, Use, Answered

LEMMA ExitStep ==
  ASSUME TypeOK, CallsOK, LockInv, RunInv, ExitInv, [Next]_vars
  PROVE  ExitInv'
<1>1. ASSUME NEW c \in Threads, DebugTool(c) \/ Launches(c) \/ Works(c)
      PROVE  ExitInv'
  <2>1. PICK k \in Call : CallMoves(c, k)
    BY <1>1, BeginMoves, LaunchMoves, WorkMoves
  <2>2. \A d \in Threads : d # c => call'[d] = call[d]
    BY <2>1, OneCall DEF CallMoves
  <2>3. UNCHANGED exit
    BY <1>1, ThreadExit
  <2>4. CASE c = Hook
    <3>1. /\ StartLocked(Hook) \/ Cleaned(Hook) \/ Drop(Hook)
          /\ call[Hook].at # "idle" /\ exit # "running"
          /\ call'[Hook].at \in {"idle", "cleaning", "drop"}
          /\ call'[Hook].at # "idle" => call'[Hook].tool = "debug_stop"
          /\ call'[Hook].at = "idle" => Drop(Hook)
      BY <1>1, <2>4, HookSteps
    <3>2. ASSUME Drop(Hook)
          PROVE  \A r \in 1..MaxRuns : ~ Active(r)' /\ runs'[r].status # "stopping"
      <4>1. startMu = Hook /\ call[Hook].at # "cleaning" /\ UNCHANGED runVars
        BY <3>2, ThreadFacts DEF Drop, LockInv, LockOf, Holds
      <4> QED
        BY <4>1, NobodyCleans, ThreadFacts DEF Active, runVars
    <3> QED
      BY <2>2, <2>3, <2>4, <3>1, <3>2, ThreadFacts, SessionsAssumption
         DEF SessionsAssumption, ExitInv
  <2>5. CASE c # Hook
    <3>1. c \in Callers
      BY <2>5 DEF Threads
    <3>2. exit = "running" /\ call'[Hook] = call[Hook]
      BY <1>1, <2>2, <2>5, <3>1, IdleThreads, ThreadFacts DEF ExitInv
    <3> QED
      BY <2>3, <3>2 DEF ExitInv
  <2> QED
    BY <2>4, <2>5
<1>2. CASE ExitBegins
  <2> DEFINE k == [NoCall EXCEPT !.tool = "debug_stop", !.at = "lock"]
  <2>1. k \in Call /\ k.at = "lock" /\ k.tool = "debug_stop"
    BY NewCallType DEF Call, Tools, Pcs
  <2>2. call'[Hook] = k /\ \A c \in Callers : call'[c] = call[c]
    BY <1>2, <2>1, OneCall, ThreadFacts, SessionsAssumption
       DEF SessionsAssumption, ExitBegins
  <2> QED
    BY <1>2, <2>1, <2>2 DEF ExitBegins, ExitInv
<1>3. ASSUME NEW r \in 1..MaxRuns, Background(r)
      PROVE  ExitInv'
  <2>1. UNCHANGED <<call, exit>>
    BY <1>3 DEF Background, Listens, IdleBegins, IdleEnds
  <2>2. UNCHANGED runs \/ Active(r)
    BY <1>3 DEF Background, Listens, IdleBegins, IdleEnds, runVars, Active
  <2> QED
    BY <2>1, <2>2 DEF ExitInv, Active
<1>4. CASE SelectSystem \/ HookWaits \/ LogOut \/ UNCHANGED vars
  BY <1>4 DEF SelectSystem, HookWaits, LogOut, OutOfTime, vars, runVars, ExitInv, Active
<1> QED
  BY <1>1, <1>2, <1>3, <1>4 DEF Next

-----------------------------------------------------------------------------
LEMMA InitSafe == Init => SafeInv
<1> SUFFICES ASSUME Init PROVE SafeInv
  OBVIOUS
<1>1. \A c \in Threads : call[c] = NoCall
  BY DEF Init
<1>2. \A r \in 1..MaxRuns : runs[r] = NoRun /\ NoRun.status = "none"
  BY DEF Init, NoRun
<1>3. TypeOK
  <2>1. NoRun \in Run
    BY DEF NoRun, Run, Kinds, Asked
  <2>2. 0 \in 0..MaxRuns
    BY MaxRunsNat
  <2> QED
    BY <2>1, <2>2, NewCallType DEF Init, TypeOK
<1>4. CallsOK
  BY <1>1, NewCallType DEF CallsOK
<1>5. LockInv
  BY <1>1, NewCallType, ThreadFacts DEF Init, LockInv, LockOf, Holds, InCreate
<1>6. RunInv
  BY <1>2 DEF RunInv, Active
<1>7. ExitInv
  BY <1>1, <1>2, NewCallType, ThreadFacts DEF Init, ExitInv
<1> QED
  BY <1>3, <1>4, <1>5, <1>6, <1>7 DEF SafeInv

LEMMA SafeStep == SafeInv /\ [Next]_vars => SafeInv'
BY TypeStep, CallsStep, LockStep, RunStep, ExitStep DEF SafeInv

-----------------------------------------------------------------------------
\* What a run is on is settled when it is created.
Settled(q) ==
  /\ runs'[q].on = runs[q].on /\ runs'[q].kind = runs[q].kind
  /\ runs'[q].askedOn = runs[q].askedOn

LEMMA StatusSettles ==
  ASSUME TypeOK, NEW r, NEW s, SetStatus(r, s)
  PROVE  \A q \in 1..MaxRuns : Settled(q)
<1> SUFFICES ASSUME NEW q \in 1..MaxRuns PROVE Settled(q)
  OBVIOUS
<1>1. runs'[q] = IF q = r THEN [runs[q] EXCEPT !.status = s] ELSE runs[q]
  BY DEF SetStatus, TypeOK
<1>2. runs[q] \in Run
  BY DEF TypeOK
<1> QED
  BY <1>1, <1>2 DEF Settled, Run

LEMMA RunsSettle ==
  ASSUME TypeOK, CallsOK, [Next]_vars
  PROVE  (\A q \in 1..MaxRuns : Settled(q)) \/ \E c \in Threads : Publish(c)
<1>1. ASSUME NEW c \in Threads, StartLocked(c) \/ Cleaned(c)
      PROVE  \A q \in 1..MaxRuns : Settled(q)
  <2>1. UNCHANGED runs \/ \E s : SetStatus(run, s)
    BY <1>1 DEF StartLocked, Cleaned, runVars
  <2> QED
    BY <2>1, StatusSettles DEF Settled
<1> QED
  BY <1>1, StatusSettles, RunSteps DEF RunMoves, Settled, runVars

(* What the sessions are bound to.  Between the key and the second look at  *)
(* it select_system may leave the system, but not come back.               *)
LEMMA BoundStep ==
  ASSUME ~ BackAndForth, TypeOK, CallsOK, BoundInv, [Next]_vars PROVE BoundInv'
<1>1. cur'.bound = cur'.key.system
  <2>1. ASSUME NEW c \in Threads, Recheck(c) PROVE cur'.bound = cur'.key.system
    <3>1. CASE SameKey(c)
      <4>1. call[c].user \in Users
        BY <2>1 DEF Recheck, CallsOK, CallOK, InCreate
      <4>2. call[c].at = "recheck" /\ call[c].new.key.system = active
        BY <2>1, <3>1, <4>1, KeyType DEF Recheck, SameKey
      <4> QED
        BY <2>1, <3>1, <4>2 DEF Recheck, BoundInv
    <3> QED
      BY <2>1, <3>1 DEF Recheck, BoundInv
  <2>2. ASSUME NEW c \in Threads, Drop(c) PROVE cur'.bound = cur'.key.system
    BY <2>2, NewCallType DEF Drop
  <2>3. UNCHANGED cur \/ \E c \in Threads : Recheck(c) \/ Drop(c)
    BY DEF Next, vars, DebugTool, DebugRun, DebugStop, DebugWait,
       InAttempt, GetSessions, Launches, StartLocked, Cleaned, Open, CreateLocked, Bind,
       Publish, SetFails, Works, Rearm, BeginCall, Use, Answered, Background,
       Listens, IdleBegins, IdleEnds, SelectSystem, ExitBegins, HookWaits, LogOut
  <2> QED
    BY <2>1, <2>2, <2>3 DEF BoundInv
<1>2. \A r \in 1..MaxRuns : runs'[r].on.bound = runs'[r].on.key.system
  <2>1. ASSUME NEW c \in Threads, Publish(c)
        PROVE  \A q \in 1..MaxRuns : runs'[q].on \in {runs[q].on, cur}
    BY <2>1 DEF Publish, TypeOK
  <2>2. \A q \in 1..MaxRuns : runs'[q].on \in {runs[q].on, cur}
    BY <2>1, RunsSettle DEF Settled
  <2> QED
    BY <2>2 DEF BoundInv
<1>3. ASSUME NEW c \in Threads, call'[c].at = "recheck", active' = call'[c].new.key.system
      PROVE  call'[c].new.bound = call'[c].new.key.system
  <2>1. CASE UNCHANGED <<call, active>>
    BY <1>3, <2>1 DEF BoundInv
  <2>2. CASE SelectSystem
    <3>1. active' # active /\ call' = call
      BY <2>2 DEF SelectSystem
    <3>2. active = call[c].new.key.system
      BY <1>3, <2>2, <3>1 DEF SelectSystem, Creating
    <3> QED
      BY <1>3, <3>1, <3>2
  <2>3. ASSUME NEW d \in Threads, DebugTool(d) \/ Launches(d) \/ Works(d)
        PROVE  call'[c].new.bound = call'[c].new.key.system
    <3>1. UNCHANGED active
      BY <2>3 DEF DebugTool, DebugRun, DebugStop, DebugWait, InAttempt, GetSessions,
         Launches, StartLocked, Cleaned, Drop, Open, CreateLocked, Bind, Recheck,
         Publish, SetFails, Works, Rearm, BeginCall, Use, Answered
    <3>2. CASE c # d
      <4>1. call'[c] = call[c]
        BY <2>3, <3>2, OneCall, BeginMoves, LaunchMoves, WorkMoves DEF CallMoves
      <4> QED
        BY <1>3, <3>1, <4>1 DEF BoundInv
    <3>3. CASE c = d /\ Bind(d)
      <4> DEFINE n == [call[c].new EXCEPT !.bound = active]
      <4>1. call[c].new \in Session
        BY <3>3 DEF Bind, CallsOK, CallOK
      <4>2. n.bound = active /\ n.key = call[c].new.key
        BY <4>1 DEF Session
      <4>3. call'[c].new = n
        BY <3>3 DEF Bind, TypeOK, Call
      <4> QED
        BY <1>3, <3>1, <4>2, <4>3
    <3>4. CASE c = d /\ ~ Bind(d)
      <4>1. CASE DebugTool(d)
        BY <1>3, <3>4, <4>1, BeginMoves, OneCall DEF CallMoves
      <4>2. CASE \E pc \in Pcs \ {"recheck"} : Go(d, pc)
        BY <1>3, <3>4, <4>2 DEF Go, TypeOK, Call
      <4>3. CASE Return(d)
        BY <1>3, <3>4, <4>3, NewCallType DEF Return, TypeOK
      <4>4. CASE CreateLocked(d) \/ Recheck(d)
        BY <1>3, <3>4, <4>4, CreateAt
      <4> QED
        BY <2>3, <3>4, <4>1, <4>2, <4>3, <4>4 DEF Launches, StartLocked, Cleaned,
           AfterCleanup, Drop, Open, Publish, SetFails, Works, Rearm, BeginCall, Use,
           Fits, Answered, Pcs
    <3> QED
      BY <3>2, <3>3, <3>4
  <2>4. CASE ExitBegins
    <3> DEFINE k == [NoCall EXCEPT !.tool = "debug_stop", !.at = "lock"]
    <3>1. k \in Call /\ k.at = "lock"
      BY NewCallType DEF Call, Tools, Pcs
    <3>2. c # Hook => call'[c] = call[c]
      BY <2>4, <3>1, OneCall, ThreadFacts DEF ExitBegins
    <3>3. call'[Hook].at = "lock"
      BY <2>4, <3>1, OneCall, ThreadFacts DEF ExitBegins
    <3> QED
      BY <1>3, <2>4, <3>2, <3>3 DEF ExitBegins, BoundInv
  <2> QED
    BY <2>1, <2>2, <2>3, <2>4 DEF Next, vars, Background, Listens, IdleBegins,
       IdleEnds, HookWaits, LogOut
<1> QED
  BY <1>1, <1>2, <1>3 DEF BoundInv

\* Who a run of unit tests belongs to is settled when it is created.
LEMMA LogonStep ==
  ASSUME SafeInv, LogonInv, [Next]_vars PROVE LogonInv'
<1> USE DEF SafeInv
<1>1. ASSUME NEW c \in Threads, Publish(c)
      PROVE  LogonInv'
  <2>1. /\ call[c].at = "set" /\ call[c] \in Call /\ CallOK(call[c])
        /\ cur \in Session /\ cur.key.user = call[c].user
    BY <1>1 DEF Publish, TypeOK, CallsOK, LockInv, LockOf
  <2>2. call[c].kind = "unit_tests" /\ call[c].askedOn = cur.key.system
          => Logon[cur.key.system] \in {NoUser, cur.key.user}
    BY <2>1 DEF CallOK
  <2>3. \A q \in 1..MaxRuns :
          \/ runs'[q] = runs[q]
          \/ /\ runs'[q].on = cur /\ runs'[q].kind = call[c].kind
             /\ runs'[q].askedOn = call[c].askedOn
    BY <1>1 DEF Publish, TypeOK
  <2> QED
    BY <2>2, <2>3 DEF LogonInv
<1> QED
  BY <1>1, RunsSettle DEF LogonInv, Settled

-----------------------------------------------------------------------------
(* Every run up to the newest has begun, and the one that is cleaned up is   *)
(* the newest.  With it, a run is created only when the one before is       *)
(* stopped.                                                                *)
BornInv ==
  /\ \A r \in 1..run : runs[r].status # "none"
  /\ \A c \in Threads : call[c].at = "cleaning" =>
       run # 0 /\ runs[run].status = "stopping"

\* Nobody begins to clean up except in StartLocked.
LEMMA WhoCleans ==
  ASSUME SafeInv, [Next]_vars, NEW d \in Threads, call'[d].at = "cleaning"
  PROVE  \/ call[d].at = "cleaning" /\ \A c \in Threads : ~ Cleaned(c) /\ ~ Publish(c)
         \/ StartLocked(d) /\ ~ UNCHANGED runVars
<1> USE DEF SafeInv
<1>1. ASSUME NEW c \in Threads, call[d].at = "cleaning", Cleaned(c) \/ Publish(c)
      PROVE  FALSE
  <2>1. c = d
    BY <1>1 DEF LockInv, LockOf, Holds, Cleaned, Publish
  <2>2. call'[d].at # "cleaning"
    <3>1. call[d] \in Call
      BY DEF TypeOK
    <3>2. ASSUME NEW pc \in {"open", "drop"}, Go(d, pc)
          PROVE  call'[d].at # "cleaning"
      <4>1. call'[d] = [call[d] EXCEPT !.at = pc]
        BY <3>2 DEF Go, TypeOK
      <4> QED
        BY <3>1, <4>1 DEF Call
    <3>3. CASE Return(d)
      BY <3>3, NewCallType DEF Return, TypeOK
    <3> QED
      BY <1>1, <2>1, <3>2, <3>3 DEF Cleaned, Publish, AfterCleanup
  <2> QED
    BY <2>2
<1>2. ASSUME call[d].at # "cleaning"
      PROVE  StartLocked(d) /\ ~ UNCHANGED runVars
  <2>1. ASSUME NEW c \in Threads, DebugTool(c) \/ Launches(c) \/ Works(c)
        PROVE  StartLocked(d) /\ ~ UNCHANGED runVars
    <3>1. c = d
      BY <1>2, <2>1, OneCall, BeginMoves, LaunchMoves, WorkMoves DEF CallMoves
    <3>2. CASE DebugTool(d)
      BY <3>2, BeginMoves, OneCall DEF CallMoves
    <3>3. CASE \E pc \in Pcs \ {"cleaning"} : Go(d, pc)
      BY <3>3 DEF Go, TypeOK, Call
    <3>4. CASE Return(d)
      BY <3>4, NewCallType DEF Return, TypeOK
    <3>5. CASE CreateLocked(d) \/ Bind(d) \/ Recheck(d)
      BY <3>5, CreateAt
    <3>6. CASE StartLocked(d) /\ UNCHANGED runVars
      <4>1. CASE run # 0 /\ Active(run)
        <5>1. run \in 1..MaxRuns /\ runs'[run].status = "stopping"
          BY <3>6, <4>1, MaxRunsNat, OneStatus DEF StartLocked, TypeOK
        <5> QED
          BY <3>6, <4>1, <5>1 DEF runVars, Active
      <4>2. CASE ~ (run # 0 /\ Active(run))
        BY <3>3, <3>6, <4>2 DEF StartLocked, AfterCleanup, Pcs
      <4> QED
        BY <4>1, <4>2
    <3> QED
      BY <2>1, <3>1, <3>2, <3>3, <3>4, <3>5, <3>6 DEF Launches, Cleaned,
         AfterCleanup, Drop, Open, Publish, SetFails, Works, Rearm, BeginCall, Use,
         Fits, Answered, Pcs
  <2>2. CASE ExitBegins
    <3> DEFINE k == [NoCall EXCEPT !.tool = "debug_stop", !.at = "lock"]
    <3>1. k \in Call /\ k.at = "lock"
      BY NewCallType DEF Call, Tools, Pcs
    <3> QED
      BY <1>2, <2>2, <3>1, OneCall, ThreadFacts DEF ExitBegins
  <2> QED
    BY <1>2, <2>1, <2>2 DEF Next, vars, Background, Listens, IdleBegins, IdleEnds,
       SelectSystem, HookWaits, LogOut
<1> QED
  BY <1>1, <1>2

LEMMA BornStep ==
  ASSUME SafeInv, BornInv, [Next]_vars PROVE BornInv'
<1> USE DEF SafeInv
<1>1. 1..run \subseteq 1..MaxRuns
  BY MaxRunsNat DEF TypeOK
<1>2. \A r \in 1..run' : runs'[r].status # "none"
  <2>1. ASSUME NEW r \in 1..MaxRuns,
               NEW s \in {"listening", "attaching", "attached", "ended", "timeout"},
               RunMoves(r, s)
        PROVE  \A q \in 1..run' : runs'[q].status # "none"
    BY <1>1, <2>1, OneStatus DEF RunMoves, BornInv
  <2>2. ASSUME NEW c \in Threads, StartLocked(c) \/ Cleaned(c)
        PROVE  \A q \in 1..run' : runs'[q].status # "none"
    BY <1>1, <2>2 DEF StartLocked, Cleaned, SetStatus, runVars, TypeOK, Run, BornInv
  <2>3. ASSUME NEW c \in Threads, Publish(c)
        PROVE  \A q \in 1..run' : runs'[q].status # "none"
    <3>1. run' = run + 1 /\ run' \in 1..MaxRuns /\ run \in Nat
      BY <2>3, MaxRunsNat DEF Publish, TypeOK
    <3>2. runs'[run'].status = "listening"
          /\ \A q \in 1..MaxRuns : q # run' => runs'[q] = runs[q]
      BY <2>3, <3>1 DEF Publish, TypeOK
    <3>3. \A q \in 1..run' : q = run' \/ q \in 1..run
      BY <3>1
    <3> QED
      BY <1>1, <3>2, <3>3 DEF BornInv
  <2> QED
    BY <2>1, <2>2, <2>3, RunSteps DEF BornInv, runVars
<1>3. ASSUME NEW c \in Threads, call'[c].at = "cleaning"
      PROVE  run' # 0 /\ runs'[run'].status = "stopping"
  <2>1. CASE call[c].at = "cleaning" /\ \A d \in Threads : ~ Cleaned(d) /\ ~ Publish(d)
    <3>1. startMu = c /\ \A r \in 1..MaxRuns : ~ Active(r)
      BY <2>1 DEF LockInv, LockOf, Holds, RunInv
    <3>2. UNCHANGED runVars
      BY <2>1, <3>1, RunSteps, ThreadFacts DEF RunMoves, StartLocked
    <3> QED
      BY <2>1, <3>2 DEF BornInv, runVars
  <2>2. CASE StartLocked(c) /\ ~ UNCHANGED runVars
    BY <2>2, MaxRunsNat, OneStatus DEF StartLocked, runVars, TypeOK
  <2> QED
    BY <1>3, <2>1, <2>2, WhoCleans
<1> QED
  BY <1>2, <1>3 DEF BornInv

\* Every step is a step of RunLifecycle, or none.
LEMMA LifecycleStep ==
  ASSUME SafeInv, BornInv, [Next]_vars
  PROVE  [LC!Next]_<<run, [r \in 1..MaxRuns |-> runs[r].status]>>
<1> DEFINE life == [r \in 1..MaxRuns |-> runs[r].status]
<1> USE DEF SafeInv
<1>1. CASE UNCHANGED runVars
  BY <1>1 DEF runVars
<1>2. ASSUME NEW s \in {"listening", "attaching", "attached", "ended", "timeout",
                        "stopping", "stopped"},
             run # 0, UNCHANGED run, SetStatus(run, s),
             s \in LC!Successors(runs[run].status)
      PROVE  LC!Next
  <2>1. run \in 1..MaxRuns
    BY <1>2, MaxRunsNat DEF TypeOK
  <2>2. life' = [life EXCEPT ![run] = s]
    BY <1>2, <2>1, OneStatus
  <2>3. s \in LC!Successors(life[run])
    BY <1>2, <2>1
  <2> QED
    BY <1>2, <2>2, <2>3 DEF LC!Next, LC!Change
<1>3. ASSUME NEW r \in 1..MaxRuns,
             NEW s \in {"listening", "attaching", "attached", "ended", "timeout"},
             RunMoves(r, s)
      PROVE  LC!Next
  <2>1. r = run /\ run # 0 /\ run' = run
    BY <1>3 DEF RunMoves, RunInv
  <2> QED
    BY <1>2, <1>3, <2>1 DEF RunMoves
<1>4. ASSUME NEW c \in Threads, StartLocked(c), ~ UNCHANGED runVars
      PROVE  LC!Next
  <2>1. /\ run \in 1..MaxRuns /\ run # 0 /\ Active(run) /\ run' = run
        /\ SetStatus(run, "stopping")
    BY <1>4, MaxRunsNat DEF StartLocked, runVars, TypeOK
  <2>2. "stopping" \in LC!Successors(runs[run].status)
    BY <2>1 DEF Active, TypeOK, Run, LC!Successors
  <2> QED
    BY <1>2, <2>1, <2>2
<1>5. ASSUME NEW c \in Threads, Cleaned(c)
      PROVE  LC!Next
  <2>1. run # 0 /\ runs[run].status = "stopping" /\ run' = run /\ SetStatus(run, "stopped")
    BY <1>5 DEF Cleaned, BornInv
  <2>2. "stopped" \in LC!Successors(runs[run].status)
    BY <2>1 DEF LC!Successors
  <2> QED
    BY <1>2, <2>1, <2>2
<1>6. ASSUME NEW c \in Threads, Publish(c)
      PROVE  LC!Next
  <2>1. startMu = c /\ call[c].at # "cleaning"
    BY <1>6 DEF Publish, LockInv, LockOf, Holds
  <2>2. run # 0 => life[run] = "stopped"
    <3> SUFFICES ASSUME run # 0 PROVE runs[run].status = "stopped"
      BY MaxRunsNat DEF TypeOK
    <3>1. run \in 1..MaxRuns /\ run \in 1..run
      BY MaxRunsNat DEF TypeOK
    <3>2. ~ Active(run) /\ runs[run].status # "stopping"
      BY <2>1, <3>1, NobodyCleans
    <3> QED
      BY <3>1, <3>2 DEF Active, BornInv
  <2>3. /\ run < MaxRuns /\ run' = run + 1
        /\ life' = [life EXCEPT ![run + 1] = "listening"]
    BY <1>6, MaxRunsNat DEF Publish, TypeOK
  <2> QED
    BY <2>2, <2>3 DEF LC!Next, LC!Create
<1> QED
  BY <1>1, <1>3, <1>4, <1>5, <1>6, RunSteps

-----------------------------------------------------------------------------
LEMMA Invariance == Spec => []SafeInv
BY InitSafe, SafeStep, PTL DEF Spec

(* Whatever the callers do, a handler finds a system, a session, a run and  *)
(* the locks where the code looks for them (debugSessions, runSession).     *)
THEOREM SessionTypes == Spec => []TypeOK
BY Invariance, PTL DEF SafeInv

(* An active run is the newest and the debug session is the one it runs on: *)
(* neither debug_get_sessions (use, createLocked) nor a debug_run that is   *)
(* refused puts another session in its place.                              *)
THEOREM RunKeepsItsSession == Spec => []SessionOfRun
<1>1. SafeInv => SessionOfRun
  BY DEF SafeInv, RunInv, SessionOfRun
<1> QED
  BY Invariance, <1>1, PTL

(* When the sessions are logged out after a hook that came to its end, no   *)
(* run is active or being stopped (main.go, shutdown.go).                  *)
THEOREM NothingLeftAtLogout == Spec => []ExitCleansUp
<1>1. SafeInv => ExitCleansUp
  BY DEF SafeInv, ExitInv, ExitCleansUp
<1> QED
  BY Invariance, <1>1, PTL

(* A run of unit tests is filed under the logon user of the system it was   *)
(* asked for, also when select_system goes back and forth (runUser).       *)
THEOREM TestsRunAsLogonUser == Spec => []LogonInv
<1>1. Init => LogonInv
  <2> SUFFICES ASSUME Init PROVE LogonInv
    OBVIOUS
  <2>1. \A r \in 1..MaxRuns : runs[r].kind = "other"
    BY DEF Init, NoRun
  <2> QED
    BY <2>1 DEF LogonInv
<1>2. SafeInv /\ LogonInv /\ [Next]_vars => LogonInv'
  BY LogonStep
<1> QED
  BY <1>1, <1>2, Invariance, PTL DEF Spec

(* If select_system does not leave a system and come back while a pair of   *)
(* sessions is created, the debug session and every run are bound to the    *)
(* system they are filed under (createLocked).                             *)
THEOREM SessionsBoundToKey ==
  ASSUME ~ BackAndForth
  PROVE  Spec => []BoundToKey
<1>1. Init => BoundInv
  <2> SUFFICES ASSUME Init PROVE BoundInv
    OBVIOUS
  <2>1. \A r \in 1..MaxRuns : runs[r].on = NoSession
    BY DEF Init, NoRun
  <2>2. cur = NoSession /\ \A c \in Threads : call[c].at = "idle"
    BY NewCallType DEF Init
  <2> QED
    BY <2>1, <2>2, NewCallType DEF BoundInv
<1>2. SafeInv /\ BoundInv /\ [Next]_vars => BoundInv'
  BY BoundStep DEF SafeInv
<1>3. SafeInv /\ BoundInv /\ LogonInv => BoundToKey
  <2> SUFFICES ASSUME SafeInv, BoundInv, LogonInv PROVE BoundToKey
    OBVIOUS
  <2>1. 1..run \subseteq 1..MaxRuns
    BY MaxRunsNat DEF SafeInv, TypeOK
  <2> QED
    BY <2>1 DEF BoundToKey, BoundInv, LogonInv
<1> QED
  BY <1>1, <1>2, <1>3, Invariance, TestsRunAsLogonUser, PTL DEF Spec

(* The runs of every debug session, with all its callers, behave like the   *)
(* abstract RunLifecycle: one after another, a new one only after the one   *)
(* before is stopped, along the arrows of the design.                      *)
THEOREM SessionsImplementLifecycle == Spec => LifecycleSpec
<1>1. Init => LC!Init
  <2> SUFFICES ASSUME Init PROVE LC!Init
    OBVIOUS
  <2>1. \A r \in 1..MaxRuns : runs[r].status = "none"
    BY DEF Init, NoRun
  <2> QED
    BY <2>1 DEF Init, LC!Init, LC!Runs
<1>2. Init => BornInv
  <2> SUFFICES ASSUME Init PROVE BornInv
    OBVIOUS
  <2>1. \A c \in Threads : call[c].at = "idle"
    BY NewCallType DEF Init
  <2>2. 1..run = {}
    BY DEF Init
  <2> QED
    BY <2>1, <2>2 DEF BornInv
<1>3. SafeInv /\ BornInv /\ [Next]_vars => BornInv'
  BY BornStep
<1>4. SafeInv /\ BornInv /\ [Next]_vars
        => [LC!Next]_<<run, [r \in 1..MaxRuns |-> runs[r].status]>>
  BY LifecycleStep
<1> QED
  BY <1>1, <1>2, <1>3, <1>4, Invariance, PTL DEF Spec, LifecycleSpec, LC!Spec
=============================================================================
