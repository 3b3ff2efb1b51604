---------------------------- MODULE DebugSessions ----------------------------
(***************************************************************************)
(* Who debugs what: the one debug session of the process, the key (user and *)
(* system) it is filed under while select_system changes the active system, *)
(* the handlers of the debug tools around it, and the clean-up when the     *)
(* process ends (tools/debugsession.go, debugger.go, system.go, shutdown.go, *)
(* main.go).                                                               *)
(*                                                                         *)
(* Inside, a run moves along the arrows of RunLifecycle: how it gets there  *)
(* is the subject of DebugRun, who is told of it that of DebugWaits.        *)
(***************************************************************************)
EXTENDS Naturals, FiniteSets

CONSTANTS Callers,    \* tool calls in flight at a time
          Hook,       \* the goroutine of the shutdown hook
          Users,      \* SAP users
          Systems,    \* SAP systems, as select_system names them
          Logon,      \* the configured logon user of a system, NoUser with OAuth2
          BackAndForth, \* select_system leaves a system and comes back while
                        \* createLocked creates one pair of sessions
          MaxRuns     \* bound: runs created

NoUser == ""
None   == "none"   \* who holds a lock that is free
Idle   == "idle"   \* the idle timer's goroutine

Tools == {"debug_run", "debug_wait", "debug_stop", "debug_get_sessions",
          "in_attempt"}

ASSUME SessionsAssumption ==
  /\ Hook \notin Callers /\ {None, Idle} \cap (Callers \cup {Hook}) = {}
  /\ NoUser \notin Users /\ "" \notin Systems
  /\ Logon \in [Systems -> Users \cup {NoUser}]
  /\ BackAndForth \in BOOLEAN /\ MaxRuns \in Nat

VARIABLES
  active,   \* the registry's active system
  startMu,  \* debugSessions.startMu
  mu,       \* debugSessions.mu, where it is held for more than one step
  cur,      \* cur and curCleanup: the system they are bound to, and key
  run,      \* debugSessions.run: the number of the newest run
  runs,     \* every run
  call,     \* the handler each thread is in
  exit      \* how far the end of the process is

vars == <<active, startMu, mu, cur, run, runs, call, exit>>
locks == <<startMu, mu>>
runVars == <<run, runs>>

Threads == Callers \cup {Hook}
Kinds == {"unit_tests", "other"}  \* other: manual, gui
Key == [user : Users, system : Systems]
Session == [key : Key, bound : Systems]
NoSession == [key |-> [user |-> NoUser, system |-> ""], bound |-> ""]

LC == INSTANCE RunLifecycle WITH newest <- run, life <- [r \in 1..MaxRuns |-> runs[r].status]

(* askedOn: the system that was active when the user of unit tests was      *)
(* looked up.                                                              *)
Asked == Systems \cup {""}
Run == [status : {"none", "listening", "attaching", "attached", "ended",
                  "timeout", "stopping", "stopped"},
        kind : Kinds, on : Session \cup {NoSession}, askedOn : Asked]
NoRun == [status |-> "none", kind |-> "other", on |-> NoSession, askedOn |-> ""]

(* A call: the user it was given or has resolved, the run it holds a        *)
(* pointer to, and the session it is creating.                             *)
Pcs == {"idle", "lock", "cleaning", "open", "create", "bind", "recheck",
        "set", "drop", "rearm", "use", "begin", "request"}
Call == [tool : Tools \cup {""}, at : Pcs, kind : Kinds, run : 0..MaxRuns,
         user : Users \cup {NoUser}, askedOn : Asked,
         new : Session \cup {NoSession}]
NoCall == [tool |-> "", at |-> "idle", kind |-> "other", run |-> 0,
           user |-> NoUser, askedOn |-> "", new |-> NoSession]

TypeOK ==
  /\ active \in Systems /\ startMu \in Threads \cup {None, Idle}
  /\ mu \in Threads \cup {None} /\ cur \in Session \cup {NoSession}
  /\ run \in 0..MaxRuns /\ runs \in [1..MaxRuns -> Run]
  /\ call \in [Threads -> Call]
  /\ exit \in {"running", "cleaning", "late", "out", "aborted"}

Init ==
  /\ active \in Systems /\ startMu = None /\ mu = None /\ cur = NoSession
  /\ run = 0 /\ runs = [r \in 1..MaxRuns |-> NoRun]
  /\ call = [c \in Threads |-> NoCall] /\ exit = "running"

-----------------------------------------------------------------------------
SetStatus(r, s) == runs' = [runs EXCEPT ![r].status = s]

Active(r) == runs[r].status \notin {"none", "stopping", "stopped"}

\* Wrong: always the logon user, which an OAuth2 system does not have.
KeyFor_bug(user) == [user |-> Logon[active], system |-> active]
KeyFor(user) == [user |-> user, system |-> active]

Go(c, pc) == call' = [call EXCEPT ![c].at = pc]
Return(c) == call' = [call EXCEPT ![c] = NoCall]

\* A handler starts; after the end of the input there are no more.
Calls(c, k) ==
  /\ exit = "running" /\ c \in Callers /\ call[c].at = "idle"
  /\ call' = [call EXCEPT ![c] = k]

\* resolveUser: the given user, else the logon user of the active system.
Resolved(given) == IF given = NoUser THEN Logon[active] ELSE given

Creating(c) == call[c].at \in {"bind", "recheck"}

SelectSystem ==
  /\ exit = "running"
  /\ active' \in Systems \ {active}
  /\ \A c \in Threads : Creating(c) /\ ~ BackAndForth => active = call[c].new.key.system
  /\ UNCHANGED <<locks, cur, runVars, call, exit>>

-----------------------------------------------------------------------------
(* debug_run and debug_stop.                                               *)

\* Unit tests run as the logon user; it is a matter of the active system.
RunUser(kind, given) ==
  IF kind = "unit_tests" /\ given # NoUser /\ Logon[active] \notin {NoUser, given}
    THEN NoUser ELSE Resolved(given)

DebugRun(c) ==
  \E kind \in Kinds, given \in Users \cup {NoUser} :
    /\ RunUser(kind, given) # NoUser /\ run < MaxRuns
    /\ Calls(c, [NoCall EXCEPT !.tool = "debug_run", !.at = "lock", !.kind = kind,
                               !.user = RunUser(kind, given),
                   !.askedOn = IF kind = "unit_tests" THEN active ELSE ""])
    /\ UNCHANGED <<active, locks, cur, runVars, exit>>

DebugStop(c) ==
  /\ Calls(c, [NoCall EXCEPT !.tool = "debug_stop", !.at = "lock"])
  /\ UNCHANGED <<active, locks, cur, runVars, exit>>

AfterCleanup(c) == IF call[c].tool = "debug_run" THEN "open" ELSE "drop"

\* launchRun, stop: the lock, and the first transition of cleanupRun.
StartLocked(c) ==
  /\ call[c].at = "lock" /\ startMu = None /\ mu = None
  /\ startMu' = c
  /\ IF run # 0 /\ Active(run)
       THEN SetStatus(run, "stopping") /\ Go(c, "cleaning") /\ UNCHANGED run
       ELSE Go(c, AfterCleanup(c)) /\ UNCHANGED runVars
  /\ UNCHANGED <<active, mu, cur, exit>>

Cleaned(c) ==
  /\ call[c].at = "cleaning"
  /\ SetStatus(run, "stopped")
  /\ Go(c, AfterCleanup(c))
  /\ UNCHANGED <<active, locks, cur, run, exit>>

Drop(c) ==
  /\ call[c].at = "drop" /\ mu = None
  /\ cur' = NoSession /\ startMu' = None
  /\ Return(c)
  /\ UNCHANGED <<active, mu, runVars, exit>>

\* The session is kept only for the same user and system.
Open(c) ==
  /\ call[c].at = "open" /\ mu = None
  /\ Go(c, IF cur.key = KeyFor(call[c].user) THEN "set" ELSE "create")
  /\ UNCHANGED <<active, locks, cur, runVars, exit>>

-----------------------------------------------------------------------------
(* createLocked: the key, the sessions and the second look at the key read   *)
(* the active system one after the other.                                  *)

CreateLocked(c) ==
  /\ call[c].at = "create" /\ mu \in {None, c}
  /\ mu' = c
  /\ call' = [call EXCEPT ![c].at = "bind",
                ![c].new = [key |-> KeyFor(call[c].user), bound |-> active]]
  /\ UNCHANGED <<active, startMu, cur, runVars, exit>>

\* The session and its cleanup session.
Bind(c) ==
  /\ call[c].at = "bind"
  /\ call' = [call EXCEPT ![c].at = "recheck", ![c].new.bound = active]
  /\ UNCHANGED <<active, locks, cur, runVars, exit>>

\* Wrong: the key is not read again.
SameKey_bug(c) == TRUE
SameKey(c) == call[c].new.key = KeyFor(call[c].user)

Recheck(c) ==
  /\ call[c].at = "recheck"
  /\ IF SameKey(c)
       THEN /\ cur' = call[c].new /\ mu' = None
            /\ call' = [call EXCEPT ![c].new = NoSession,
                 ![c].at = IF call[c].tool = "debug_run" THEN "set" ELSE "request"]
       ELSE Go(c, "create") /\ UNCHANGED <<mu, cur>>
  /\ UNCHANGED <<active, startMu, runVars, exit>>

-----------------------------------------------------------------------------
(* The rest of launchRun.                                                  *)

\* The wait for a run that the server starts itself is in DebugWaits.
Publish(c) ==
  /\ call[c].at = "set" /\ mu = None /\ run < MaxRuns
  /\ runs' = [runs EXCEPT ![run + 1] =
               [status |-> "listening", kind |-> call[c].kind, on |-> cur,
                askedOn |-> call[c].askedOn]]
  /\ run' = run + 1 /\ startMu' = None
  /\ Return(c)
  /\ UNCHANGED <<active, mu, cur, exit>>

\* SAP rejects the breakpoints.
SetFails(c) ==
  /\ call[c].at = "set"
  /\ startMu' = None
  /\ Return(c)
  /\ UNCHANGED <<active, mu, cur, runVars, exit>>

-----------------------------------------------------------------------------
(* debug_wait with rearm: the run it found, once it has the lock.           *)

\* currentRun: a given user is the run's, the active system does not matter.
DebugWait(c) ==
  /\ mu = None /\ run # 0
  /\ Calls(c, [NoCall EXCEPT !.tool = "debug_wait", !.at = "rearm", !.run = run])
  /\ UNCHANGED <<active, locks, cur, runVars, exit>>

\* Wrong: whatever has ended in any way.
MayRearm_bug(r) == runs[r].kind # "unit_tests" /\ runs[r].status \in {"timeout", "ended", "stopped"}
MayRearm(r) == runs[r].kind # "unit_tests" /\ runs[r].status \in {"timeout", "ended"}

\* rearm holds startMu; here its steps are one.
Rearm(c) ==
  /\ call[c].at = "rearm" /\ startMu = None
  /\ IF MayRearm(call[c].run) THEN SetStatus(call[c].run, "listening")
     ELSE UNCHANGED runs
  /\ Return(c)
  /\ UNCHANGED <<active, locks, cur, run, exit>>

-----------------------------------------------------------------------------
(* The tools that need a debuggee (debug_step, debug_get_variable,          *)
(* debug_get_stack, debug_set_watchpoint, debug_set_breakpoint while        *)
(* attached), and debug_get_sessions, which does not.                       *)

\* attachedRun, checkRunKeyLocked: a mismatch is an error.
InAttempt(c) ==
  /\ mu = None /\ run # 0
  /\ \E given \in Users \cup {NoUser} :
       /\ given \in {NoUser, runs[run].on.key.user}
       /\ active = runs[run].on.key.system
  /\ Calls(c, [NoCall EXCEPT !.tool = "in_attempt", !.at = "begin", !.run = run])
  /\ UNCHANGED <<active, locks, cur, runVars, exit>>

BeginCall(c) ==
  /\ call[c].at = "begin"
  /\ IF runs[call[c].run].status = "attached" /\ startMu # Idle
       THEN Go(c, "request") ELSE Return(c)
  /\ UNCHANGED <<active, locks, cur, runVars, exit>>

GetSessions(c) ==
  \E given \in Users \cup {NoUser} :
    /\ Resolved(given) # NoUser
    /\ Calls(c, [NoCall EXCEPT !.tool = "debug_get_sessions", !.at = "use",
                               !.user = Resolved(given)])
    /\ UNCHANGED <<active, locks, cur, runVars, exit>>

\* Wrong: a session of another user or system is replaced.
Fits_bug(c) == IF cur.key = KeyFor(call[c].user) THEN "request" ELSE "create"
Fits(c) ==
  CASE cur = NoSession -> "create"
    [] cur.key = KeyFor(call[c].user) -> "request"
    [] OTHER -> "error"

\* use; createLocked keeps the mutex.
Use(c) ==
  /\ call[c].at = "use" /\ mu = None
  /\ IF Fits(c) = "error" THEN Return(c) ELSE Go(c, Fits(c))
  /\ mu' = IF Fits(c) = "create" THEN c ELSE None
  /\ UNCHANGED <<active, startMu, cur, runVars, exit>>

\* A step may end the attachment.
Answered(c) ==
  /\ call[c].at = "request"
  /\ LET r == call[c].run IN
     \/ UNCHANGED runVars
     \/ /\ call[c].tool = "in_attempt" /\ runs[r].status = "attached"
        /\ SetStatus(r, "ended") /\ UNCHANGED run
  /\ Return(c)
  /\ UNCHANGED <<active, locks, cur, exit>>

-----------------------------------------------------------------------------
(* The goroutines of a run.                                                *)

\* The listener; nothing but a call or the idle timer ends an attachment.
Listens(r) ==
  /\ runs[r].status \in {"listening", "attaching"}
  /\ \E s \in LC!Successors(runs[r].status) \ {"stopping"} : SetStatus(r, s)
  /\ UNCHANGED <<active, locks, cur, run, call, exit>>

IdleBegins(r) ==
  /\ startMu = None /\ runs[r].status = "attached"
  /\ ~ \E c \in Callers : call[c].tool = "in_attempt" /\ call[c].at = "request"
                           /\ call[c].run = r
  /\ startMu' = Idle
  /\ UNCHANGED <<active, mu, cur, runVars, call, exit>>

IdleEnds(r) ==
  /\ startMu = Idle /\ runs[r].status = "attached"
  /\ SetStatus(r, "ended") /\ startMu' = None
  /\ UNCHANGED <<active, mu, cur, run, call, exit>>

-----------------------------------------------------------------------------
(* The end of the process: the input ends and no handler is left, then the  *)
(* hook (debug_stop in a goroutine), then the logout of every session.     *)

ExitBegins ==
  /\ exit = "running" /\ \A c \in Callers : call[c].at = "idle"
  /\ exit' = "cleaning"
  /\ call' = [call EXCEPT ![Hook] = [NoCall EXCEPT !.tool = "debug_stop", !.at = "lock"]]
  /\ UNCHANGED <<active, locks, cur, runVars>>

\* An idle detach may hold the lock for longer than the hook may take.
HookWaits ==
  /\ exit = "cleaning" /\ call[Hook].at = "lock" /\ startMu = Idle
  /\ exit' = "late"
  /\ UNCHANGED <<active, locks, cur, runVars, call>>

\* Wrong: the hook has less time than a cleanup may take.
OutOfTime_bug == TRUE
\* 25 s for a cleanup of at most 20 s.
OutOfTime == exit = "late"

\* The process ends after the logout: no goroutine moves any more.
LogOut ==
  /\ exit \in {"cleaning", "late"}
  /\ call[Hook].at = "idle" \/ OutOfTime
  /\ exit' = IF exit = "late" THEN "aborted" ELSE "out"
  /\ UNCHANGED <<active, locks, cur, runVars, call>>

DebugTool(c) ==
  \/ DebugRun(c) \/ DebugStop(c) \/ DebugWait(c) \/ InAttempt(c) \/ GetSessions(c)
Launches(c) ==
  \/ StartLocked(c) \/ Cleaned(c) \/ Drop(c) \/ Open(c) \/ CreateLocked(c)
  \/ Bind(c) \/ Recheck(c)
  \/ Publish(c) \/ SetFails(c)
Works(c) == Rearm(c) \/ BeginCall(c) \/ Use(c) \/ Answered(c)
Background(r) == Listens(r) \/ IdleBegins(r) \/ IdleEnds(r)

Next ==
  /\ exit \notin {"out", "aborted"}
  /\ \/ \E c \in Threads :
          DebugTool(c) \/ Launches(c) \/ Works(c)
     \/ \E r \in 1..MaxRuns : Background(r)
     \/ SelectSystem \/ ExitBegins \/ HookWaits \/ LogOut

Spec == Init /\ [][Next]_vars

-----------------------------------------------------------------------------
(* What a session is filed under is what it is: it is bound to the system   *)
(* of the key (createLocked), and so is every run on it, if ~BackAndForth;  *)
(* a run of unit tests has the logon user of its system, "because the tests *)
(* run as that user" (runUser), if select_system did not come in between.   *)
BoundToKey ==
  /\ cur.bound = cur.key.system
  /\ \A r \in 1..run :
       LET on == runs[r].on IN
       /\ on.bound = on.key.system
       /\ runs[r].kind = "unit_tests" /\ runs[r].askedOn = on.key.system
            => Logon[on.key.system] \in {NoUser, on.key.user}

(* An active run is the newest, and the debug session is the one it runs on *)
(* until it is stopped: no call replaces it silently, which "would discard  *)
(* an attached debuggee" (use).                                             *)
SessionOfRun == \A r \in 1..MaxRuns : Active(r) => r = run /\ cur = runs[r].on

(* At the logout no run is left: "the debug cleanup needs the SAP sessions" *)
(* (main.go).  Except when an idle detach held the run-start lock.          *)
ExitCleansUp == exit = "out" => \A r \in 1..MaxRuns : ~ Active(r) /\ runs[r].status # "stopping"

(* The runs, with all the handlers around them, are those that RunLifecycle *)
(* describes: a new one only when the one before is stopped (launchRun),    *)
(* and none comes back from being stopped (MayRearm, cleanupRun).          *)
LifecycleSpec == LC!Spec
=============================================================================
