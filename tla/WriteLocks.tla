----------------------------- MODULE WriteLocks -----------------------------
(***************************************************************************)
(* The edit locks the server holds in SAP on the user's behalf, and its    *)
(* client-side ledger of them (tools/lock.go, locktracker.go, writelock.go,*)
(* lockrollback.go, lock_list.go, activate.go and the tools that write     *)
(* source).  The ledger is two tables that no common lock protects: the    *)
(* lock map (key to handle) and the tracker (keys that list_locks and      *)
(* force_unlock enumerate).  An action is one access to one of them, one   *)
(* read of the active system, or one request executed by SAP; a call that  *)
(* another call overtakes between two of its accesses is the interesting   *)
(* case.                                                                   *)
(*                                                                         *)
(* Sources and ETags are left out: a write is accepted or refused.  A lock *)
(* request may always be refused (another user edits the object), a write  *)
(* may always fail (a patch that does not apply, a missing transport).     *)
(* The answer to a lock, an unlock or a logout may be lost after SAP has   *)
(* carried it out: the tool reports an error and its ledger does not move. *)
(***************************************************************************)
EXTENDS Naturals, Sequences

CONSTANTS Callers,     \* tool calls in flight at a time
          Systems,     \* configured SAP systems
          Objects,     \* object URIs
          ECC,         \* the systems that are ECC; the others are S/4
          Tools,       \* the tools clients use, a subset of AllTools
          Overlap,     \* a call may start while another works on its object
          Fails,       \* unlock, logout and the flavor probe may fail, and
                       \* the answer to a lock, unlock or logout be lost
          Expires,     \* SAP may end an idle session
          MaxHandles   \* bound: locks SAP grants

\* patch_source stands for set_source_from_file as well: they differ in what
\* they read and write, not in what they do to locks.
Writers  == {"patch_source", "set_include_source", "set_text_elements",
             "create_test_include"}
AllTools == Writers \cup {"lock_object", "unlock_object", "force_unlock",
                          "activate_objects", "select_system"}

ASSUME WriteLocksAssumption ==
  /\ Systems # {} /\ Objects # {} /\ "" \notin Systems \cup Objects
  /\ ECC \subseteq Systems /\ Tools \subseteq AllTools
  /\ Overlap \in BOOLEAN /\ Fails \in BOOLEAN /\ Expires \in BOOLEAN
  /\ MaxHandles \in Nat

VARIABLES
  active,   \* the registry's active system
  ledger,   \* adt.LockMap: the handle stored per key, 0 for no entry
  tracked,  \* sessionLockTracker.keys
  call,     \* the handler each caller is in
  enq,      \* SAP: the handle that locks an object for our session, 0 if free
  home,     \* SAP: the system that issued each handle, in order of issue
  unheard   \* the keys whose lock SAP last changed without an answer

vars == <<active, ledger, tracked, call, enq, home, unheard>>

Keys    == Systems \X Objects
Handles == 1..MaxHandles

(* A handler in flight.  at: its next step.  objs: the objects it still has *)
(* to work on, obj the one in hand.  sys: the system of its lock key.      *)
(* handle: the handle it uses, given: the client passed it.  own:          *)
(* releaseOnFailure.  got: the handle SAP granted this very call, which    *)
(* the code does not record.                                               *)
Steps == {"idle", "flavor", "look", "resolve", "check", "lock", "record",
          "track", "write", "unlock", "delete", "untrack", "logout", "forget"}

Call == [tool : AllTools \cup {""}, at : Steps, sys : Systems \cup {""},
         objs : SUBSET Objects, obj : Objects \cup {""},
         handle : Nat, given : BOOLEAN, own : BOOLEAN, got : Nat]

NoCall == [tool |-> "", at |-> "idle", sys |-> "", objs |-> {}, obj |-> "",
           handle |-> 0, given |-> FALSE, own |-> FALSE, got |-> 0]

TypeOK ==
  /\ active \in Systems
  /\ ledger \in [Keys -> Nat]
  /\ tracked \in SUBSET Keys
  /\ call \in [Callers -> Call]
  /\ enq \in [Keys -> Nat]
  /\ home \in Seq(Systems)
  /\ unheard \in SUBSET Keys

Init ==
  /\ active \in Systems
  /\ ledger = [k \in Keys |-> 0]
  /\ tracked = {}
  /\ call = [c \in Callers |-> NoCall]
  /\ enq = [k \in Keys |-> 0]
  /\ home = <<>>
  /\ unheard = {}

-----------------------------------------------------------------------------
Idle(c) == call[c].at = "idle"
Key(c)  == <<call[c].sys, call[c].obj>>

\* Requests go to the system that is active when they are sent.
Target(c) == <<active, call[c].obj>>

\* force_unlock works on every object of a system.
Works(c, objs) == call[c].tool = "force_unlock" \/ call[c].objs \cap objs # {}

\* Clients usually wait for an answer before the next call on an object.
MayStart(objs) == Overlap \/ \A d \in Callers : ~ Works(d, objs)
AllIdle        == \A d \in Callers : Idle(d)

Step(c, next) == call' = [call EXCEPT ![c].at = next]
Done(c)       == call' = [call EXCEPT ![c] = NoCall]

-----------------------------------------------------------------------------
(* The start of a handler, up to its first access.                         *)

FirstStep == [lock_object |-> "lock", unlock_object |-> "check",
              patch_source |-> "flavor", set_include_source |-> "flavor",
              set_text_elements |-> "look", create_test_include |-> "check"]

Start(c, tool, at, objs, o, handle) ==
  /\ Idle(c) /\ tool \in Tools
  /\ call' = [call EXCEPT ![c] =
       [NoCall EXCEPT !.tool = tool, !.at = at, !.sys = active, !.objs = objs,
                      !.obj = o, !.handle = handle, !.given = handle # 0]]
  /\ UNCHANGED <<active, ledger, tracked, enq, home, unheard>>

Begin(c) ==
  \E tool \in DOMAIN FirstStep, o \in Objects :
    MayStart({o}) /\ Start(c, tool, FirstStep[tool], {o}, o, 0)

\* A writer that is given a lock_handle resolves nothing.
\* set_text_elements still tracks its key.
BeginGiven(c) ==
  \E tool \in Writers, o \in Objects, h \in DOMAIN home :
    /\ MayStart({o})
    /\ Start(c, tool, IF tool = "set_text_elements" THEN "track" ELSE "write",
             {o}, o, h)

BeginActivate(c) ==
  \E objs \in SUBSET Objects : \E o \in objs :
    MayStart(objs) /\ Start(c, "activate_objects", "check", objs, o, 0)

BeginForceUnlock(c) ==
  /\ Overlap \/ AllIdle
  /\ Start(c, "force_unlock", "logout", {}, "", 0)

SelectSystem ==
  /\ "select_system" \in Tools
  /\ Overlap \/ AllIdle
  /\ active' \in Systems
  /\ UNCHANGED <<ledger, tracked, call, enq, home, unheard>>

-----------------------------------------------------------------------------
(* Resolving the handle of a write.                                        *)

\* Wrong: ECC relocks only when nothing is cached.
Probe_bug(c) ==
  /\ call[c].at = "flavor"
  /\ call' = [call EXCEPT ![c] =
       IF active \in ECC /\ ledger[Key(c)] = 0
         THEN [@ EXCEPT !.at = "lock", !.own = TRUE]
         ELSE [@ EXCEPT !.at = "look"]]
  /\ UNCHANGED <<active, ledger, tracked, enq, home, unheard>>

\* resolveWriteLockHandle: on ECC every write relocks; a probe that fails
\* counts as S/4, where a cached handle is used, and only a tool that may
\* lock by itself goes on without one.
Probe(c) ==
  /\ call[c].at = "flavor"
  /\ \E known \in IF Fails THEN BOOLEAN ELSE {TRUE} :
       call' = [call EXCEPT ![c] =
         IF known /\ active \in ECC
           THEN [@ EXCEPT !.at = "lock", !.own = TRUE]
           ELSE [@ EXCEPT !.at = IF call[c].tool = "patch_source"
                                     THEN "look" ELSE "check"]]
  /\ UNCHANGED <<active, ledger, tracked, enq, home, unheard>>

\* Wrong: a lock that already existed counts as taken by this call.
Look_bug(c) ==
  /\ call[c].at = "look"
  /\ call' = [call EXCEPT ![c] = [@ EXCEPT !.at = "resolve", !.own = TRUE]]
  /\ UNCHANGED <<active, ledger, tracked, enq, home, unheard>>

\* lockPreExisted, a read of its own before the lock is resolved.
Look(c) ==
  /\ call[c].at = "look"
  /\ call' = [call EXCEPT ![c] = [@ EXCEPT !.at = "resolve",
                                           !.own = ledger[Key(c)] = 0]]
  /\ UNCHANGED <<active, ledger, tracked, enq, home, unheard>>

\* adt.LockMap.ResolveLock: the stored handle, or else a new lock.
Resolve(c) ==
  /\ call[c].at = "resolve"
  /\ LET h == ledger[Key(c)] IN
       call' = [call EXCEPT ![c] = [@ EXCEPT
                  !.at = IF h = 0 THEN "lock" ELSE "track", !.handle = h]]
  /\ UNCHANGED <<active, ledger, tracked, enq, home, unheard>>

\* The tools that need an entry: unlock_object, set_include_source and
\* create_test_include fail without one.
Check(c) ==
  /\ call[c].at = "check" /\ call[c].tool # "activate_objects"
  /\ LET h == ledger[Key(c)] IN
       IF h = 0
         THEN Done(c)
         ELSE call' = [call EXCEPT ![c] = [@ EXCEPT
                !.at = IF call[c].tool = "unlock_object" THEN "unlock"
                                                         ELSE "write",
                !.handle = h]]
  /\ UNCHANGED <<active, ledger, tracked, enq, home, unheard>>

-----------------------------------------------------------------------------
(* Taking a lock.                                                          *)

\* S/4 refuses a second lock of an object, even to the session that holds it;
\* ECC grants it with a new handle.
SapGrants(k) == Len(home) < MaxHandles /\ (k[1] \in ECC \/ enq[k] = 0)

LockGranted(c) ==
  /\ call[c].at = "lock" /\ SapGrants(Target(c))
  /\ home' = Append(home, active)
  /\ enq' = [enq EXCEPT ![Target(c)] = Len(home) + 1]
  /\ call' = [call EXCEPT ![c] = [@ EXCEPT !.at = "record",
                 !.handle = Len(home) + 1, !.got = Len(home) + 1]]
  /\ unheard' = unheard \ {Target(c)}
  /\ UNCHANGED <<active, ledger, tracked>>

\* The answer is lost or late: the call fails, and SAP holds the lock.
LockLost(c) ==
  /\ Fails /\ call[c].at = "lock" /\ SapGrants(Target(c))
  /\ home' = Append(home, active)
  /\ enq' = [enq EXCEPT ![Target(c)] = Len(home) + 1]
  /\ unheard' = unheard \cup {Target(c)}
  /\ Done(c)
  /\ UNCHANGED <<active, ledger, tracked>>

LockRefused(c) ==
  /\ call[c].at = "lock"
  /\ Done(c)
  /\ UNCHANGED <<active, ledger, tracked, enq, home, unheard>>

\* Wrong: a lock taken by a write is stored and never tracked.
Record_bug(c) ==
  /\ call[c].at = "record"
  /\ ledger' = [ledger EXCEPT ![Key(c)] = call[c].handle]
  /\ Step(c, IF call[c].tool = "lock_object" THEN "track" ELSE "write")
  /\ UNCHANGED <<active, tracked, enq, home, unheard>>

\* Wrong: the key is the URI alone, the same on every system.
Record_unqualified_bug(c) ==
  /\ call[c].at = "record"
  /\ ledger' = [k \in Keys |-> IF k[2] = call[c].obj THEN call[c].handle
                                                     ELSE ledger[k]]
  /\ Step(c, "track")
  /\ UNCHANGED <<active, tracked, enq, home, unheard>>

\* lockMap.Set.  lock_object forms its key only now.
Record(c) ==
  /\ call[c].at = "record"
  /\ LET s == IF call[c].tool = "lock_object" THEN active ELSE call[c].sys IN
       /\ ledger' = [ledger EXCEPT ![<<s, call[c].obj>>] = call[c].handle]
       /\ call' = [call EXCEPT ![c] = [@ EXCEPT !.at = "track", !.sys = s]]
  /\ UNCHANGED <<active, tracked, enq, home, unheard>>

\* Wrong: the URI is tracked, not the key with its system.
Track_bug(c) ==
  /\ call[c].at = "track"
  /\ tracked' = tracked \cup {call[c].obj}
  /\ IF call[c].tool = "lock_object" THEN Done(c) ELSE Step(c, "write")
  /\ UNCHANGED <<active, ledger, enq, home, unheard>>

Track(c) ==
  /\ call[c].at = "track"
  /\ tracked' = tracked \cup {Key(c)}
  /\ IF call[c].tool = "lock_object" THEN Done(c) ELSE Step(c, "write")
  /\ UNCHANGED <<active, ledger, enq, home, unheard>>

-----------------------------------------------------------------------------
(* The write itself.  Its lock is kept when it succeeds.                   *)

\* ECC accepts any handle, S/4 answers 423 unless it holds the lock.
SapAccepts(c) == active \in ECC \/ enq[Target(c)] = call[c].handle

WriteAccepted(c) ==
  /\ call[c].at = "write" /\ SapAccepts(c)
  /\ Done(c)
  /\ UNCHANGED <<active, ledger, tracked, enq, home, unheard>>

WriteFails(c) ==
  /\ call[c].at = "write"
  /\ IF call[c].own THEN Step(c, "unlock") ELSE Done(c)
  /\ UNCHANGED <<active, ledger, tracked, enq, home, unheard>>

-----------------------------------------------------------------------------
(* Giving a lock back: unlock_object, releaseAutoLock, activate_objects.   *)

\* The end of an unlock: activate_objects goes on to its next object, and
\* after the last one sends the activation, which changes no lock.
NextObject(c) ==
  LET rest == call[c].objs \ {call[c].obj} IN
    IF call[c].tool = "activate_objects" /\ rest # {}
      THEN \E o \in rest : call' = [call EXCEPT ![c] =
             [@ EXCEPT !.at = "check", !.objs = rest, !.obj = o]]
      ELSE Done(c)

\* Activation reads the active system anew for each object.
CheckActivate(c) ==
  /\ call[c].at = "check" /\ call[c].tool = "activate_objects"
  /\ LET h == ledger[Target(c)] IN
       IF h = 0
         THEN NextObject(c)
         ELSE call' = [call EXCEPT ![c] = [@ EXCEPT
                !.at = "unlock", !.sys = active, !.handle = h]]
  /\ UNCHANGED <<active, ledger, tracked, enq, home, unheard>>

\* SAP answers 2xx whether or not the handle held a lock.
UnlockAnswered(c) ==
  /\ call[c].at = "unlock"
  /\ enq' = [enq EXCEPT ![Target(c)] = IF @ = call[c].handle THEN 0 ELSE @]
  /\ unheard' = IF enq'[Target(c)] = 0 THEN unheard \ {Target(c)} ELSE unheard
  /\ Step(c, "delete")
  /\ UNCHANGED <<active, ledger, tracked, home>>

\* Wrong: the entry goes although the unlock failed.
UnlockFails_bug(c) ==
  /\ Fails /\ call[c].at = "unlock"
  /\ Step(c, "delete")
  /\ UNCHANGED <<active, ledger, tracked, enq, home, unheard>>

\* An error keeps the entry, except on activation, which ignores it.
UnlockFails(c) ==
  /\ Fails /\ call[c].at = "unlock"
  /\ IF call[c].tool = "activate_objects" THEN Step(c, "delete") ELSE Done(c)
  /\ UNCHANGED <<active, ledger, tracked, enq, home, unheard>>

\* The same for the client when only the answer is lost.
UnlockLost(c) ==
  /\ Fails /\ call[c].at = "unlock" /\ enq[Target(c)] = call[c].handle
  /\ enq' = [enq EXCEPT ![Target(c)] = 0]
  /\ unheard' = unheard \cup {Target(c)}
  /\ IF call[c].tool = "activate_objects" THEN Step(c, "delete") ELSE Done(c)
  /\ UNCHANGED <<active, ledger, tracked, home>>

Delete(c) ==
  /\ call[c].at = "delete"
  /\ ledger' = [ledger EXCEPT ![Key(c)] = 0]
  /\ Step(c, "untrack")
  /\ UNCHANGED <<active, tracked, enq, home, unheard>>

Untrack(c) ==
  /\ call[c].at = "untrack"
  /\ tracked' = tracked \ {Key(c)}
  /\ NextObject(c)
  /\ UNCHANGED <<active, ledger, enq, home, unheard>>

\* force_unlock ends the session of the system active now, then forgets the
\* keys of the system that was active when it started.
Logout(c) ==
  /\ call[c].at = "logout"
  /\ enq' = [k \in Keys |-> IF k[1] = active THEN 0 ELSE enq[k]]
  /\ unheard' = {k \in unheard : k[1] # active}
  /\ Step(c, "forget")
  /\ UNCHANGED <<active, ledger, tracked, home>>

LogoutFails(c) ==
  /\ Fails /\ call[c].at = "logout"
  /\ Done(c)
  /\ UNCHANGED <<active, ledger, tracked, enq, home, unheard>>

LogoutLost(c) ==
  /\ Fails /\ call[c].at = "logout"
  /\ enq' = [k \in Keys |-> IF k[1] = active THEN 0 ELSE enq[k]]
  /\ unheard' = unheard \cup {k \in Keys : k[1] = active /\ enq[k] # 0}
  /\ Done(c)
  /\ UNCHANGED <<active, ledger, tracked, home>>

\* Wrong: the tracker is emptied, the lock map is not.
Forget_bug(c) ==
  /\ call[c].at = "forget"
  /\ tracked' = {k \in tracked : k[1] # call[c].sys}
  /\ Done(c)
  /\ UNCHANGED <<active, ledger, enq, home, unheard>>

\* forgetSystem: only what is tracked can be found.
Forget(c) ==
  LET mine == {k \in tracked : k[1] = call[c].sys} IN
    /\ call[c].at = "forget"
    /\ ledger' = [k \in Keys |-> IF k \in mine THEN 0 ELSE ledger[k]]
    /\ tracked' = tracked \ mine
    /\ Done(c)
    /\ UNCHANGED <<active, enq, home, unheard>>

-----------------------------------------------------------------------------
\* SAP ends a session after a long time without a request.
Expire(s) ==
  /\ Expires /\ AllIdle
  /\ enq' = [k \in Keys |-> IF k[1] = s THEN 0 ELSE enq[k]]
  /\ UNCHANGED <<active, ledger, tracked, call, home, unheard>>

Starts(c)    == Begin(c) \/ BeginGiven(c) \/ BeginActivate(c)
                  \/ BeginForceUnlock(c)
Resolves(c)  == Probe(c) \/ Look(c) \/ Resolve(c) \/ Check(c)
Takes(c)     == LockGranted(c) \/ LockLost(c) \/ LockRefused(c) \/ Record(c)
                  \/ Track(c)
Writes(c)    == WriteAccepted(c) \/ WriteFails(c)
GivesBack(c) == CheckActivate(c) \/ UnlockAnswered(c) \/ UnlockFails(c)
                  \/ UnlockLost(c) \/ Delete(c) \/ Untrack(c)
Resets(c)    == Logout(c) \/ LogoutFails(c) \/ LogoutLost(c) \/ Forget(c)

Next ==
  \/ \E c \in Callers : \/ Starts(c) \/ Resolves(c) \/ Takes(c)
                        \/ Writes(c) \/ GivesBack(c) \/ Resets(c)
  \/ \E s \in Systems : Expire(s)
  \/ SelectSystem

Spec == Init /\ [][Next]_vars

-----------------------------------------------------------------------------
\* No call that could change the lock of key k is in flight.
Quiet(k) == \A c \in Callers : ~ Works(c, {k[2]})

(* What list_locks leaves out is not held: every lock SAP holds for the    *)
(* session is in the lock map with the handle that releases it             *)
(* (lock_list.go, "use it to see what force_unlock or unlock_object would  *)
(* release").  Only the answer to the LOCK itself, when it is lost, leaves *)
(* one behind, until a lock, an unlock or a logout is answered again.      *)
NoOrphan ==
  \A k \in Keys \ unheard : Quiet(k) /\ enq[k] # 0 => ledger[k] = enq[k]

(* A handle in the lock map is one SAP still honours, so that a write that *)
(* reuses it is not refused (locktracker.go: a stale handle fails with     *)
(* 423), except after an unlock or a logout whose answer was lost.         *)
NoStale ==
  \A k \in Keys \ unheard : Quiet(k) /\ ledger[k] # 0 => enq[k] = ledger[k]

(* Every entry of the lock map is tracked, so list_locks shows it and      *)
(* force_unlock forgets it (collectTrackedLocks, forgetSystem).            *)
EntriesTracked == \A k \in Keys : Quiet(k) /\ ledger[k] # 0 => k \in tracked

(* A failed write releases exactly the lock this call took, "never a       *)
(* caller-owned or merely reused cached lock" (file_source.go), and never  *)
(* leaves one behind (lockrollback.go, #383).                              *)
RollsBackItsOwnLock ==
  \A c \in Callers : call[c].at = "write" => (call[c].own <=> call[c].got # 0)

(* A write that SAP accepts, with a handle the server chose, is made under *)
(* the lock of the object: ECC, which accepts any handle, is never given a *)
(* stale one (writelock.go, #377).                                         *)
NoBlindWrite ==
  \A c \in Callers :
    call[c].at = "write" /\ ~ call[c].given /\ SapAccepts(c)
      => enq[Target(c)] = call[c].handle

(* The key of an entry names the system that granted the lock, so that     *)
(* force_unlock clears exactly the active system's (locktracker.go).       *)
SystemsApart == \A k \in Keys : ledger[k] # 0 => home[ledger[k]] = k[1]
=============================================================================
