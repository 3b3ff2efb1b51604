-------------------------- MODULE WriteLocksProofs --------------------------
(***************************************************************************)
(* Theorems about WriteLocks when no two calls work on one object at a     *)
(* time (~ Overlap): the rollback of a failed write is exact, an entry of  *)
(* the ledger names the system that granted its lock, and, when            *)
(* activation's unlock does not fail, the ledger misses no lock but one    *)
(* whose request SAP carried out without an answer.                        *)
(***************************************************************************)
EXTENDS WriteLocks, TLAPS

(* Activation forgets a lock whose unlock failed.                          *)
Reliable == "activate_objects" \in Tools => ~ Fails

-----------------------------------------------------------------------------
\* Calls that are in flight together work on different objects.
Apart(r, s) ==
  r.at # "idle" /\ s.at # "idle" =>
    /\ r.tool # "force_unlock" /\ s.tool # "force_unlock"
    /\ r.objs \cap s.objs = {}

\* Which tool is at which step.
Shape(r, sys) ==
  /\ r.at # "idle" => r.sys = sys /\ r.tool \in Tools
  /\ r.at \in {"logout", "forget"} => r.tool = "force_unlock"
  /\ r.at \notin {"idle", "logout", "forget"}
       => r.tool # "force_unlock" /\ r.obj \in r.objs
  /\ r.at \in {"flavor", "look", "resolve", "write"} => r.tool \in Writers
  /\ r.at \in {"lock", "record", "track"}
       => r.tool \in Writers \cup {"lock_object"}
  /\ r.at = "check"
       => r.tool \in Writers \cup {"unlock_object", "activate_objects"}

\* What a call in flight knows of the lock it took.  led is the lock map.
OwnInv(r, led) ==
  /\ r.at \in {"flavor", "look", "resolve", "check"} => r.got = 0
  /\ r.at \in {"flavor", "check"} => ~ r.own
  /\ r.at = "resolve" => (r.own <=> led[<<r.sys, r.obj>>] = 0)
  /\ r.at = "lock" /\ r.tool \in Writers => r.own
  /\ r.at = "record" => r.got # 0 /\ (r.tool \in Writers => r.own)
  /\ r.at \in {"track", "write"} /\ r.tool \in Writers
       => (r.own <=> r.got # 0)
  /\ r.tool = "activate_objects" => r.got = 0 /\ ~ r.own

SafeInv ==
  /\ TypeOK
  /\ \A c, d \in Callers : c # d => Apart(call[c], call[d])
  /\ \A c \in Callers : Shape(call[c], active) /\ OwnInv(call[c], ledger)

\* A handle of the ledger and the one SAP holds: the same, unless SAP has
\* ended the session meanwhile or the answer to the last change was lost.
Agree(h, e, lost) == h = e \/ (Expires /\ e = 0) \/ lost

\* What a call in flight knows of its key.  en is SAP's lock table.
KeyInv(r, led, en, un) ==
  LET k == <<r.sys, r.obj>> IN
    /\ r.at = "record" => r.handle = en[k] /\ r.handle # 0
    /\ r.at = "track"  => Agree(led[k], en[k], k \in un)
    /\ r.at \in {"track", "write"} /\ r.own => r.handle = en[k]
    /\ r.at \in {"track", "write"} /\ ~ r.given
         => Agree(r.handle, en[k], k \in un)
    /\ r.at = "unlock" => Agree(r.handle, en[k], k \in un)
    /\ r.at = "delete" => en[k] = 0 \/ k \in un
    /\ r.at = "untrack" => led[k] = 0
    /\ r.at = "forget" => \A o \in Objects : en[<<r.sys, o>>] = 0

\* The only calls that make lock map and SAP disagree on a key.
Parts(r, k) ==
  \/ r.at \in {"record", "delete"} /\ k = <<r.sys, r.obj>>
  \/ r.at = "forget" /\ k[1] = r.sys

Matches(k) == \/ Agree(ledger[k], enq[k], k \in unheard)
              \/ \E c \in Callers : Parts(call[c], k)

Traced(k) == ledger[k] # 0 => k \in tracked \/
               \E c \in Callers : call[c].at = "track" /\ Key(c) = k

LedgerInv ==
  /\ SafeInv
  /\ \A c \in Callers : KeyInv(call[c], ledger, enq, unheard)
  /\ \A k \in Keys : Matches(k) /\ Traced(k)

-----------------------------------------------------------------------------
(* Steps of one call keep SafeInv.                                         *)

\* A handler that has ended.
LEMMA NoCallFacts ==
  /\ NoCall \in Call /\ NoCall.at = "idle"
  /\ \A sys : Shape(NoCall, sys)
  /\ \A led : OwnInv(NoCall, led)
  /\ \A led, en, un : KeyInv(NoCall, led, en, un)
  /\ \A k : ~ Parts(NoCall, k)
BY DEF NoCall, Call, Steps, Shape, OwnInv, KeyInv, Parts

\* Another call in flight has another key.
LEMMA OtherKeys ==
  ASSUME SafeInv, NEW c \in Callers, NEW d \in Callers, c # d,
         ~ Idle(c), ~ Idle(d)
  PROVE  /\ call[c].tool # "force_unlock" /\ call[d].tool # "force_unlock"
         /\ call[c].at \notin {"logout", "forget"}
         /\ call[d].at \notin {"logout", "forget"}
         /\ call[c].obj # call[d].obj /\ Key(c) # Key(d)
         /\ Key(d) \in Keys
<1>1. Apart(call[c], call[d]) /\ Shape(call[c], active) /\ Shape(call[d], active)
  BY DEF SafeInv
<1>2. /\ call[c].tool # "force_unlock" /\ call[d].tool # "force_unlock"
      /\ call[c].objs \cap call[d].objs = {}
  BY <1>1 DEF Apart, Idle
<1>3. /\ call[c].at \notin {"logout", "forget"} /\ call[c].obj \in call[c].objs
      /\ call[d].at \notin {"logout", "forget"} /\ call[d].obj \in call[d].objs
  BY <1>1, <1>2 DEF Shape, Idle
<1>4. call[d].objs \subseteq Objects /\ call[d].sys = active /\ active \in Systems
  BY <1>1 DEF SafeInv, TypeOK, Call, Shape, Idle
<1> QED
  BY <1>2, <1>3, <1>4 DEF Key, Keys

\* The key of a call at work on an object.
LEMMA OwnKey ==
  ASSUME SafeInv, NEW c \in Callers,
         call[c].at \notin {"idle", "logout", "forget"}
  PROVE  /\ Key(c) \in Keys /\ Key(c) = Target(c)
         /\ call[c].sys = active /\ call[c].tool # "force_unlock"
         /\ call[c] \in Call /\ call[c].obj \in call[c].objs
         /\ call[c].objs \subseteq Objects
         /\ call[c].handle \in Nat /\ call[c].got \in Nat
<1>1. Shape(call[c], active) /\ call[c] \in Call /\ active \in Systems
  BY DEF SafeInv, TypeOK
<1>2. call[c].sys = active /\ call[c].tool # "force_unlock" /\ call[c].obj \in call[c].objs
  BY <1>1 DEF Shape
<1>3. call[c].objs \subseteq Objects /\ call[c].handle \in Nat /\ call[c].got \in Nat
  BY <1>1 DEF Call
<1> QED
  BY <1>1, <1>2, <1>3 DEF Key, Keys, Target

\* A step of call c to r that touches the lock map at its key at most.
LEMMA SafeStep ==
  ASSUME SafeInv, TypeOK', NEW c \in Callers, ~ Idle(c), NEW r \in Call,
         call' = [call EXCEPT ![c] = r], active' = active,
         r.at = "idle" \/
           (r.tool = call[c].tool /\ r.objs \subseteq call[c].objs),
         Shape(r, active), OwnInv(r, ledger'),
         \A d \in Callers \ {c} :
           ~ Idle(d) => ledger'[Key(d)] = ledger[Key(d)]
  PROVE  SafeInv'
<1>1. call'[c] = r /\ \A d \in Callers \ {c} : call'[d] = call[d]
  BY DEF SafeInv, TypeOK
<1>2. ASSUME NEW a \in Callers, NEW b \in Callers, a # b
      PROVE  Apart(call'[a], call'[b])
  <2>1. Apart(call[a], call[b])
    BY <1>2 DEF SafeInv
  <2>2. CASE a # c /\ b # c
    BY <2>1, <2>2, <1>1
  <2>3. CASE a = c
    BY <2>1, <2>3, <1>1, <1>2 DEF Apart, Idle
  <2>4. CASE b = c
    BY <2>1, <2>4, <1>1, <1>2 DEF Apart, Idle
  <2> QED
    BY <2>2, <2>3, <2>4
<1>3. ASSUME NEW d \in Callers
      PROVE  Shape(call'[d], active') /\ OwnInv(call'[d], ledger')
  <2>1. CASE d = c
    BY <2>1, <1>1
  <2>2. CASE d # c
    <3>1. call'[d] = call[d] /\ Shape(call[d], active) /\ OwnInv(call[d], ledger)
      BY <2>2, <1>1 DEF SafeInv
    <3>2. call[d].at # "idle" =>
            ledger'[<<call[d].sys, call[d].obj>>]
              = ledger[<<call[d].sys, call[d].obj>>]
      BY <2>2 DEF Idle, Key
    <3> QED
      BY <3>1, <3>2 DEF OwnInv
  <2> QED
    BY <2>1, <2>2
<1> QED
  BY <1>2, <1>3 DEF SafeInv

\* A step that leaves the tables alone.
LEMMA SafeQuiet ==
  ASSUME SafeInv, NEW c \in Callers, ~ Idle(c), NEW r \in Call,
         call' = [call EXCEPT ![c] = r],
         UNCHANGED <<active, ledger, tracked, enq, home, unheard>>,
         r.at = "idle" \/
           (r.tool = call[c].tool /\ r.objs \subseteq call[c].objs),
         Shape(r, active), OwnInv(r, ledger)
  PROVE  SafeInv'
<1>1. TypeOK'
  BY DEF SafeInv, TypeOK
<1> QED
  BY <1>1, SafeStep

\* A handler that only ends.
LEMMA SafeDone ==
  ASSUME SafeInv, NEW c \in Callers, ~ Idle(c), Done(c),
         UNCHANGED <<active, ledger, tracked, enq, home, unheard>>
  PROVE  SafeInv'
BY SafeQuiet, NoCallFacts DEF Done

LEMMA SafeResolves ==
  ASSUME SafeInv, NEW c \in Callers, Resolves(c)
  PROVE  SafeInv'
<1> DEFINE x == call[c]
<1>1. x \in Call /\ Shape(x, active) /\ OwnInv(x, ledger)
  BY DEF SafeInv, TypeOK
<1>2. CASE Probe(c)
  <2>1. PICK known \in BOOLEAN :
          call' = [call EXCEPT ![c] =
            IF known /\ active \in ECC
              THEN [x EXCEPT !.at = "lock", !.own = TRUE]
              ELSE [x EXCEPT !.at = IF x.tool = "patch_source" THEN "look"
                                                               ELSE "check"]]
    BY <1>2 DEF Probe
  <2> DEFINE r == IF known /\ active \in ECC
              THEN [x EXCEPT !.at = "lock", !.own = TRUE]
              ELSE [x EXCEPT !.at = IF x.tool = "patch_source" THEN "look"
                                                               ELSE "check"]
  <2>2. /\ r \in Call /\ r.tool = x.tool /\ r.objs = x.objs
        /\ r.obj = x.obj /\ r.sys = x.sys /\ r.got = x.got
        /\ r.at \in {"lock", "look", "check"}
        /\ r.at = "lock" => r.own
        /\ r.at # "lock" => r.own = x.own
    BY <1>1 DEF Call, Steps
  <2>3. Shape(r, active) /\ OwnInv(r, ledger)
    BY <1>1, <1>2, <2>2 DEF Shape, OwnInv, Probe, Writers
  <2> QED
    BY <1>2, <2>1, <2>2, <2>3, SafeQuiet DEF Probe, Idle
<1>3. CASE Look(c)
  <2> DEFINE r == [x EXCEPT !.at = "resolve", !.own = ledger[Key(c)] = 0]
  <2>1. /\ r \in Call /\ r.tool = x.tool /\ r.objs = x.objs
        /\ r.obj = x.obj /\ r.sys = x.sys /\ r.got = x.got
        /\ r.at = "resolve" /\ (r.own <=> ledger[Key(c)] = 0)
    BY <1>1 DEF Call, Steps
  <2>2. /\ x.at = "look" /\ call' = [call EXCEPT ![c] = r]
        /\ UNCHANGED <<active, ledger, tracked, enq, home, unheard>>
    BY <1>3 DEF Look
  <2>3. r.tool \in Writers /\ r.got = 0 /\ Key(c) = <<r.sys, r.obj>>
    BY <1>1, <2>1, <2>2 DEF Shape, OwnInv, Key
  <2> HIDE DEF r
  <2>4. OwnInv(r, ledger)
    BY <2>1, <2>3 DEF OwnInv, Writers
  <2>5. Shape(r, active)
    BY <1>1, <2>1, <2>2, <2>3 DEF Shape
  <2> QED
    BY <2>1, <2>2, <2>4, <2>5, SafeQuiet DEF Idle
<1>4. CASE Resolve(c)
  <2> DEFINE h == ledger[Key(c)]
             r == [x EXCEPT !.at = IF h = 0 THEN "lock" ELSE "track",
                            !.handle = h]
  <2>1. h \in Nat
    BY <1>4, OwnKey DEF Resolve, SafeInv, TypeOK
  <2>2. /\ r \in Call /\ r.tool = x.tool /\ r.objs = x.objs
        /\ r.obj = x.obj /\ r.sys = x.sys /\ r.got = x.got
        /\ r.own = x.own /\ r.at = IF h = 0 THEN "lock" ELSE "track"
    BY <1>1, <2>1 DEF Call, Steps
  <2>3. Shape(r, active) /\ OwnInv(r, ledger)
    BY <1>1, <1>4, <2>2 DEF Shape, OwnInv, Resolve, Key
  <2> QED
    BY <1>4, <2>2, <2>3, SafeQuiet DEF Resolve, Idle
<1>5. CASE Check(c)
  <2> DEFINE h == ledger[Key(c)]
             r == [x EXCEPT !.at = IF x.tool = "unlock_object" THEN "unlock"
                                                              ELSE "write",
                            !.handle = h]
  <2>1. h \in Nat
    BY <1>5, OwnKey DEF Check, SafeInv, TypeOK
  <2>2. /\ r \in Call /\ r.tool = x.tool /\ r.objs = x.objs
        /\ r.obj = x.obj /\ r.sys = x.sys /\ r.got = x.got /\ r.own = x.own
        /\ r.at = IF x.tool = "unlock_object" THEN "unlock" ELSE "write"
    BY <1>1, <2>1 DEF Call, Steps
  <2>3. Shape(r, active) /\ OwnInv(r, ledger)
    BY <1>1, <1>5, <2>2 DEF Shape, OwnInv, Check
  <2>4. CASE h = 0
    BY <1>5, <2>4, SafeDone DEF Check, Idle
  <2>5. CASE h # 0
    BY <1>5, <2>2, <2>3, <2>5, SafeQuiet DEF Check, Idle
  <2> QED
    BY <2>4, <2>5
<1> QED
  BY <1>2, <1>3, <1>4, <1>5 DEF Resolves

LEMMA SafeTakes ==
  ASSUME SafeInv, NEW c \in Callers, Takes(c)
  PROVE  SafeInv'
<1> DEFINE x == call[c]
<1>1. x \in Call /\ Shape(x, active) /\ OwnInv(x, ledger)
  BY DEF SafeInv, TypeOK
<1>2. CASE LockGranted(c)
  <2> DEFINE h == Len(home) + 1
             r == [x EXCEPT !.at = "record", !.handle = h, !.got = h]
  <2>1. h \in Nat /\ h # 0 /\ home' \in Seq(Systems)
    BY <1>2 DEF LockGranted, SafeInv, TypeOK
  <2>2. /\ r \in Call /\ r.tool = x.tool /\ r.objs = x.objs
        /\ r.obj = x.obj /\ r.sys = x.sys /\ r.own = x.own
        /\ r.at = "record" /\ r.got # 0
    BY <1>1, <2>1 DEF Call, Steps
  <2>3. Shape(r, active) /\ OwnInv(r, ledger)
    BY <1>1, <1>2, <2>2 DEF Shape, OwnInv, LockGranted, Writers
  <2>4. TypeOK'
    BY <1>2, <2>1, <2>2 DEF LockGranted, SafeInv, TypeOK
  <2> QED
    BY <1>2, <2>2, <2>3, <2>4, SafeStep DEF LockGranted, Idle
<1>3. CASE LockRefused(c)
  BY <1>3, SafeDone DEF LockRefused, Idle
<1>6. CASE LockLost(c)
  <2>1. /\ Len(home) + 1 \in Nat /\ home' \in Seq(Systems)
        /\ Target(c) \in Keys
    BY <1>6, OwnKey DEF LockLost, SafeInv, TypeOK
  <2>2. /\ call' = [call EXCEPT ![c] = NoCall] /\ ~ Idle(c)
        /\ UNCHANGED <<active, ledger, tracked>>
        /\ enq' \in [Keys -> Nat] /\ unheard' \in SUBSET Keys
    BY <1>6, <2>1 DEF LockLost, Done, Idle, SafeInv, TypeOK
  <2>3. TypeOK'
    BY <2>1, <2>2, NoCallFacts DEF SafeInv, TypeOK
  <2> QED
    BY <2>2, <2>3, NoCallFacts, SafeStep
<1>4. CASE Record(c)
  <2> DEFINE r == [x EXCEPT !.at = "track", !.sys = active]
  <2>1. x.sys = active /\ Key(c) \in Keys /\ x.handle \in Nat
    BY <1>4, OwnKey DEF Record
  <2>2. /\ ledger' = [ledger EXCEPT ![Key(c)] = x.handle]
        /\ call' = [call EXCEPT ![c] = r]
        /\ UNCHANGED <<active, tracked, enq, home, unheard>>
    BY <1>4, <2>1 DEF Record, Key
  <2>3. /\ r \in Call /\ r.tool = x.tool /\ r.objs = x.objs
        /\ r.obj = x.obj /\ r.sys = active /\ r.own = x.own
        /\ r.at = "track" /\ r.got = x.got
    BY <1>1 DEF Call, Steps, SafeInv, TypeOK
  <2>4. Shape(r, active) /\ OwnInv(r, ledger')
    BY <1>1, <1>4, <2>3 DEF Shape, OwnInv, Record, Writers
  <2>5. TypeOK'
    BY <2>1, <2>2, <2>3 DEF SafeInv, TypeOK
  <2>6. ~ Idle(c) /\ active' = active
    BY <1>4 DEF Record, Idle
  <2>7. \A d \in Callers \ {c} : ~ Idle(d) => ledger'[Key(d)] = ledger[Key(d)]
    BY <2>1, <2>2, <2>6, OtherKeys DEF SafeInv, TypeOK
  <2> HIDE DEF r
  <2> QED
    BY <2>2, <2>3, <2>4, <2>5, <2>6, <2>7, SafeStep
<1>5. CASE Track(c)
  <2> DEFINE r == IF x.tool = "lock_object" THEN NoCall
                                            ELSE [x EXCEPT !.at = "write"]
  <2>1. Key(c) \in Keys /\ call' = [call EXCEPT ![c] = r]
    BY <1>5, OwnKey DEF Track, Done, Step
  <2>2. CASE x.tool = "lock_object"
    <3>1. TypeOK'
      BY <1>5, <2>1, <2>2, NoCallFacts DEF Track, SafeInv, TypeOK
    <3> QED
      BY <1>5, <2>1, <2>2, <3>1, NoCallFacts, SafeStep DEF Track, Idle
  <2>3. CASE x.tool # "lock_object"
    <3>1. /\ r \in Call /\ r.tool = x.tool /\ r.objs = x.objs
          /\ r.obj = x.obj /\ r.sys = x.sys /\ r.own = x.own
          /\ r.at = "write" /\ r.got = x.got
      BY <1>1, <2>3 DEF Call, Steps
    <3>2. Shape(r, active) /\ OwnInv(r, ledger)
      BY <1>1, <1>5, <2>3, <3>1 DEF Shape, OwnInv, Track
    <3>3. TypeOK'
      BY <1>5, <2>1, <3>1 DEF Track, SafeInv, TypeOK
    <3> QED
      BY <1>5, <2>1, <3>1, <3>2, <3>3, SafeStep DEF Track, Idle
  <2> QED
    BY <2>2, <2>3
<1> QED
  BY <1>2, <1>3, <1>4, <1>5, <1>6 DEF Takes

LEMMA SafeWrites ==
  ASSUME SafeInv, NEW c \in Callers, Writes(c)
  PROVE  SafeInv'
<1> DEFINE x == call[c]
           r == [x EXCEPT !.at = "unlock"]
<1>1. x \in Call /\ Shape(x, active) /\ OwnInv(x, ledger)
  BY DEF SafeInv, TypeOK
<1>2. CASE WriteAccepted(c)
  BY <1>2, SafeDone DEF WriteAccepted, Idle
<1>3. CASE WriteFails(c) /\ ~ x.own
  BY <1>3, SafeDone DEF WriteFails, Idle
<1>4. CASE WriteFails(c) /\ x.own
  <2>1. /\ r \in Call /\ r.tool = x.tool /\ r.objs = x.objs
        /\ r.obj = x.obj /\ r.sys = x.sys /\ r.at = "unlock"
    BY <1>1 DEF Call, Steps
  <2>2. Shape(r, active) /\ OwnInv(r, ledger)
    BY <1>1, <1>4, <2>1 DEF Shape, OwnInv, WriteFails
  <2> QED
    BY <1>4, <2>1, <2>2, SafeQuiet DEF WriteFails, Step, Idle
<1> QED
  BY <1>2, <1>3, <1>4 DEF Writes

\* activate_objects goes on to its next object, every other tool ends.
LEMMA NextObjectShape ==
  ASSUME SafeInv, NEW c \in Callers, NextObject(c),
         call[c].at \in {"check", "untrack"}
  PROVE  \E r \in Call :
           /\ call' = [call EXCEPT ![c] = r] /\ r.at \in {"idle", "check"}
           /\ r.at = "idle" \/ ( /\ r.tool = call[c].tool
                                 /\ r.objs \subseteq call[c].objs)
           /\ Shape(r, active) /\ \A led : OwnInv(r, led)
<1> DEFINE x == call[c]
           rest == x.objs \ {x.obj}
<1>1. /\ x \in Call /\ Shape(x, active) /\ OwnInv(x, ledger)
      /\ x.objs \subseteq Objects
  BY OwnKey DEF SafeInv, TypeOK
<1>2. CASE x.tool = "activate_objects" /\ rest # {}
  <2>1. PICK o \in rest : call' = [call EXCEPT ![c] =
                            [x EXCEPT !.at = "check", !.objs = rest, !.obj = o]]
    BY <1>2 DEF NextObject
  <2> DEFINE r == [x EXCEPT !.at = "check", !.objs = rest, !.obj = o]
  <2>2. /\ r \in Call /\ r.tool = x.tool /\ r.objs = rest /\ r.obj = o
        /\ r.sys = x.sys /\ r.at = "check" /\ r.got = x.got /\ r.own = x.own
    BY <1>1 DEF Call, Steps
  <2>3. Shape(r, active)
    BY <1>1, <1>2, <2>2 DEF Shape
  <2>4. \A led : OwnInv(r, led)
    BY <1>1, <1>2, <2>2 DEF OwnInv
  <2> QED
    BY <2>1, <2>2, <2>3, <2>4
<1>3. CASE ~ (x.tool = "activate_objects" /\ rest # {})
  BY <1>3, NoCallFacts DEF NextObject, Done
<1> QED
  BY <1>2, <1>3

LEMMA SafeGivesBack ==
  ASSUME SafeInv, NEW c \in Callers, GivesBack(c)
  PROVE  SafeInv'
<1> DEFINE x == call[c]
<1>1. x \in Call /\ Shape(x, active) /\ OwnInv(x, ledger)
  BY DEF SafeInv, TypeOK
<1>2. CASE CheckActivate(c) /\ ledger[Target(c)] = 0
  <2>1. PICK r \in Call :
          /\ call' = [call EXCEPT ![c] = r]
          /\ r.at = "idle" \/ (r.tool = x.tool /\ r.objs \subseteq x.objs)
          /\ Shape(r, active) /\ \A led : OwnInv(r, led)
    BY <1>2, NextObjectShape DEF CheckActivate
  <2> QED
    BY <1>2, <2>1, SafeQuiet DEF CheckActivate, Idle
<1>3. CASE CheckActivate(c) /\ ledger[Target(c)] # 0
  <2> DEFINE h == ledger[Target(c)]
             r == [x EXCEPT !.at = "unlock", !.sys = active, !.handle = h]
  <2>1. h \in Nat /\ active \in Systems
    BY <1>3, OwnKey DEF CheckActivate, SafeInv, TypeOK
  <2>2. /\ r \in Call /\ r.tool = x.tool /\ r.objs = x.objs
        /\ r.obj = x.obj /\ r.sys = active /\ r.at = "unlock"
        /\ r.got = x.got /\ r.own = x.own
    BY <1>1, <2>1 DEF Call, Steps
  <2>3. Shape(r, active) /\ OwnInv(r, ledger)
    BY <1>1, <1>3, <2>2 DEF Shape, OwnInv, CheckActivate
  <2> QED
    BY <1>3, <2>2, <2>3, SafeQuiet DEF CheckActivate, Idle
<1>4. CASE UnlockAnswered(c)
  <2> DEFINE r == [x EXCEPT !.at = "delete"]
  <2>1. /\ r \in Call /\ r.tool = x.tool /\ r.objs = x.objs
        /\ r.obj = x.obj /\ r.sys = x.sys /\ r.at = "delete"
        /\ r.got = x.got /\ r.own = x.own
    BY <1>1 DEF Call, Steps
  <2>2. Shape(r, active) /\ OwnInv(r, ledger)
    BY <1>1, <1>4, <2>1 DEF Shape, OwnInv, UnlockAnswered
  <2>3. Target(c) \in Keys
    BY <1>4, OwnKey DEF UnlockAnswered
  <2>4. /\ call' = [call EXCEPT ![c] = r]
        /\ UNCHANGED <<active, ledger, tracked, home>>
        /\ enq' \in [Keys -> Nat] /\ unheard' \in SUBSET Keys
    BY <1>4, <2>3 DEF UnlockAnswered, Step, SafeInv, TypeOK
  <2>5. TypeOK'
    BY <2>1, <2>4 DEF SafeInv, TypeOK
  <2>6. ~ Idle(c)
    BY <1>4 DEF UnlockAnswered, Idle
  <2> HIDE DEF r
  <2> QED
    BY <2>1, <2>2, <2>4, <2>5, <2>6, SafeStep
<1>5. CASE UnlockFails(c)
  <2> DEFINE r == [x EXCEPT !.at = "delete"]
  <2>1. /\ r \in Call /\ r.tool = x.tool /\ r.objs = x.objs
        /\ r.obj = x.obj /\ r.sys = x.sys /\ r.at = "delete"
        /\ r.got = x.got /\ r.own = x.own
    BY <1>1 DEF Call, Steps
  <2>2. Shape(r, active) /\ OwnInv(r, ledger)
    BY <1>1, <1>5, <2>1 DEF Shape, OwnInv, UnlockFails
  <2>3. CASE x.tool = "activate_objects"
    BY <1>5, <2>1, <2>2, <2>3, SafeQuiet DEF UnlockFails, Step, Idle
  <2>4. CASE x.tool # "activate_objects"
    BY <1>5, <2>4, SafeDone DEF UnlockFails, Idle
  <2> QED
    BY <2>3, <2>4
<1>8. CASE UnlockLost(c)
  <2> DEFINE r == IF x.tool = "activate_objects"
                    THEN [x EXCEPT !.at = "delete"] ELSE NoCall
  <2>1. /\ r \in Call
        /\ \/ r = NoCall
           \/ /\ r.tool = x.tool /\ r.objs = x.objs /\ r.obj = x.obj
              /\ r.sys = x.sys /\ r.at = "delete"
              /\ r.got = x.got /\ r.own = x.own
    BY <1>1, NoCallFacts DEF Call, Steps
  <2>2. Shape(r, active) /\ OwnInv(r, ledger)
    BY <1>1, <1>8, <2>1, NoCallFacts DEF Shape, OwnInv, UnlockLost
  <2>3. Target(c) \in Keys
    BY <1>8, OwnKey DEF UnlockLost
  <2>4. /\ call' = [call EXCEPT ![c] = r]
        /\ UNCHANGED <<active, ledger, tracked, home>>
        /\ enq' \in [Keys -> Nat] /\ unheard' \in SUBSET Keys
    BY <1>8, <2>3 DEF UnlockLost, Step, Done, SafeInv, TypeOK
  <2>5. TypeOK'
    BY <2>1, <2>4 DEF SafeInv, TypeOK
  <2>6. ~ Idle(c)
    BY <1>8 DEF UnlockLost, Idle
  <2> HIDE DEF r
  <2> QED
    BY <2>1, <2>2, <2>4, <2>5, <2>6, NoCallFacts, SafeStep
<1>6. CASE Delete(c)
  <2> DEFINE r == [x EXCEPT !.at = "untrack"]
  <2>1. /\ r \in Call /\ r.tool = x.tool /\ r.objs = x.objs
        /\ r.obj = x.obj /\ r.sys = x.sys /\ r.at = "untrack"
        /\ r.got = x.got /\ r.own = x.own
    BY <1>1 DEF Call, Steps
  <2>2. Shape(r, active) /\ OwnInv(r, ledger')
    BY <1>1, <1>6, <2>1 DEF Shape, OwnInv, Delete
  <2>3. Key(c) \in Keys /\ ~ Idle(c)
    BY <1>6, OwnKey DEF Delete, Idle
  <2>4. /\ call' = [call EXCEPT ![c] = r]
        /\ ledger' = [ledger EXCEPT ![Key(c)] = 0]
        /\ UNCHANGED <<active, tracked, enq, home, unheard>>
    BY <1>6 DEF Delete, Step
  <2>5. TypeOK'
    BY <2>1, <2>3, <2>4 DEF SafeInv, TypeOK
  <2>6. \A d \in Callers \ {c} : ~ Idle(d) => ledger'[Key(d)] = ledger[Key(d)]
    BY <2>3, <2>4, OtherKeys DEF SafeInv, TypeOK
  <2> HIDE DEF r
  <2> QED
    BY <2>1, <2>2, <2>3, <2>4, <2>5, <2>6, SafeStep
<1>7. CASE Untrack(c)
  <2>1. PICK r \in Call :
          /\ call' = [call EXCEPT ![c] = r]
          /\ r.at = "idle" \/ (r.tool = x.tool /\ r.objs \subseteq x.objs)
          /\ Shape(r, active) /\ \A led : OwnInv(r, led)
    BY <1>7, NextObjectShape DEF Untrack
  <2>2. TypeOK'
    BY <1>7, <2>1 DEF Untrack, SafeInv, TypeOK
  <2> QED
    BY <1>7, <2>1, <2>2, SafeStep DEF Untrack, Idle
<1> QED
  BY <1>2, <1>3, <1>4, <1>5, <1>6, <1>7, <1>8 DEF GivesBack

\* While force_unlock is in flight no other call is.
LEMMA ForceAlone ==
  ASSUME SafeInv, NEW c \in Callers, call[c].at \in {"logout", "forget"}
  PROVE  /\ call[c] \in Call /\ call[c].tool = "force_unlock"
         /\ call[c].sys = active
         /\ \A d \in Callers \ {c} : Idle(d)
BY DEF SafeInv, TypeOK, Shape, Apart, Idle

LEMMA SafeResets ==
  ASSUME SafeInv, NEW c \in Callers, Resets(c)
  PROVE  SafeInv'
<1> DEFINE x == call[c]
<1>1. /\ x \in Call /\ Shape(x, active) /\ OwnInv(x, ledger)
      /\ \A d \in Callers \ {c} : Idle(d)
  BY ForceAlone DEF SafeInv, TypeOK, Resets, Logout, LogoutFails, LogoutLost, Forget
<1>2. CASE Logout(c)
  <2> DEFINE r == [x EXCEPT !.at = "forget"]
  <2>1. /\ r \in Call /\ r.tool = x.tool /\ r.objs = x.objs
        /\ r.obj = x.obj /\ r.sys = x.sys /\ r.at = "forget"
        /\ r.got = x.got /\ r.own = x.own
    BY <1>1 DEF Call, Steps
  <2>2. Shape(r, active) /\ OwnInv(r, ledger)
    BY <1>1, <1>2, <2>1 DEF Shape, OwnInv, Logout
  <2>3. /\ call' = [call EXCEPT ![c] = r]
        /\ UNCHANGED <<active, ledger, tracked, home>>
        /\ enq' \in [Keys -> Nat] /\ unheard' \in SUBSET Keys
    BY <1>2 DEF Logout, Step, SafeInv, TypeOK
  <2>4. TypeOK'
    BY <2>1, <2>3 DEF SafeInv, TypeOK
  <2>5. ~ Idle(c)
    BY <1>2 DEF Logout, Idle
  <2> HIDE DEF r
  <2> QED
    BY <2>1, <2>2, <2>3, <2>4, <2>5, SafeStep
<1>3. CASE LogoutFails(c)
  BY <1>3, SafeDone DEF LogoutFails, Idle
<1>5. CASE LogoutLost(c)
  <2>1. /\ call' = [call EXCEPT ![c] = NoCall] /\ ~ Idle(c)
        /\ UNCHANGED <<active, ledger, tracked, home>>
        /\ enq' \in [Keys -> Nat] /\ unheard' \in SUBSET Keys
    BY <1>5 DEF LogoutLost, Done, Idle, SafeInv, TypeOK
  <2>2. TypeOK'
    BY <2>1, NoCallFacts DEF SafeInv, TypeOK
  <2> QED
    BY <2>1, <2>2, NoCallFacts, SafeStep
<1>4. CASE Forget(c)
  <2>1. /\ call' = [call EXCEPT ![c] = NoCall]
        /\ UNCHANGED <<active, enq, home, unheard>>
        /\ ledger' \in [Keys -> Nat] /\ tracked' \subseteq tracked
    BY <1>4 DEF Forget, Done, SafeInv, TypeOK
  <2>2. TypeOK'
    BY <2>1, NoCallFacts DEF SafeInv, TypeOK
  <2>3. ~ Idle(c)
    BY <1>4 DEF Forget, Idle
  <2> QED
    BY <1>1, <2>1, <2>2, <2>3, NoCallFacts, SafeStep
<1> QED
  BY <1>2, <1>3, <1>4, <1>5 DEF Resets

-----------------------------------------------------------------------------
(* Calls start on objects no other call works on.                          *)

\* The record of a handler that has just started.
LEMMA StartedCall ==
  ASSUME SafeInv, ~ Overlap, NEW c \in Callers, Starts(c)
  PROVE  \E r \in Call :
           /\ Idle(c) /\ call' = [call EXCEPT ![c] = r]
           /\ UNCHANGED <<active, ledger, tracked, enq, home, unheard>>
           /\ Shape(r, active) /\ ~ r.own /\ r.got = 0
           /\ r.at \in {"lock", "check", "flavor", "look", "track", "write",
                        "logout"}
           /\ r.at \in {"track", "write"} => r.given
           /\ r.at = "lock" => r.tool = "lock_object"
           /\ r.at = "look" => r.tool = "set_text_elements"
           /\ r.at = "check" /\ r.tool \in Writers
                => r.tool = "create_test_include"
           /\ \A d \in Callers \ {c} : Apart(r, call[d]) /\ Apart(call[d], r)
<1>0. active \in Systems /\ home \in Seq(Systems) /\ NoCall \in Call
  BY NoCallFacts DEF SafeInv, TypeOK
<1> DEFINE R(tool, at, objs, o, h) ==
             [NoCall EXCEPT !.tool = tool, !.at = at, !.sys = active,
                !.objs = objs, !.obj = o, !.handle = h, !.given = h # 0]
<1>2. ASSUME NEW objs, MayStart(objs), NEW d \in Callers
      PROVE  call[d].tool # "force_unlock" /\ call[d].objs \cap objs = {}
  BY <1>2 DEF MayStart, Works
<1>3. CASE Begin(c)
  <2>1. PICK tool \in DOMAIN FirstStep, o \in Objects :
          MayStart({o}) /\ Start(c, tool, FirstStep[tool], {o}, o, 0)
    BY <1>3 DEF Begin
  <2> DEFINE r == R(tool, FirstStep[tool], {o}, o, 0)
  <2>2. /\ tool \in AllTools \ {"force_unlock", "activate_objects"}
        /\ tool \in AllTools /\ FirstStep[tool] \in Steps
        /\ {o} \in SUBSET Objects /\ o \in Objects \cup {""} /\ 0 \in Nat
        /\ FirstStep[tool] \in {"lock", "check", "flavor", "look"}
        /\ FirstStep[tool] = "lock" => tool = "lock_object"
        /\ FirstStep[tool] \in {"flavor", "look"} => tool \in Writers
        /\ FirstStep[tool] = "check" => tool \in Writers \cup {"unlock_object"}
        /\ FirstStep[tool] = "look" => tool = "set_text_elements"
        /\ FirstStep[tool] = "check" /\ tool \in Writers
             => tool = "create_test_include"
    <3>1. tool \in {"lock_object", "unlock_object", "patch_source",
                    "set_include_source", "set_text_elements",
                    "create_test_include"}
      BY DEF FirstStep
    <3>2. /\ FirstStep["lock_object"] = "lock"
          /\ FirstStep["unlock_object"] = "check"
          /\ FirstStep["patch_source"] = "flavor"
          /\ FirstStep["set_include_source"] = "flavor"
          /\ FirstStep["set_text_elements"] = "look"
          /\ FirstStep["create_test_include"] = "check"
      BY DEF FirstStep
    <3> QED
      BY <3>1, <3>2 DEF AllTools, Writers, Steps
  <2>3. /\ r \in Call /\ r.tool = tool /\ r.at = FirstStep[tool]
        /\ r.sys = active /\ r.objs = {o} /\ r.obj = o /\ ~ r.own /\ r.got = 0
    <3>1. PICK at \in Steps : at = FirstStep[tool]
      BY <2>2
    <3> QED
      BY <1>0, <2>2, <3>1 DEF NoCall, Call
  <2>4. /\ Idle(c) /\ call' = [call EXCEPT ![c] = r] /\ tool \in Tools
        /\ UNCHANGED <<active, ledger, tracked, enq, home, unheard>>
    BY <2>1 DEF Start
  <2> HIDE DEF r
  <2>5. Shape(r, active)
    BY <2>2, <2>3, <2>4 DEF Shape
  <2>6. \A d \in Callers \ {c} : Apart(r, call[d]) /\ Apart(call[d], r)
    BY <1>2, <2>1, <2>2, <2>3 DEF Apart
  <2> QED
    BY <2>2, <2>3, <2>4, <2>5, <2>6
<1>4. CASE BeginGiven(c)
  <2>1. PICK tool \in Writers, o \in Objects, h \in DOMAIN home :
          /\ MayStart({o})
          /\ Start(c, tool, IF tool = "set_text_elements" THEN "track"
                                                          ELSE "write",
                   {o}, o, h)
    BY <1>4 DEF BeginGiven
  <2> DEFINE at == IF tool = "set_text_elements" THEN "track" ELSE "write"
             r == R(tool, at, {o}, o, h)
  <2>2. /\ h \in Nat /\ h # 0 /\ tool \in AllTools /\ at \in Steps
        /\ {o} \in SUBSET Objects /\ o \in Objects \cup {""}
    <3>1. DOMAIN home = 1..Len(home) /\ Len(home) \in Nat
      BY <1>0
    <3>2. h \in 1..Len(home)
      BY <2>1, <3>1
    <3>3. h \in Nat /\ h # 0
      BY <3>1, <3>2
    <3> QED
      BY <2>1, <3>3 DEF Steps, AllTools
  <2>3. /\ r \in Call /\ r.tool = tool /\ r.at = at /\ r.given
        /\ r.sys = active /\ r.objs = {o} /\ r.obj = o /\ ~ r.own /\ r.got = 0
    <3>1. PICK given \in BOOLEAN : given = (h # 0)
      OBVIOUS
    <3>2. PICK a \in Steps : a = at
      BY <2>2
    <3> HIDE DEF at
    <3> QED
      BY <1>0, <2>2, <3>1, <3>2 DEF NoCall, Call
  <2>4. /\ Idle(c) /\ call' = [call EXCEPT ![c] = r] /\ tool \in Tools
        /\ UNCHANGED <<active, ledger, tracked, enq, home, unheard>>
    BY <2>1 DEF Start
  <2> HIDE DEF r
  <2>5. Shape(r, active)
    BY <2>3, <2>4 DEF Shape, Writers
  <2>6. \A d \in Callers \ {c} : Apart(r, call[d]) /\ Apart(call[d], r)
    BY <1>2, <2>1, <2>3 DEF Apart, Writers
  <2>7. r.at \in {"track", "write"}
    BY <2>3
  <2> QED
    BY <2>3, <2>4, <2>5, <2>6, <2>7
<1>5. CASE BeginActivate(c)
  <2>1. PICK objs \in SUBSET Objects : \E o \in objs :
          MayStart(objs) /\ Start(c, "activate_objects", "check", objs, o, 0)
    BY <1>5 DEF BeginActivate
  <2>2. PICK o \in objs :
          MayStart(objs) /\ Start(c, "activate_objects", "check", objs, o, 0)
    BY <2>1
  <2> DEFINE r == R("activate_objects", "check", objs, o, 0)
  <2>0. /\ "activate_objects" \in AllTools /\ "check" \in Steps
        /\ objs \in SUBSET Objects /\ o \in Objects \cup {""} /\ 0 \in Nat
    BY <2>1, <2>2 DEF Steps, AllTools
  <2>3. /\ r \in Call /\ r.tool = "activate_objects" /\ r.at = "check"
        /\ r.sys = active /\ r.objs = objs /\ r.obj = o /\ ~ r.own /\ r.got = 0
    BY <1>0, <2>0 DEF NoCall, Call
  <2>4. /\ Idle(c) /\ call' = [call EXCEPT ![c] = r]
        /\ "activate_objects" \in Tools
        /\ UNCHANGED <<active, ledger, tracked, enq, home, unheard>>
    BY <2>2 DEF Start
  <2> HIDE DEF r
  <2>5. Shape(r, active)
    BY <2>3, <2>4 DEF Shape
  <2>6. \A d \in Callers \ {c} : Apart(r, call[d]) /\ Apart(call[d], r)
    BY <1>2, <2>2, <2>3 DEF Apart
  <2>7. r.tool \notin Writers
    BY <2>3 DEF Writers
  <2> QED
    BY <2>3, <2>4, <2>5, <2>6, <2>7
<1>6. CASE BeginForceUnlock(c)
  <2>1. AllIdle /\ Start(c, "force_unlock", "logout", {}, "", 0)
    BY <1>6 DEF BeginForceUnlock
  <2> DEFINE r == R("force_unlock", "logout", {}, "", 0)
  <2>0. /\ "force_unlock" \in AllTools /\ "logout" \in Steps
        /\ {} \in SUBSET Objects /\ "" \in Objects \cup {""} /\ 0 \in Nat
    BY DEF Steps, AllTools
  <2>2. /\ r \in Call /\ r.tool = "force_unlock" /\ r.at = "logout"
        /\ r.sys = active /\ ~ r.own /\ r.got = 0
    BY <1>0, <2>0 DEF NoCall, Call
  <2>3. /\ Idle(c) /\ call' = [call EXCEPT ![c] = r]
        /\ "force_unlock" \in Tools
        /\ UNCHANGED <<active, ledger, tracked, enq, home, unheard>>
    BY <2>1 DEF Start
  <2> HIDE DEF r
  <2>4. Shape(r, active)
    BY <2>2, <2>3 DEF Shape
  <2>5. \A d \in Callers \ {c} : Apart(r, call[d]) /\ Apart(call[d], r)
    BY <2>1 DEF Apart, AllIdle, Idle
  <2> QED
    BY <2>2, <2>3, <2>4, <2>5
<1> QED
  BY <1>3, <1>4, <1>5, <1>6 DEF Starts

LEMMA SafeStarts ==
  ASSUME SafeInv, ~ Overlap, NEW c \in Callers, Starts(c)
  PROVE  SafeInv'
<1>1. PICK r \in Call :
        /\ Idle(c) /\ call' = [call EXCEPT ![c] = r]
        /\ UNCHANGED <<active, ledger, tracked, enq, home, unheard>>
        /\ Shape(r, active) /\ ~ r.own /\ r.got = 0
        /\ r.at \in {"lock", "check", "flavor", "look", "track", "write",
                     "logout"}
        /\ r.at = "lock" => r.tool = "lock_object"
        /\ \A d \in Callers \ {c} : Apart(r, call[d]) /\ Apart(call[d], r)
  BY StartedCall
<1>2. OwnInv(r, ledger)
  BY <1>1 DEF OwnInv, Writers
<1>3. TypeOK'
  BY <1>1 DEF SafeInv, TypeOK
<1>4. call'[c] = r /\ \A d \in Callers \ {c} : call'[d] = call[d]
  BY <1>1 DEF SafeInv, TypeOK
<1>5. \A a, b \in Callers : a # b => Apart(call'[a], call'[b])
  BY <1>1, <1>4 DEF SafeInv
<1>6. \A d \in Callers : Shape(call'[d], active) /\ OwnInv(call'[d], ledger)
  BY <1>1, <1>2, <1>4 DEF SafeInv
<1> QED
  BY <1>1, <1>3, <1>5, <1>6 DEF SafeInv

\* select_system runs alone, and so does an expiry.
LEMMA SafeOthers ==
  ASSUME SafeInv, ~ Overlap, SelectSystem \/ \E s \in Systems : Expire(s)
  PROVE  SafeInv'
<1>1. TypeOK' /\ UNCHANGED <<call, ledger>> /\ AllIdle
  <2>1. CASE SelectSystem
    BY <2>1 DEF SelectSystem, SafeInv, TypeOK
  <2>2. ASSUME NEW s \in Systems, Expire(s)
        PROVE  TypeOK' /\ UNCHANGED <<call, ledger>> /\ AllIdle
    <3>1. AllIdle /\ UNCHANGED <<active, ledger, tracked, call, home, unheard>>
      BY <2>2 DEF Expire
    <3>2. enq' \in [Keys -> Nat]
      BY <2>2 DEF Expire, SafeInv, TypeOK
    <3> QED
      BY <3>1, <3>2 DEF SafeInv, TypeOK
  <2> QED
    BY <2>1, <2>2
<1>2. \A c \in Callers : Shape(call[c], active')
  BY <1>1 DEF AllIdle, Idle, SafeInv, Shape
<1> QED
  BY <1>1, <1>2 DEF SafeInv

LEMMA SafeInvariance == ASSUME ~ Overlap PROVE Spec => []SafeInv
<1>1. Init => SafeInv
  <2> SUFFICES ASSUME Init PROVE SafeInv
    OBVIOUS
  <2>1. call = [c \in Callers |-> NoCall]
    BY DEF Init
  <2>2. TypeOK
    BY <2>1, NoCallFacts DEF Init, TypeOK
  <2>3. \A c \in Callers : call[c] = NoCall
    BY <2>1
  <2> QED
    BY <2>2, <2>3, NoCallFacts DEF SafeInv, Apart
<1>2. SafeInv /\ [Next]_vars => SafeInv'
  <2> SUFFICES ASSUME SafeInv, [Next]_vars PROVE SafeInv'
    OBVIOUS
  <2>1. CASE UNCHANGED vars
    BY <2>1 DEF vars, SafeInv, TypeOK
  <2>2. CASE \E c \in Callers : \/ Starts(c) \/ Resolves(c) \/ Takes(c)
                                \/ Writes(c) \/ GivesBack(c) \/ Resets(c)
    BY <2>2, SafeStarts, SafeResolves, SafeTakes, SafeWrites, SafeGivesBack,
       SafeResets
  <2>3. CASE SelectSystem \/ \E s \in Systems : Expire(s)
    BY <2>3, SafeOthers
  <2> QED
    BY <2>1, <2>2, <2>3 DEF Next
<1> QED
  BY <1>1, <1>2, PTL DEF Spec

(* The variables have their types, when calls on an object do not overlap. *)
THEOREM LockTypes == ASSUME ~ Overlap PROVE Spec => []TypeOK
BY SafeInvariance, PTL DEF SafeInv

(* A failed write releases the lock it took itself and no other, for any   *)
(* number of callers, systems of either flavor, and every fault, as long   *)
(* as calls on one object do not overlap (with overlap it is false on      *)
(* S/4).                                                                   *)
THEOREM RollbackIsExact == ASSUME ~ Overlap PROVE Spec => []RollsBackItsOwnLock
<1>1. SafeInv => RollsBackItsOwnLock
  BY DEF SafeInv, Shape, OwnInv, RollsBackItsOwnLock
<1> QED
  BY <1>1, SafeInvariance, PTL

-----------------------------------------------------------------------------
(* The ledger.                                                             *)

\* Between two accesses of a call no other call unsettles its key.
LEMMA OwnKeySettled ==
  ASSUME LedgerInv, NEW c \in Callers,
         call[c].at \notin {"idle", "logout", "forget", "record", "delete"}
  PROVE  /\ Agree(ledger[Key(c)], enq[Key(c)], Key(c) \in unheard)
         /\ ledger[Key(c)] \in Nat
         /\ call[c].at # "track" =>
              (ledger[Key(c)] # 0 => Key(c) \in tracked)
<1> DEFINE k == Key(c)
<1>1. SafeInv /\ k \in Keys /\ ~ Idle(c)
  BY OwnKey DEF LedgerInv, Idle
<1>2. ~ Parts(call[c], k)
  BY DEF Parts
<1>3. ASSUME NEW d \in Callers, d # c, ~ Idle(d)
      PROVE  ~ Parts(call[d], k) /\ Key(d) # k
  BY <1>1, <1>3, OtherKeys DEF Parts, Key
<1>4. \A d \in Callers : Idle(d) => ~ Parts(call[d], k) /\ call[d].at # "track"
  BY DEF Idle, Parts
<1>5. Matches(k) /\ Traced(k)
  BY <1>1 DEF LedgerInv
<1>6. Agree(ledger[k], enq[k], k \in unheard)
  BY <1>2, <1>3, <1>4, <1>5 DEF Matches
<1>7. call[c].at # "track" => (ledger[k] # 0 => k \in tracked)
  BY <1>3, <1>4, <1>5 DEF Traced
<1> QED
  BY <1>1, <1>6, <1>7 DEF SafeInv, TypeOK

\* A step of a call that works on one object.
LEMMA LedgerStep ==
  ASSUME LedgerInv, SafeInv', NEW c \in Callers,
         call[c].at \notin {"idle", "logout", "forget"}, NEW r \in Call,
         call' = [call EXCEPT ![c] = r],
         \A k \in Keys : k # Key(c) =>
           /\ ledger'[k] = ledger[k] /\ enq'[k] = enq[k]
           /\ k \in tracked => k \in tracked'
           /\ k \in unheard <=> k \in unheard',
         KeyInv(r, ledger', enq', unheard'),
         \/ Agree(ledger'[Key(c)], enq'[Key(c)], Key(c) \in unheard')
         \/ Parts(r, Key(c)),
         ledger'[Key(c)] # 0 =>
           \/ Key(c) \in tracked'
           \/ r.at = "track" /\ <<r.sys, r.obj>> = Key(c)
  PROVE  LedgerInv'
<1>1. call'[c] = r /\ \A d \in Callers \ {c} : call'[d] = call[d]
  BY DEF LedgerInv, SafeInv, TypeOK
<1>2. SafeInv /\ ~ Idle(c) /\ Key(c) \in Keys
  BY OwnKey DEF LedgerInv, Idle
<1>3. ASSUME NEW d \in Callers
      PROVE  KeyInv(call'[d], ledger', enq', unheard')
  <2>1. CASE d = c
    BY <2>1, <1>1
  <2>2. CASE d # c /\ Idle(d)
    BY <2>2, <1>1 DEF KeyInv, Idle
  <2>3. CASE d # c /\ ~ Idle(d)
    <3>1. /\ call'[d] = call[d] /\ KeyInv(call[d], ledger, enq, unheard)
          /\ call[d].at # "forget" /\ Key(d) \in Keys /\ Key(d) # Key(c)
      BY <2>3, <1>1, <1>2, OtherKeys DEF LedgerInv
    <3>2. /\ ledger'[Key(d)] = ledger[Key(d)] /\ enq'[Key(d)] = enq[Key(d)]
          /\ Key(d) \in unheard <=> Key(d) \in unheard'
      BY <3>1
    <3> QED
      BY <3>1, <3>2 DEF KeyInv, Key, Agree
  <2> QED
    BY <2>1, <2>2, <2>3
<1>4. ASSUME NEW k \in Keys, k # Key(c)
      PROVE  /\ \/ Agree(ledger'[k], enq'[k], k \in unheard')
                \/ \E d \in Callers : Parts(call'[d], k)
             /\ ledger'[k] # 0 => k \in tracked' \/
                  \E d \in Callers : /\ call'[d].at = "track"
                                     /\ <<call'[d].sys, call'[d].obj>> = k
  <2>1. Matches(k) /\ Traced(k)
    BY DEF LedgerInv
  <2>2. ~ Parts(call[c], k)
    BY <1>4 DEF Parts, Key
  <2>3. \/ Agree(ledger'[k], enq'[k], k \in unheard')
        \/ \E d \in Callers : Parts(call'[d], k)
    BY <2>1, <2>2, <1>1, <1>4 DEF Matches, Agree
  <2>4. ledger[k] # 0 => k \in tracked \/
          \E d \in Callers \ {c} : /\ call[d].at = "track"
                                   /\ <<call[d].sys, call[d].obj>> = k
    BY <2>1, <1>4 DEF Traced, Key
  <2> QED
    BY <2>3, <2>4, <1>1, <1>4
<1>5. \A k \in Keys : Matches(k)' /\ Traced(k)'
  <2> TAKE k \in Keys
  <2>1. CASE k = Key(c)
    BY <2>1, <1>1 DEF Matches, Traced, Key
  <2>2. CASE k # Key(c)
    BY <2>2, <1>4 DEF Matches, Traced, Key
  <2> QED
    BY <2>1, <2>2
<1> QED
  BY <1>3, <1>5 DEF LedgerInv

\* A step that leaves the tables alone.
LEMMA LedgerQuiet ==
  ASSUME LedgerInv, SafeInv', NEW c \in Callers,
         call[c].at \notin {"idle", "logout", "forget", "record", "delete",
                            "track"},
         NEW r \in Call, call' = [call EXCEPT ![c] = r],
         UNCHANGED <<ledger, tracked, enq, unheard>>,
         KeyInv(r, ledger, enq, unheard)
  PROVE  LedgerInv'
BY OwnKeySettled, LedgerStep

LEMMA LedgerDone ==
  ASSUME LedgerInv, SafeInv', NEW c \in Callers,
         call[c].at \notin {"idle", "logout", "forget", "record", "delete",
                            "track"},
         Done(c), UNCHANGED <<ledger, tracked, enq, unheard>>
  PROVE  LedgerInv'
BY LedgerQuiet, NoCallFacts DEF Done

LEMMA LedgerResolves ==
  ASSUME LedgerInv, NEW c \in Callers, Resolves(c)
  PROVE  LedgerInv'
<1> DEFINE x == call[c]
<1>1. x \in Call /\ OwnInv(x, ledger) /\ SafeInv'
  BY SafeResolves DEF LedgerInv, SafeInv, TypeOK
<1>2. CASE Probe(c)
  <2>1. PICK known \in BOOLEAN :
          call' = [call EXCEPT ![c] =
            IF known /\ active \in ECC
              THEN [x EXCEPT !.at = "lock", !.own = TRUE]
              ELSE [x EXCEPT !.at = IF x.tool = "patch_source" THEN "look"
                                                               ELSE "check"]]
    BY <1>2 DEF Probe
  <2> DEFINE r == IF known /\ active \in ECC
              THEN [x EXCEPT !.at = "lock", !.own = TRUE]
              ELSE [x EXCEPT !.at = IF x.tool = "patch_source" THEN "look"
                                                               ELSE "check"]
  <2>2. r \in Call /\ r.at \in {"lock", "look", "check"}
    BY <1>1 DEF Call, Steps
  <2>3. KeyInv(r, ledger, enq, unheard)
    BY <2>2 DEF KeyInv
  <2>4. x.at = "flavor" /\ UNCHANGED <<ledger, tracked, enq, unheard>>
    BY <1>2 DEF Probe
  <2> HIDE DEF r
  <2> QED
    BY <1>1, <2>1, <2>2, <2>3, <2>4, LedgerQuiet DEF r
<1>3. CASE Look(c)
  <2> DEFINE r == [x EXCEPT !.at = "resolve", !.own = ledger[Key(c)] = 0]
  <2>1. r \in Call /\ r.at = "resolve"
    BY <1>1 DEF Call, Steps
  <2>2. KeyInv(r, ledger, enq, unheard)
    BY <2>1 DEF KeyInv
  <2>3. /\ x.at = "look" /\ UNCHANGED <<ledger, tracked, enq, unheard>>
        /\ call' = [call EXCEPT ![c] = r]
    BY <1>3 DEF Look
  <2> HIDE DEF r
  <2> QED
    BY <1>1, <2>1, <2>2, <2>3, LedgerQuiet
<1>4. CASE Resolve(c)
  <2> DEFINE h == ledger[Key(c)]
             r == [x EXCEPT !.at = IF h = 0 THEN "lock" ELSE "track",
                            !.handle = h]
  <2>1. h \in Nat /\ Agree(h, enq[Key(c)], Key(c) \in unheard)
    BY <1>4, OwnKeySettled DEF Resolve
  <2>2. /\ r \in Call /\ r.at = IF h = 0 THEN "lock" ELSE "track"
        /\ r.sys = x.sys /\ r.obj = x.obj /\ r.handle = h /\ r.own = x.own
    BY <1>1, <2>1 DEF Call, Steps
  <2>5. x.at = "resolve" /\ (x.own <=> h = 0)
    BY <1>1, <1>4 DEF Resolve, OwnInv, Key
  <2> HIDE DEF r
  <2>3. KeyInv(r, ledger, enq, unheard)
    BY <2>1, <2>2, <2>5 DEF KeyInv, Key
  <2>4. /\ x.at = "resolve" /\ UNCHANGED <<ledger, tracked, enq, unheard>>
        /\ call' = [call EXCEPT ![c] = r]
    BY <1>4 DEF Resolve, r
  <2> QED
    BY <1>1, <2>2, <2>3, <2>4, LedgerQuiet
<1>5. CASE Check(c) /\ ledger[Key(c)] = 0
  BY <1>1, <1>5, LedgerDone DEF Check
<1>6. CASE Check(c) /\ ledger[Key(c)] # 0
  <2> DEFINE h == ledger[Key(c)]
             r == [x EXCEPT !.at = IF x.tool = "unlock_object" THEN "unlock"
                                                              ELSE "write",
                            !.handle = h]
  <2>1. h \in Nat /\ Agree(h, enq[Key(c)], Key(c) \in unheard)
    BY <1>6, OwnKeySettled DEF Check
  <2>2. /\ r \in Call /\ r.at \in {"unlock", "write"}
        /\ r.sys = x.sys /\ r.obj = x.obj /\ r.handle = h /\ ~ r.own
    BY <1>1, <1>6, <2>1 DEF Call, Steps, OwnInv, Check
  <2>3. KeyInv(r, ledger, enq, unheard)
    BY <2>1, <2>2 DEF KeyInv, Key
  <2>4. /\ x.at = "check" /\ UNCHANGED <<ledger, tracked, enq, unheard>>
        /\ call' = [call EXCEPT ![c] = r]
    BY <1>6 DEF Check
  <2> HIDE DEF r
  <2> QED
    BY <1>1, <2>2, <2>3, <2>4, LedgerQuiet
<1> QED
  BY <1>2, <1>3, <1>4, <1>5, <1>6 DEF Resolves

LEMMA LedgerTakes ==
  ASSUME LedgerInv, NEW c \in Callers, Takes(c)
  PROVE  LedgerInv'
<1> DEFINE x == call[c]
           k == Key(c)
<1>1. /\ x \in Call /\ SafeInv' /\ SafeInv /\ KeyInv(x, ledger, enq, unheard)
      /\ ledger \in [Keys -> Nat] /\ enq \in [Keys -> Nat]
  BY SafeTakes DEF LedgerInv, SafeInv, TypeOK
<1>2. /\ k \in Keys /\ k = Target(c) /\ x.sys = active
      /\ x.at \in {"lock", "record", "track"} /\ x.handle \in Nat
  BY <1>1, OwnKey DEF Takes, LockGranted, LockLost, LockRefused, Record, Track
<1>3. CASE LockGranted(c)
  <2> DEFINE h == Len(home) + 1
             r == [x EXCEPT !.at = "record", !.handle = h, !.got = h]
  <2>1. h \in Nat /\ h # 0
    BY <1>1 DEF SafeInv, TypeOK
  <2>2. /\ r \in Call /\ r.at = "record" /\ r.handle = h
        /\ r.sys = x.sys /\ r.obj = x.obj
    BY <1>1, <2>1 DEF Call, Steps
  <2>3. /\ x.at = "lock" /\ UNCHANGED <<ledger, tracked>>
        /\ call' = [call EXCEPT ![c] = r]
        /\ enq' = [enq EXCEPT ![k] = h] /\ unheard' = unheard \ {k}
    BY <1>2, <1>3 DEF LockGranted
  <2> HIDE DEF r, h
  <2>4. KeyInv(r, ledger', enq', unheard') /\ Parts(r, k)
    BY <1>1, <1>2, <2>1, <2>2, <2>3 DEF KeyInv, Parts, Key
  <2>5. ledger[k] # 0 => k \in tracked
    BY <2>3, OwnKeySettled
  <2> QED
    BY <1>1, <2>2, <2>3, <2>4, <2>5, LedgerStep
<1>4. CASE LockRefused(c)
  BY <1>1, <1>4, LedgerDone DEF LockRefused
<1>7. CASE LockLost(c)
  <2>1. /\ x.at = "lock" /\ UNCHANGED <<ledger, tracked>>
        /\ call' = [call EXCEPT ![c] = NoCall]
        /\ enq' = [enq EXCEPT ![k] = Len(home) + 1]
        /\ unheard' = unheard \cup {k}
    BY <1>2, <1>7 DEF LockLost, Done
  <2>2. ledger[k] # 0 => k \in tracked
    BY <2>1, OwnKeySettled
  <2>3. Agree(ledger'[k], enq'[k], k \in unheard')
    BY <2>1 DEF Agree
  <2> QED
    BY <1>1, <2>1, <2>2, <2>3, NoCallFacts, LedgerStep
<1>5. CASE Record(c)
  <2> DEFINE r == [x EXCEPT !.at = "track", !.sys = active]
  <2>1. /\ r \in Call /\ r.at = "track" /\ r.handle = x.handle
        /\ r.sys = x.sys /\ r.obj = x.obj
    BY <1>1, <1>2 DEF Call, Steps, SafeInv, TypeOK
  <2>2. /\ x.at = "record" /\ UNCHANGED <<enq, tracked, unheard>>
        /\ call' = [call EXCEPT ![c] = r]
        /\ ledger' = [ledger EXCEPT ![k] = x.handle]
    BY <1>2, <1>5 DEF Record, Key
  <2> HIDE DEF r
  <2>3. x.handle = enq[k] /\ <<r.sys, r.obj>> = k
    BY <1>1, <2>1, <2>2 DEF KeyInv, Key
  <2>4. KeyInv(r, ledger', enq', unheard')
    BY <1>1, <1>2, <2>1, <2>2, <2>3 DEF KeyInv, Agree
  <2> QED
    BY <1>1, <1>2, <2>1, <2>2, <2>3, <2>4, LedgerStep DEF Agree
<1>6. CASE Track(c)
  <2> DEFINE r == IF x.tool = "lock_object" THEN NoCall
                                            ELSE [x EXCEPT !.at = "write"]
  <2>1. /\ r \in Call /\ r.at \in {"idle", "write"}
        /\ r.at = "write" =>
             /\ r.handle = x.handle /\ r.own = x.own
             /\ r.given = x.given /\ r.sys = x.sys /\ r.obj = x.obj
    BY <1>1, NoCallFacts DEF Call, Steps
  <2>2. /\ x.at = "track" /\ UNCHANGED <<enq, ledger, unheard>>
        /\ call' = [call EXCEPT ![c] = r]
        /\ tracked' = tracked \cup {k}
    BY <1>6 DEF Track, Step, Done
  <2> HIDE DEF r
  <2>3. /\ Agree(ledger[k], enq[k], k \in unheard) /\ (x.own => x.handle = enq[k])
        /\ ~ x.given => Agree(x.handle, enq[k], k \in unheard)
    BY <1>1, <2>2 DEF KeyInv, Key
  <2>4. KeyInv(r, ledger', enq', unheard')
    BY <2>1, <2>2, <2>3 DEF KeyInv, Key
  <2> QED
    BY <1>1, <2>1, <2>2, <2>3, <2>4, LedgerStep
<1> QED
  BY <1>3, <1>4, <1>5, <1>6, <1>7 DEF Takes

LEMMA LedgerWrites ==
  ASSUME LedgerInv, NEW c \in Callers, Writes(c)
  PROVE  LedgerInv'
<1> DEFINE x == call[c]
           r == [x EXCEPT !.at = "unlock"]
<1>1. /\ x \in Call /\ SafeInv' /\ KeyInv(x, ledger, enq, unheard) /\ x.at = "write"
      /\ UNCHANGED <<ledger, tracked, enq, unheard>>
  BY SafeWrites DEF LedgerInv, SafeInv, TypeOK, Writes, WriteAccepted,
                    WriteFails
<1>2. CASE Done(c)
  BY <1>1, <1>2, LedgerDone
<1>3. CASE WriteFails(c) /\ x.own
  <2>1. /\ r \in Call /\ r.at = "unlock" /\ r.handle = x.handle
        /\ r.sys = x.sys /\ r.obj = x.obj
    BY <1>1 DEF Call, Steps
  <2>2. call' = [call EXCEPT ![c] = r]
    BY <1>3 DEF WriteFails, Step
  <2> HIDE DEF r
  <2>3. KeyInv(r, ledger, enq, unheard)
    BY <1>1, <1>3, <2>1 DEF KeyInv, Agree
  <2> QED
    BY <1>1, <2>1, <2>2, <2>3, LedgerQuiet
<1> QED
  BY <1>2, <1>3 DEF Writes, WriteAccepted, WriteFails

LEMMA LedgerGivesBack ==
  ASSUME LedgerInv, Reliable, NEW c \in Callers, GivesBack(c)
  PROVE  LedgerInv'
<1> DEFINE x == call[c]
           k == Key(c)
<1>1. /\ x \in Call /\ SafeInv' /\ SafeInv /\ KeyInv(x, ledger, enq, unheard)
      /\ ledger \in [Keys -> Nat] /\ enq \in [Keys -> Nat]
  BY SafeGivesBack DEF LedgerInv, SafeInv, TypeOK
<1>2. /\ k \in Keys /\ k = Target(c) /\ x.sys = active
      /\ x.at \in {"check", "unlock", "delete", "untrack"}
  BY <1>1, OwnKey DEF GivesBack, CheckActivate, UnlockAnswered, UnlockFails, UnlockLost,
                      Delete, Untrack
<1>3. CASE CheckActivate(c) /\ ledger[Target(c)] = 0
  <2>1. PICK r \in Call :
          call' = [call EXCEPT ![c] = r] /\ r.at \in {"idle", "check"}
    BY <1>1, <1>3, NextObjectShape DEF CheckActivate
  <2>2. x.at = "check" /\ UNCHANGED <<ledger, tracked, enq, unheard>>
    BY <1>3 DEF CheckActivate
  <2>3. KeyInv(r, ledger, enq, unheard)
    BY <2>1 DEF KeyInv
  <2> QED
    BY <1>1, <2>1, <2>2, <2>3, LedgerQuiet
<1>4. CASE CheckActivate(c) /\ ledger[Target(c)] # 0
  <2> DEFINE r == [x EXCEPT !.at = "unlock", !.sys = active,
                            !.handle = ledger[k]]
  <2>1. /\ x.at = "check" /\ UNCHANGED <<ledger, tracked, enq, unheard>>
        /\ call' = [call EXCEPT ![c] = r]
    BY <1>2, <1>4 DEF CheckActivate
  <2>2. ledger[k] \in Nat /\ Agree(ledger[k], enq[k], k \in unheard)
    BY <2>1, OwnKeySettled
  <2>3. /\ r \in Call /\ r.at = "unlock" /\ r.handle = ledger[k]
        /\ r.sys = x.sys /\ r.obj = x.obj
    BY <1>1, <1>2, <2>2 DEF Call, Steps, SafeInv, TypeOK
  <2> HIDE DEF r
  <2>4. KeyInv(r, ledger, enq, unheard)
    BY <2>2, <2>3 DEF KeyInv, Key
  <2> QED
    BY <1>1, <2>1, <2>3, <2>4, LedgerQuiet
<1>5. CASE UnlockAnswered(c)
  <2> DEFINE r == [x EXCEPT !.at = "delete"]
  <2>1. /\ r \in Call /\ r.at = "delete" /\ r.sys = x.sys /\ r.obj = x.obj
    BY <1>1 DEF Call, Steps
  <2>2. /\ x.at = "unlock" /\ UNCHANGED <<ledger, tracked>>
        /\ call' = [call EXCEPT ![c] = r]
        /\ enq' = [enq EXCEPT ![k] = IF @ = x.handle THEN 0 ELSE @]
        /\ unheard' = IF enq'[k] = 0 THEN unheard \ {k} ELSE unheard
    BY <1>2, <1>5 DEF UnlockAnswered, Step
  <2> HIDE DEF r
  <2>3. Agree(x.handle, enq[k], k \in unheard)
    BY <1>1, <2>2 DEF KeyInv, Key
  <2>4. /\ enq'[k] = 0 \/ k \in unheard'
        /\ \A j \in Keys : j # k => /\ enq'[j] = enq[j]
                                    /\ j \in unheard <=> j \in unheard'
    BY <1>1, <1>2, <2>2, <2>3 DEF Agree
  <2>5. KeyInv(r, ledger', enq', unheard') /\ Parts(r, k)
    BY <2>1, <2>4 DEF KeyInv, Parts, Key
  <2>6. ledger[k] # 0 => k \in tracked
    BY <2>2, OwnKeySettled
  <2> QED
    BY <1>1, <2>1, <2>2, <2>4, <2>5, <2>6, LedgerStep
<1>6. CASE UnlockFails(c)
  <2>1. x.tool # "activate_objects"
    BY <1>1, <1>6 DEF UnlockFails, Reliable, SafeInv, Shape
  <2> QED
    BY <1>1, <1>6, <2>1, LedgerDone DEF UnlockFails
<1>9. CASE UnlockLost(c)
  <2>1. x.tool # "activate_objects"
    BY <1>1, <1>9 DEF UnlockLost, Reliable, SafeInv, Shape
  <2>2. /\ x.at = "unlock" /\ UNCHANGED <<ledger, tracked>>
        /\ call' = [call EXCEPT ![c] = NoCall]
        /\ enq' = [enq EXCEPT ![k] = 0] /\ unheard' = unheard \cup {k}
    BY <1>2, <1>9, <2>1 DEF UnlockLost, Done
  <2>3. ledger[k] # 0 => k \in tracked
    BY <2>2, OwnKeySettled
  <2>4. Agree(ledger'[k], enq'[k], k \in unheard')
    BY <2>2 DEF Agree
  <2> QED
    BY <1>1, <2>2, <2>3, <2>4, NoCallFacts, LedgerStep
<1>7. CASE Delete(c)
  <2> DEFINE r == [x EXCEPT !.at = "untrack"]
  <2>1. /\ r \in Call /\ r.at = "untrack" /\ r.sys = x.sys /\ r.obj = x.obj
    BY <1>1 DEF Call, Steps
  <2>2. /\ x.at = "delete" /\ UNCHANGED <<enq, tracked, unheard>>
        /\ call' = [call EXCEPT ![c] = r]
        /\ ledger' = [ledger EXCEPT ![k] = 0]
    BY <1>7 DEF Delete, Step
  <2> HIDE DEF r
  <2>3. enq[k] = 0 \/ k \in unheard
    BY <1>1, <2>2 DEF KeyInv, Key
  <2>4. ledger'[k] = 0 /\ \A j \in Keys : j # k => ledger'[j] = ledger[j]
    BY <1>1, <1>2, <2>2
  <2>5. KeyInv(r, ledger', enq', unheard')
    BY <2>1, <2>4 DEF KeyInv, Key
  <2> QED
    BY <1>1, <2>1, <2>2, <2>3, <2>4, <2>5, LedgerStep DEF Agree
<1>8. CASE Untrack(c)
  <2>1. PICK r \in Call :
          call' = [call EXCEPT ![c] = r] /\ r.at \in {"idle", "check"}
    BY <1>1, <1>8, NextObjectShape DEF Untrack
  <2>2. /\ x.at = "untrack" /\ UNCHANGED <<ledger, enq, unheard>>
        /\ tracked' = tracked \ {k}
    BY <1>8 DEF Untrack
  <2>3. ledger[k] = 0 /\ Agree(ledger[k], enq[k], k \in unheard)
    BY <1>1, <2>2, OwnKeySettled DEF KeyInv, Key
  <2>4. KeyInv(r, ledger', enq', unheard')
    BY <2>1 DEF KeyInv
  <2> QED
    BY <1>1, <2>1, <2>2, <2>3, <2>4, LedgerStep DEF Agree
<1> QED
  BY <1>3, <1>4, <1>5, <1>6, <1>7, <1>8, <1>9 DEF GivesBack

\* force_unlock: SAP lets go of every lock of the system, then so does the
\* ledger.
LEMMA LedgerResets ==
  ASSUME LedgerInv, NEW c \in Callers, Resets(c)
  PROVE  LedgerInv'
<1> DEFINE x == call[c]
<1>1. /\ x \in Call /\ SafeInv' /\ KeyInv(x, ledger, enq, unheard) /\ x.sys = active
      /\ x.at \in {"logout", "forget"} /\ active \in Systems
      /\ \A d \in Callers \ {c} : Idle(d)
      /\ ledger \in [Keys -> Nat] /\ enq \in [Keys -> Nat]
      /\ call \in [Callers -> Call]
  BY SafeResets, ForceAlone
     DEF LedgerInv, SafeInv, TypeOK, Resets, Logout, LogoutFails, LogoutLost, Forget
<1>2. ASSUME NEW d \in Callers, d # c
      PROVE  /\ call[d].at = "idle" /\ ~ Parts(call[d], 0)
             /\ \A led, en, un : KeyInv(call[d], led, en, un)
             /\ \A k : ~ Parts(call[d], k)
  BY <1>1, <1>2 DEF Idle, KeyInv, Parts
<1>3. ASSUME NEW k \in Keys
      PROVE  /\ Agree(ledger[k], enq[k], k \in unheard) \/ Parts(x, k)
             /\ ledger[k] # 0 => k \in tracked
  BY <1>1, <1>2 DEF LedgerInv, Matches, Traced
<1>4. ASSUME NEW r \in Call, call' = [call EXCEPT ![c] = r],
             KeyInv(r, ledger', enq', unheard'),
             \A k \in Keys : /\ Agree(ledger'[k], enq'[k], k \in unheard') \/ Parts(r, k)
                             /\ ledger'[k] # 0 => k \in tracked'
      PROVE  LedgerInv'
  <2>1. call'[c] = r /\ \A d \in Callers \ {c} : call'[d] = call[d]
    BY <1>1, <1>4
  <2>2. \A d \in Callers : KeyInv(call'[d], ledger', enq', unheard')
    BY <1>2, <1>4, <2>1
  <2>3. \A k \in Keys : Matches(k)' /\ Traced(k)'
    BY <1>4, <2>1 DEF Matches, Traced
  <2> QED
    BY <1>1, <2>2, <2>3 DEF LedgerInv
<1>5. CASE Logout(c)
  <2> DEFINE r == [x EXCEPT !.at = "forget"]
  <2>1. r \in Call /\ r.at = "forget" /\ r.sys = active
    BY <1>1 DEF Call, Steps
  <2>2. /\ x.at = "logout" /\ UNCHANGED <<ledger, tracked>>
        /\ call' = [call EXCEPT ![c] = r]
        /\ enq' = [k \in Keys |-> IF k[1] = active THEN 0 ELSE enq[k]]
        /\ unheard' = {k \in unheard : k[1] # active}
    BY <1>5 DEF Logout, Step
  <2> HIDE DEF r
  <2>3. KeyInv(r, ledger', enq', unheard')
    BY <1>1, <2>1, <2>2 DEF KeyInv, Keys
  <2>4. ASSUME NEW k \in Keys
        PROVE  /\ Agree(ledger'[k], enq'[k], k \in unheard') \/ Parts(r, k)
               /\ ledger'[k] # 0 => k \in tracked'
    BY <1>3, <2>1, <2>2 DEF Parts, Agree
  <2> QED
    BY <1>4, <2>1, <2>2, <2>3, <2>4
<1>6. CASE LogoutFails(c)
  <2>1. /\ x.at = "logout" /\ call' = [call EXCEPT ![c] = NoCall]
        /\ UNCHANGED <<ledger, tracked, enq, unheard>>
    BY <1>6 DEF LogoutFails, Done
  <2>2. \A k \in Keys : ~ Parts(x, k)
    BY <2>1 DEF Parts
  <2> QED
    BY <1>3, <1>4, <2>1, <2>2, NoCallFacts
<1>8. CASE LogoutLost(c)
  <2>1. /\ x.at = "logout" /\ call' = [call EXCEPT ![c] = NoCall]
        /\ UNCHANGED <<ledger, tracked>>
        /\ enq' = [k \in Keys |-> IF k[1] = active THEN 0 ELSE enq[k]]
        /\ unheard' = unheard \cup {k \in Keys : k[1] = active /\ enq[k] # 0}
    BY <1>8 DEF LogoutLost, Done
  <2>2. ASSUME NEW k \in Keys
        PROVE  /\ Agree(ledger'[k], enq'[k], k \in unheard')
               /\ ledger'[k] # 0 => k \in tracked'
    <3>1. Agree(ledger[k], enq[k], k \in unheard) /\ (ledger[k] # 0 => k \in tracked)
      BY <1>3, <2>1 DEF Parts
    <3>2. enq'[k] = enq[k] \/ k \in unheard' \/ enq[k] = 0
      BY <2>1
    <3> QED
      BY <2>1, <3>1, <3>2 DEF Agree
  <2> QED
    BY <1>4, <2>1, <2>2, NoCallFacts
<1>7. CASE Forget(c)
  <2> DEFINE mine == {k \in tracked : k[1] = active}
  <2>1. /\ x.at = "forget" /\ call' = [call EXCEPT ![c] = NoCall]
        /\ enq' = enq /\ tracked' = tracked \ mine /\ unheard' = unheard
        /\ ledger' = [k \in Keys |-> IF k \in mine THEN 0 ELSE ledger[k]]
    BY <1>1, <1>7 DEF Forget, Done
  <2>2. \A o \in Objects : enq[<<active, o>>] = 0
    BY <1>1, <2>1 DEF KeyInv
  <2>3. ASSUME NEW k \in Keys
        PROVE  /\ Agree(ledger'[k], enq'[k], k \in unheard')
               /\ ledger'[k] # 0 => k \in tracked'
    <3>1. CASE k[1] = active
      <4>1. enq[k] = 0
        BY <2>2, <3>1 DEF Keys
      <4> QED
        BY <1>3, <2>1, <3>1, <4>1 DEF Agree
    <3>2. CASE k[1] # active
      <4>1. ~ Parts(x, k)
        BY <1>1, <2>1, <3>2 DEF Parts
      <4> QED
        BY <1>3, <2>1, <3>2, <4>1
    <3> QED
      BY <3>1, <3>2
  <2> QED
    BY <1>4, <2>1, <2>3, NoCallFacts
<1> QED
  BY <1>5, <1>6, <1>7, <1>8 DEF Resets

\* A call starts on a key that no other call is at work on.
LEMMA LedgerStarts ==
  ASSUME LedgerInv, ~ Overlap, NEW c \in Callers, Starts(c)
  PROVE  LedgerInv'
<1>1. PICK r \in Call :
        /\ Idle(c) /\ call' = [call EXCEPT ![c] = r]
        /\ UNCHANGED <<active, ledger, tracked, enq, home, unheard>>
        /\ Shape(r, active) /\ ~ r.own
        /\ r.at \in {"lock", "check", "flavor", "look", "track", "write",
                     "logout"}
        /\ r.at \in {"track", "write"} => r.given
        /\ \A d \in Callers \ {c} : Apart(r, call[d]) /\ Apart(call[d], r)
  BY StartedCall DEF LedgerInv
<1>2. SafeInv /\ SafeInv' /\ call'[c] = r
      /\ \A d \in Callers \ {c} : call'[d] = call[d]
  BY <1>1, SafeStarts DEF LedgerInv, SafeInv, TypeOK
<1> DEFINE k == <<r.sys, r.obj>>
<1>3. r.at = "track" => Agree(ledger[k], enq[k], k \in unheard)
  <2> SUFFICES ASSUME r.at = "track" PROVE Agree(ledger[k], enq[k], k \in unheard)
    OBVIOUS
  <2>1. k \in Keys /\ r.obj \in r.objs
    BY <1>1, <1>2 DEF Shape, Call, Keys, SafeInv, TypeOK
  <2>2. ASSUME NEW d \in Callers, Parts(call[d], k)
        PROVE  FALSE
    <3>1. d # c /\ call[d].at # "idle"
      BY <1>1, <2>2 DEF Parts, Idle
    <3>2. /\ call[d].tool # "force_unlock" /\ call[d].objs \cap r.objs = {}
          /\ Shape(call[d], active)
      BY <1>1, <1>2, <3>1 DEF Apart, SafeInv
    <3>3. call[d].at \in {"record", "delete"} /\ call[d].obj = r.obj
      BY <2>2, <3>2 DEF Parts, Shape
    <3>4. call[d].obj \in call[d].objs
      BY <3>2, <3>3 DEF Shape
    <3> QED
      BY <2>1, <3>2, <3>3, <3>4
  <2>3. Matches(k)
    BY <2>1 DEF LedgerInv
  <2> QED
    BY <2>2, <2>3 DEF Matches
<1>4. KeyInv(r, ledger, enq, unheard)
  BY <1>1, <1>3 DEF KeyInv
<1>5. \A d \in Callers : KeyInv(call'[d], ledger', enq', unheard')
  BY <1>1, <1>2, <1>4 DEF LedgerInv
<1>6. \A j \in Keys : Matches(j)' /\ Traced(j)'
  <2> TAKE j \in Keys
  <2>1. Matches(j) /\ Traced(j) /\ ~ Parts(call[c], j) /\ call[c].at # "track"
    BY <1>1 DEF LedgerInv, Parts, Idle
  <2>2. Matches(j)'
    BY <1>1, <1>2, <2>1 DEF Matches
  <2>3. Traced(j)'
    BY <1>1, <1>2, <2>1 DEF Traced, Key
  <2> QED
    BY <2>2, <2>3
<1> QED
  BY <1>2, <1>5, <1>6 DEF LedgerInv

\* select_system changes none of the tables, and an expiry only makes SAP
\* forget.
LEMMA LedgerOthers ==
  ASSUME LedgerInv, ~ Overlap, SelectSystem \/ \E s \in Systems : Expire(s)
  PROVE  LedgerInv'
<1>1. SafeInv'
  BY SafeOthers DEF LedgerInv
<1>2. CASE SelectSystem
  <2>1. UNCHANGED <<ledger, tracked, call, enq, unheard>>
    BY <1>2 DEF SelectSystem
  <2> QED
    BY <1>1, <2>1 DEF LedgerInv, Matches, Traced, Key
<1>3. ASSUME NEW s \in Systems, Expire(s)
      PROVE  LedgerInv'
  <2>1. /\ Expires /\ UNCHANGED <<ledger, tracked, call, unheard>>
        /\ \A c \in Callers : call[c].at = "idle"
        /\ enq' = [k \in Keys |-> IF k[1] = s THEN 0 ELSE enq[k]]
    BY <1>3 DEF Expire, AllIdle, Idle
  <2>2. \A c \in Callers : KeyInv(call'[c], ledger', enq', unheard')
    BY <2>1 DEF KeyInv
  <2>3. ASSUME NEW k \in Keys
        PROVE  Matches(k)' /\ Traced(k)'
    <3>1. Agree(ledger[k], enq[k], k \in unheard) /\ Traced(k)
      BY <2>1 DEF LedgerInv, Matches, Parts
    <3>2. enq'[k] = IF k[1] = s THEN 0 ELSE enq[k]
      BY <2>1
    <3>3. Agree(ledger[k], enq'[k], k \in unheard')
      BY <2>1, <3>1, <3>2 DEF Agree
    <3> QED
      BY <2>1, <3>1, <3>3 DEF Matches, Traced, Key
  <2> QED
    BY <1>1, <2>2, <2>3 DEF LedgerInv
<1> QED
  BY <1>2, <1>3

LEMMA LedgerInvariance ==
  ASSUME ~ Overlap, Reliable PROVE Spec => []LedgerInv
<1>1. Init => LedgerInv
  <2> SUFFICES ASSUME Init PROVE LedgerInv
    OBVIOUS
  <2>1. call = [c \in Callers |-> NoCall] /\ enq = ledger
    BY DEF Init
  <2>2. SafeInv
    <3>1. TypeOK
      BY <2>1, NoCallFacts DEF Init, TypeOK
    <3>2. \A c \in Callers : call[c] = NoCall
      BY <2>1
    <3> QED
      BY <3>1, <3>2, NoCallFacts DEF SafeInv, Apart
  <2>3. \A c \in Callers : KeyInv(call[c], ledger, enq, unheard)
    BY <2>1, NoCallFacts
  <2>4. \A k \in Keys : ledger[k] = 0
    BY DEF Init
  <2> QED
    BY <2>1, <2>2, <2>3, <2>4 DEF LedgerInv, Matches, Traced, Agree
<1>2. LedgerInv /\ [Next]_vars => LedgerInv'
  <2> SUFFICES ASSUME LedgerInv, [Next]_vars PROVE LedgerInv'
    OBVIOUS
  <2>1. CASE UNCHANGED vars
    <3>1. UNCHANGED <<active, ledger, tracked, call, enq, home, unheard>>
      BY <2>1 DEF vars
    <3>2. SafeInv'
      BY <3>1 DEF LedgerInv, SafeInv, TypeOK
    <3> QED
      BY <3>1, <3>2 DEF LedgerInv, Matches, Traced, Key
  <2>2. CASE \E c \in Callers : \/ Starts(c) \/ Resolves(c) \/ Takes(c)
                                \/ Writes(c) \/ GivesBack(c) \/ Resets(c)
    BY <2>2, LedgerStarts, LedgerResolves, LedgerTakes, LedgerWrites,
       LedgerGivesBack, LedgerResets
  <2>3. CASE SelectSystem \/ \E s \in Systems : Expire(s)
    BY <2>3, LedgerOthers
  <2> QED
    BY <2>1, <2>2, <2>3 DEF Next
<1> QED
  BY <1>1, <1>2, PTL DEF Spec

\* With no call at work on it, a key is settled.
LEMMA QuietKeys ==
  ASSUME LedgerInv, NEW k \in Keys, Quiet(k)
  PROVE  Agree(ledger[k], enq[k], k \in unheard) /\ (ledger[k] # 0 => k \in tracked)
<1>1. ASSUME NEW c \in Callers
      PROVE  ~ Parts(call[c], k) /\ ~ (call[c].at = "track" /\ Key(c) = k)
  <2>1. call[c].tool # "force_unlock" /\ k[2] \notin call[c].objs
    BY DEF Quiet, Works
  <2>2. Shape(call[c], active)
    BY DEF LedgerInv, SafeInv
  <2> QED
    BY <2>1, <2>2 DEF Shape, Parts, Key
<1> QED
  BY <1>1 DEF LedgerInv, Matches, Traced

(* Every lock SAP holds for the session is in the lock map with the handle *)
(* that releases it: no tool, failed write or failed unlock loses one, and *)
(* neither does a session that expires.  The exception is the lock whose   *)
(* last request SAP carried out without an answer, until a later lock,     *)
(* unlock or logout of it is answered.                                     *)
THEOREM NoLockIsLost == ASSUME ~ Overlap, Reliable PROVE Spec => []NoOrphan
<1>1. LedgerInv => NoOrphan
  BY QuietKeys DEF NoOrphan, Agree
<1> QED
  BY <1>1, LedgerInvariance, PTL

(* Every handle in the lock map is honoured by SAP: no unlock, rollback,   *)
(* activation or force_unlock that is answered leaves a stale one to the   *)
(* next write.                                                             *)
THEOREM NoHandleIsStale ==
  ASSUME ~ Overlap, Reliable, ~ Expires PROVE Spec => []NoStale
<1>1. LedgerInv => NoStale
  BY QuietKeys DEF NoStale, Agree
<1> QED
  BY <1>1, LedgerInvariance, PTL

(* Every entry of the lock map is tracked: list_locks shows it, and        *)
(* force_unlock forgets it.                                                *)
THEOREM EveryEntryIsListed ==
  ASSUME ~ Overlap, Reliable PROVE Spec => []EntriesTracked
<1>1. LedgerInv => EntriesTracked
  BY QuietKeys DEF EntriesTracked
<1> QED
  BY <1>1, LedgerInvariance, PTL

-----------------------------------------------------------------------------
(* Writes on ECC, which accepts any handle.                                *)

\* Every tool that writes relocks on ECC, and the flavor is always known.
Relocks == ~ Fails /\ Tools \cap {"create_test_include", "set_text_elements"} = {}

\* On ECC a write that is not given a handle takes a lock of its own.
Relocked(r, sys) ==
  sys \in ECC =>
    /\ r.at \notin {"look", "resolve"}
    /\ r.at = "check" => r.tool \notin Writers
    /\ r.at \in {"track", "write"} /\ r.tool \in Writers /\ ~ r.given => r.own

EccInv == SafeInv /\ \A c \in Callers : Relocked(call[c], active)

\* A step of call c to r.
LEMMA EccStep ==
  ASSUME EccInv, SafeInv', NEW c \in Callers, NEW r \in Call,
         call' = [call EXCEPT ![c] = r], active' = active, Relocked(r, active)
  PROVE  EccInv'
<1>1. call'[c] = r /\ \A d \in Callers \ {c} : call'[d] = call[d]
  BY DEF EccInv, SafeInv, TypeOK
<1> QED
  BY <1>1 DEF EccInv

LEMMA RelockedNoCall == \A sys : NoCall \in Call /\ Relocked(NoCall, sys)
BY NoCallFacts DEF Relocked

LEMMA EccStarts ==
  ASSUME EccInv, Relocks, ~ Overlap, NEW c \in Callers, Starts(c)
  PROVE  EccInv'
<1>1. PICK r \in Call :
        /\ call' = [call EXCEPT ![c] = r]
        /\ active' = active /\ Shape(r, active)
        /\ r.at \in {"lock", "check", "flavor", "look", "track", "write",
                     "logout"}
        /\ r.at \in {"track", "write"} => r.given
        /\ r.at = "look" => r.tool = "set_text_elements"
        /\ r.at = "check" /\ r.tool \in Writers
             => r.tool = "create_test_include"
  BY StartedCall DEF EccInv
<1>2. Relocked(r, active)
  BY <1>1 DEF Relocked, Relocks, Shape
<1> QED
  BY <1>1, <1>2, SafeStarts, EccStep DEF EccInv

LEMMA EccResolves ==
  ASSUME EccInv, Relocks, NEW c \in Callers, Resolves(c)
  PROVE  EccInv'
<1> DEFINE x == call[c]
<1>1. /\ x \in Call /\ Shape(x, active) /\ Relocked(x, active) /\ SafeInv'
      /\ ledger \in [Keys -> Nat]
  BY SafeResolves DEF EccInv, SafeInv, TypeOK
<1>2. CASE active \notin ECC
  <2>1. SafeInv' /\ active' = active
    BY <1>1 DEF Resolves, Probe, Look, Resolve, Check
  <2> QED
    BY <1>2, <2>1 DEF EccInv, Relocked
<1>3. CASE active \in ECC
  <2>1. ~ Look(c) /\ ~ Resolve(c)
    BY <1>1, <1>3 DEF Relocked, Look, Resolve
  <2>2. CASE Probe(c)
    <3> DEFINE r == [x EXCEPT !.at = "lock", !.own = TRUE]
    <3>1. call' = [call EXCEPT ![c] = r] /\ active' = active
      BY <1>3, <2>2 DEF Probe, Relocks
    <3>2. r \in Call /\ r.at = "lock"
      BY <1>1 DEF Call, Steps
    <3> HIDE DEF r
    <3> QED
      BY <1>1, <3>1, <3>2, EccStep DEF Relocked
  <2>3. CASE Check(c)
    <3> DEFINE h == ledger[Key(c)]
               r == [x EXCEPT !.at = IF x.tool = "unlock_object" THEN "unlock"
                                                                ELSE "write",
                              !.handle = h]
    <3>1. x.tool = "unlock_object" /\ active' = active /\ h \in Nat
      BY <1>1, <1>3, <2>3, OwnKey DEF Relocked, Check, Shape, EccInv
    <3>2. r \in Call /\ r.at = "unlock"
      BY <1>1, <3>1 DEF Call, Steps
    <3>3. call' = [call EXCEPT ![c] = r] \/ Done(c)
      BY <2>3 DEF Check
    <3>4. Relocked(r, active)
      BY <3>2 DEF Relocked
    <3> HIDE DEF r
    <3> QED
      BY <1>1, <3>1, <3>2, <3>3, <3>4, RelockedNoCall, EccStep DEF Done
  <2> QED
    BY <2>1, <2>2, <2>3 DEF Resolves
<1> QED
  BY <1>2, <1>3

LEMMA EccTakes ==
  ASSUME EccInv, NEW c \in Callers, Takes(c)
  PROVE  EccInv'
<1> DEFINE x == call[c]
<1>1. /\ x \in Call /\ OwnInv(x, ledger) /\ Relocked(x, active) /\ SafeInv'
      /\ active' = active /\ active \in Systems
  BY SafeTakes
     DEF EccInv, SafeInv, TypeOK, Takes, LockGranted, LockLost, LockRefused,
         Record, Track
<1>2. CASE LockGranted(c)
  <2> DEFINE h == Len(home) + 1
             r == [x EXCEPT !.at = "record", !.handle = h, !.got = h]
  <2>1. h \in Nat
    BY DEF EccInv, SafeInv, TypeOK
  <2>2. r \in Call /\ r.at = "record"
    BY <1>1, <2>1 DEF Call, Steps
  <2>3. call' = [call EXCEPT ![c] = r]
    BY <1>2 DEF LockGranted
  <2> HIDE DEF r
  <2> QED
    BY <1>1, <2>2, <2>3, EccStep DEF Relocked
<1>3. CASE LockRefused(c) \/ LockLost(c)
  BY <1>1, <1>3, RelockedNoCall, EccStep DEF LockRefused, LockLost, Done
<1>4. CASE Record(c)
  <2> DEFINE s == IF x.tool = "lock_object" THEN active ELSE x.sys
             r == [x EXCEPT !.at = "track", !.sys = s]
  <2>1. /\ r \in Call /\ r.at = "track" /\ r.tool = x.tool /\ r.own = x.own
    BY <1>1 DEF Call, Steps
  <2>2. x.at = "record" /\ call' = [call EXCEPT ![c] = r]
    BY <1>4 DEF Record
  <2> HIDE DEF r
  <2>3. Relocked(r, active)
    BY <1>1, <2>1, <2>2 DEF Relocked, OwnInv
  <2> QED
    BY <1>1, <2>1, <2>2, <2>3, EccStep
<1>5. CASE Track(c)
  <2> DEFINE r == [x EXCEPT !.at = "write"]
  <2>1. /\ r \in Call /\ r.at = "write" /\ r.tool = x.tool /\ r.own = x.own
        /\ r.given = x.given
    BY <1>1 DEF Call, Steps
  <2>2. x.at = "track" /\ (Done(c) \/ call' = [call EXCEPT ![c] = r])
    BY <1>5 DEF Track, Step
  <2> HIDE DEF r
  <2>3. Relocked(r, active)
    BY <1>1, <2>1, <2>2 DEF Relocked
  <2> QED
    BY <1>1, <2>1, <2>2, <2>3, RelockedNoCall, EccStep DEF Done
<1> QED
  BY <1>2, <1>3, <1>4, <1>5 DEF Takes

\* A call that gives a lock back does not write any more.
LEMMA EccWritesGivesBack ==
  ASSUME EccInv, NEW c \in Callers, Writes(c) \/ GivesBack(c) \/ Resets(c)
  PROVE  EccInv'
<1> DEFINE x == call[c]
<1>1. /\ x \in Call /\ Relocked(x, active) /\ SafeInv' /\ active' = active
      /\ active \in Systems /\ ledger \in [Keys -> Nat]
  BY SafeWrites, SafeGivesBack, SafeResets
     DEF EccInv, SafeInv, TypeOK, Writes, WriteAccepted, WriteFails, GivesBack,
         CheckActivate, UnlockAnswered, UnlockFails, UnlockLost, Delete, Untrack, Resets,
         Logout, LogoutFails, LogoutLost, Forget
<1>2. ASSUME NEW at \in {"unlock", "delete", "untrack", "forget"}, Step(c, at)
      PROVE  EccInv'
  <2> DEFINE r == [x EXCEPT !.at = at]
  <2>1. r \in Call /\ r.at \notin {"look", "resolve", "check", "track", "write"}
    BY <1>1 DEF Call, Steps
  <2>2. call' = [call EXCEPT ![c] = r]
    BY <1>2 DEF Step
  <2> HIDE DEF r
  <2> QED
    BY <1>1, <2>1, <2>2, EccStep DEF Relocked
<1>3. ASSUME Done(c)
      PROVE  EccInv'
  BY <1>1, <1>3, RelockedNoCall, EccStep DEF Done
<1>4. ASSUME NextObject(c), x.at \in {"check", "untrack"}
      PROVE  EccInv'
  <2>1. CASE x.tool = "activate_objects" /\ x.objs \ {x.obj} # {}
    <3> DEFINE rest == x.objs \ {x.obj}
    <3>1. PICK o \in rest : call' = [call EXCEPT ![c] =
                        [x EXCEPT !.at = "check", !.objs = rest, !.obj = o]]
      BY <1>4, <2>1 DEF NextObject
    <3> DEFINE r == [x EXCEPT !.at = "check", !.objs = rest, !.obj = o]
    <3>2. r \in Call /\ r.at = "check" /\ r.tool = "activate_objects"
      BY <1>1, <2>1 DEF Call, Steps
    <3>3. call' = [call EXCEPT ![c] = r]
      BY <3>1
    <3> HIDE DEF r
    <3> QED
      BY <1>1, <3>2, <3>3, EccStep DEF Relocked, Writers
  <2>2. CASE ~ (x.tool = "activate_objects" /\ x.objs \ {x.obj} # {})
    BY <1>3, <1>4, <2>2 DEF NextObject
  <2> QED
    BY <2>1, <2>2
<1>5. CASE CheckActivate(c) /\ ledger[Target(c)] # 0
  <2> DEFINE h == ledger[Target(c)]
             r == [x EXCEPT !.at = "unlock", !.sys = active, !.handle = h]
  <2>1. h \in Nat
    BY <1>1, <1>5, OwnKey DEF CheckActivate, EccInv
  <2>2. r \in Call /\ r.at = "unlock"
    BY <1>1, <2>1 DEF Call, Steps
  <2>3. call' = [call EXCEPT ![c] = r]
    BY <1>5 DEF CheckActivate
  <2> HIDE DEF r
  <2> QED
    BY <1>1, <2>2, <2>3, EccStep DEF Relocked
<1>6. CASE Writes(c)
  BY <1>2, <1>3, <1>6 DEF Writes, WriteAccepted, WriteFails
<1>7. CASE GivesBack(c)
  BY <1>2, <1>3, <1>4, <1>5, <1>7
     DEF GivesBack, CheckActivate, UnlockAnswered, UnlockFails, UnlockLost, Delete, Untrack
<1>8. CASE Resets(c)
  BY <1>2, <1>3, <1>8 DEF Resets, Logout, LogoutFails, LogoutLost, Forget
<1> QED
  BY <1>6, <1>7, <1>8

LEMMA EccInvariance ==
  ASSUME ~ Overlap, Relocks PROVE Spec => []EccInv
<1>1. Init => EccInv
  <2> SUFFICES ASSUME Init PROVE EccInv
    OBVIOUS
  <2>1. \A c \in Callers : call[c] = NoCall
    BY DEF Init
  <2>2. TypeOK
    BY NoCallFacts DEF Init, TypeOK
  <2> QED
    BY <2>1, <2>2, NoCallFacts, RelockedNoCall DEF EccInv, SafeInv, Apart
<1>2. EccInv /\ [Next]_vars => EccInv'
  <2> SUFFICES ASSUME EccInv, [Next]_vars PROVE EccInv'
    OBVIOUS
  <2>1. CASE UNCHANGED vars
    BY <2>1 DEF vars, EccInv, SafeInv, TypeOK
  <2>2. CASE \E c \in Callers : \/ Starts(c) \/ Resolves(c) \/ Takes(c)
                                \/ Writes(c) \/ GivesBack(c) \/ Resets(c)
    BY <2>2, EccStarts, EccResolves, EccTakes, EccWritesGivesBack
  <2>3. CASE SelectSystem \/ \E s \in Systems : Expire(s)
    <3>1. SafeInv' /\ AllIdle /\ call' = call
      BY <2>3, SafeOthers DEF EccInv, SelectSystem, Expire
    <3> QED
      BY <3>1 DEF EccInv, Relocked, AllIdle, Idle
  <2> QED
    BY <2>1, <2>2, <2>3 DEF Next
<1> QED
  BY <1>1, <1>2, PTL DEF Spec

\* When no request fails, no answer is lost.
LEMMA AllHeard == ASSUME ~ Fails PROVE Spec => [](unheard = {})
<1> DEFINE Heard == unheard = {}
<1>1. Init => Heard
  BY DEF Init
<1>2. Heard /\ [Next]_vars => Heard'
  <2> SUFFICES ASSUME unheard = {}, [Next]_vars PROVE unheard' = {}
    OBVIOUS
  <2>1. ASSUME NEW c \in Callers, Starts(c) \/ Resolves(c) \/ Writes(c)
        PROVE  unheard' = unheard
    BY <2>1 DEF Starts, Begin, BeginGiven, BeginActivate, BeginForceUnlock,
                Start, Resolves, Probe, Look, Resolve, Check, Writes,
                WriteAccepted, WriteFails
  <2>2. ASSUME NEW c \in Callers, Takes(c) \/ GivesBack(c) \/ Resets(c)
        PROVE  unheard' \subseteq unheard
    BY <2>2 DEF Takes, LockGranted, LockLost, LockRefused, Record, Track,
                GivesBack, CheckActivate, UnlockAnswered, UnlockFails,
                UnlockLost, Delete, Untrack, Resets, Logout, LogoutFails,
                LogoutLost, Forget
  <2> QED
    BY <2>1, <2>2 DEF Next, vars, SelectSystem, Expire
<1>3. Spec => []Heard
  BY <1>1, <1>2, PTL DEF Spec
<1> QED
  BY <1>3

(* A write that SAP accepts with a handle the server chose is made under   *)
(* the lock of the object, when no request fails: because the cached       *)
(* handle is exact as long as no session expires, or, when sessions do     *)
(* expire, because on ECC every write takes a lock of its own and S/4      *)
(* refuses a stale handle.                                                 *)
THEOREM NoWriteIsBlind ==
  ASSUME ~ Overlap, ~ Fails, ~ Expires \/ Relocks
  PROVE  Spec => []NoBlindWrite
<1>0. Reliable
  BY DEF Reliable
<1>1. CASE ~ Expires
  <2>1. LedgerInv /\ unheard = {} => NoBlindWrite
    <3> SUFFICES ASSUME LedgerInv, unheard = {}, NEW c \in Callers,
                        call[c].at = "write", ~ call[c].given
                 PROVE  enq[Target(c)] = call[c].handle
      BY DEF NoBlindWrite
    <3>1. Key(c) = Target(c) /\ KeyInv(call[c], ledger, enq, unheard)
      BY OwnKey DEF LedgerInv
    <3> QED
      BY <1>1, <3>1 DEF KeyInv, Agree, Key
  <2> QED
    BY <1>0, <2>1, AllHeard, LedgerInvariance, PTL
<1>2. CASE Relocks
  <2>1. LedgerInv /\ EccInv => NoBlindWrite
    <3> SUFFICES ASSUME LedgerInv, EccInv, NEW c \in Callers,
                        call[c].at = "write", ~ call[c].given, active \in ECC
                 PROVE  enq[Target(c)] = call[c].handle
      BY DEF NoBlindWrite, SapAccepts
    <3>1. /\ Key(c) = Target(c) /\ KeyInv(call[c], ledger, enq, unheard)
          /\ Shape(call[c], active) /\ Relocked(call[c], active)
      BY OwnKey DEF LedgerInv, SafeInv, EccInv
    <3>2. call[c].own
      BY <3>1 DEF Shape, Relocked
    <3> QED
      BY <3>1, <3>2 DEF KeyInv, Key
  <2>2. Spec => []EccInv
    BY <1>2, EccInvariance
  <2> QED
    BY <1>0, <2>1, <2>2, LedgerInvariance, PTL
<1> QED
  BY <1>1, <1>2

-----------------------------------------------------------------------------
(* The system an entry belongs to.                                         *)

\* Handle h was granted by system s.  ho is the history of grants.
Issued(h, s, ho) == h \in 1..Len(ho) /\ ho[h] = s

HomeInv ==
  /\ SafeInv
  /\ \A k \in Keys : ledger[k] # 0 => Issued(ledger[k], k[1], home)
  /\ \A c \in Callers :
       call[c].at = "record" => Issued(call[c].handle, call[c].sys, home)

\* The grants made so far stay what they are.
LEMMA IssuedAppend ==
  ASSUME NEW ho \in Seq(Systems), NEW s \in Systems
  PROVE  /\ Issued(Len(ho) + 1, s, Append(ho, s))
         /\ \A h, t : Issued(h, t, ho) => Issued(h, t, Append(ho, s))
<1>1. /\ Len(Append(ho, s)) = Len(ho) + 1 /\ Len(ho) \in Nat
      /\ Append(ho, s)[Len(ho) + 1] = s
      /\ \A i \in 1..Len(ho) : Append(ho, s)[i] = ho[i]
  OBVIOUS
<1> QED
  BY <1>1 DEF Issued

\* Every step of a call but the two that take a lock only removes entries.
LEMMA OtherSteps ==
  ASSUME SafeInv, ~ Overlap, NEW c \in Callers,
         \/ Starts(c) \/ Resolves(c) \/ LockRefused(c) \/ Track(c)
         \/ Writes(c) \/ GivesBack(c) \/ Resets(c)
  PROVE  /\ home' = home /\ call'[c].at # "record"
         /\ \A d \in Callers \ {c} : call'[d] = call[d]
         /\ \A k \in Keys : ledger'[k] \in {0, ledger[k]}
<1> DEFINE x == call[c]
           Moved == /\ call'[c].at # "record"
                    /\ \A d \in Callers \ {c} : call'[d] = call[d]
<1>0. /\ x \in Call /\ call \in [Callers -> Call]
      /\ ledger \in [Keys -> Nat] /\ NoCall.at = "idle"
  BY NoCallFacts DEF SafeInv, TypeOK
<1>1. ASSUME Done(c)
      PROVE  Moved
  BY <1>0, <1>1 DEF Done
<1>2. ASSUME NEW at \in Steps \ {"record"}, Step(c, at)
      PROVE  Moved
  BY <1>0, <1>2 DEF Step, Call
<1>3. ASSUME NextObject(c), x.at \in {"check", "untrack"}
      PROVE  Moved
  <2>1. PICK r \in Call :
          call' = [call EXCEPT ![c] = r] /\ r.at \in {"idle", "check"}
    BY <1>3, NextObjectShape
  <2> QED
    BY <1>0, <2>1
<1>4. CASE Starts(c)
  <2>1. PICK r \in Call :
          /\ call' = [call EXCEPT ![c] = r]
          /\ UNCHANGED <<active, ledger, tracked, enq, home, unheard>>
          /\ r.at \in {"lock", "check", "flavor", "look", "track", "write",
                       "logout"}
    BY <1>4, StartedCall
  <2> QED
    BY <1>0, <2>1
<1>5. CASE Resolves(c)
  <2>1. UNCHANGED <<ledger, home>>
    BY <1>5 DEF Resolves, Probe, Look, Resolve, Check
  <2>2. CASE Probe(c) \/ Look(c)
    <3>1. PICK at \in {"lock", "look", "check", "resolve"}, own \in BOOLEAN :
            call' = [call EXCEPT ![c] = [x EXCEPT !.at = at, !.own = own]]
      <4>1. [x EXCEPT !.at = "look"] = [x EXCEPT !.at = "look", !.own = x.own]
        BY <1>0 DEF Call
      <4>2. [x EXCEPT !.at = "check"] = [x EXCEPT !.at = "check", !.own = x.own]
        BY <1>0 DEF Call
      <4>3. x.own \in BOOLEAN
        BY <1>0 DEF Call
      <4> QED
        BY <2>2, <4>1, <4>2, <4>3 DEF Probe, Look
    <3> QED
      BY <1>0, <2>1, <3>1 DEF Call
  <2>3. CASE Resolve(c) \/ (Check(c) /\ ~ Done(c))
    <3>1. PICK at \in {"lock", "track", "unlock", "write"} :
            call' = [call EXCEPT ![c] =
                       [x EXCEPT !.at = at, !.handle = ledger[Key(c)]]]
      BY <2>3 DEF Resolve, Check
    <3> QED
      BY <1>0, <2>1, <3>1 DEF Call
  <2> QED
    BY <1>1, <1>5, <2>1, <2>2, <2>3 DEF Resolves
<1>6. CASE LockRefused(c) \/ Track(c) \/ Writes(c)
  <2>1. UNCHANGED <<ledger, home>>
    BY <1>6 DEF LockRefused, Track, Writes, WriteAccepted, WriteFails
  <2>2. Done(c) \/ Step(c, "write") \/ Step(c, "unlock")
    BY <1>6 DEF LockRefused, Track, Writes, WriteAccepted, WriteFails
  <2> QED
    BY <1>1, <1>2, <2>1, <2>2 DEF Steps
<1>7. CASE GivesBack(c)
  <2>1. home' = home /\ \A k \in Keys : ledger'[k] \in {0, ledger[k]}
    BY <1>0, <1>7 DEF GivesBack, CheckActivate, UnlockAnswered, UnlockFails, UnlockLost,
                      Delete, Untrack
  <2>2. CASE CheckActivate(c) /\ ledger[Target(c)] # 0
    BY <1>0, <2>1, <2>2 DEF CheckActivate, Call
  <2>3. \/ CheckActivate(c) /\ ledger[Target(c)] # 0
        \/ NextObject(c) /\ x.at \in {"check", "untrack"}
        \/ Done(c) \/ Step(c, "delete") \/ Step(c, "untrack")
    BY <1>7 DEF GivesBack, CheckActivate, UnlockAnswered, UnlockFails, UnlockLost,
                Delete, Untrack
  <2> QED
    BY <1>1, <1>2, <1>3, <2>1, <2>2, <2>3 DEF Steps
<1>8. CASE Resets(c)
  <2>1. home' = home /\ \A k \in Keys : ledger'[k] \in {0, ledger[k]}
    BY <1>0, <1>8 DEF Resets, Logout, LogoutFails, LogoutLost, Forget
  <2>2. Done(c) \/ Step(c, "forget")
    BY <1>8 DEF Resets, Logout, LogoutFails, LogoutLost, Forget
  <2> QED
    BY <1>1, <1>2, <2>1, <2>2 DEF Steps
<1> QED
  BY <1>4, <1>5, <1>6, <1>7, <1>8

LEMMA HomeCalls ==
  ASSUME HomeInv, ~ Overlap, NEW c \in Callers,
         \/ Starts(c) \/ Resolves(c) \/ Takes(c)
         \/ Writes(c) \/ GivesBack(c) \/ Resets(c)
  PROVE  HomeInv'
<1> DEFINE x == call[c]
           k == Key(c)
<1>1. /\ SafeInv /\ SafeInv' /\ x \in Call /\ call \in [Callers -> Call]
      /\ ledger \in [Keys -> Nat] /\ home \in Seq(Systems)
      /\ active \in Systems
  BY SafeStarts, SafeResolves, SafeTakes, SafeWrites, SafeGivesBack, SafeResets
     DEF HomeInv, SafeInv, TypeOK
<1>2. CASE LockGranted(c)
  <2> DEFINE h == Len(home) + 1
             r == [x EXCEPT !.at = "record", !.handle = h, !.got = h]
  <2>1. x.sys = active
    BY <1>1, <1>2, OwnKey DEF LockGranted
  <2>2. r.handle = h /\ r.sys = x.sys
    BY <1>1 DEF Call
  <2>3. /\ call' = [call EXCEPT ![c] = r] /\ ledger' = ledger
        /\ home' = Append(home, active)
    BY <1>2 DEF LockGranted
  <2> HIDE DEF r
  <2>4. /\ call'[c] = r /\ \A d \in Callers \ {c} : call'[d] = call[d]
    BY <1>1, <2>3
  <2> QED
    BY <1>1, <2>1, <2>2, <2>3, <2>4, IssuedAppend DEF HomeInv
<1>3. CASE Record(c)
  <2> DEFINE r == [x EXCEPT !.at = "track", !.sys = active]
  <2>1. k \in Keys /\ x.sys = active /\ x.at = "record"
    BY <1>1, <1>3, OwnKey DEF Record
  <2>2. r.at = "track"
    BY <1>1 DEF Call
  <2>3. /\ call' = [call EXCEPT ![c] = r] /\ home' = home
        /\ ledger' = [ledger EXCEPT ![k] = x.handle]
    BY <1>3, <2>1 DEF Record, Key
  <2> HIDE DEF r
  <2>4. /\ call'[c] = r /\ \A d \in Callers \ {c} : call'[d] = call[d]
    BY <1>1, <2>3
  <2>5. Issued(x.handle, k[1], home)
    BY <2>1 DEF HomeInv, Key
  <2>6. \A j \in Keys : ledger'[j] = IF j = k THEN x.handle ELSE ledger[j]
    BY <1>1, <2>1, <2>3
  <2> QED
    BY <1>1, <2>2, <2>3, <2>4, <2>5, <2>6 DEF HomeInv
<1>5. CASE LockLost(c)
  <2>1. /\ call' = [call EXCEPT ![c] = NoCall] /\ ledger' = ledger
        /\ home' = Append(home, active)
    BY <1>5 DEF LockLost, Done
  <2>2. /\ call'[c].at = "idle" /\ \A d \in Callers \ {c} : call'[d] = call[d]
    BY <1>1, <2>1, NoCallFacts
  <2> QED
    BY <1>1, <2>1, <2>2, IssuedAppend DEF HomeInv
<1>4. CASE \/ Starts(c) \/ Resolves(c) \/ LockRefused(c) \/ Track(c)
           \/ Writes(c) \/ GivesBack(c) \/ Resets(c)
  <2>1. /\ home' = home /\ call'[c].at # "record"
        /\ \A d \in Callers \ {c} : call'[d] = call[d]
        /\ \A j \in Keys : ledger'[j] \in {0, ledger[j]}
    BY <1>1, <1>4, OtherSteps
  <2> QED
    BY <1>1, <2>1 DEF HomeInv
<1> QED
  BY <1>2, <1>3, <1>4, <1>5 DEF Takes

LEMMA HomeInvariance == ASSUME ~ Overlap PROVE Spec => []HomeInv
<1>1. Init => HomeInv
  <2> SUFFICES ASSUME Init PROVE HomeInv
    OBVIOUS
  <2>1. \A c \in Callers : call[c] = NoCall
    BY DEF Init
  <2>2. TypeOK
    BY NoCallFacts DEF Init, TypeOK
  <2>3. \A k \in Keys : ledger[k] = 0
    BY DEF Init
  <2> QED
    BY <2>1, <2>2, <2>3, NoCallFacts DEF HomeInv, SafeInv, Apart
<1>2. HomeInv /\ [Next]_vars => HomeInv'
  <2> SUFFICES ASSUME HomeInv, [Next]_vars PROVE HomeInv'
    OBVIOUS
  <2>1. CASE UNCHANGED vars
    BY <2>1 DEF vars, HomeInv, SafeInv, TypeOK
  <2>2. CASE \E c \in Callers : \/ Starts(c) \/ Resolves(c) \/ Takes(c)
                                \/ Writes(c) \/ GivesBack(c) \/ Resets(c)
    BY <2>2, HomeCalls
  <2>3. CASE SelectSystem \/ \E s \in Systems : Expire(s)
    <3>1. SafeInv' /\ UNCHANGED <<ledger, call, home>>
      BY <2>3, SafeOthers DEF HomeInv, SelectSystem, Expire
    <3> QED
      BY <3>1 DEF HomeInv
  <2> QED
    BY <2>1, <2>2, <2>3 DEF Next
<1> QED
  BY <1>1, <1>2, PTL DEF Spec

(* The key of an entry names the system that granted its lock, so that     *)
(* force_unlock forgets the locks of the active system and no others: for  *)
(* every fault, and with select_system, as long as no call is overtaken.   *)
THEOREM EntriesNameTheirSystem ==
  ASSUME ~ Overlap PROVE Spec => []SystemsApart
<1>1. HomeInv => SystemsApart
  BY DEF HomeInv, Issued, SystemsApart
<1> QED
  BY <1>1, HomeInvariance, PTL
=============================================================================
