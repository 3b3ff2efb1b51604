----------------------- MODULE DebugBreakpointsProofs -----------------------
(***************************************************************************)
(* Theorems about DebugBreakpoints: what the list of the newest run says   *)
(* about the breakpoints in SAP, for any callers, locations and runs, and  *)
(* under which faults.                                                     *)
(***************************************************************************)
EXTENDS DebugBreakpoints, LeastProofs, TLAPS

-----------------------------------------------------------------------------
(* What a call knows at each step, whatever the others do.                 *)

Holding == {"delete", "set", "undo", "answer"}
Resets(k) == k.op = "add" /\ k.at \in {"delete", "set", "undo"}

CallOK(k) ==
  /\ k.at \in {"admit", "lock", "debugger", "store"} => k.op \in {"add", "remove"}
  /\ k.at \in {"set", "undo"} => k.op \in {"add", "run"}
  /\ k.at \in Holding => k.op # ""
  /\ k.op = "stop" => k.at \in {"delete", "answer"}
  /\ k.op = "run" =>
       k.at \in {"delete", "set", "undo"} /\ k.prev = {} /\ ~ k.again
  /\ k.op = "remove" => k.prev = {} /\ \A b \in k.todo : b.id # 0
  /\ k.at \in {"admit", "debugger", "store"} => \A b \in k.todo : b.scope = "debugger"
  /\ k.at \in {"lock", "delete", "undo"} => \A b \in k.todo : b.scope = "external"
  /\ k.op = "add" /\ k.at \in {"lock", "delete"} => ~ k.again
  /\ k.op = "add" /\ k.at = "set" => k.again

(* The run-start lock: the call of its holder belongs to the newest run,    *)
(* which is active unless the holder is about to replace or has stopped it. *)
LockOf(c, k, owner, newest, active) ==
  /\ owner = c <=> k.at \in Holding
  /\ k.run <= newest
  /\ k.at \in Holding /\ k.op \in {"add", "remove"} => active /\ k.run = newest
  /\ k.at \in Holding /\ k.op \in {"run", "stop"} => ~ active
  /\ k.op = "run" => newest < MaxRuns

CallsOK == \A c \in Callers : CallOK(call[c])
LockInv == \A c \in Callers : LockOf(c, call[c], startMu, run, Active)

SafeInv == TypeOK /\ CallsOK /\ LockInv

-----------------------------------------------------------------------------
LEMMA ConstantFacts ==
  /\ MaxRuns \in Nat /\ MaxIds \in Nat /\ 1 \in 0..MaxIds /\ 0 \in 0..MaxIds
  /\ 0 \in 0..MaxRuns /\ 1..MaxIds \subseteq 0..MaxIds
  /\ "free" \notin Callers
<1>1. MaxRuns \in Nat /\ MaxIds \in Nat \ {0} /\ "free" \notin Callers
  BY DebugBreakpointsAssumption DEF DebugBreakpointsAssumption
<1> QED
  BY <1>1

LEMMA NoCallOK == NoCall \in Call /\ CallOK(NoCall)
<1>1. NoCall \in Call
  BY ConstantFacts DEF NoCall, Call, Ops, Steps
<1>2. CallOK(NoCall)
  BY DEF NoCall, CallOK, Holding
<1> QED
  BY <1>1, <1>2

\* One call becomes another.
LEMMA OneCall ==
  ASSUME TypeOK, NEW c \in Callers, NEW k \in Call, call' = [call EXCEPT ![c] = k]
  PROVE  /\ call' \in [Callers -> Call] /\ call'[c] = k
         /\ \A d \in Callers : d # c => call'[d] = call[d]
BY DEF TypeOK

\* The parts of the list.
LEMMA Scopes ==
  ASSUME NEW S \in SUBSET Bp
  PROVE  /\ External(S) \subseteq S /\ Debugger(S) \subseteq S /\ WithId(S) \subseteq S
         /\ External(S) \subseteq Bp /\ Debugger(S) \subseteq Bp /\ WithId(S) \subseteq Bp
         /\ External(S) \cup Debugger(S) = S /\ LocsOf(S) \subseteq Locs
<1>1. \A b \in S : b.loc \in Locs /\ b.scope \in {"external", "debugger"}
  BY DEF Bp
<1> QED
  BY <1>1 DEF External, Debugger, WithId, LocsOf

\* A new ID is one that nobody remembers.
LEMMA NewIdIsFree ==
  ASSUME NEW l, NEW scope \in {"external", "debugger"}, Free(l, scope) # {}
  PROVE  NewId(l, scope) \in Free(l, scope)
<1>1. Free(l, scope) \subseteq Nat
  BY DEF Free
<1>2. \E n \in Free(l, scope) : \A m \in Free(l, scope) : n <= m
  BY <1>1, HasFirst
<1> QED
  BY <1>2 DEF NewId

\* What SAP's external list is after locations A of a request were accepted.
LEMMA AfterSetIs ==
  ASSUME TypeOK, NEW A \in SUBSET Locs, NEW heard \in BOOLEAN, SapSets(A, heard)
  PROVE  /\ sapExt' = AfterSet(A) /\ sapExt' \in [Locs -> 0..MaxIds]
         /\ \A l \in A : /\ sapExt'[l] # 0
                         /\ sapExt[l] # 0 => sapExt'[l] = sapExt[l]
                         /\ sapExt[l] = 0 => sapExt'[l] \in Free(l, "external")
         /\ \A l \in Locs \ A : sapExt'[l] = IF replaces THEN 0 ELSE sapExt[l]
         /\ \A l \in Locs \ A : sapExt'[l] = sapExt[l] /\ l \in unheard => l \in unheard'
         /\ ~ heard => /\ A \subseteq unheard' /\ unheard \subseteq unheard'
                       /\ \A l \in Locs : sapExt'[l] = sapExt[l] \/ l \in unheard'
         /\ unheard' \subseteq Locs
<1>1. sapExt' = AfterSet(A)
  BY DEF SapSets
<1>2. ASSUME NEW l \in A, sapExt[l] = 0
      PROVE  /\ NewId(l, "external") \in Free(l, "external")
             /\ NewId(l, "external") \in 1..MaxIds
  <2>1. Free(l, "external") # {}
    BY <1>2 DEF SapSets
  <2>2. NewId(l, "external") \in Free(l, "external")
    BY <2>1, NewIdIsFree
  <2> QED
    BY <2>2 DEF Free, IdBound
<1>3. \A l \in Locs : sapExt[l] \in 0..MaxIds
  BY DEF TypeOK
<1>4. \A l \in Locs : sapExt'[l] =
        IF l \in A THEN IF sapExt[l] = 0 THEN NewId(l, "external") ELSE sapExt[l]
                   ELSE IF replaces THEN 0 ELSE sapExt[l]
  BY <1>1 DEF AfterSet
<1>5. \A l \in A : /\ sapExt'[l] # 0
                   /\ sapExt[l] # 0 => sapExt'[l] = sapExt[l]
                   /\ sapExt[l] = 0 => sapExt'[l] \in Free(l, "external")
  BY <1>2, <1>4, ConstantFacts
<1>6. \A l \in Locs : sapExt'[l] \in 0..MaxIds
  BY <1>2, <1>3, <1>4, ConstantFacts
<1>7. sapExt' \in [Locs -> 0..MaxIds]
  BY <1>1, <1>6 DEF AfterSet
<1>8. unheard' = LET L == A \cup {l \in Locs : sapExt'[l] # sapExt[l]}
                 IN  IF heard THEN unheard \ L ELSE unheard \cup L
  BY <1>1 DEF SapSets, Learns
<1>9. \A l \in Locs \ A : sapExt'[l] = sapExt[l] /\ l \in unheard => l \in unheard'
  BY <1>8
<1>10. ~ heard => /\ A \subseteq unheard' /\ unheard \subseteq unheard'
                  /\ \A l \in Locs : sapExt'[l] = sapExt[l] \/ l \in unheard'
  BY <1>8
<1>11. unheard' \subseteq Locs
  BY <1>8 DEF TypeOK
<1> QED
  BY <1>1, <1>4, <1>5, <1>7, <1>9, <1>10, <1>11

\* What the answer to a set request says.
LEMMA SetByIs ==
  ASSUME NEW A \in SUBSET Locs, NEW N, AfterSet(A) \in [Locs -> 0..MaxIds]
  PROVE  /\ SetBy(A, N) \subseteq Bp
         /\ \A b \in SetBy(A, N) : b.scope = "external" /\ b.loc \in A
                                    /\ b.id \in {0, AfterSet(A)[b.loc]}
         /\ \A b \in SetBy(A, N) : b.loc \notin N => b.id = AfterSet(A)[b.loc]
         /\ \A l \in A : \E b \in SetBy(A, N) : b.loc = l
         /\ \A a, b \in SetBy(A, N) : a.loc = b.loc => a = b
         /\ LocsOf(SetBy(A, N)) = A
<1> DEFINE B(l) == [loc |-> l, id |-> IF l \in N THEN 0 ELSE AfterSet(A)[l],
                    scope |-> "external"]
<1>1. SetBy(A, N) = {B(l) : l \in A}
  BY DEF SetBy
<1>2. ASSUME NEW l \in A
      PROVE  /\ B(l) \in Bp /\ B(l).scope = "external" /\ B(l).loc = l
             /\ B(l).id \in {0, AfterSet(A)[l]}
             /\ l \notin N => B(l).id = AfterSet(A)[l]
  <2>1. l \in Locs /\ AfterSet(A)[l] \in 0..MaxIds
    OBVIOUS
  <2> HIDE DEF AfterSet
  <2> QED
    BY <2>1, ConstantFacts DEF Bp
<1> HIDE DEF B
<1> QED
  BY <1>1, <1>2 DEF LocsOf

\* What a call asks SAP for.
LEMMA RequestType ==
  ASSUME TypeOK, NEW c \in Callers
  PROVE  Request(c) \subseteq Locs
<1>1. call[c].prev \in SUBSET Bp /\ call[c].want \subseteq Locs
  BY DEF TypeOK, Call
<1> QED
  BY <1>1, Scopes DEF Request

-----------------------------------------------------------------------------
(* The steps keep the types and the lock.                                  *)

DataOK ==
  /\ faults \in FaultSets /\ replaces \in BOOLEAN
  /\ run \in 0..MaxRuns /\ status \in Statuses
  /\ bps \subseteq Bp
  /\ startMu \in Callers \cup {"free"}
  /\ sapExt \in [Locs -> 0..MaxIds] /\ sapDbg \subseteq Bp
  /\ attached \in BOOLEAN /\ reported \subseteq Locs
  /\ unheard \subseteq Locs /\ unheardDbg \subseteq Bp

\* Caller c moves on; only the holder of the lock, or who takes it, may start
\* and end runs.
Moves(c) ==
  \E k \in Call :
    /\ CallOK(k) /\ call' = [call EXCEPT ![c] = k]
    /\ LockOf(c, k, startMu', run', Active')
    /\ run' >= run
    /\ \/ startMu' = startMu /\ run' = run /\ (Active' <=> Active)
       \/ startMu \in {c, "free"} /\ startMu' \in {c, "free"}

\* A step of caller c that leaves the newest run and who holds the lock alone.
LEMMA MovesFreely ==
  ASSUME SafeInv, NEW c \in Callers, NEW k \in Call, CallOK(k),
         call' = [call EXCEPT ![c] = k], LockOf(c, k, startMu', run', Active'),
         UNCHANGED <<run, status, startMu>>
  PROVE  Moves(c)
<1>1. run' >= run
  BY ConstantFacts DEF SafeInv, TypeOK
<1> QED
  BY <1>1 DEF Moves, Active

\* A step of the caller that takes, holds or gives back the lock.
LEMMA MovesLocked ==
  ASSUME SafeInv, NEW c \in Callers, NEW k \in Call, CallOK(k),
         call' = [call EXCEPT ![c] = k], LockOf(c, k, startMu', run', Active'),
         run' >= run, startMu \in {c, "free"}, startMu' \in {c, "free"}
  PROVE  Moves(c)
BY DEF Moves

LEMMA MovesKeep ==
  ASSUME SafeInv, NEW c \in Callers, Moves(c), DataOK'
  PROVE  SafeInv'
<1>1. PICK k \in Call :
        /\ CallOK(k) /\ call' = [call EXCEPT ![c] = k]
        /\ LockOf(c, k, startMu', run', Active')
        /\ run' >= run
        /\ \/ startMu' = startMu /\ run' = run /\ (Active' <=> Active)
           \/ startMu \in {c, "free"} /\ startMu' \in {c, "free"}
  BY DEF Moves
<1>2. /\ call' \in [Callers -> Call] /\ call'[c] = k
      /\ \A d \in Callers : d # c => call'[d] = call[d]
  BY <1>1, OneCall DEF SafeInv
<1>3. TypeOK'
  BY <1>2 DEF TypeOK, DataOK
<1>4. CallsOK'
  BY <1>1, <1>2 DEF SafeInv, CallsOK
<1>5. ASSUME NEW d \in Callers PROVE LockOf(d, call'[d], startMu', run', Active')
  <2>1. CASE d = c
    BY <1>1, <1>2, <2>1
  <2>2. CASE d # c
    <3>1. LockOf(d, call[d], startMu, run, Active) /\ CallOK(call[d]) /\ call[d] \in Call
          /\ run \in 0..MaxRuns /\ run' \in 0..MaxRuns
      BY DEF SafeInv, TypeOK, CallsOK, LockInv, DataOK
    <3>2. CASE startMu' = startMu /\ run' = run /\ (Active' <=> Active)
      BY <1>2, <2>2, <3>1, <3>2
    <3>3. CASE startMu \in {c, "free"} /\ startMu' \in {c, "free"}
      <4>1. startMu # d /\ startMu' # d
        BY <2>2, <3>3, ConstantFacts
      <4>2. call[d].at \notin Holding /\ call[d].op # "run"
        BY <3>1, <4>1 DEF LockOf, CallOK, Holding
      <4>3. call[d].run <= run'
        BY <1>1, <3>1, ConstantFacts DEF LockOf, Call
      <4> QED
        BY <1>2, <2>2, <4>1, <4>2, <4>3 DEF LockOf
    <3> QED
      BY <1>1, <3>2, <3>3
  <2> QED
    BY <2>1, <2>2
<1>6. LockInv'
  BY <1>5 DEF LockInv
<1> QED
  BY <1>3, <1>4, <1>6 DEF SafeInv

LEMMA SafeFacts ==
  ASSUME SafeInv, NEW c \in Callers
  PROVE  /\ DataOK /\ call[c] \in Call /\ CallOK(call[c])
         /\ LockOf(c, call[c], startMu, run, Active)
         /\ call[c].todo \subseteq Bp /\ call[c].prev \subseteq Bp
         /\ call[c].want \subseteq Locs /\ call[c].failed \subseteq Bp
         /\ call[c].named \subseteq Locs /\ call[c].at \in Steps
         /\ call[c].op \in Ops /\ call[c].run \in 0..MaxRuns
<1>1. call[c] \in Call
  BY DEF SafeInv, TypeOK
<1> QED
  BY <1>1 DEF SafeInv, TypeOK, DataOK, CallsOK, LockInv, Call

\* The call is over; it did not hold the lock, or gives it back.
LEMMA DoneMoves ==
  ASSUME SafeInv, NEW c \in Callers, Done(c), run' \in 0..MaxRuns, run' >= run,
         \/ call[c].at \notin Holding /\ UNCHANGED <<startMu, run, status>>
         \/ startMu = c /\ startMu' = "free"
  PROVE  Moves(c)
<1>1. NoCall \in Call /\ CallOK(NoCall) /\ NoCall.at = "idle" /\ NoCall.run = 0
      /\ NoCall.op = ""
  BY NoCallOK DEF NoCall
<1>2. startMu' # c
  BY SafeFacts, ConstantFacts DEF LockOf
<1>3. 0 <= run'
  BY ConstantFacts
<1>4. LockOf(c, NoCall, startMu', run', Active')
  BY <1>1, <1>2, <1>3 DEF LockOf, Holding
<1>5. call[c].at \notin Holding /\ UNCHANGED <<startMu, run, status>>
        => startMu' = startMu /\ run' = run /\ (Active' <=> Active)
  BY DEF Active
<1> QED
  BY <1>1, <1>4, <1>5 DEF Moves, Done

LEMMA StatusSafe ==
  ASSUME SafeInv, StatusStep
  PROVE  SafeInv' /\ UNCHANGED <<world, run, startMu, call, sapExt, unheard, reported>>
         /\ (Active <=> Active') /\ External(bps) = External(bps)'
<1>1. /\ UNCHANGED <<world, run, startMu, call, sapExt, unheard, reported>>
      /\ status' \in Statuses /\ (Active <=> Active') /\ attached' \in BOOLEAN
      /\ sapDbg' \in {sapDbg, {}} /\ bps' \in {bps, External(bps)}
      /\ unheardDbg' \in {unheardDbg, {}}
  BY DEF SafeInv, TypeOK, StatusStep, Hit, Attach, WindowEnds, AttachmentEnds,
         DebuggeeEnds, Rearm, LetsGo, sap, Statuses, Active
<1>2. TypeOK'
  <2>1. bps' \subseteq Bp /\ sapDbg' \subseteq Bp /\ unheardDbg' \subseteq Bp
    BY <1>1 DEF SafeInv, TypeOK, External
  <2> QED
    BY <1>1, <2>1 DEF SafeInv, TypeOK, world
<1>3. CallsOK'
  BY <1>1 DEF SafeInv, CallsOK
<1>4. LockInv'
  BY <1>1 DEF SafeInv, LockInv, LockOf
<1>5. External(bps) = External(bps)'
  BY <1>1 DEF External
<1> QED
  BY <1>1, <1>2, <1>3, <1>4, <1>5 DEF SafeInv

\* A call begins, or moves, without the lock.
LEMMA BeginsSafe ==
  ASSUME SafeInv, NEW c \in Callers, Begins(c)
  PROVE  SafeInv' /\ Moves(c)
<1> USE SafeFacts, NoCallOK, ConstantFacts
<1>1. ASSUME NEW l \in Locs, AddBegins(c, l) PROVE Moves(c) /\ DataOK'
  <2> DEFINE m == [NoCall EXCEPT !.op = "add", !.run = run, !.want = {l},
                     !.at = IF status = "attached" THEN "admit" ELSE "lock"]
  <2>1. call' = [call EXCEPT ![c] = m]
        /\ UNCHANGED <<faults, replaces, run, status, bps, startMu, sapExt, sapDbg,
                       attached, unheard, unheardDbg, reported>>
    BY <1>1 DEF AddBegins, world, sap
  <2>2. m \in Call /\ m.op = "add" /\ m.at \in {"admit", "lock"} /\ m.run = run
        /\ m.todo = {} /\ ~ m.again
    BY DEF NoCall, Call, Ops, Steps, DataOK
  <2> HIDE DEF m
  <2>3. CallOK(m)
    BY <2>2 DEF CallOK, Holding
  <2>4. call[c].at \notin Holding
    BY <1>1 DEF AddBegins, Idle, Holding
  <2>5. LockOf(c, m, startMu', run', Active')
    BY <2>1, <2>2, <2>4 DEF LockOf, Holding, DataOK
  <2>6. DataOK'
    BY <2>1 DEF DataOK
  <2> QED
    BY <2>1, <2>2, <2>3, <2>5, <2>6, MovesFreely
<1>2. ASSUME NEW b \in bps, RemoveBegins(c, b) PROVE Moves(c) /\ DataOK'
  <2> DEFINE m == [NoCall EXCEPT !.op = "remove", !.run = run, !.todo = {b},
                     !.at = IF b.scope = "debugger" THEN "admit" ELSE "lock"]
  <2>1. call' = [call EXCEPT ![c] = m]
        /\ UNCHANGED <<faults, replaces, run, status, bps, startMu, sapExt, sapDbg,
                       attached, unheard, unheardDbg, reported>>
    BY <1>2 DEF RemoveBegins, world, sap
  <2>2. b \in Bp /\ b.id # 0 /\ b.scope \in {"external", "debugger"}
    BY <1>2 DEF RemoveBegins, WithId, DataOK, Bp
  <2>3. m \in Call /\ m.op = "remove" /\ m.at \in {"admit", "lock"} /\ m.run = run
        /\ m.todo = {b} /\ m.prev = {}
        /\ (m.at = "admit" <=> b.scope = "debugger")
    BY <2>2 DEF NoCall, Call, Ops, Steps, DataOK
  <2> HIDE DEF m
  <2>4. CallOK(m)
    BY <2>2, <2>3 DEF CallOK, Holding
  <2>5. call[c].at \notin Holding
    BY <1>2 DEF RemoveBegins, Idle, Holding
  <2>6. LockOf(c, m, startMu', run', Active')
    BY <2>1, <2>3, <2>5 DEF LockOf, Holding, DataOK
  <2>7. DataOK'
    BY <2>1 DEF DataOK
  <2> QED
    BY <2>1, <2>3, <2>4, <2>6, <2>7, MovesFreely
<1>3. ASSUME NEW op \in {"run", "stop"}, NEW L \in SUBSET Locs, LaunchBegins(c, op, L)
      PROVE  Moves(c) /\ DataOK'
  <2>1. startMu = "free" /\ startMu' = c /\ UNCHANGED <<faults, replaces, run, bps,
          sapExt, sapDbg, attached, unheard, unheardDbg, reported>>
        /\ (op = "run" => run < MaxRuns) /\ call[c].at \notin Holding
    BY <1>3 DEF LaunchBegins, world, sap, Idle, Holding
  <2>2. CASE Active
    <3> DEFINE m == [NoCall EXCEPT !.op = op, !.want = L, !.at = "delete",
                       !.todo = WithId(External(bps)),
                       !.failed = External(bps) \ WithId(bps),
                       !.halted = status = "attached"]
    <3>1. call' = [call EXCEPT ![c] = m] /\ status' = "stopping"
      BY <1>3, <2>2 DEF LaunchBegins
    <3>2. WithId(External(bps)) \subseteq Bp /\ External(bps) \subseteq Bp
          /\ \A b \in WithId(External(bps)) : b.scope = "external"
      BY DEF DataOK, WithId, External
    <3>3. m \in Call /\ m.op = op /\ m.at = "delete" /\ m.run = 0
          /\ m.todo = WithId(External(bps)) /\ m.prev = {} /\ ~ m.again
      BY <3>2 DEF NoCall, Call, Ops, Steps
    <3> HIDE DEF m
    <3>4. CallOK(m)
      BY <3>2, <3>3 DEF CallOK, Holding
    <3>5. ~ Active' /\ status' \in Statuses
      BY <3>1 DEF Active, Statuses
    <3>6. LockOf(c, m, startMu', run', Active')
      BY <2>1, <3>3, <3>5 DEF LockOf, Holding, DataOK
    <3>7. DataOK' /\ run' >= run
      BY <2>1, <3>5 DEF DataOK
    <3> QED
      BY <2>1, <3>1, <3>3, <3>4, <3>6, <3>7, MovesLocked
  <2>3. CASE ~ Active
    <3> DEFINE m == [NoCall EXCEPT !.op = op, !.want = L,
                       !.at = IF op = "run" THEN "set" ELSE "answer"]
    <3>1. call' = [call EXCEPT ![c] = m] /\ status' = status
      BY <1>3, <2>3 DEF LaunchBegins
    <3>2. m \in Call /\ m.op = op /\ m.at = (IF op = "run" THEN "set" ELSE "answer")
          /\ m.run = 0 /\ m.todo = {} /\ m.prev = {} /\ ~ m.again
      BY DEF NoCall, Call, Ops, Steps
    <3> HIDE DEF m
    <3>3. CallOK(m)
      BY <3>2 DEF CallOK, Holding
    <3>4. ~ Active'
      BY <2>3, <3>1 DEF Active
    <3>5. LockOf(c, m, startMu', run', Active')
      BY <2>1, <3>2, <3>4 DEF LockOf, Holding, DataOK
    <3>6. DataOK' /\ run' >= run
      BY <2>1, <3>1 DEF DataOK
    <3> QED
      BY <2>1, <3>1, <3>2, <3>3, <3>5, <3>6, MovesLocked
  <2> QED
    BY <2>2, <2>3
<1> QED
  BY <1>1, <1>2, <1>3, MovesKeep DEF Begins

\* What the attached debugger can get.
LEMMA DebuggerBp ==
  ASSUME NEW l \in Locs, Free(l, "debugger") # {}
  PROVE  [loc |-> l, id |-> NewId(l, "debugger"), scope |-> "debugger"] \in Bp \ Known
<1>1. NewId(l, "debugger") \in Free(l, "debugger")
  BY NewIdIsFree
<1> QED
  BY <1>1, ConstantFacts DEF Free, IdBound, Bp

LEMMA DebuggerSafe ==
  ASSUME SafeInv, NEW c \in Callers, DebuggerStep(c)
  PROVE  /\ SafeInv' /\ Moves(c) /\ UNCHANGED <<world, run, status, startMu, sapExt, unheard, reported>>
         /\ call[c].at \in {"admit", "debugger", "store"}
         /\ call'[c].at \in {"idle", "debugger", "store"}
         /\ External(bps') = External(bps)
<1> USE SafeFacts, ConstantFacts
<1>1. /\ UNCHANGED <<faults, replaces, run, status, startMu, sapExt, unheard, reported, attached>>
      /\ call[c].at \in {"admit", "debugger", "store"} /\ call[c].at \notin Holding
      /\ call[c].op \in {"add", "remove"}
  <2>1. call[c].at \in {"admit", "debugger", "store"}
    BY DEF DebuggerStep, Admit, DebuggerSet, DebuggerDelete, DebuggerFails, DebuggerLost,
           Store
  <2>2. UNCHANGED <<faults, replaces, run, status, startMu, sapExt, unheard, reported, attached>>
    BY DEF DebuggerStep, Admit, DebuggerSet, DebuggerDelete, DebuggerFails, DebuggerLost,
           Store, world, sap
  <2> QED
    BY <2>1, <2>2 DEF CallOK, Holding
\* The call is over.
<1>2. ASSUME Done(c) PROVE Moves(c) /\ call'[c].at = "idle"
  <2>1. Moves(c)
    BY <1>1, <1>2, DoneMoves DEF DataOK
  <2>2. call'[c] = NoCall
    BY <1>2, NoCallOK, OneCall DEF Done, SafeInv
  <2>3. NoCall.at = "idle"
    BY DEF NoCall
  <2> QED
    BY <2>1, <2>2, <2>3
\* The call goes on with breakpoints T of debugger scope.
<1>3. ASSUME NEW at \in {"debugger", "store"}, NEW T \in SUBSET Bp,
             \A b \in T : b.scope = "debugger",
             call[c].op = "remove" => T = call[c].todo,
             call' = [call EXCEPT ![c] = [call[c] EXCEPT !.at = at, !.todo = T]]
      PROVE  Moves(c) /\ call'[c].at = at
  <2> DEFINE m == [call[c] EXCEPT !.at = at, !.todo = T]
  <2>1. m \in Call /\ m.at = at /\ m.todo = T /\ m.op = call[c].op /\ m.run = call[c].run
        /\ m.prev = call[c].prev
    BY DEF Call, Steps
  <2>2. call' = [call EXCEPT ![c] = m]
    BY <1>3
  <2> HIDE DEF m
  <2>3. CallOK(m)
    BY <1>1, <1>3, <2>1 DEF CallOK, Holding
  <2>4. LockOf(c, m, startMu', run', Active')
    BY <1>1, <1>3, <2>1 DEF LockOf, Holding
  <2>5. Moves(c)
    BY <1>1, <2>1, <2>2, <2>3, <2>4, MovesFreely
  <2> QED
    BY <2>1, <2>2, <2>5, OneCall DEF SafeInv
<1>4. \A b \in call[c].todo : b.scope = "debugger"
  BY <1>1 DEF CallOK
<1>5. CASE Admit(c)
  <2>1. CASE Done(c)
    BY <1>1, <1>2, <1>5, <2>1, MovesKeep DEF Admit, DataOK, sap
  <2>2. CASE ~ Done(c)
    <3>1. call' = [call EXCEPT ![c] = [call[c] EXCEPT !.at = "debugger", !.todo = call[c].todo]]
      BY <1>5, <2>2 DEF Admit, Call
    <3>2. Moves(c) /\ call'[c].at = "debugger"
      BY <1>3, <1>4, <3>1
    <3> QED
      BY <1>1, <1>5, <3>2, MovesKeep DEF Admit, DataOK, sap, world
  <2> QED
    BY <2>1, <2>2
<1>6. CASE DebuggerSet(c)
  <2>1. PICK l \in call[c].want : Free(l, "debugger") # {} /\
          LET b == [loc |-> l, id |-> NewId(l, "debugger"), scope |-> "debugger"] IN
          /\ sapDbg' = sapDbg \cup {b} /\ unheardDbg' = unheardDbg \ {b}
          /\ call' = [call EXCEPT ![c] = [@ EXCEPT !.at = "store", !.todo = {b}]]
    BY <1>6 DEF DebuggerSet
  <2> DEFINE b == [loc |-> l, id |-> NewId(l, "debugger"), scope |-> "debugger"]
  <2>2. b \in Bp
    BY <2>1, DebuggerBp
  <2>3. call' = [call EXCEPT ![c] = [call[c] EXCEPT !.at = "store", !.todo = {b}]]
    BY <2>1
  <2>4. b.scope = "debugger" /\ sapDbg' = sapDbg \cup {b}
        /\ unheardDbg' = unheardDbg \ {b}
    BY <2>1
  <2>5. call[c].op # "remove"
    BY <1>6 DEF DebuggerSet
  <2> HIDE DEF b
  <2>6. {b} \in SUBSET Bp /\ \A x \in {b} : x.scope = "debugger"
    BY <2>2, <2>4
  <2>7. Moves(c) /\ call'[c].at = "store"
    BY <1>3, <2>3, <2>5, <2>6
  <2> QED
    BY <1>1, <1>6, <2>2, <2>4, <2>7, MovesKeep DEF DebuggerSet, DataOK, world
<1>7. CASE DebuggerDelete(c)
  <2>1. /\ call' = [call EXCEPT ![c] = [call[c] EXCEPT !.at = "store", !.todo = call[c].todo]]
        /\ call[c].todo \in SUBSET Bp
    BY <1>7 DEF DebuggerDelete, Call
  <2>2. Moves(c) /\ call'[c].at = "store"
    BY <1>3, <1>4, <2>1
  <2> QED
    BY <1>1, <1>7, <2>2, MovesKeep DEF DebuggerDelete, DataOK, world
<1>8. CASE DebuggerFails(c)
  BY <1>1, <1>2, <1>8, MovesKeep DEF DebuggerFails, DataOK, sap, world
<1>10. CASE DebuggerLost(c)
  <2>1. Done(c) /\ bps' = bps /\ reported' = reported /\ unheard' = unheard
    BY <1>10 DEF DebuggerLost
  <2>2. sapDbg' \subseteq Bp /\ unheardDbg' \subseteq Bp
    <3>1. CASE call[c].op = "add"
      <4>1. PICK l \in call[c].want : Free(l, "debugger") # {} /\
              LET b == [loc |-> l, id |-> NewId(l, "debugger"), scope |-> "debugger"] IN
              sapDbg' = sapDbg \cup {b} /\ unheardDbg' = unheardDbg \cup {b}
        BY <1>10, <3>1 DEF DebuggerLost
      <4> QED
        BY <4>1, DebuggerBp DEF DataOK
    <3>2. CASE call[c].op # "add"
      BY <1>10, <3>2 DEF DebuggerLost, DataOK
    <3> QED
      BY <3>1, <3>2
  <2>3. DataOK'
    BY <1>1, <2>1, <2>2 DEF DataOK
  <2> QED
    BY <1>1, <1>2, <2>1, <2>3, MovesKeep DEF DebuggerLost, world
<1>9. CASE Store(c)
  <2>1. bps' \in {bps, bps \cup call[c].todo, bps \ call[c].todo}
    BY <1>9 DEF Store
  <2>2. External(bps') = External(bps) /\ bps' \subseteq Bp
    BY <1>4, <2>1 DEF External, DataOK
  <2> QED
    BY <1>1, <1>2, <1>9, <2>2, MovesKeep DEF Store, DataOK, sap, world
<1> QED
  BY <1>5, <1>6, <1>7, <1>8, <1>9, <1>10 DEF DebuggerStep

\* The holder of the lock goes on with its call.
LEMMA HolderMoves ==
  ASSUME SafeInv, NEW c \in Callers, call[c].at \in Holding,
         NEW k \in Call, CallOK(k), call' = [call EXCEPT ![c] = k],
         k.at \in Holding, k.op = call[c].op, k.run = call[c].run,
         UNCHANGED <<run, startMu>>, Active' <=> Active
  PROVE  Moves(c)
<1>1. LockOf(c, call[c], startMu, run, Active) /\ run \in 0..MaxRuns
  BY SafeFacts DEF DataOK
<1>2. LockOf(c, k, startMu', run', Active')
  BY <1>1 DEF LockOf
<1>3. startMu \in {c, "free"} /\ startMu' \in {c, "free"} /\ run' >= run
  BY <1>1, ConstantFacts DEF LockOf
<1> QED
  BY <1>2, <1>3, MovesLocked

LEMMA AnswerMoves ==
  ASSUME SafeInv, NEW c \in Callers, call[c].at \in Holding, call[c].op # "run",
         NEW good \in BOOLEAN, NEW lost \in SUBSET Locs, Answer(c, good, lost),
         UNCHANGED <<run, startMu, status>>
  PROVE  /\ Moves(c)
         /\ call'[c] = [call[c] EXCEPT !.at = "answer", !.ok = good, !.named = lost]
<1> DEFINE m == [call[c] EXCEPT !.at = "answer", !.ok = good, !.named = lost]
<1>1. call[c] \in Call /\ CallOK(call[c])
  BY SafeFacts
<1>2. m \in Call /\ m.at = "answer" /\ m.op = call[c].op /\ m.run = call[c].run
      /\ m.prev = call[c].prev /\ m.todo = call[c].todo /\ m.again = call[c].again
  BY <1>1 DEF Call, Steps
<1>3. call' = [call EXCEPT ![c] = m]
  BY DEF Answer
<1>4. call'[c] = m
  BY <1>2, <1>3, OneCall DEF SafeInv
<1> HIDE DEF m
<1>5. CallOK(m)
  BY <1>1, <1>2 DEF CallOK, Holding
<1>6. m.at \in Holding
  BY <1>2 DEF Holding
<1>7. Moves(c)
  BY <1>2, <1>3, <1>5, <1>6, HolderMoves DEF Active
<1> QED
  BY <1>4, <1>7 DEF m

LEMMA SetFailedMoves ==
  ASSUME SafeInv, NEW c \in Callers, call[c].at \in {"delete", "set", "undo"},
         call[c].op \in {"add", "run"}, SetFailed(c), UNCHANGED <<run, status>>
  PROVE  Moves(c) /\ bps' \subseteq Bp /\ startMu' \in Callers \cup {"free"}
<1> USE SafeFacts
<1>1. call[c].at \in Holding /\ run \in 0..MaxRuns /\ bps \subseteq Bp
      /\ startMu = c /\ run' >= run
  BY ConstantFacts DEF Holding, DataOK, LockOf
<1>2. CASE call[c].op = "run"
  BY <1>1, <1>2, DoneMoves DEF SetFailed
<1>3. CASE call[c].op = "add" /\ call[c].again
  <2>1. Answer(c, FALSE, LocsOf(call[c].prev)) /\ startMu' = startMu
        /\ bps' = Debugger(bps)
    BY <1>3 DEF SetFailed
  <2>2. LocsOf(call[c].prev) \in SUBSET Locs
    BY Scopes
  <2>3. Moves(c)
    BY <1>1, <1>3, <2>1, <2>2, AnswerMoves
  <2> QED
    BY <1>1, <2>1, <2>3, Scopes
<1>4. CASE call[c].op = "add" /\ ~ call[c].again
  <2> DEFINE m == [call[c] EXCEPT !.at = "set", !.again = TRUE, !.todo = {}]
  <2>1. call' = [call EXCEPT ![c] = m] /\ UNCHANGED <<bps, startMu>>
    BY <1>4 DEF SetFailed
  <2>2. m \in Call /\ m.at = "set" /\ m.op = "add" /\ m.run = call[c].run /\ m.again
    BY <1>4 DEF Call, Steps
  <2> HIDE DEF m
  <2>3. CallOK(m) /\ m.at \in Holding
    BY <2>2 DEF CallOK, Holding
  <2>4. Moves(c)
    BY <1>1, <1>4, <2>1, <2>2, <2>3, HolderMoves DEF Active
  <2> QED
    BY <1>1, <2>1, <2>4
<1> QED
  BY <1>2, <1>3, <1>4

\* What SAP keeps after a request.
SapOK ==
  /\ sapExt \in [Locs -> 0..MaxIds] /\ sapDbg \subseteq Bp /\ attached \in BOOLEAN
  /\ unheard \subseteq Locs /\ unheardDbg \subseteq Bp

LEMMA SapSteps ==
  ASSUME DataOK
  PROVE  /\ UNCHANGED sap => SapOK'
         /\ LetsGo => SapOK'
         /\ \A b \in Bp, heard \in BOOLEAN : Forgets(b, heard) => SapOK'
<1>1. SapOK
  BY DEF DataOK, SapOK
<1>2. UNCHANGED sap => SapOK'
  BY <1>1 DEF sap, SapOK
<1>3. LetsGo => SapOK'
  BY <1>1 DEF LetsGo, SapOK
<1>4. ASSUME NEW b \in Bp, NEW heard \in BOOLEAN, Forgets(b, heard) PROVE SapOK'
  <2>1. b.loc \in Locs
    BY DEF Bp
  <2>2. sapExt' \in [Locs -> 0..MaxIds]
    BY <1>1, <1>4, <2>1, ConstantFacts DEF Forgets, SapOK
  <2>3. sapDbg' \subseteq Bp /\ attached' \in BOOLEAN /\ unheardDbg' \subseteq Bp
    BY <1>1, <1>4 DEF Forgets, ExternalRequest, SapOK, DataOK
  <2>4. unheard' \subseteq Locs
    BY <1>1, <1>4, <2>1 DEF Forgets, Learns, SapOK
  <2> QED
    BY <2>2, <2>3, <2>4 DEF SapOK
<1> QED
  BY <1>2, <1>3, <1>4

LEMMA SapSetsOK ==
  ASSUME TypeOK, NEW A \in SUBSET Locs, NEW heard \in BOOLEAN, SapSets(A, heard)
  PROVE  SapOK'
<1>1. sapDbg' \subseteq Bp /\ attached' \in BOOLEAN /\ unheardDbg' \subseteq Bp
  BY DEF TypeOK, SapSets, ExternalRequest
<1> QED
  BY <1>1, AfterSetIs DEF SapOK

\* The steps of the reset, of debug_remove_breakpoint and of the cleanup up to
\* the set request.
LEMMA DeletingSafe ==
  ASSUME SafeInv, NEW c \in Callers,
         \/ Refused(c) \/ Lock(c) \/ Delete(c) \/ DeleteFails(c) \/ DeleteLost(c)
         \/ Answered(c)
  PROVE  SafeInv'
<1> USE SafeFacts
<1>1. run \in 0..MaxRuns /\ run >= run /\ bps \subseteq Bp
      /\ (call[c].at \in Holding => startMu = c)
  BY ConstantFacts DEF DataOK, LockOf
<1>2. DataOK /\ SapOK' /\ UNCHANGED <<faults, replaces, run, status, reported>>
        /\ bps' \subseteq Bp /\ startMu' \in Callers \cup {"free"} => DataOK'
  BY DEF DataOK, SapOK
<1>3. CASE Refused(c)
  <2>1. call[c].at \notin Holding /\ Done(c)
        /\ UNCHANGED <<faults, replaces, run, status, bps, startMu, reported, sap>>
    BY <1>3 DEF Refused, Holding, world
  <2>2. Moves(c)
    BY <1>1, <2>1, DoneMoves
  <2> QED
    BY <1>1, <1>2, <2>1, <2>2, SapSteps, MovesKeep DEF DataOK
<1>4. CASE Lock(c)
  <2> DEFINE m == IF call[c].op = "add"
                    THEN [call[c] EXCEPT !.at = "delete", !.prev = External(bps),
                                         !.todo = WithId(External(bps))]
                    ELSE [call[c] EXCEPT !.at = "delete"]
  <2>1. call' = [call EXCEPT ![c] = m] /\ startMu = "free" /\ startMu' = c
        /\ call[c].at = "lock" /\ Active /\ call[c].run = run
        /\ UNCHANGED <<faults, replaces, run, status, bps, reported, sap>>
    BY <1>4 DEF Lock, world
  <2>2. call[c].op \in {"add", "remove"}
    BY <2>1 DEF CallOK
  <2>3. External(bps) \subseteq Bp /\ WithId(External(bps)) \subseteq Bp
        /\ \A b \in WithId(External(bps)) : b.scope = "external"
    BY <1>1 DEF External, WithId
  <2>4. /\ m \in Call /\ m.at = "delete" /\ m.op = call[c].op /\ m.run = call[c].run
        /\ m.again = call[c].again
        /\ (m.op = "remove" => m.prev = call[c].prev /\ m.todo = call[c].todo)
        /\ (m.op = "add" => m.todo = WithId(External(bps)))
    BY <2>2, <2>3 DEF Call, Steps
  <2> HIDE DEF m
  <2>5. CallOK(m)
    BY <2>1, <2>2, <2>3, <2>4 DEF CallOK, Holding
  <2>6. LockOf(c, m, startMu', run', Active')
    BY <2>1, <2>2, <2>4, ConstantFacts DEF LockOf, Holding, Active, DataOK
  <2>7. Moves(c)
    BY <1>1, <2>1, <2>4, <2>5, <2>6, MovesLocked
  <2> QED
    BY <1>1, <1>2, <2>1, <2>7, SapSteps, MovesKeep
<1>5. CASE Delete(c)
  <2>1. PICK b \in call[c].todo :
          /\ Forgets(b, TRUE)
          /\ IF call[c].op = "remove"
               THEN Answer(c, TRUE, {}) /\ bps' = bps \ {b}
               ELSE /\ call' = [call EXCEPT ![c].todo = @ \ {b}]
                    /\ UNCHANGED bps
    BY <1>5 DEF Delete
  <2>2. call[c].at = "delete" /\ call[c].at \in Holding
        /\ UNCHANGED <<faults, replaces, run, status, startMu, reported>>
    BY <1>5 DEF Delete, world, Holding
  <2>3. SapOK' /\ bps' \subseteq Bp /\ b \in Bp
    BY <1>1, <2>1, SapSteps
  <2>4. CASE call[c].op = "remove"
    <3>1. Moves(c)
      BY <2>1, <2>2, <2>4, AnswerMoves
    <3> QED
      BY <1>1, <1>2, <2>2, <2>3, <3>1, MovesKeep
  <2>5. CASE call[c].op # "remove"
    <3> DEFINE m == [call[c] EXCEPT !.todo = @ \ {b}]
    <3>1. call' = [call EXCEPT ![c] = m]
      BY <2>1, <2>5 DEF SafeInv, TypeOK
    <3>2. m \in Call /\ m.at = call[c].at /\ m.op = call[c].op /\ m.run = call[c].run
          /\ m.todo = call[c].todo \ {b} /\ m.prev = call[c].prev
          /\ m.again = call[c].again
      BY DEF Call
    <3> HIDE DEF m
    <3>3. CallOK(m) /\ m.at \in Holding
      BY <2>2, <3>2 DEF CallOK, Holding
    <3>4. Moves(c)
      BY <2>2, <3>1, <3>2, <3>3, HolderMoves DEF Active
    <3> QED
      BY <1>1, <1>2, <2>2, <2>3, <3>4, MovesKeep
  <2> QED
    BY <2>4, <2>5
<1>6. CASE DeleteFails(c) \/ DeleteLost(c)
  <2> DEFINE gone == WithId(call[c].prev) \ call[c].todo
  <2>0. PICK b \in call[c].todo : DeleteFailed(c, b) /\ (UNCHANGED sap \/ Forgets(b, FALSE))
    BY <1>6 DEF DeleteFails, DeleteLost
  <2>1. IF call[c].op \in {"run", "stop"}
          THEN /\ call' = [call EXCEPT ![c].todo = @ \ {b},
                                       ![c].failed = @ \cup {b}]
               /\ UNCHANGED bps
          ELSE Answer(c, FALSE, LocsOf(gone)) /\ bps' = bps \ gone
    BY <2>0 DEF DeleteFailed
  <2>2. call[c].at = "delete" /\ call[c].at \in Holding
        /\ UNCHANGED <<faults, replaces, run, status, startMu, reported>>
    BY <1>6 DEF DeleteFails, DeleteLost, world, Holding
  <2>3. LocsOf(gone) \in SUBSET Locs
    <3>1. gone \in SUBSET Bp
      BY Scopes
    <3> QED
      BY <3>1, Scopes
  <2> HIDE DEF gone
  <2>4. SapOK' /\ bps' \subseteq Bp /\ b \in Bp
    BY <1>1, <2>0, <2>1, SapSteps
  <2>5. CASE call[c].op \notin {"run", "stop"}
    <3>1. Moves(c)
      BY <2>1, <2>2, <2>3, <2>5, AnswerMoves
    <3> QED
      BY <1>1, <1>2, <2>2, <2>4, <3>1, MovesKeep
  <2>6. CASE call[c].op \in {"run", "stop"}
    <3> DEFINE m == [call[c] EXCEPT !.todo = @ \ {b}, !.failed = @ \cup {b}]
    <3>1. call' = [call EXCEPT ![c] = m]
      BY <2>1, <2>6 DEF SafeInv, TypeOK
    <3>2. m \in Call /\ m.at = call[c].at /\ m.op = call[c].op /\ m.run = call[c].run
          /\ m.todo = call[c].todo \ {b} /\ m.prev = call[c].prev
          /\ m.again = call[c].again
      BY <2>4 DEF Call
    <3> HIDE DEF m
    <3>3. CallOK(m) /\ m.at \in Holding
      BY <2>2, <3>2 DEF CallOK, Holding
    <3>4. Moves(c)
      BY <2>2, <3>1, <3>2, <3>3, HolderMoves DEF Active
    <3> QED
      BY <1>1, <1>2, <2>2, <2>4, <3>4, MovesKeep
  <2> QED
    BY <2>5, <2>6
<1>7. CASE Answered(c)
  <2>1. call[c].at \in Holding /\ Done(c) /\ startMu' = "free"
        /\ UNCHANGED <<faults, replaces, run, status, bps, reported, sap>>
    BY <1>7 DEF Answered, Holding, world
  <2>2. Moves(c)
    BY <1>1, <2>1, DoneMoves
  <2> QED
    BY <1>1, <1>2, <2>1, <2>2, SapSteps, MovesKeep
<1> QED
  BY <1>3, <1>4, <1>5, <1>6, <1>7

\* What a call at its set request holds.
LEMMA SettingIs ==
  ASSUME SafeInv, NEW c \in Callers, Setting(c)
  PROVE  /\ call[c].at \in {"delete", "set"} /\ call[c].op \in {"add", "run"}
         /\ call[c].at \in Holding /\ startMu = c
         /\ (call[c].op = "run" => call[c].at = "set")
BY SafeFacts DEF Setting, CallOK, Holding, LockOf

\* The list that a set request without a rejection leads to.
LEMMA SetAllIs ==
  ASSUME TypeOK, NEW c \in Callers, SetAll(c)
  PROVE  \E S \in SUBSET Bp :
           /\ SapOK'
           /\ \A b \in S : b.scope = "external"
           /\ LocsOf(S) = Request(c)
           /\ \A a, b \in S : a.loc = b.loc => a = b
           /\ \A b \in S : sapExt'[b.loc] # 0 /\ b.id \in {0, sapExt'[b.loc]}
           /\ "anonymous" \notin faults => \A b \in S : b.id # 0
           /\ \A l \in Locs \ Request(c) : sapExt'[l] # 0 =>
                /\ sapExt'[l] = sapExt[l]
                /\ l \in unheard => l \in unheard'
                /\ l \in reported => l \in reported'
           /\ reported' \subseteq Locs
           /\ IF call[c].op = "run"
                THEN /\ bps' = S
                     /\ run' = run + 1 /\ status' = "listening"
                     /\ startMu' = "free" /\ Done(c)
                ELSE /\ bps' = S \cup Debugger(bps)
                     /\ Answer(c, ~ call[c].again, {})
                     /\ UNCHANGED <<run, status, startMu>>
<1>1. PICK N \in Anonymous(Request(c)) :
        IF call[c].op = "run"
          THEN /\ bps' = SetBy(Request(c), N)
               /\ run' = run + 1 /\ status' = "listening"
               /\ startMu' = "free" /\ Done(c)
          ELSE /\ bps' = SetBy(Request(c), N) \cup Debugger(bps)
               /\ Answer(c, ~ call[c].again, {})
               /\ UNCHANGED <<run, status, startMu>>
  BY DEF SetAll
<1> DEFINE S == SetBy(Request(c), N)
<1>2. Request(c) \in SUBSET Locs
  BY RequestType
<1>3. IF call[c].op = "run"
        THEN /\ bps' = S
             /\ run' = run + 1 /\ status' = "listening"
             /\ startMu' = "free" /\ Done(c)
        ELSE /\ bps' = S \cup Debugger(bps)
             /\ Answer(c, ~ call[c].again, {})
             /\ UNCHANGED <<run, status, startMu>>
  BY <1>1
<1>6. reported' = IF replaces /\ Request(c) # {} THEN {} ELSE reported \ Request(c)
  BY DEF SetAll
<1>7. reported' \subseteq Locs
  BY <1>6 DEF TypeOK
<1>4. CASE NothingToSet(c)
  <2>1. S = {} /\ Request(c) = {} /\ UNCHANGED sap
    BY <1>4 DEF NothingToSet, SetBy
  <2>2. SapOK'
    BY <2>1, SapSteps DEF DataOK, TypeOK
  <2>3. LocsOf({}) = {} /\ {} \in SUBSET Bp /\ sapExt' = sapExt /\ unheard' = unheard
        /\ reported' = reported
    BY <1>6, <2>1 DEF LocsOf, sap
  <2> HIDE DEF S
  <2> QED
    BY <1>3, <1>7, <2>1, <2>2, <2>3
<1>5. CASE Request(c) # {} /\ SapSets(Request(c), TRUE)
  <2>1. /\ sapExt' = AfterSet(Request(c)) /\ sapExt' \in [Locs -> 0..MaxIds]
        /\ \A l \in Request(c) : sapExt'[l] # 0
        /\ \A l \in Locs \ Request(c) : sapExt'[l] = IF replaces THEN 0 ELSE sapExt[l]
        /\ \A l \in Locs \ Request(c) :
             sapExt'[l] = sapExt[l] /\ l \in unheard => l \in unheard'
    BY <1>2, <1>5, AfterSetIs
  <2>7. \A l \in Locs \ Request(c) : sapExt'[l] # 0 =>
          /\ sapExt'[l] = sapExt[l]
          /\ l \in unheard => l \in unheard'
          /\ l \in reported => l \in reported'
    BY <1>5, <1>6, <2>1
  <2>2. /\ S \subseteq Bp
        /\ \A b \in S : b.scope = "external" /\ b.loc \in Request(c)
                         /\ b.id \in {0, AfterSet(Request(c))[b.loc]}
        /\ \A b \in S : b.loc \notin N => b.id = AfterSet(Request(c))[b.loc]
        /\ \A a, b \in S : a.loc = b.loc => a = b
        /\ LocsOf(S) = Request(c)
    BY <1>2, <2>1, SetByIs
  <2>3. SapOK'
    BY <1>2, <1>5, SapSetsOK
  <2>4. "anonymous" \notin faults => N = {}
    BY DEF Anonymous
  <2> HIDE DEF S
  <2>5. "anonymous" \notin faults => \A b \in S : b.id # 0
    BY <2>1, <2>2, <2>4
  <2>6. \A b \in S : sapExt'[b.loc] # 0 /\ b.id \in {0, sapExt'[b.loc]}
    BY <2>1, <2>2
  <2> QED
    BY <1>3, <1>7, <2>1, <2>2, <2>3, <2>5, <2>6, <2>7
<1> QED
  BY <1>4, <1>5 DEF SetAll

\* The set requests, and what follows a failed one.
LEMMA SettingSafe ==
  ASSUME SafeInv, NEW c \in Callers,
         \/ SetAll(c) \/ SetRefused(c) \/ SetLost(c) \/ SetPartly(c) \/ Undo(c)
         \/ Undone(c) \/ CleanedUp(c)
  PROVE  SafeInv'
<1> USE SafeFacts
<1>1. TypeOK /\ run \in 0..MaxRuns /\ run >= run /\ bps \subseteq Bp
      /\ (call[c].at \in Holding => startMu = c)
  BY ConstantFacts DEF DataOK, LockOf, SafeInv
<1>2. DataOK /\ SapOK' /\ UNCHANGED <<faults, replaces, run, status, reported>>
        /\ bps' \subseteq Bp /\ startMu' \in Callers \cup {"free"} => DataOK'
  BY DEF DataOK, SapOK
<1>3. CASE SetAll(c)
  <2>1. PICK S \in SUBSET Bp :
          /\ SapOK' /\ reported' \subseteq Locs
          /\ IF call[c].op = "run"
               THEN /\ bps' = S
                    /\ run' = run + 1 /\ status' = "listening"
                    /\ startMu' = "free" /\ Done(c)
               ELSE /\ bps' = S \cup Debugger(bps)
                    /\ Answer(c, ~ call[c].again, {})
                    /\ UNCHANGED <<run, status, startMu>>
    BY <1>1, <1>3, SetAllIs
  <2>2. Setting(c) /\ UNCHANGED <<faults, replaces>>
    BY <1>3 DEF SetAll, world
  <2>3. call[c].at \in Holding /\ startMu = c
    BY <2>2, SettingIs
  <2>4. CASE call[c].op = "run"
    <3>1. run < MaxRuns
      BY <2>4 DEF LockOf
    <3>2. run' \in 0..MaxRuns /\ run' >= run
      BY <1>1, <2>1, <2>4, <3>1, ConstantFacts
    <3>3. Moves(c)
      BY <2>1, <2>3, <2>4, <3>2, DoneMoves
    <3>4. DataOK'
      BY <2>1, <2>2, <2>4, <3>2 DEF DataOK, SapOK, Statuses
    <3> QED
      BY <3>3, <3>4, MovesKeep
  <2>5. CASE call[c].op # "run"
    <3>1. Moves(c)
      <4>1. {} \in SUBSET Locs /\ (~ call[c].again) \in BOOLEAN
        OBVIOUS
      <4> QED
        BY <2>1, <2>3, <2>5, <4>1, AnswerMoves
    <3>2. bps' \subseteq Bp
      BY <1>1, <2>1, <2>5, Scopes
    <3>3. DataOK'
      BY <2>1, <2>2, <2>5, <3>2 DEF DataOK, SapOK
    <3> QED
      BY <3>1, <3>3, MovesKeep
  <2> QED
    BY <2>4, <2>5
<1>4. CASE SetRefused(c) \/ SetLost(c) \/ Undone(c)
  <2>1. SetFailed(c) /\ UNCHANGED <<faults, replaces, run, status, reported>>
    BY <1>4 DEF SetRefused, SetLost, Undone, world
  <2>2. call[c].at \in {"delete", "set", "undo"} /\ call[c].op \in {"add", "run"}
    BY <1>4, SettingIs DEF SetRefused, SetLost, Undone, CallOK
  <2>3. Moves(c) /\ bps' \subseteq Bp /\ startMu' \in Callers \cup {"free"}
    BY <2>1, <2>2, SetFailedMoves
  <2>4. SapOK'
    <3>1. CASE UNCHANGED sap
      BY <3>1, SapSteps
    <3>2. CASE SetLost(c)
      <4>1. PICK A \in SUBSET Request(c) : SapSets(A, FALSE)
        BY <3>2 DEF SetLost
      <4>2. A \in SUBSET Locs
        BY <1>1, RequestType
      <4> QED
        BY <1>1, <4>1, <4>2, SapSetsOK
    <3> QED
      BY <1>4, <3>1, <3>2 DEF SetRefused, Undone
  <2> QED
    BY <1>2, <2>1, <2>3, <2>4, MovesKeep
<1>5. CASE SetPartly(c)
  <2> PICK A \in SUBSET Request(c) : \E N \in Anonymous(A) :
          /\ SapSets(A, TRUE)
          /\ call' = [call EXCEPT ![c] =
                         [call[c] EXCEPT !.at = "undo", !.todo = WithId(SetBy(A, N))]]
    BY <1>5 DEF SetPartly
  <2>1. PICK N \in Anonymous(A) :
          /\ SapSets(A, TRUE)
          /\ call' = [call EXCEPT ![c] =
                         [call[c] EXCEPT !.at = "undo", !.todo = WithId(SetBy(A, N))]]
    OBVIOUS
  <2>2. Setting(c) /\ UNCHANGED <<faults, replaces, run, status, bps, startMu, reported>>
    BY <1>5 DEF SetPartly, world
  <2>3. A \in SUBSET Locs
    BY <1>1, RequestType
  <2>4. SapOK' /\ AfterSet(A) \in [Locs -> 0..MaxIds]
    BY <1>1, <2>1, <2>3, SapSetsOK, AfterSetIs
  <2>5. SetBy(A, N) \subseteq Bp /\ \A b \in SetBy(A, N) : b.scope = "external"
    BY <2>3, <2>4, SetByIs
  <2>6. WithId(SetBy(A, N)) \subseteq Bp
        /\ \A b \in WithId(SetBy(A, N)) : b.scope = "external"
    BY <2>5 DEF WithId
  <2> DEFINE m == [call[c] EXCEPT !.at = "undo", !.todo = WithId(SetBy(A, N))]
  <2>7. m \in Call /\ m.at = "undo" /\ m.op = call[c].op /\ m.run = call[c].run
        /\ m.todo = WithId(SetBy(A, N)) /\ m.prev = call[c].prev
        /\ m.again = call[c].again
    BY <2>6 DEF Call, Steps
  <2>8. call' = [call EXCEPT ![c] = m]
    BY <2>1
  <2> HIDE DEF m
  <2>9. call[c].op \in {"add", "run"} /\ call[c].at \in Holding
    BY <2>2, SettingIs
  <2>10. CallOK(m) /\ m.at \in Holding
    BY <2>6, <2>7, <2>9 DEF CallOK, Holding
  <2>11. Moves(c)
    BY <2>2, <2>7, <2>8, <2>9, <2>10, HolderMoves DEF Active
  <2> QED
    BY <1>1, <1>2, <2>2, <2>4, <2>11, MovesKeep DEF DataOK
<1>6. CASE Undo(c)
  <2>1. PICK b \in call[c].todo :
          /\ call' = [call EXCEPT ![c].todo = @ \ {b}]
          /\ \/ Forgets(b, TRUE)
             \/ MayFail(b) /\ UNCHANGED sap
    BY <1>6 DEF Undo
  <2>2. call[c].at \in Holding /\ call[c].at = "undo"
        /\ UNCHANGED <<faults, replaces, run, status, bps, startMu, reported>>
    BY <1>6 DEF Undo, world, Holding
  <2>3. SapOK'
    BY <2>1, SapSteps
  <2> DEFINE m == [call[c] EXCEPT !.todo = @ \ {b}]
  <2>4. call' = [call EXCEPT ![c] = m]
    BY <1>1, <2>1 DEF TypeOK
  <2>5. m \in Call /\ m.at = call[c].at /\ m.op = call[c].op /\ m.run = call[c].run
        /\ m.todo = call[c].todo \ {b} /\ m.prev = call[c].prev
        /\ m.again = call[c].again
    BY DEF Call
  <2> HIDE DEF m
  <2>6. CallOK(m) /\ m.at \in Holding
    BY <2>2, <2>5 DEF CallOK, Holding
  <2>7. Moves(c)
    BY <2>2, <2>4, <2>5, <2>6, HolderMoves DEF Active
  <2> QED
    BY <1>1, <1>2, <2>2, <2>3, <2>7, MovesKeep DEF DataOK
<1>7. CASE CleanedUp(c)
  <2>1. call[c].at = "delete" /\ call[c].at \in Holding /\ call[c].op \in {"run", "stop"}
        /\ status' = "stopped" /\ reported' = reported \cup LocsOf(call[c].failed)
        /\ UNCHANGED <<faults, replaces, run, bps>>
    BY <1>7 DEF CleanedUp, world, Holding
  <2>2. SapOK' /\ reported' \subseteq Locs /\ ~ Active'
    BY <1>7, <2>1, SapSteps, Scopes DEF CleanedUp, DataOK, Active
  <2>3. DataOK /\ SapOK' /\ startMu' \in Callers \cup {"free"} => DataOK'
    BY <2>1, <2>2 DEF DataOK, SapOK, Statuses
  <2>4. CASE call[c].op = "stop"
    <3>1. Done(c) /\ startMu' = "free"
      BY <1>7, <2>4 DEF CleanedUp
    <3>2. Moves(c)
      BY <1>1, <2>1, <3>1, DoneMoves
    <3> QED
      BY <2>2, <2>3, <3>1, <3>2, MovesKeep
  <2>5. CASE call[c].op # "stop"
    <3> DEFINE m == [call[c] EXCEPT !.at = "set", !.failed = {}, !.halted = FALSE]
    <3>1. call' = [call EXCEPT ![c] = m] /\ UNCHANGED startMu
      BY <1>7, <2>5 DEF CleanedUp
    <3>2. m \in Call /\ m.at = "set" /\ m.op = "run" /\ m.run = call[c].run
          /\ m.todo = call[c].todo /\ m.prev = call[c].prev
          /\ m.again = call[c].again
      BY <2>1, <2>5 DEF Call, Steps
    <3> HIDE DEF m
    <3>3. CallOK(m) /\ m.at \in Holding
      BY <2>1, <2>5, <3>2 DEF CallOK, Holding
    <3>4. ~ Active
      BY <2>1 DEF LockOf
    <3>5. Moves(c)
      BY <2>1, <2>2, <2>5, <3>1, <3>2, <3>3, <3>4, HolderMoves
    <3> QED
      BY <2>2, <2>3, <3>1, <3>5, MovesKeep DEF DataOK
  <2> QED
    BY <2>4, <2>5
<1> QED
  BY <1>3, <1>4, <1>5, <1>6, <1>7

LEMMA InitSafe == Init => SafeInv
<1> SUFFICES ASSUME Init PROVE SafeInv
  OBVIOUS
<1>1. \A c \in Callers : call[c] = NoCall
  BY DEF Init
<1>2. TypeOK
  BY NoCallOK, ConstantFacts DEF Init, TypeOK, Statuses
<1>3. CallsOK
  BY <1>1, NoCallOK DEF CallsOK
<1>4. startMu \notin Callers /\ run = 0
  BY ConstantFacts DEF Init
<1>5. NoCall.at = "idle" /\ NoCall.run = 0 /\ NoCall.op = ""
  BY DEF NoCall
<1>6. ASSUME NEW c \in Callers PROVE LockOf(c, NoCall, startMu, run, Active)
  <2>1. startMu # c /\ NoCall.at \notin Holding /\ NoCall.op \notin {"run"}
    BY <1>4, <1>5 DEF Holding
  <2>2. NoCall.run <= run
    <3>1. 0 <= 0
      OBVIOUS
    <3> QED
      BY <1>4, <1>5, <3>1, Zenon
  <2> QED
    BY <2>1, <2>2 DEF LockOf
<1>7. LockInv
  BY <1>1, <1>6 DEF LockInv
<1> QED
  BY <1>2, <1>3, <1>7 DEF SafeInv

LEMMA StepSafe == SafeInv /\ [Next]_vars => SafeInv'
<1> SUFFICES ASSUME SafeInv, [Next]_vars PROVE SafeInv'
  OBVIOUS
<1>1. CASE StatusStep
  BY <1>1, StatusSafe
<1>2. ASSUME NEW c \in Callers, Begins(c) PROVE SafeInv'
  BY <1>2, BeginsSafe
<1>3. ASSUME NEW c \in Callers, DebuggerStep(c) PROVE SafeInv'
  BY <1>3, DebuggerSafe
<1>4. ASSUME NEW c \in Callers, ExternalStep(c) PROVE SafeInv'
  BY <1>4, DeletingSafe, SettingSafe DEF ExternalStep
<1>5. CASE UNCHANGED vars
  BY <1>5 DEF SafeInv, TypeOK, CallsOK, LockInv, LockOf, Active, vars, world, sap
<1> QED
  BY <1>1, <1>2, <1>3, <1>4, <1>5 DEF Next

(* Every list, call and answer is of its type, whatever the faults: an ID    *)
(* that SAP gives a location is in the bounds, and a run that debug_run     *)
(* starts is one of MaxRuns.                                               *)
THEOREM BreakpointTypes == Spec => []TypeOK
<1>1. SafeInv => TypeOK
  BY DEF SafeInv
<1> QED
  BY <1>1, InitSafe, StepSafe, PTL DEF Spec

-----------------------------------------------------------------------------
(* The external list is truthful.                                          *)

\* Location and ID of a listed breakpoint, as SAP has them, but where the answer
\* was lost.
IsSet(b, ext, un) ==
  b.loc \in un \/ (ext[b.loc] # 0 /\ b.id \in {0, ext[b.loc]})
OnePerLoc(L)  == \A a, b \in L : a.loc = b.loc => a = b

\* A reset: the list is the one it began with.  What it has deleted is not
\* set, and never again under the same ID; until it sends the list, the rest
\* of it is truthful.  Locations un are exempt, but no ID comes back there.
Gone(k, b) == b.id # 0 /\ (k.at = "delete" => b \notin k.todo)
ResetOK(k, L, ext, un) ==
  /\ k.prev = L
  /\ \A b \in L : Gone(k, b) => ext[b.loc] # b.id
  /\ k.at = "delete" =>
       /\ \A b \in k.todo : b \in L /\ b.id # 0
       /\ \A b \in L : IF Gone(k, b) THEN ext[b.loc] = 0 \/ b.loc \in un
                                   ELSE IsSet(b, ext, un)

\* What debug_remove_breakpoint is about to delete is listed, unless it is gone.
RemoveOK(k, L, ext, newest, active) ==
  k.op = "remove" /\ k.at \in {"lock", "delete"} /\ k.run = newest /\ active
    => \A b \in k.todo : ext[b.loc] = b.id => b \in L

TruthInv ==
  /\ OnePerLoc(External(bps))
  /\ \A c \in Callers : Resets(call[c]) => ResetOK(call[c], External(bps), sapExt, unheard)
  /\ Active /\ (\A c \in Callers : ~ Resets(call[c]))
       => \A b \in External(bps) : IsSet(b, sapExt, unheard)
  /\ \A c \in Callers : RemoveOK(call[c], External(bps), sapExt, run, Active)

\* Nobody else is at the external list.
LEMMA HolderAlone ==
  ASSUME SafeInv, NEW c \in Callers, startMu \in {c, "free"},
         NEW d \in Callers, d # c
  PROVE  call[d].at \notin Holding /\ ~ Resets(call[d])
BY SafeFacts, ConstantFacts DEF LockOf, Resets, Holding

LEMMA NotResetting ==
  /\ ~ Resets(NoCall)
  /\ \A k : k.at \notin Holding => ~ Resets(k)
  /\ \A k : k.at = "answer" => ~ Resets(k)
BY DEF Resets, NoCall, Holding

\* A step that leaves the external list, SAP's and the run as they are.
LEMMA TruthFrame ==
  ASSUME SafeInv, TruthInv, SafeInv', NEW c \in Callers,
         \A d \in Callers : d # c => call'[d] = call[d],
         UNCHANGED <<sapExt, unheard, run>>, Active' <=> Active,
         External(bps') = External(bps),
         ~ Resets(call[c]), ~ Resets(call'[c]),
         RemoveOK(call'[c], External(bps), sapExt, run, Active)
  PROVE  TruthInv'
<1>1. \A d \in Callers : Resets(call'[d]) => ResetOK(call'[d], External(bps'), sapExt', unheard')
  BY DEF TruthInv
<1>2. (\A d \in Callers : ~ Resets(call'[d])) => \A d \in Callers : ~ Resets(call[d])
  OBVIOUS
<1>3. Active' /\ (\A d \in Callers : ~ Resets(call'[d]))
        => \A b \in External(bps') : IsSet(b, sapExt', unheard')
  BY <1>2 DEF TruthInv
<1>4. \A d \in Callers : RemoveOK(call'[d], External(bps'), sapExt', run', Active')
  BY DEF TruthInv, RemoveOK
<1>5. OnePerLoc(External(bps'))
  BY DEF TruthInv
<1> QED
  BY <1>1, <1>3, <1>4, <1>5 DEF TruthInv

\* A step of the holder, or of the caller that takes the lock.
LEMMA TruthHeld ==
  ASSUME SafeInv, NEW c \in Callers, startMu \in {c, "free"},
         \A d \in Callers : d # c => call'[d] = call[d],
         OnePerLoc(External(bps')),
         Resets(call'[c]) => ResetOK(call'[c], External(bps'), sapExt', unheard'),
         Active' /\ ~ Resets(call'[c]) => \A b \in External(bps') : IsSet(b, sapExt', unheard'),
         \A d \in Callers : RemoveOK(call'[d], External(bps'), sapExt', run', Active')
  PROVE  TruthInv'
<1>1. \A d \in Callers : d # c => ~ Resets(call'[d])
  BY HolderAlone
<1>2. \A d \in Callers : Resets(call'[d]) => ResetOK(call'[d], External(bps'), sapExt', unheard')
  BY <1>1
<1>3. Active' /\ (\A d \in Callers : ~ Resets(call'[d]))
        => \A b \in External(bps') : IsSet(b, sapExt', unheard')
  OBVIOUS
<1> QED
  BY <1>2, <1>3 DEF TruthInv

\* Nothing is promised of the list of a run that is not active.
LEMMA TruthInactive ==
  ASSUME SafeInv, TruthInv, NEW c \in Callers, startMu \in {c, "free"},
         \A d \in Callers : d # c => call'[d] = call[d],
         ~ Active', OnePerLoc(External(bps')), ~ Resets(call'[c])
  PROVE  TruthInv'
<1>1. \A d \in Callers : RemoveOK(call'[d], External(bps'), sapExt', run', Active')
  BY DEF RemoveOK
<1> QED
  BY <1>1, TruthHeld

\* The other calls' breakpoints, when SAP only forgets and the list only loses
\* what is not set.
LEMMA RemovesKept ==
  ASSUME SafeInv, TruthInv, NEW d \in Callers, UNCHANGED run, Active' => Active,
         \A b \in Bp : b.id # 0 /\ sapExt'[b.loc] = b.id
           => sapExt[b.loc] = b.id /\ (b \in External(bps) => b \in External(bps'))
  PROVE  RemoveOK(call[d], External(bps'), sapExt', run', Active')
<1>1. RemoveOK(call[d], External(bps), sapExt, run, Active)
  BY DEF TruthInv
<1>2. call[d].todo \subseteq Bp /\ (call[d].op = "remove" => \A b \in call[d].todo : b.id # 0)
  BY SafeFacts DEF CallOK
<1> QED
  BY <1>1, <1>2 DEF RemoveOK

\* An ID that a call remembers and that is not set is not given again.
LEMMA NoReturn ==
  ASSUME SafeInv, NEW A \in SUBSET Locs, NEW heard \in BOOLEAN, SapSets(A, heard),
         NEW d \in Callers,
         NEW b \in call[d].todo \cup call[d].prev, b.scope = "external", b.id # 0,
         sapExt[b.loc] # b.id
  PROVE  sapExt'[b.loc] # b.id
<1> SUFFICES ASSUME sapExt'[b.loc] = b.id PROVE FALSE
  OBVIOUS
<1>1. b \in Bp /\ b.loc \in Locs
  BY SafeFacts DEF Bp
<1>2. b = [loc |-> b.loc, id |-> b.id, scope |-> "external"]
  BY <1>1 DEF Bp
<1>3. b \in Known
  BY DEF Known
<1>4. b.id \notin Free(b.loc, "external")
  BY <1>2, <1>3 DEF Free
<1>5. TypeOK
  BY DEF SafeInv
<1> QED
  BY <1>1, <1>4, <1>5, AfterSetIs

\* Who is at the external list.
LEMMA HolderIs ==
  ASSUME SafeInv, NEW c \in Callers, call[c].at \in Holding
  PROVE  /\ startMu = c
         /\ call[c].op \in {"add", "remove"} => Active /\ call[c].run = run
         /\ call[c].op \in {"run", "stop"} => ~ Active
         /\ call[c].op \in {"add", "remove", "run", "stop"}
BY SafeFacts DEF LockOf, CallOK, Ops

\* The steps that leave the external list alone.
LEMMA TruthAside ==
  ASSUME SafeInv, TruthInv, SafeInv', NEW c \in Callers,
         Begins(c) \/ DebuggerStep(c) \/ Refused(c) \/ Answered(c)
  PROVE  TruthInv'
<1> USE SafeFacts
<1>1. ASSUME Moves(c) PROVE \A d \in Callers : d # c => call'[d] = call[d]
  BY <1>1, OneCall DEF Moves, SafeInv
<1>2. ASSUME NEW l \in Locs, AddBegins(c, l) PROVE TruthInv'
  <2>1. /\ UNCHANGED <<bps, sapExt, unheard, run, status>> /\ call[c].at \notin Holding
        /\ \A d \in Callers : d # c => call'[d] = call[d]
        /\ call'[c].op = "add" /\ call'[c].at \notin Holding
    BY <1>2 DEF AddBegins, SafeInv, TypeOK, NoCall, Holding, sap, Idle
  <2>2. RemoveOK(call'[c], External(bps), sapExt, run, Active)
    BY <2>1 DEF RemoveOK
  <2> QED
    BY <2>1, <2>2, NotResetting, TruthFrame DEF Active
<1>3. ASSUME NEW b \in bps, RemoveBegins(c, b) PROVE TruthInv'
  <2>1. /\ UNCHANGED <<bps, sapExt, unheard, run, status>> /\ call[c].at \notin Holding
        /\ \A d \in Callers : d # c => call'[d] = call[d]
        /\ call'[c].at \notin Holding /\ call'[c].todo = {b}
        /\ call'[c].at = IF b.scope = "debugger" THEN "admit" ELSE "lock"
    BY <1>3 DEF RemoveBegins, SafeInv, TypeOK, NoCall, Holding, sap, Idle
  <2>2. b.scope # "debugger" => b \in External(bps)
    BY DEF External, DataOK, Bp
  <2>3. RemoveOK(call'[c], External(bps), sapExt, run, Active)
    BY <2>1, <2>2 DEF RemoveOK
  <2> QED
    BY <2>1, <2>3, NotResetting, TruthFrame DEF Active
<1>4. ASSUME NEW op \in {"run", "stop"}, NEW L \in SUBSET Locs, LaunchBegins(c, op, L)
      PROVE  TruthInv'
  <2>1. /\ startMu = "free" /\ bps' = bps /\ ~ Active'
        /\ \A d \in Callers : d # c => call'[d] = call[d]
    BY <1>4 DEF LaunchBegins, Active, SafeInv, TypeOK
  <2>2. call'[c].op = op
    BY <1>4 DEF LaunchBegins, SafeInv, TypeOK, NoCall
  <2>3. OnePerLoc(External(bps')) /\ ~ Resets(call'[c])
    BY <2>1, <2>2 DEF TruthInv, Resets
  <2> QED
    BY <2>1, <2>3, TruthInactive
<1>5. CASE DebuggerStep(c)
  <2>1. /\ Moves(c) /\ UNCHANGED <<run, status, sapExt, unheard>>
        /\ call[c].at \notin Holding
        /\ call'[c].at \in {"idle", "debugger", "store"}
        /\ External(bps') = External(bps)
    BY <1>5, DebuggerSafe DEF Holding
  <2>2. call'[c].at \notin Holding /\ RemoveOK(call'[c], External(bps), sapExt, run, Active)
    BY <2>1 DEF RemoveOK, Holding
  <2> QED
    BY <1>1, <2>1, <2>2, NotResetting, TruthFrame DEF Active
<1>6. CASE Refused(c) \/ Answered(c)
  <2>1. /\ UNCHANGED <<bps, sapExt, unheard, run, status>> /\ call'[c] = NoCall
        /\ call[c].at \in {"lock", "answer"}
        /\ \A d \in Callers : d # c => call'[d] = call[d]
    BY <1>6 DEF Refused, Answered, Done, SafeInv, TypeOK, sap
  <2>2. RemoveOK(call'[c], External(bps), sapExt, run, Active)
    <3>1. NoCall.op = ""
      BY DEF NoCall
    <3> QED
      BY <2>1, <3>1 DEF RemoveOK
  <2>3. ~ Resets(call[c]) /\ ~ Resets(call'[c])
    BY <2>1, NotResetting DEF Resets
  <2> QED
    BY <2>1, <2>2, <2>3, TruthFrame DEF Active
<1> QED
  BY <1>2, <1>3, <1>4, <1>5, <1>6 DEF Begins

\* SAP forgets a breakpoint.
LEMMA ForgetsIs ==
  ASSUME TypeOK, NEW b \in Bp, b.id # 0, NEW heard \in BOOLEAN, Forgets(b, heard)
  PROVE  /\ sapExt'[b.loc] # b.id
         /\ sapExt[b.loc] = b.id => sapExt'[b.loc] = 0
         /\ sapExt[b.loc] # b.id => sapExt' = sapExt /\ unheard' = unheard
         /\ \A l \in Locs : l # b.loc =>
              sapExt'[l] = sapExt[l] /\ (l \in unheard' <=> l \in unheard)
         /\ \A l \in Locs : sapExt'[l] \in {0, sapExt[l]}
         /\ ~ heard => /\ unheard \subseteq unheard'
                       /\ \A l \in Locs : sapExt'[l] = sapExt[l] \/ l \in unheard'
<1>1. b.loc \in Locs
  BY DEF Bp
<1>2. /\ sapExt' = [sapExt EXCEPT ![b.loc] = IF @ = b.id THEN 0 ELSE @]
      /\ unheard' = LET L == IF sapExt[b.loc] = b.id THEN {b.loc} ELSE {}
                     IN  IF heard THEN unheard \ L ELSE unheard \cup L
  BY DEF Forgets, Learns
<1>3. /\ sapExt[b.loc] # b.id => sapExt' = sapExt /\ unheard' = unheard
      /\ \A l \in Locs : l # b.loc =>
           sapExt'[l] = sapExt[l] /\ (l \in unheard' <=> l \in unheard)
  BY <1>1, <1>2 DEF TypeOK
<1>4. sapExt'[b.loc] = IF sapExt[b.loc] = b.id THEN 0 ELSE sapExt[b.loc]
  BY <1>1, <1>2 DEF TypeOK
<1>5. ~ heard => /\ unheard \subseteq unheard'
                 /\ sapExt[b.loc] = b.id => b.loc \in unheard'
  BY <1>2
<1> QED
  BY <1>3, <1>4, <1>5

\* A DELETE whose answer arrives.
LEMMA ForgetsHeard ==
  ASSUME TypeOK, NEW b \in Bp, Forgets(b, TRUE)
  PROVE  \A l \in Locs : sapExt'[l] # 0 =>
           sapExt'[l] = sapExt[l] /\ (l \in unheard => l \in unheard')
<1>1. b.loc \in Locs
  BY DEF Bp
<1>2. /\ sapExt' = [sapExt EXCEPT ![b.loc] = IF @ = b.id THEN 0 ELSE @]
      /\ unheard' = unheard \ IF sapExt[b.loc] = b.id THEN {b.loc} ELSE {}
  BY DEF Forgets, Learns
<1>3. \A l \in Locs : l # b.loc => sapExt'[l] = sapExt[l]
  BY <1>1, <1>2 DEF TypeOK
<1>4. sapExt'[b.loc] = IF sapExt[b.loc] = b.id THEN 0 ELSE sapExt[b.loc]
  BY <1>1, <1>2 DEF TypeOK
<1> QED
  BY <1>2, <1>3, <1>4

\* A DELETE whose answer is an error: SAP may have carried it out.
LEMMA ErrorIs ==
  ASSUME TypeOK, NEW b \in Bp, UNCHANGED sap \/ Forgets(b, FALSE)
  PROVE  /\ unheard \subseteq unheard'
         /\ \A l \in Locs : /\ sapExt'[l] \in {0, sapExt[l]}
                            /\ sapExt'[l] = sapExt[l] \/ l \in unheard'
<1>1. CASE UNCHANGED sap
  BY <1>1 DEF sap
<1>2. CASE Forgets(b, FALSE)
  <2>1. b.loc \in Locs
    BY DEF Bp
  <2>2. /\ sapExt' = [sapExt EXCEPT ![b.loc] = IF @ = b.id THEN 0 ELSE @]
        /\ unheard' = unheard \cup IF sapExt[b.loc] = b.id THEN {b.loc} ELSE {}
    BY <1>2 DEF Forgets, Learns
  <2>3. \A l \in Locs : l # b.loc => sapExt'[l] = sapExt[l]
    BY <2>1, <2>2 DEF TypeOK
  <2>4. sapExt'[b.loc] = IF sapExt[b.loc] = b.id THEN 0 ELSE sapExt[b.loc]
    BY <2>1, <2>2 DEF TypeOK
  <2> QED
    BY <2>2, <2>3, <2>4
<1> QED
  BY <1>1, <1>2

\* The list when the lock is taken, and while breakpoints are deleted.
LEMMA TruthLock ==
  ASSUME SafeInv, TruthInv, NEW c \in Callers, Lock(c)
  PROVE  TruthInv'
<1> USE SafeFacts
<1>1. /\ startMu = "free" /\ UNCHANGED <<run, status, bps, sapExt, unheard>> /\ Active
      /\ call[c].at = "lock" /\ call[c].run = run
      /\ \A d \in Callers : d # c => call'[d] = call[d]
  BY DEF Lock, sap, SafeInv, TypeOK
<1>2. \A d \in Callers : ~ Resets(call[d])
  BY <1>1, HolderAlone, NotResetting DEF Holding
<1>3. OnePerLoc(External(bps)) /\ \A b \in External(bps) : IsSet(b, sapExt, unheard)
  BY <1>1, <1>2 DEF TruthInv
<1>4. call[c].op \in {"add", "remove"}
  BY <1>1 DEF CallOK
<1>5. CASE call[c].op = "add"
  <2>1. call'[c] = [call[c] EXCEPT !.at = "delete", !.prev = External(bps),
                                   !.todo = WithId(External(bps))]
    BY <1>5 DEF Lock, SafeInv, TypeOK
  <2>2. call'[c].at = "delete" /\ call'[c].prev = External(bps) /\ call'[c].op = "add"
        /\ call'[c].todo = WithId(External(bps))
    BY <1>5, <2>1 DEF Call
  <2>3. \A b \in External(bps) : ~ Gone(call'[c], b)
    BY <2>2 DEF Gone, WithId
  <2>4. ResetOK(call'[c], External(bps), sapExt, unheard)
    BY <1>3, <2>2, <2>3 DEF ResetOK, WithId
  <2>5. \A d \in Callers : RemoveOK(call'[d], External(bps), sapExt, run, Active)
    BY <1>1, <2>2 DEF TruthInv, RemoveOK
  <2> QED
    BY <1>1, <1>3, <2>2, <2>4, <2>5, TruthHeld DEF Resets, Active
<1>6. CASE call[c].op = "remove"
  <2>1. call'[c] = [call[c] EXCEPT !.at = "delete"]
    BY <1>6 DEF Lock, SafeInv, TypeOK
  <2>2. call'[c].at = "delete" /\ call'[c].todo = call[c].todo /\ call'[c].op = "remove"
        /\ call'[c].run = call[c].run
    BY <1>6, <2>1 DEF Call
  <2>3. \A d \in Callers : RemoveOK(call'[d], External(bps), sapExt, run, Active)
    BY <1>1, <1>6, <2>2 DEF TruthInv, RemoveOK
  <2>4. ~ Resets(call'[c])
    BY <2>2 DEF Resets
  <2> QED
    BY <1>1, <1>3, <2>3, <2>4, TruthHeld DEF Active
<1> QED
  BY <1>4, <1>5, <1>6

LEMMA TruthDelete ==
  ASSUME SafeInv, TruthInv, NEW c \in Callers, Delete(c)
  PROVE  TruthInv'
<1> USE SafeFacts
<1>1. PICK b \in call[c].todo :
        /\ Forgets(b, TRUE)
        /\ IF call[c].op = "remove"
             THEN Answer(c, TRUE, {}) /\ bps' = bps \ {b}
             ELSE /\ call' = [call EXCEPT ![c].todo = @ \ {b}]
                  /\ UNCHANGED bps
  BY DEF Delete
<1>2. /\ UNCHANGED <<run, status>> /\ call[c].at = "delete" /\ call[c].at \in Holding
      /\ \A d \in Callers : d # c => call'[d] = call[d]
      /\ b \in Bp /\ b.scope = "external" /\ TypeOK
  BY <1>1 DEF Delete, Holding, Answer, SafeInv, TypeOK, CallOK
<1>3. startMu = c /\ OnePerLoc(External(bps)) /\ (Active' <=> Active)
      /\ RemoveOK(call[c], External(bps), sapExt, run, Active)
  BY <1>2, HolderIs DEF TruthInv, Active
<1>4. CASE call[c].op = "remove"
  <2>1. b.id # 0 /\ Active /\ call[c].run = run /\ ~ Resets(call[c])
    BY <1>2, <1>4, HolderIs DEF CallOK, Resets
  <2>2. \A x \in External(bps) : IsSet(x, sapExt, unheard)
    BY <1>3, <2>1, HolderAlone DEF TruthInv
  <2>3. /\ External(bps') = External(bps) \ {b} /\ call'[c].at = "answer"
        /\ call'[c].op = "remove"
    <3>1. bps' = bps \ {b}
      BY <1>1, <1>4
    <3>2. call'[c] = [call[c] EXCEPT !.at = "answer", !.ok = TRUE, !.named = {}]
      BY <1>1, <1>2, <1>4 DEF Answer, TypeOK
    <3> QED
      BY <1>4, <3>1, <3>2 DEF External, Call
  <2>4. /\ sapExt'[b.loc] # b.id
        /\ sapExt[b.loc] = b.id => sapExt'[b.loc] = 0
        /\ sapExt[b.loc] # b.id => sapExt' = sapExt /\ unheard' = unheard
        /\ \A l \in Locs : l # b.loc =>
             sapExt'[l] = sapExt[l] /\ (l \in unheard' <=> l \in unheard)
        /\ \A l \in Locs : sapExt'[l] \in {0, sapExt[l]}
    BY <1>1, <1>2, <2>1, ForgetsIs
  <2>5. sapExt[b.loc] = b.id => b \in External(bps)
    BY <1>2, <1>3, <1>4, <2>1 DEF RemoveOK
  <2>6. External(bps) \subseteq Bp /\ \A x \in Bp : x.loc \in Locs
    BY Scopes DEF DataOK, Bp
  <2>7. ASSUME NEW x \in External(bps') PROVE IsSet(x, sapExt', unheard')
    <3>1. x \in External(bps) /\ x # b /\ x.loc \in Locs
      BY <2>3, <2>6
    <3>2. sapExt[b.loc] = b.id => x.loc # b.loc
      BY <1>3, <2>5, <3>1 DEF OnePerLoc
    <3>3. sapExt'[x.loc] = sapExt[x.loc] /\ (x.loc \in unheard' <=> x.loc \in unheard)
      BY <2>4, <3>1, <3>2
    <3> QED
      BY <2>2, <3>1, <3>3 DEF IsSet
  <2>8. OnePerLoc(External(bps'))
    BY <1>3, <2>3 DEF OnePerLoc
  <2>9. \A x \in Bp : x.id # 0 /\ sapExt'[x.loc] = x.id
           => sapExt[x.loc] = x.id /\ (x \in External(bps) => x \in External(bps'))
    BY <2>3, <2>4, <2>6
  <2>10. \A d \in Callers : RemoveOK(call'[d], External(bps'), sapExt', run', Active')
    BY <1>2, <1>3, <2>3, <2>9, RemovesKept DEF RemoveOK
  <2>11. ~ Resets(call'[c])
    BY <2>3 DEF Resets
  <2> QED
    BY <1>2, <1>3, <2>7, <2>8, <2>10, <2>11, TruthHeld
<1>5. CASE call[c].op = "add"
  <2>1. ResetOK(call[c], External(bps), sapExt, unheard)
    BY <1>2, <1>5 DEF TruthInv, Resets
  <2>2. b \in External(bps) /\ b.id # 0 /\ ~ Gone(call[c], b)
    BY <1>2, <2>1 DEF ResetOK, Gone
  <2>3. sapExt[b.loc] = b.id \/ b.loc \in unheard
    BY <1>2, <2>1, <2>2 DEF ResetOK, IsSet
  <2>4. bps' = bps /\ call'[c] = [call[c] EXCEPT !.todo = call[c].todo \ {b}]
    BY <1>1, <1>5 DEF SafeInv, TypeOK
  <2>5. /\ call'[c].at = "delete" /\ call'[c].op = "add" /\ call'[c].prev = call[c].prev
        /\ call'[c].todo = call[c].todo \ {b}
    BY <1>2, <1>5, <2>4 DEF Call
  <2>15. /\ sapExt'[b.loc] # b.id
         /\ sapExt[b.loc] = b.id => sapExt'[b.loc] = 0
         /\ sapExt[b.loc] # b.id => unheard' = unheard
         /\ \A l \in Locs : l # b.loc =>
              sapExt'[l] = sapExt[l] /\ (l \in unheard' <=> l \in unheard)
         /\ \A l \in Locs : sapExt'[l] \in {0, sapExt[l]}
    BY <1>1, <1>2, <2>2, ForgetsIs
  <2>6. /\ sapExt'[b.loc] # b.id /\ (sapExt'[b.loc] = 0 \/ b.loc \in unheard')
        /\ \A l \in Locs : l # b.loc =>
             sapExt'[l] = sapExt[l] /\ (l \in unheard' <=> l \in unheard)
    BY <2>3, <2>15
  <2>7. External(bps) \subseteq Bp /\ \A x \in Bp : x.loc \in Locs
    BY Scopes DEF DataOK, Bp
  <2>8. \A x \in External(bps) : x # b =>
          /\ sapExt'[x.loc] = sapExt[x.loc] /\ (x.loc \in unheard' <=> x.loc \in unheard)
          /\ Gone(call'[c], x) <=> Gone(call[c], x)
    BY <1>2, <1>3, <2>2, <2>5, <2>6, <2>7 DEF OnePerLoc, Gone
  <2>9. Gone(call'[c], b)
    BY <2>2, <2>5 DEF Gone
  <2>10. ASSUME NEW x \in External(bps)
         PROVE  /\ Gone(call'[c], x) => sapExt'[x.loc] # x.id
                /\ IF Gone(call'[c], x) THEN sapExt'[x.loc] = 0 \/ x.loc \in unheard'
                                        ELSE IsSet(x, sapExt', unheard')
    <3>1. CASE x = b
      BY <2>2, <2>6, <2>9, <3>1
    <3>2. CASE x # b
      BY <1>2, <2>1, <2>8, <3>2 DEF ResetOK, IsSet
    <3> QED
      BY <3>1, <3>2
  <2>11. ResetOK(call'[c], External(bps'), sapExt', unheard')
    BY <1>2, <2>1, <2>4, <2>5, <2>10 DEF ResetOK
  <2>12. \A x \in Bp : x.id # 0 /\ sapExt'[x.loc] = x.id
           => sapExt[x.loc] = x.id /\ (x \in External(bps) => x \in External(bps'))
    BY <2>4, <2>7, <2>15
  <2>13. \A d \in Callers : RemoveOK(call'[d], External(bps'), sapExt', run', Active')
    BY <1>2, <1>3, <2>5, <2>12, RemovesKept DEF RemoveOK
  <2>14. Resets(call'[c])
    BY <2>5 DEF Resets
  <2> QED
    BY <1>2, <1>3, <2>4, <2>11, <2>13, <2>14, TruthHeld
<1>6. CASE call[c].op \in {"run", "stop"}
  <2>1. ~ Active' /\ bps' = bps
    BY <1>1, <1>2, <1>3, <1>6, HolderIs
  <2>2. call'[c].op = call[c].op
    BY <1>1, <1>6 DEF SafeInv, TypeOK, Call
  <2> QED
    BY <1>2, <1>3, <1>6, <2>1, <2>2, TruthInactive DEF Resets
<1> QED
  BY <1>2, <1>4, <1>5, <1>6, HolderIs

LEMMA TruthDeleteFails ==
  ASSUME SafeInv, TruthInv, NEW c \in Callers, DeleteFails(c) \/ DeleteLost(c)
  PROVE  TruthInv'
<1> USE SafeFacts
<1> DEFINE gone == WithId(call[c].prev) \ call[c].todo
<1>0. PICK b \in call[c].todo : DeleteFailed(c, b) /\ (UNCHANGED sap \/ Forgets(b, FALSE))
  BY DEF DeleteFails, DeleteLost
<1>1. IF call[c].op \in {"run", "stop"}
        THEN /\ call' = [call EXCEPT ![c].todo = @ \ {b},
                                     ![c].failed = @ \cup {b}]
             /\ UNCHANGED bps
        ELSE Answer(c, FALSE, LocsOf(gone)) /\ bps' = bps \ gone
  BY <1>0 DEF DeleteFailed
<1>2. gone = {x \in call[c].prev : x.id # 0 /\ x \notin call[c].todo}
  BY DEF WithId
<1> HIDE DEF gone
<1>3. /\ UNCHANGED <<run, status>> /\ call[c].at = "delete" /\ call[c].at \in Holding
      /\ \A d \in Callers : d # c => call'[d] = call[d]
  BY <1>1 DEF DeleteFails, DeleteLost, Holding, Answer, SafeInv, TypeOK
<1>4. startMu = c /\ OnePerLoc(External(bps)) /\ (Active' <=> Active)
  BY <1>3, HolderIs DEF TruthInv, Active
<1>7. /\ unheard \subseteq unheard'
      /\ \A l \in Locs : /\ sapExt'[l] \in {0, sapExt[l]}
                         /\ sapExt'[l] = sapExt[l] \/ l \in unheard'
  <2>1. TypeOK /\ b \in Bp
    BY <1>0 DEF SafeInv
  <2> QED
    BY <1>0, <2>1, ErrorIs
<1>8. External(bps) \subseteq Bp /\ \A x \in Bp : x.loc \in Locs
  BY Scopes DEF DataOK, Bp
<1>5. CASE call[c].op \in {"run", "stop"}
  <2>1. ~ Active' /\ bps' = bps
    BY <1>1, <1>3, <1>4, <1>5, HolderIs
  <2>2. call'[c].op = call[c].op
    BY <1>1, <1>5 DEF SafeInv, TypeOK, Call
  <2> QED
    BY <1>3, <1>4, <1>5, <2>1, <2>2, TruthInactive DEF Resets
<1>6. CASE call[c].op \in {"add", "remove"}
  <2>1. bps' = bps \ gone /\ call'[c] = [call[c] EXCEPT !.at = "answer", !.ok = FALSE,
                                                        !.named = LocsOf(gone)]
    BY <1>1, <1>6 DEF Answer, SafeInv, TypeOK
  <2>2. call'[c].at = "answer"
    BY <2>1 DEF Call
  <2>3. External(bps') = External(bps) \ gone
    BY <2>1 DEF External
  <2>4. \A x \in External(bps) : /\ x \in gone => x.id # 0 /\ sapExt[x.loc] # x.id
                                 /\ x \notin gone => IsSet(x, sapExt, unheard)
    <3>1. CASE call[c].op = "add"
      <4>1. ResetOK(call[c], External(bps), sapExt, unheard)
        BY <1>3, <3>1 DEF TruthInv, Resets
      <4> QED
        BY <1>2, <1>3, <4>1 DEF ResetOK, Gone
    <3>2. CASE call[c].op = "remove"
      <4>1. gone = {} /\ ~ Resets(call[c]) /\ Active
        BY <1>2, <1>3, <3>2, HolderIs DEF CallOK, Resets
      <4>2. \A d \in Callers : ~ Resets(call[d])
        BY <1>4, <4>1, HolderAlone
      <4> QED
        BY <4>1, <4>2 DEF TruthInv
    <3> QED
      BY <1>6, <3>1, <3>2
  <2>5. \A x \in Bp : x.id # 0 /\ sapExt'[x.loc] = x.id
           => sapExt[x.loc] = x.id /\ (x \in External(bps) => x \in External(bps'))
    BY <1>7, <1>8, <2>3, <2>4
  <2>6. \A d \in Callers : RemoveOK(call'[d], External(bps'), sapExt', run', Active')
    BY <1>3, <1>4, <2>2, <2>5, RemovesKept DEF RemoveOK
  <2>7. OnePerLoc(External(bps')) /\ \A x \in External(bps') : IsSet(x, sapExt', unheard')
    <3>1. ASSUME NEW x \in External(bps') PROVE IsSet(x, sapExt', unheard')
      <4>1. x.loc \in Locs /\ IsSet(x, sapExt, unheard)
        BY <1>8, <2>3, <2>4
      <4> QED
        BY <1>7, <4>1 DEF IsSet
    <3> QED
      BY <1>4, <2>3, <3>1 DEF OnePerLoc
  <2> QED
    BY <1>3, <1>4, <2>2, <2>6, <2>7, NotResetting, TruthHeld
<1> QED
  BY <1>3, <1>5, <1>6, HolderIs

\* What a call that is done with deleting, or undoes a set request, has: its list
\* is not set under the IDs it had.
LEMMA SettingList ==
  ASSUME SafeInv, TruthInv, NEW c \in Callers, call[c].op = "add",
         Setting(c) \/ call[c].at = "undo"
  PROVE  /\ startMu = c /\ Active /\ call[c].run = run /\ Resets(call[c])
         /\ call[c].prev = External(bps) /\ OnePerLoc(External(bps))
         /\ \A b \in External(bps) : b.id # 0 => sapExt[b.loc] # b.id
<1>1. call[c].at \in {"delete", "set", "undo"} /\ call[c].at \in Holding
      /\ (call[c].at = "delete" => call[c].todo = {})
  BY DEF Setting, Holding
<1>2. Resets(call[c])
  BY <1>1 DEF Resets
<1>3. ResetOK(call[c], External(bps), sapExt, unheard) /\ OnePerLoc(External(bps))
  BY <1>2 DEF TruthInv
<1>4. \A b \in External(bps) : b.id # 0 => Gone(call[c], b)
  BY <1>1 DEF Gone
<1> QED
  BY <1>1, <1>2, <1>3, <1>4, HolderIs DEF ResetOK

\* A set request gives no waiting debug_remove_breakpoint its ID back.
LEMMA RemovesForgotten ==
  ASSUME SafeInv, TruthInv, NEW c \in Callers, call[c].op = "add",
         Setting(c) \/ call[c].at = "undo", NEW d \in Callers, NEW L,
         \/ UNCHANGED sapExt
         \/ \E A \in SUBSET Locs, heard \in BOOLEAN : SapSets(A, heard)
  PROVE  RemoveOK(call[d], L, sapExt', run, Active)
<1> SUFFICES ASSUME call[d].op = "remove", call[d].at \in {"lock", "delete"},
                    call[d].run = run, Active,
                    NEW b \in call[d].todo, sapExt'[b.loc] = b.id
             PROVE  FALSE
  BY DEF RemoveOK
<1>1. b.id # 0 /\ b.scope = "external"
  BY SafeFacts DEF CallOK
<1>2. RemoveOK(call[d], External(bps), sapExt, run, Active)
  BY DEF TruthInv
<1>3. sapExt[b.loc] = b.id => b \in External(bps)
  BY <1>2 DEF RemoveOK
<1>4. sapExt[b.loc] # b.id
  BY <1>1, <1>3, SettingList
<1> QED
  BY <1>1, <1>4, NoReturn

LEMMA TruthSetAll ==
  ASSUME SafeInv, TruthInv, NEW c \in Callers, SetAll(c)
  PROVE  TruthInv'
<1> USE SafeFacts
<1>1. TypeOK /\ Setting(c) /\ call[c].at \in Holding /\ startMu = c
      /\ call[c].op \in {"add", "run"}
  BY SettingIs DEF SetAll, SafeInv
<1>2. PICK S \in SUBSET Bp :
        /\ \A b \in S : b.scope = "external"
        /\ \A a, b \in S : a.loc = b.loc => a = b
        /\ \A b \in S : sapExt'[b.loc] # 0 /\ b.id \in {0, sapExt'[b.loc]}
        /\ IF call[c].op = "run"
             THEN /\ bps' = S
                  /\ run' = run + 1 /\ status' = "listening"
                  /\ startMu' = "free" /\ Done(c)
             ELSE /\ bps' = S \cup Debugger(bps)
                  /\ Answer(c, ~ call[c].again, {})
                  /\ UNCHANGED <<run, status, startMu>>
  BY <1>1, SetAllIs
<1>3. External(bps') = S
  BY <1>1, <1>2 DEF External, Debugger
<1>4. OnePerLoc(External(bps')) /\ \A b \in External(bps') : IsSet(b, sapExt', unheard')
  BY <1>2, <1>3 DEF OnePerLoc, IsSet
<1>5. \A d \in Callers : d # c => call'[d] = call[d]
  BY <1>1, <1>2 DEF Answer, Done, TypeOK
<1>6. CASE call[c].op = "run"
  <2>1. call'[c] = NoCall
    BY <1>1, <1>2, <1>6 DEF Done, TypeOK
  <2>2. NoCall.op = ""
    BY DEF NoCall
  <2>3. \A d \in Callers : call[d].run \in 0..MaxRuns /\ call[d].run <= run
    BY DEF SafeInv, TypeOK, Call, LockInv, LockOf
  <2>4. run' = run + 1 /\ run \in 0..MaxRuns
    BY <1>2, <1>6 DEF DataOK
  <2>5. \A d \in Callers : call[d].run # run'
    BY <2>3, <2>4, ConstantFacts
  <2>6. \A d \in Callers : RemoveOK(call'[d], External(bps'), sapExt', run', Active')
    BY <1>5, <2>1, <2>2, <2>5 DEF RemoveOK
  <2>7. ~ Resets(call'[c])
    BY <2>1, NotResetting
  <2> QED
    BY <1>1, <1>4, <1>5, <2>6, <2>7, TruthHeld
<1>7. CASE call[c].op = "add"
  <2>1. UNCHANGED <<run, status>> /\ call'[c] = [call[c] EXCEPT !.at = "answer",
                                         !.ok = ~ call[c].again, !.named = {}]
    BY <1>1, <1>2, <1>7 DEF Answer, TypeOK
  <2>2. call'[c].at = "answer"
    BY <2>1 DEF Call
  <2>3. UNCHANGED sapExt \/ \E A \in SUBSET Locs, heard \in BOOLEAN : SapSets(A, heard)
    BY <1>1, RequestType DEF SetAll, NothingToSet, sap
  <2>4. \A d \in Callers : RemoveOK(call[d], External(bps'), sapExt', run, Active)
    BY <1>1, <1>7, <2>3, RemovesForgotten
  <2>5. \A d \in Callers : RemoveOK(call'[d], External(bps'), sapExt', run', Active')
    BY <1>5, <2>1, <2>2, <2>4 DEF RemoveOK, Active
  <2>6. ~ Resets(call'[c])
    BY <2>2, NotResetting
  <2> QED
    BY <1>1, <1>4, <1>5, <2>5, <2>6, TruthHeld
<1> QED
  BY <1>1, <1>6, <1>7

LEMMA TruthSetFailed ==
  ASSUME SafeInv, TruthInv, NEW c \in Callers, SetFailed(c),
         Setting(c) \/ call[c].at = "undo", UNCHANGED <<run, status>>,
         \/ UNCHANGED sapExt
         \/ \E A \in SUBSET Locs : SapSets(A, FALSE)
  PROVE  TruthInv'
<1> USE SafeFacts
<1>1. TypeOK /\ call[c].at \in Holding /\ startMu = c /\ call[c].op \in {"add", "run"}
  BY SettingIs, HolderIs DEF SafeInv, CallOK, Holding
<1>2. OnePerLoc(External(bps)) /\ (Active' <=> Active)
  BY DEF TruthInv, Active
<1>3. \A d \in Callers : d # c => call'[d] = call[d]
  BY <1>1 DEF SetFailed, Answer, Done, TypeOK
<1>4. CASE call[c].op = "run"
  <2>1. call'[c] = NoCall /\ bps' = bps /\ ~ Active'
    BY <1>1, <1>2, <1>4, HolderIs DEF SetFailed, Done, TypeOK
  <2> QED
    BY <1>1, <1>2, <1>3, <2>1, NotResetting, TruthInactive
<1>5. CASE call[c].op = "add"
  <2>1. /\ call[c].prev = External(bps) /\ Resets(call[c])
        /\ \A b \in External(bps) : b.id # 0 => sapExt[b.loc] # b.id
    BY <1>5, SettingList
  <2>4. \A L : \A d \in Callers : RemoveOK(call[d], L, sapExt', run, Active)
    BY <1>5, RemovesForgotten
  <2>5. \A b \in External(bps) : b.id # 0 => sapExt'[b.loc] # b.id
    <3>1. CASE UNCHANGED sapExt
      BY <2>1, <3>1
    <3>2. CASE \E A \in SUBSET Locs : SapSets(A, FALSE)
      <4>1. PICK A \in SUBSET Locs : SapSets(A, FALSE)
        BY <3>2
      <4>2. \A b \in External(bps) : b \in call[c].prev /\ b.scope = "external"
        BY <2>1 DEF External
      <4> QED
        BY <2>1, <4>1, <4>2, NoReturn
    <3> QED
      BY <3>1, <3>2
  <2>2. CASE call[c].again
    <3>1. bps' = Debugger(bps) /\ call'[c] = [call[c] EXCEPT !.at = "answer", !.ok = FALSE,
                                                      !.named = LocsOf(call[c].prev)]
      BY <1>1, <1>5, <2>2 DEF SetFailed, Answer, TypeOK
    <3>2. External(bps') = {} /\ call'[c].at = "answer"
      BY <3>1 DEF External, Debugger, Call
    <3>4. \A d \in Callers : RemoveOK(call'[d], External(bps'), sapExt', run', Active')
      BY <1>2, <1>3, <2>4, <3>2 DEF RemoveOK
    <3>5. ~ Resets(call'[c]) /\ OnePerLoc(External(bps'))
      BY <3>2, NotResetting DEF OnePerLoc
    <3> QED
      BY <1>1, <1>3, <3>2, <3>4, <3>5, TruthHeld
  <2>3. CASE ~ call[c].again
    <3>1. bps' = bps /\ call'[c] = [call[c] EXCEPT !.at = "set", !.again = TRUE, !.todo = {}]
      BY <1>1, <1>5, <2>3 DEF SetFailed, TypeOK
    <3>2. call'[c].at = "set" /\ call'[c].op = "add" /\ call'[c].prev = call[c].prev
      BY <1>5, <3>1 DEF Call
    <3>3. ResetOK(call'[c], External(bps'), sapExt', unheard')
      BY <2>1, <2>5, <3>1, <3>2 DEF ResetOK, Gone
    <3>5. \A d \in Callers : RemoveOK(call'[d], External(bps'), sapExt', run', Active')
      BY <1>2, <1>3, <2>4, <3>2 DEF RemoveOK
    <3>6. Resets(call'[c])
      BY <3>2 DEF Resets
    <3> QED
      BY <1>1, <1>2, <1>3, <3>1, <3>3, <3>5, <3>6, TruthHeld
  <2> QED
    BY <2>2, <2>3
<1> QED
  BY <1>1, <1>4, <1>5

LEMMA TruthPartly ==
  ASSUME SafeInv, TruthInv, NEW c \in Callers, SetPartly(c) \/ Undo(c)
  PROVE  TruthInv'
<1> USE SafeFacts
<1>1. /\ TypeOK /\ call[c].at \in Holding /\ startMu = c /\ call[c].op \in {"add", "run"}
      /\ Setting(c) \/ call[c].at = "undo"
      /\ UNCHANGED <<run, status, bps>>
  BY SettingIs, HolderIs DEF SafeInv, CallOK, Holding, SetPartly, Undo
<1>2. OnePerLoc(External(bps)) /\ (Active' <=> Active) /\ bps' = bps
  BY <1>1 DEF TruthInv, Active
<1>3. /\ \A d \in Callers : d # c => call'[d] = call[d]
      /\ call'[c].op = call[c].op /\ call'[c].at = "undo" /\ call'[c].prev = call[c].prev
  <2>1. CASE SetPartly(c)
    <3>1. PICK T : call' = [call EXCEPT ![c] = [call[c] EXCEPT !.at = "undo", !.todo = T]]
      BY <2>1 DEF SetPartly
    <3> QED
      BY <1>1, <3>1 DEF TypeOK, Call
  <2>2. CASE Undo(c)
    <3>1. PICK b : call' = [call EXCEPT ![c].todo = @ \ {b}]
      BY <2>2 DEF Undo
    <3>2. call[c].at = "undo"
      BY <2>2 DEF Undo
    <3> QED
      BY <1>1, <3>1, <3>2 DEF TypeOK, Call
  <2> QED
    BY <2>1, <2>2
<1>4. CASE call[c].op = "run"
  <2>1. ~ Active' /\ ~ Resets(call'[c])
    BY <1>1, <1>2, <1>3, <1>4, HolderIs DEF Resets
  <2> QED
    BY <1>1, <1>2, <1>3, <2>1, TruthInactive
<1>5. CASE call[c].op = "add"
  <2>1. /\ call[c].prev = External(bps) /\ Resets(call[c])
        /\ \A b \in External(bps) : b.id # 0 => sapExt[b.loc] # b.id
    BY <1>1, <1>5, SettingList
  <2>2. External(bps) \subseteq Bp /\ \A b \in External(bps) : b.scope = "external"
    BY Scopes DEF DataOK, External
  <2>3. /\ \A b \in External(bps) : b.id # 0 => sapExt'[b.loc] # b.id
        /\ \A d \in Callers : RemoveOK(call[d], External(bps), sapExt', run, Active)
    <3>1. CASE SetPartly(c)
      <4>1. PICK A \in SUBSET Request(c) : SapSets(A, TRUE)
        BY <3>1 DEF SetPartly
      <4>2. A \in SUBSET Locs /\ Setting(c)
        BY <1>1, <3>1, RequestType DEF SetPartly
      <4>3. \A b \in External(bps) : b.id # 0 => sapExt'[b.loc] # b.id
        BY <2>1, <2>2, <4>1, <4>2, NoReturn
      <4>4. \A d \in Callers : RemoveOK(call[d], External(bps), sapExt', run, Active)
        BY <1>5, <4>1, <4>2, RemovesForgotten
      <4> QED
        BY <4>3, <4>4
    <3>2. CASE Undo(c)
      <4>1. PICK b \in call[c].todo : Forgets(b, TRUE) \/ sapExt' = sapExt
        BY <3>2 DEF Undo, sap
      <4>2. b.loc \in Locs
        BY DEF Bp
      <4>3. \A l \in Locs : sapExt'[l] \in {0, sapExt[l]}
        BY <1>1, <4>1, <4>2 DEF Forgets, TypeOK
      <4>4. \A x \in Bp : x.loc \in Locs
        BY DEF Bp
      <4>5. \A x \in Bp : x.id # 0 /\ sapExt'[x.loc] = x.id
               => sapExt[x.loc] = x.id /\ (x \in External(bps) => x \in External(bps'))
        BY <1>2, <4>3, <4>4
      <4>6. \A d \in Callers : RemoveOK(call[d], External(bps'), sapExt', run', Active')
        BY <1>1, <1>2, <4>5, RemovesKept
      <4>7. \A d \in Callers : RemoveOK(call[d], External(bps), sapExt', run, Active)
        BY <1>1, <1>2, <4>6 DEF RemoveOK
      <4> QED
        BY <2>1, <2>2, <4>3, <4>4, <4>7
    <3> QED
      BY <3>1, <3>2
  <2>4. ResetOK(call'[c], External(bps'), sapExt', unheard')
    BY <1>2, <1>3, <2>1, <2>3 DEF ResetOK, Gone
  <2>5. \A d \in Callers : RemoveOK(call'[d], External(bps'), sapExt', run', Active')
    BY <1>1, <1>2, <1>3, <1>5, <2>3 DEF RemoveOK
  <2>6. Resets(call'[c])
    BY <1>3, <1>5 DEF Resets
  <2> QED
    BY <1>1, <1>2, <1>3, <2>4, <2>5, <2>6, TruthHeld
<1> QED
  BY <1>1, <1>4, <1>5

LEMMA TruthCleanedUp ==
  ASSUME SafeInv, TruthInv, NEW c \in Callers, CleanedUp(c)
  PROVE  TruthInv'
<1> USE SafeFacts
<1>1. /\ TypeOK /\ call[c].at \in Holding /\ call[c].op \in {"run", "stop"}
      /\ bps' = bps /\ ~ Active'
  BY DEF CleanedUp, SafeInv, Holding, Active
<1>2. /\ \A d \in Callers : d # c => call'[d] = call[d]
      /\ call'[c].op # "add"
  <2>1. CASE call[c].op = "stop"
    <3>1. NoCall.op = "" /\ call' = [call EXCEPT ![c] = NoCall]
      BY <2>1 DEF NoCall, CleanedUp, Done
    <3> QED
      BY <1>1, <3>1 DEF TypeOK
  <2>2. CASE call[c].op = "run"
    <3>1. call' = [call EXCEPT ![c] = [call[c] EXCEPT !.at = "set", !.failed = {},
                                                      !.halted = FALSE]]
      BY <2>2 DEF CleanedUp
    <3> QED
      BY <1>1, <2>2, <3>1 DEF TypeOK, Call
  <2> QED
    BY <1>1, <2>1, <2>2
<1>3. ~ Resets(call'[c]) /\ OnePerLoc(External(bps'))
  BY <1>1, <1>2 DEF Resets, TruthInv
<1> QED
  BY <1>1, <1>2, <1>3, HolderIs, TruthInactive

LEMMA InitTruth == Init => TruthInv
<1> SUFFICES ASSUME Init PROVE TruthInv
  OBVIOUS
<1>1. \A c \in Callers : call[c] = NoCall
  BY DEF Init
<1>2. NoCall.op = "" /\ External(bps) = {}
  BY DEF NoCall, Init, External
<1> QED
  BY <1>1, <1>2, NotResetting DEF TruthInv, OnePerLoc, RemoveOK

LEMMA StepTruth == SafeInv /\ TruthInv /\ [Next]_vars => TruthInv'
<1> SUFFICES ASSUME SafeInv, TruthInv, [Next]_vars PROVE TruthInv'
  OBVIOUS
<1>1. SafeInv'
  BY StepSafe
<1>2. CASE StatusStep
  <2>1. UNCHANGED <<call, sapExt, unheard, run>> /\ (Active <=> Active')
        /\ External(bps) = External(bps)'
    BY <1>2, StatusSafe
  <2> QED
    BY <2>1 DEF TruthInv, RemoveOK
<1>3. ASSUME NEW c \in Callers, Begins(c) \/ DebuggerStep(c) PROVE TruthInv'
  BY <1>1, <1>3, TruthAside
<1>4. ASSUME NEW c \in Callers, ExternalStep(c) PROVE TruthInv'
  <2>1. CASE Refused(c) \/ Answered(c)
    BY <1>1, <2>1, TruthAside
  <2>2. CASE Lock(c) \/ Delete(c) \/ DeleteFails(c) \/ DeleteLost(c) \/ CleanedUp(c)
    BY <2>2, TruthLock, TruthDelete, TruthDeleteFails, TruthCleanedUp
  <2>3. CASE SetAll(c) \/ SetPartly(c) \/ Undo(c)
    BY <2>3, TruthSetAll, TruthPartly
  <2>4. CASE SetRefused(c) \/ Undone(c)
    BY <2>4, TruthSetFailed DEF SetRefused, Undone, sap
  <2>5. CASE SetLost(c)
    <3>1. PICK A \in SUBSET Request(c) : SapSets(A, FALSE)
      BY <2>5 DEF SetLost
    <3>2. A \in SUBSET Locs
      BY RequestType DEF SafeInv
    <3> QED
      BY <2>5, <3>1, <3>2, TruthSetFailed DEF SetLost
  <2> QED
    BY <1>4, <2>1, <2>2, <2>3, <2>4, <2>5 DEF ExternalStep
<1>5. CASE UNCHANGED vars
  BY <1>5 DEF TruthInv, RemoveOK, Active, vars, sap
<1> QED
  BY <1>2, <1>3, <1>4, <1>5 DEF Next

(* Whatever fails, or is carried out although the client gets an error, the *)
(* list of the newest run never claims a breakpoint that is gone, nor a     *)
(* wrong ID, while nobody works on the external list: what was deleted     *)
(* before a failed delete is dropped (resetExternalBreakpoints), and an ID  *)
(* that debug_remove_breakpoint still has to delete is not used again.      *)
(* Only the locations of a request whose answer was lost are exempt.        *)
THEOREM ListIsTruthful == Spec => []ListTruthful
<1>1. SafeInv /\ TruthInv => ListTruthful
  <2> SUFFICES ASSUME SafeInv, TruthInv, startMu = "free", Active
               PROVE  \A b \in External(bps) : IsSet(b, sapExt, unheard)
    BY DEF ListTruthful, IsSet
  <2>1. \A c \in Callers : ~ Resets(call[c])
    BY SafeFacts, ConstantFacts, NotResetting DEF LockOf
  <2> QED
    BY <2>1 DEF TruthInv
<1> QED
  BY <1>1, InitSafe, InitTruth, StepSafe, StepTruth, PTL DEF Spec

-----------------------------------------------------------------------------
(* Nothing is forgotten in SAP, and a failed reset names what it lost.     *)

\* Every breakpoint in SAP is reported, or is at one of the locations S, but
\* where the answer was lost; one of T is the breakpoint of a location.
Covered(ext, un, rep, S) ==
  \A l \in Locs : ext[l] # 0 => l \in un \/ l \in rep \/ l \in S
Keeps(T, l, ext) == \E b \in T : b.loc = l /\ b.id = ext[l]

\* How far a call is: the cleanup still deletes or has to report, the reset sets
\* the list again, and what a request that SAP rejects in part has set is
\* removed again.
LeftOf(k, ext, un, rep) ==
  /\ k.at = "delete" /\ k.op \in {"run", "stop"} =>
       \A l \in Locs : ext[l] # 0 =>
         \/ l \in un \/ l \in rep \/ l \in LocsOf(k.failed)
         \/ Keeps(k.todo, l, ext)
  /\ k.at = "delete" /\ k.op = "add" => Covered(ext, un, rep, LocsOf(k.prev))
  /\ k.at = "set" => /\ Covered(ext, un, rep, {})
                     /\ \A b \in k.prev : ext[b.loc] = 0 \/ b.loc \in un
  /\ k.at = "undo" =>
       /\ "reject" \in faults
       /\ \A b \in k.todo : b.id = ext[b.loc] /\ b.id # 0
       /\ \A l \in Locs : ext[l] # 0 =>
            \/ l \in un \/ Keeps(k.todo, l, ext)
            \/ l \in rep /\ l \notin LocsOf(k.prev)

\* LossesNamed, of one call.
NamedOf(k, L, ext, un) ==
  k.at = "answer" /\ k.op = "add" =>
    /\ LocsOf(k.prev) \cup (IF k.ok THEN k.want ELSE {}) \subseteq LocsOf(L) \cup k.named
    /\ \A l \in k.named : ext[l] = 0 \/ l \in un

Busy == {"delete", "set", "undo"}
LeftInv ==
  /\ faults \in Tolerable
  /\ "anonymous" \notin faults => \A b \in External(bps) : b.id # 0
  /\ \A c \in Callers : /\ LeftOf(call[c], sapExt, unheard, reported)
                        /\ NamedOf(call[c], External(bps), sapExt, unheard)
  /\ Active /\ (\A c \in Callers : ~ Resets(call[c]))
       => Covered(sapExt, unheard, reported, LocsOf(External(bps)))
  /\ ~ Active /\ (\A c \in Callers : call[c].at \notin Busy)
       => Covered(sapExt, unheard, reported, {})

\* A call that does not hold the lock has nothing to answer for.
LEMMA LeftAside ==
  ASSUME NEW k, k.at \notin Holding, NEW L, NEW ext, NEW un, NEW rep
  PROVE  LeftOf(k, ext, un, rep) /\ NamedOf(k, L, ext, un)
BY DEF LeftOf, NamedOf, Holding

\* A step that leaves the external list, SAP's and the reports as they are.
LEMMA LeftFrame ==
  ASSUME LeftInv, NEW c \in Callers,
         \A d \in Callers : d # c => call'[d] = call[d],
         UNCHANGED <<sapExt, unheard, reported, faults>>, Active' <=> Active,
         External(bps') = External(bps),
         call[c].at \notin Busy, call'[c].at \notin Holding
  PROVE  LeftInv'
<1>1. \A d \in Callers : LeftOf(call'[d], sapExt', unheard', reported')
                         /\ NamedOf(call'[d], External(bps'), sapExt', unheard')
  BY LeftAside DEF LeftInv
<1>2. (\A d \in Callers : ~ Resets(call'[d])) => \A d \in Callers : ~ Resets(call[d])
  BY DEF Resets, Busy
<1>3. (\A d \in Callers : call'[d].at \notin Busy) => \A d \in Callers : call[d].at \notin Busy
  OBVIOUS
<1>4. \A d \in Callers : LeftOf(call[d], sapExt, unheard, reported)'
                         /\ NamedOf(call[d], External(bps), sapExt, unheard)'
  BY <1>1 DEF LeftOf
<1> QED
  BY <1>2, <1>3, <1>4 DEF LeftInv

\* A step of the holder, or of the caller that takes the lock.
LEMMA LeftHeld ==
  ASSUME SafeInv, LeftInv, NEW c \in Callers, startMu \in {c, "free"},
         \A d \in Callers : d # c => call'[d] = call[d], faults' = faults,
         "anonymous" \notin faults => \A b \in External(bps') : b.id # 0,
         LeftOf(call'[c], sapExt', unheard', reported'),
         NamedOf(call'[c], External(bps'), sapExt', unheard'),
         Active' /\ ~ Resets(call'[c])
           => Covered(sapExt', unheard', reported', LocsOf(External(bps'))),
         ~ Active' /\ call'[c].at \notin Busy => Covered(sapExt', unheard', reported', {})
  PROVE  LeftInv'
<1>1. \A d \in Callers : d # c => call'[d].at \notin Holding
  BY HolderAlone
<1>2. \A d \in Callers : LeftOf(call'[d], sapExt', unheard', reported')
                         /\ NamedOf(call'[d], External(bps'), sapExt', unheard')
  BY <1>1, LeftAside
<1>3. \A d \in Callers : LeftOf(call[d], sapExt, unheard, reported)'
                         /\ NamedOf(call[d], External(bps), sapExt, unheard)'
  BY <1>2 DEF LeftOf
<1> QED
  BY <1>3 DEF LeftInv

\* A breakpoint that is gone from SAP leaves the rest covered.
LEMMA CoveredLess ==
  ASSUME NEW ext, NEW un, NEW rep, NEW S, Covered(ext, un, rep, S), NEW after,
         NEW later,
         \A l \in Locs : after[l] # 0 => after[l] = ext[l] /\ (l \in un => l \in later)
  PROVE  Covered(after, later, rep, S)
BY DEF Covered

\* The steps that leave the external list alone.
LEMMA LeftAsides ==
  ASSUME SafeInv, TruthInv, LeftInv, SafeInv', NEW c \in Callers,
         (\E l \in Locs : AddBegins(c, l)) \/ (\E b \in bps : RemoveBegins(c, b))
           \/ DebuggerStep(c) \/ Refused(c) \/ Answered(c)
  PROVE  LeftInv'
<1>1. ASSUME NEW l \in Locs, AddBegins(c, l) PROVE LeftInv'
  <2>1. /\ UNCHANGED <<faults, bps, sapExt, unheard, reported, status>> /\ call[c].at \notin Busy
        /\ \A d \in Callers : d # c => call'[d] = call[d]
        /\ call'[c].at \notin Holding
    BY <1>1 DEF AddBegins, SafeInv, TypeOK, NoCall, Holding, Busy, sap, Idle, world
  <2> QED
    BY <2>1, LeftFrame DEF Active
<1>2. ASSUME NEW b \in bps, RemoveBegins(c, b) PROVE LeftInv'
  <2>1. /\ UNCHANGED <<faults, bps, sapExt, unheard, reported, status>> /\ call[c].at \notin Busy
        /\ \A d \in Callers : d # c => call'[d] = call[d]
        /\ call'[c].at \notin Holding
    BY <1>2 DEF RemoveBegins, SafeInv, TypeOK, NoCall, Holding, Busy, sap, Idle, world
  <2> QED
    BY <2>1, LeftFrame DEF Active
<1>3. CASE DebuggerStep(c)
  <2>1. /\ Moves(c) /\ UNCHANGED <<faults, status, sapExt, unheard, reported>>
        /\ call[c].at \notin Busy /\ call'[c].at \notin Holding
        /\ External(bps') = External(bps)
    BY <1>3, DebuggerSafe DEF Holding, Busy, world
  <2>2. \A d \in Callers : d # c => call'[d] = call[d]
    BY <2>1, OneCall DEF Moves, SafeInv
  <2> QED
    BY <2>1, <2>2, LeftFrame DEF Active
<1>4. CASE Refused(c) \/ Answered(c)
  <2>1. /\ UNCHANGED <<faults, bps, sapExt, unheard, reported, status>> /\ call'[c] = NoCall
        /\ call[c].at \notin Busy
        /\ \A d \in Callers : d # c => call'[d] = call[d]
    BY <1>4 DEF Refused, Answered, Done, SafeInv, TypeOK, sap, world, Busy
  <2>2. NoCall.at \notin Holding
    BY DEF NoCall, Holding
  <2> QED
    BY <2>1, <2>2, LeftFrame DEF Active
<1> QED
  BY <1>1, <1>2, <1>3, <1>4

LEMMA LeftLaunch ==
  ASSUME SafeInv, TruthInv, LeftInv, NEW c \in Callers, NEW op \in {"run", "stop"},
         NEW L \in SUBSET Locs, LaunchBegins(c, op, L)
  PROVE  LeftInv'
<1> USE SafeFacts
<1>1. /\ startMu = "free" /\ UNCHANGED <<faults, bps, sapExt, unheard, reported>>
      /\ \A d \in Callers : d # c => call'[d] = call[d]
      /\ ~ Active' /\ call[c].at = "idle" /\ TypeOK
  BY DEF LaunchBegins, Active, SafeInv, TypeOK, world, sap, Idle
<1>2. \A d \in Callers : call[d].at \notin Holding /\ ~ Resets(call[d])
  BY <1>1, HolderAlone, NotResetting DEF Holding
<1>3. "anonymous" \notin faults => \A b \in External(bps') : b.id # 0
  BY <1>1 DEF LeftInv
<1>4. CASE Active
  <2>1. call'[c] = [NoCall EXCEPT !.op = op, !.want = L, !.at = "delete",
                                  !.todo = WithId(External(bps)),
                                  !.failed = External(bps) \ WithId(bps),
                                  !.halted = status = "attached"]
    BY <1>1, <1>4 DEF LaunchBegins, TypeOK
  <2>2. /\ call'[c].op = op /\ call'[c].at = "delete"
        /\ call'[c].todo = WithId(External(bps))
        /\ call'[c].failed = External(bps) \ WithId(bps)
    BY <2>1 DEF NoCall
  <2>3. Covered(sapExt, unheard, reported, LocsOf(External(bps)))
        /\ \A b \in External(bps) : IsSet(b, sapExt, unheard)
    BY <1>2, <1>4 DEF LeftInv, TruthInv
  <2>4. ASSUME NEW l \in Locs, sapExt[l] # 0, l \notin reported, l \notin unheard
        PROVE  l \in LocsOf(call'[c].failed) \/ Keeps(call'[c].todo, l, sapExt)
    <3>1. PICK b \in External(bps) : b.loc = l
      BY <2>3, <2>4 DEF Covered, LocsOf
    <3>2. CASE b.id = 0
      BY <2>2, <3>1, <3>2 DEF WithId, LocsOf
    <3>3. CASE b.id # 0
      BY <2>2, <2>3, <2>4, <3>1, <3>3 DEF WithId, Keeps, IsSet
    <3> QED
      BY <3>2, <3>3
  <2>5. LeftOf(call'[c], sapExt', unheard', reported') /\ NamedOf(call'[c], External(bps'), sapExt', unheard')
    BY <1>1, <2>2, <2>4 DEF LeftOf, NamedOf
  <2> QED
    BY <1>1, <1>3, <2>2, <2>5, LeftHeld DEF Busy
<1>5. CASE ~ Active
  <2>1. call'[c] = [NoCall EXCEPT !.op = op, !.want = L,
                                  !.at = IF op = "run" THEN "set" ELSE "answer"]
    BY <1>1, <1>5 DEF LaunchBegins, TypeOK
  <2>2. /\ call'[c].op = op /\ call'[c].prev = {}
        /\ call'[c].at = IF op = "run" THEN "set" ELSE "answer"
    BY <2>1 DEF NoCall
  <2>3. Covered(sapExt, unheard, reported, {})
    BY <1>2, <1>5 DEF LeftInv, Holding, Busy
  <2>4. LeftOf(call'[c], sapExt', unheard', reported') /\ NamedOf(call'[c], External(bps'), sapExt', unheard')
    BY <1>1, <2>2, <2>3 DEF LeftOf, NamedOf
  <2> QED
    BY <1>1, <1>3, <2>3, <2>4, LeftHeld
<1> QED
  BY <1>4, <1>5

LEMMA LeftLock ==
  ASSUME SafeInv, TruthInv, LeftInv, NEW c \in Callers, Lock(c)
  PROVE  LeftInv'
<1> USE SafeFacts
<1>1. /\ startMu = "free" /\ UNCHANGED <<faults, bps, sapExt, unheard, reported, status>>
      /\ \A d \in Callers : d # c => call'[d] = call[d]
      /\ Active /\ Active' /\ call[c].at = "lock" /\ TypeOK
  BY DEF Lock, Active, SafeInv, TypeOK, world, sap
<1>2. \A d \in Callers : ~ Resets(call[d])
  BY <1>1, HolderAlone, NotResetting DEF Holding
<1>3. Covered(sapExt, unheard, reported, LocsOf(External(bps)))
      /\ ("anonymous" \notin faults => \A b \in External(bps') : b.id # 0)
  BY <1>1, <1>2 DEF LeftInv
<1>4. call[c].op \in {"add", "remove"}
  BY <1>1 DEF CallOK
<1>5. /\ call'[c].op = call[c].op /\ call'[c].at = "delete"
      /\ call[c].op = "add" => call'[c].prev = External(bps)
  BY <1>1, <1>4 DEF Lock, TypeOK, Call
<1>6. LeftOf(call'[c], sapExt', unheard', reported') /\ NamedOf(call'[c], External(bps'), sapExt', unheard')
  BY <1>1, <1>3, <1>4, <1>5 DEF LeftOf, NamedOf
<1> QED
  BY <1>1, <1>3, <1>6, LeftHeld

LEMMA LeftDelete ==
  ASSUME SafeInv, TruthInv, LeftInv, NEW c \in Callers, Delete(c)
  PROVE  LeftInv'
<1> USE SafeFacts
<1>1. PICK b \in call[c].todo :
        /\ Forgets(b, TRUE)
        /\ IF call[c].op = "remove"
             THEN Answer(c, TRUE, {}) /\ bps' = bps \ {b}
             ELSE /\ call' = [call EXCEPT ![c].todo = @ \ {b}]
                  /\ UNCHANGED bps
  BY DEF Delete
<1>2. /\ UNCHANGED <<faults, status, reported>> /\ call[c].at = "delete"
      /\ call[c].at \in Holding
      /\ \A d \in Callers : d # c => call'[d] = call[d]
      /\ b \in Bp /\ b.scope = "external" /\ TypeOK
  BY <1>1 DEF Delete, Holding, Answer, SafeInv, TypeOK, CallOK, world
<1>3. startMu = c /\ (Active' <=> Active)
      /\ LeftOf(call[c], sapExt, unheard, reported)
      /\ ("anonymous" \notin faults => \A x \in External(bps) : x.id # 0)
  BY <1>2, HolderIs DEF LeftInv, Active
<1>4. \A l \in Locs : sapExt'[l] # 0 =>
        sapExt'[l] = sapExt[l] /\ (l \in unheard => l \in unheard')
  BY <1>1, <1>2, ForgetsHeard
<1>5. CASE call[c].op = "remove"
  <2>1. b.id # 0 /\ Active /\ ~ Resets(call[c])
    BY <1>2, <1>5, HolderIs DEF CallOK, Resets
  <2>2. \A d \in Callers : ~ Resets(call[d])
    BY <1>3, <2>1, HolderAlone
  <2>3. Covered(sapExt, unheard, reported, LocsOf(External(bps)))
        /\ \A x \in External(bps) : IsSet(x, sapExt, unheard)
    BY <2>1, <2>2 DEF LeftInv, TruthInv
  <2>4. External(bps') = External(bps) \ {b}
    BY <1>1, <1>5 DEF External
  <2>5. call'[c] = [call[c] EXCEPT !.at = "answer", !.ok = TRUE, !.named = {}]
    BY <1>1, <1>2, <1>5 DEF Answer, TypeOK
  <2>6. call'[c].at = "answer" /\ call'[c].op = "remove"
    BY <1>5, <2>5 DEF Call
  <2>7. sapExt[b.loc] = b.id => sapExt'[b.loc] = 0
    BY <1>1, <1>2, <2>1, ForgetsIs
  <2>8. ASSUME NEW l \in Locs, sapExt'[l] # 0, l \notin reported, l \notin unheard'
        PROVE  l \in LocsOf(External(bps'))
    <3>1. sapExt[l] # 0 /\ l \notin unheard
      BY <1>4, <2>8
    <3>2. PICK x \in External(bps) : x.loc = l
      BY <2>3, <2>8, <3>1 DEF Covered, LocsOf
    <3>3. x # b
      BY <2>1, <2>3, <2>7, <2>8, <3>1, <3>2 DEF IsSet
    <3> QED
      BY <2>4, <3>2, <3>3 DEF LocsOf
  <2>9. LeftOf(call'[c], sapExt', unheard', reported') /\ NamedOf(call'[c], External(bps'), sapExt', unheard')
        /\ Covered(sapExt', unheard', reported', LocsOf(External(bps')))
    BY <1>2, <2>6, <2>8 DEF LeftOf, NamedOf, Covered
  <2> QED
    BY <1>2, <1>3, <2>1, <2>4, <2>9, LeftHeld
<1>6. CASE call[c].op # "remove"
  <2>1. bps' = bps /\ call'[c] = [call[c] EXCEPT !.todo = call[c].todo \ {b}]
    BY <1>1, <1>2, <1>6 DEF TypeOK
  <2>2. /\ call'[c].at = "delete" /\ call'[c].op = call[c].op
        /\ call'[c].prev = call[c].prev /\ call'[c].failed = call[c].failed
        /\ call'[c].todo = call[c].todo \ {b}
    BY <1>2, <2>1 DEF Call
  <2>3. call[c].op \in {"add", "run", "stop"}
    BY <1>2, <1>6, HolderIs
  <2>4. CASE call[c].op = "add"
    <3>1. Covered(sapExt', unheard', reported', LocsOf(call'[c].prev))
      BY <1>2, <1>3, <1>4, <2>2, <2>4, CoveredLess DEF LeftOf
    <3>2. LeftOf(call'[c], sapExt', unheard', reported') /\ NamedOf(call'[c], External(bps'), sapExt', unheard')
      BY <2>2, <2>4, <3>1 DEF LeftOf, NamedOf
    <3>3. Resets(call'[c]) /\ Active'
      BY <1>2, <1>3, <2>2, <2>4, HolderIs DEF Resets
    <3> QED
      BY <1>2, <1>3, <2>1, <3>2, <3>3, LeftHeld
  <2>5. CASE call[c].op \in {"run", "stop"}
    <3>1. ~ Active'
      BY <1>2, <1>3, <2>5, HolderIs
    <3>2. ASSUME NEW l \in Locs, sapExt'[l] # 0, l \notin unheard'
          PROVE  l \in reported \/ l \in LocsOf(call[c].failed)
                   \/ Keeps(call[c].todo \ {b}, l, sapExt')
      <4>1. sapExt'[l] = sapExt[l] /\ sapExt[l] # 0 /\ l \notin unheard
        BY <1>4, <3>2
      <4>2. l \in reported \/ l \in LocsOf(call[c].failed) \/ Keeps(call[c].todo, l, sapExt)
        BY <1>2, <1>3, <2>5, <4>1 DEF LeftOf
      <4>3. ASSUME NEW x \in call[c].todo, x.loc = l, x.id = sapExt[l] PROVE x # b
        BY <1>1, <1>2, <4>1, <4>3, <3>2, ForgetsIs
      <4> QED
        BY <4>1, <4>2, <4>3 DEF Keeps
    <3>3. LeftOf(call'[c], sapExt', unheard', reported') /\ NamedOf(call'[c], External(bps'), sapExt', unheard')
      BY <1>2, <2>2, <2>5, <3>2 DEF LeftOf, NamedOf
    <3> QED
      BY <1>2, <1>3, <2>1, <2>2, <3>1, <3>3, LeftHeld DEF Busy
  <2> QED
    BY <2>3, <2>4, <2>5
<1> QED
  BY <1>5, <1>6

LEMMA LeftDeleteFails ==
  ASSUME SafeInv, TruthInv, LeftInv, NEW c \in Callers, DeleteFails(c) \/ DeleteLost(c)
  PROVE  LeftInv'
<1> USE SafeFacts
<1> DEFINE gone == WithId(call[c].prev) \ call[c].todo
<1>0. PICK b \in call[c].todo : DeleteFailed(c, b) /\ (UNCHANGED sap \/ Forgets(b, FALSE))
  BY DEF DeleteFails, DeleteLost
<1>1. IF call[c].op \in {"run", "stop"}
        THEN /\ call' = [call EXCEPT ![c].todo = @ \ {b},
                                     ![c].failed = @ \cup {b}]
             /\ UNCHANGED bps
        ELSE Answer(c, FALSE, LocsOf(gone)) /\ bps' = bps \ gone
  BY <1>0 DEF DeleteFailed
<1>2. gone = {x \in call[c].prev : x.id # 0 /\ x \notin call[c].todo}
  BY DEF WithId
<1> HIDE DEF gone
<1>3. /\ UNCHANGED <<faults, status, reported>> /\ call[c].at = "delete"
      /\ call[c].at \in Holding /\ TypeOK
      /\ \A d \in Callers : d # c => call'[d] = call[d]
  BY <1>1 DEF DeleteFails, DeleteLost, Holding, Answer, SafeInv, TypeOK, world
<1>7. /\ unheard \subseteq unheard'
      /\ \A l \in Locs : /\ sapExt'[l] \in {0, sapExt[l]}
                         /\ sapExt'[l] = sapExt[l] \/ l \in unheard'
  BY <1>0, <1>3, ErrorIs
<1>8. External(bps) \subseteq Bp /\ \A x \in Bp : x.loc \in Locs
  BY Scopes DEF DataOK, Bp
<1>4. startMu = c /\ (Active' <=> Active)
      /\ LeftOf(call[c], sapExt, unheard, reported)
      /\ ("anonymous" \notin faults => \A x \in External(bps) : x.id # 0)
  BY <1>3, HolderIs DEF LeftInv, Active
<1>5. CASE call[c].op \in {"run", "stop"}
  <2>1. ~ Active' /\ bps' = bps
    BY <1>1, <1>3, <1>4, <1>5, HolderIs
  <2>2. call'[c] = [call[c] EXCEPT !.todo = call[c].todo \ {b},
                                   !.failed = call[c].failed \cup {b}]
    BY <1>1, <1>3, <1>5 DEF TypeOK
  <2>3. /\ call'[c].at = "delete" /\ call'[c].op = call[c].op
        /\ call'[c].todo = call[c].todo \ {b}
        /\ call'[c].failed = call[c].failed \cup {b}
    BY <1>3, <2>2 DEF Call
  <2>4. ASSUME NEW l \in Locs, sapExt'[l] # 0, l \notin reported, l \notin unheard'
        PROVE  l \in LocsOf(call'[c].failed) \/ Keeps(call'[c].todo, l, sapExt')
    <3>1. sapExt'[l] = sapExt[l] /\ l \notin unheard
      BY <1>7, <2>4
    <3>2. l \in LocsOf(call[c].failed) \/ Keeps(call[c].todo, l, sapExt)
      BY <1>3, <1>4, <1>5, <2>4, <3>1 DEF LeftOf
    <3> QED
      BY <2>3, <3>1, <3>2 DEF LocsOf, Keeps
  <2>5. LeftOf(call'[c], sapExt', unheard', reported') /\ NamedOf(call'[c], External(bps'), sapExt', unheard')
    BY <1>3, <1>5, <2>3, <2>4 DEF LeftOf, NamedOf
  <2> QED
    BY <1>3, <1>4, <2>1, <2>3, <2>5, LeftHeld DEF Busy
<1>6. CASE call[c].op \in {"add", "remove"}
  <2>1. bps' = bps \ gone /\ call'[c] = [call[c] EXCEPT !.at = "answer", !.ok = FALSE,
                                                        !.named = LocsOf(gone)]
    BY <1>1, <1>3, <1>6 DEF Answer, TypeOK
  <2>2. /\ call'[c].at = "answer" /\ call'[c].op = call[c].op /\ ~ call'[c].ok
        /\ call'[c].prev = call[c].prev /\ call'[c].named = LocsOf(gone)
    BY <2>1 DEF Call
  <2>3. External(bps') = External(bps) \ gone
    BY <2>1 DEF External
  <2>4. Active
    BY <1>3, <1>6, HolderIs
  <2>5. /\ Covered(sapExt, unheard, reported, LocsOf(External(bps)))
        /\ \A x \in gone : sapExt[x.loc] = 0 \/ x.loc \in unheard
        /\ gone \subseteq External(bps)
        /\ call[c].op = "add" => call[c].prev = External(bps)
    <3>1. CASE call[c].op = "add"
      <4>1. ResetOK(call[c], External(bps), sapExt, unheard)
        BY <1>3, <3>1 DEF TruthInv, Resets
      <4> QED
        BY <1>2, <1>3, <1>4, <3>1, <4>1 DEF ResetOK, Gone, LeftOf
    <3>2. CASE call[c].op = "remove"
      <4>1. gone = {} /\ ~ Resets(call[c])
        BY <1>2, <1>3, <3>2 DEF CallOK, Resets
      <4>2. \A d \in Callers : ~ Resets(call[d])
        BY <1>4, <4>1, HolderAlone
      <4> QED
        BY <2>4, <3>2, <4>1, <4>2 DEF LeftInv
    <3> QED
      BY <1>6, <3>1, <3>2
  <2>9. \A x \in gone : sapExt'[x.loc] = 0 \/ x.loc \in unheard'
    BY <1>7, <1>8, <2>5
  <2>10. Covered(sapExt', unheard', reported, LocsOf(External(bps)))
    BY <1>7, <2>5 DEF Covered
  <2>6. Covered(sapExt', unheard', reported', LocsOf(External(bps')))
    BY <1>3, <2>3, <2>9, <2>10 DEF Covered, LocsOf
  <2>7. NamedOf(call'[c], External(bps'), sapExt', unheard')
    BY <2>2, <2>3, <2>5, <2>9 DEF NamedOf, LocsOf
  <2>8. LeftOf(call'[c], sapExt', unheard', reported')
    BY <2>2 DEF LeftOf
  <2> QED
    BY <1>3, <1>4, <2>3, <2>4, <2>6, <2>7, <2>8, LeftHeld
<1> QED
  BY <1>3, <1>5, <1>6, HolderIs

\* At the set request nothing of the list is left in SAP, when SAP gave every
\* breakpoint its ID; at the undo only what is still to be removed.
LEMMA SettingLeft ==
  ASSUME SafeInv, TruthInv, LeftInv, NEW c \in Callers, Setting(c)
  PROVE  /\ Covered(sapExt, unheard, reported, LocsOf(call[c].prev))
         /\ "anonymous" \notin faults \/ call[c].at = "set" =>
              /\ Covered(sapExt, unheard, reported, {})
              /\ \A b \in call[c].prev : sapExt[b.loc] = 0 \/ b.loc \in unheard
<1>1. LeftOf(call[c], sapExt, unheard, reported)
  BY DEF LeftInv
<1>2. CASE call[c].at = "set"
  BY <1>1, <1>2 DEF LeftOf, Covered
<1>3. CASE call[c].at = "delete" /\ call[c].op = "add" /\ call[c].todo = {}
  <2>1. ResetOK(call[c], External(bps), sapExt, unheard)
    BY <1>3 DEF TruthInv, Resets
  <2>2. Covered(sapExt, unheard, reported, LocsOf(call[c].prev))
    BY <1>1, <1>3 DEF LeftOf
  <2>3. ASSUME "anonymous" \notin faults, NEW b \in call[c].prev
        PROVE  sapExt[b.loc] = 0 \/ b.loc \in unheard
    <3>1. b.id # 0 /\ b \in External(bps)
      BY <2>1, <2>3 DEF LeftInv, ResetOK
    <3> QED
      BY <1>3, <2>1, <3>1 DEF ResetOK, Gone
  <2> QED
    BY <1>3, <2>2, <2>3 DEF Covered, LocsOf
<1> QED
  BY <1>2, <1>3 DEF Setting

LEMMA LeftSetAll ==
  ASSUME SafeInv, TruthInv, LeftInv, NEW c \in Callers, SetAll(c)
  PROVE  LeftInv'
<1> USE SafeFacts
<1>1. /\ TypeOK /\ Setting(c) /\ call[c].at \in Holding /\ startMu = c
      /\ call[c].op \in {"add", "run"} /\ UNCHANGED faults
  BY SettingIs DEF SetAll, SafeInv, world
<1>2. PICK S \in SUBSET Bp :
        /\ \A b \in S : b.scope = "external"
        /\ LocsOf(S) = Request(c)
        /\ "anonymous" \notin faults => \A b \in S : b.id # 0
        /\ \A l \in Locs \ Request(c) : sapExt'[l] # 0 =>
             /\ sapExt'[l] = sapExt[l]
             /\ l \in unheard => l \in unheard'
             /\ l \in reported => l \in reported'
        /\ IF call[c].op = "run"
             THEN /\ bps' = S
                  /\ run' = run + 1 /\ status' = "listening"
                  /\ startMu' = "free" /\ Done(c)
             ELSE /\ bps' = S \cup Debugger(bps)
                  /\ Answer(c, ~ call[c].again, {})
                  /\ UNCHANGED <<run, status, startMu>>
  BY <1>1, SetAllIs
<1>3. External(bps') = S
  BY <1>1, <1>2 DEF External, Debugger
<1>4. \A d \in Callers : d # c => call'[d] = call[d]
  BY <1>1, <1>2 DEF Answer, Done, TypeOK
<1>5. LocsOf(call[c].prev) \subseteq Request(c)
      /\ (~ call[c].again => call[c].want \subseteq Request(c))
  BY DEF Request
<1>6. Covered(sapExt', unheard', reported', Request(c))
  <2>1. Covered(sapExt, unheard, reported, LocsOf(call[c].prev))
    BY <1>1, SettingLeft
  <2> QED
    BY <1>1, <1>2, <1>5, <2>1 DEF Covered
<1>7. Active'
  <2>1. CASE call[c].op = "run"
    BY <1>2, <2>1 DEF Active
  <2>2. CASE call[c].op = "add"
    BY <1>1, <1>2, <2>2, HolderIs DEF Active
  <2> QED
    BY <1>1, <2>1, <2>2
<1>8. LeftOf(call'[c], sapExt', unheard', reported') /\ NamedOf(call'[c], External(bps'), sapExt', unheard')
  <2>1. CASE call[c].op = "run"
    <3>1. call'[c] = NoCall /\ NoCall.at \notin Holding
      BY <1>1, <1>2, <2>1 DEF Done, TypeOK, NoCall, Holding
    <3> QED
      BY <3>1, LeftAside
  <2>2. CASE call[c].op = "add"
    <3>1. call'[c] = [call[c] EXCEPT !.at = "answer", !.ok = ~ call[c].again, !.named = {}]
      BY <1>1, <1>2, <2>2 DEF Answer, TypeOK
    <3>2. /\ call'[c].at = "answer" /\ (call'[c].ok <=> ~ call[c].again)
          /\ call'[c].named = {} /\ call'[c].prev = call[c].prev
          /\ call'[c].want = call[c].want
      BY <3>1 DEF Call
    <3> QED
      BY <1>2, <1>3, <1>5, <3>2 DEF LeftOf, NamedOf
  <2> QED
    BY <1>1, <2>1, <2>2
<1> QED
  BY <1>1, <1>2, <1>3, <1>4, <1>6, <1>7, <1>8, LeftHeld

\* A set request failed, and what it had set is removed again.
LEMMA LeftSetFailed ==
  ASSUME SafeInv, TruthInv, LeftInv, NEW c \in Callers, SetFailed(c),
         call[c].at \in Busy, call[c].op \in {"add", "run"},
         UNCHANGED <<faults, status, reported>>,
         Covered(sapExt', unheard', reported, {}),
         \A b \in call[c].prev : sapExt'[b.loc] = 0 \/ b.loc \in unheard'
  PROVE  LeftInv'
<1> USE SafeFacts
<1>1. TypeOK /\ call[c].at \in Holding /\ startMu = c /\ (Active' <=> Active)
  BY HolderIs DEF SafeInv, Busy, Holding, Active
<1>2. \A d \in Callers : d # c => call'[d] = call[d]
  BY <1>1 DEF SetFailed, Answer, Done, TypeOK
<1>3. "anonymous" \notin faults => \A x \in External(bps) : x.id # 0
  BY DEF LeftInv
<1>4. \A S : Covered(sapExt', unheard', reported', S)
  BY DEF Covered
<1>5. CASE call[c].op = "run"
  <2>1. call'[c] = NoCall /\ bps' = bps /\ NoCall.at \notin Holding
    BY <1>1, <1>5 DEF SetFailed, Done, TypeOK, NoCall, Holding
  <2>2. LeftOf(call'[c], sapExt', unheard', reported') /\ NamedOf(call'[c], External(bps'), sapExt', unheard')
    BY <2>1, LeftAside
  <2> QED
    BY <1>1, <1>2, <1>3, <1>4, <2>1, <2>2, LeftHeld
<1>6. CASE call[c].op = "add" /\ call[c].again
  <2>1. bps' = Debugger(bps) /\ call'[c] = [call[c] EXCEPT !.at = "answer", !.ok = FALSE,
                                                    !.named = LocsOf(call[c].prev)]
    BY <1>1, <1>6 DEF SetFailed, Answer, TypeOK
  <2>2. /\ External(bps') = {} /\ call'[c].at = "answer" /\ ~ call'[c].ok
        /\ call'[c].named = LocsOf(call[c].prev) /\ call'[c].prev = call[c].prev
    BY <2>1 DEF External, Debugger, Call
  <2>3. LeftOf(call'[c], sapExt', unheard', reported')
    BY <2>2 DEF LeftOf
  <2>4. NamedOf(call'[c], External(bps'), sapExt', unheard')
    BY <2>2 DEF NamedOf, LocsOf
  <2> QED
    BY <1>1, <1>2, <1>4, <2>2, <2>3, <2>4, LeftHeld
<1>7. CASE call[c].op = "add" /\ ~ call[c].again
  <2>1. bps' = bps /\ call'[c] = [call[c] EXCEPT !.at = "set", !.again = TRUE, !.todo = {}]
    BY <1>1, <1>7 DEF SetFailed, TypeOK
  <2>2. call'[c].at = "set" /\ call'[c].prev = call[c].prev
    BY <2>1 DEF Call
  <2>3. LeftOf(call'[c], sapExt', unheard', reported') /\ NamedOf(call'[c], External(bps'), sapExt', unheard')
    BY <1>4, <2>2 DEF LeftOf, NamedOf
  <2> QED
    BY <1>1, <1>2, <1>3, <1>4, <2>1, <2>2, <2>3, LeftHeld DEF Busy
<1> QED
  BY <1>5, <1>6, <1>7

LEMMA LeftFailed ==
  ASSUME SafeInv, TruthInv, LeftInv, NEW c \in Callers,
         SetRefused(c) \/ SetLost(c) \/ Undone(c)
  PROVE  LeftInv'
<1>1. SetFailed(c) /\ UNCHANGED <<faults, status, reported>>
      /\ (~ SetLost(c) => UNCHANGED <<sapExt, unheard>>)
  BY DEF SetRefused, SetLost, Undone, world, sap
<1>2. faults \in Tolerable /\ LeftOf(call[c], sapExt, unheard, reported)
  BY DEF LeftInv
<1>3. CASE SetRefused(c) /\ ~ SetLost(c)
  <2>1. Setting(c) /\ "post" \in faults
    BY <1>3 DEF SetRefused
  <2>2. "anonymous" \notin faults
    BY <1>2, <2>1 DEF Tolerable
  <2>3. /\ Covered(sapExt, unheard, reported, {})
        /\ \A b \in call[c].prev : sapExt[b.loc] = 0 \/ b.loc \in unheard
    BY <2>1, <2>2, SettingLeft
  <2>4. call[c].at \in Busy /\ call[c].op \in {"add", "run"}
    BY <2>1, SettingIs DEF Busy
  <2> QED
    BY <1>1, <1>3, <2>3, <2>4, LeftSetFailed
<1>5. CASE SetLost(c)
  <2>1. Setting(c) /\ call[c].at \in Busy /\ call[c].op \in {"add", "run"}
    BY <1>5, SettingIs DEF SetLost, Busy
  <2>2. PICK A \in SUBSET Request(c) :
          (A = Request(c) \/ "reject" \in faults) /\ SapSets(A, FALSE)
    BY <1>5 DEF SetLost
  <2>3. TypeOK /\ A \in SUBSET Locs
    BY RequestType DEF SafeInv
  <2>4. /\ A \subseteq unheard' /\ unheard \subseteq unheard'
        /\ \A l \in Locs : sapExt'[l] = sapExt[l] \/ l \in unheard'
    BY <2>2, <2>3, AfterSetIs
  <2>5. LocsOf(call[c].prev) \subseteq Request(c) /\ LocsOf(call[c].prev) \subseteq Locs
    BY SafeFacts, Scopes DEF Request
  <2>6. Covered(sapExt, unheard, reported, LocsOf(call[c].prev))
    BY <2>1, SettingLeft
\* The whole request: every location of the list is in it.
  <2>7. CASE A = Request(c)
    <3>1. \A b \in call[c].prev : b.loc \in unheard'
      BY <2>4, <2>5, <2>7 DEF LocsOf
    <3>2. Covered(sapExt', unheard', reported, {})
      BY <2>4, <2>5, <2>6, <2>7 DEF Covered
    <3> QED
      BY <1>1, <2>1, <3>1, <3>2, LeftSetFailed
\* SAP rejects some locations: none of the list was left.
  <2>8. CASE "reject" \in faults
    <3>1. "anonymous" \notin faults
      BY <1>2, <2>8 DEF Tolerable
    <3>2. /\ Covered(sapExt, unheard, reported, {})
          /\ \A b \in call[c].prev : sapExt[b.loc] = 0 \/ b.loc \in unheard
      BY <2>1, <3>1, SettingLeft
    <3>3. Covered(sapExt', unheard', reported, {})
      BY <2>4, <3>2 DEF Covered
    <3>4. \A b \in call[c].prev : b.loc \in Locs
      BY <2>5 DEF LocsOf
    <3>5. \A b \in call[c].prev : sapExt'[b.loc] = 0 \/ b.loc \in unheard'
      BY <2>4, <3>2, <3>4
    <3> QED
      BY <1>1, <2>1, <3>3, <3>5, LeftSetFailed
  <2> QED
    BY <2>2, <2>7, <2>8
<1>4. CASE Undone(c) /\ ~ SetLost(c)
  <2>1. call[c].at = "undo" /\ call[c].todo = {} /\ call[c].op \in {"add", "run"}
    BY <1>4, SafeFacts DEF Undone, CallOK
  <2>3. \A l \in Locs : sapExt[l] # 0 =>
          l \in unheard \/ (l \in reported /\ l \notin LocsOf(call[c].prev))
    BY <1>2, <2>1 DEF LeftOf, Keeps
  <2>4. LocsOf(call[c].prev) \subseteq Locs
    BY SafeFacts, Scopes
  <2>5. \A b \in call[c].prev : sapExt[b.loc] = 0 \/ b.loc \in unheard
    BY <2>3, <2>4 DEF LocsOf
  <2>6. Covered(sapExt, unheard, reported, {})
    BY <2>3 DEF Covered
  <2> QED
    BY <1>1, <1>4, <2>1, <2>5, <2>6, LeftSetFailed DEF Busy
<1> QED
  BY <1>3, <1>4, <1>5

LEMMA LeftPartly ==
  ASSUME SafeInv, TruthInv, LeftInv, NEW c \in Callers, SetPartly(c)
  PROVE  LeftInv'
<1> USE SafeFacts
<1>1. /\ TypeOK /\ Setting(c) /\ startMu = c /\ call[c].at \in Holding
      /\ call[c].op \in {"add", "run"}
      /\ UNCHANGED <<faults, status, bps, reported>> /\ "reject" \in faults
  BY SettingIs DEF SetPartly, SafeInv, world
<1>2. "anonymous" \notin faults /\ (Active' <=> Active)
  BY <1>1 DEF LeftInv, Tolerable, Active
<1>3. PICK A \in SUBSET Request(c) : \E N \in Anonymous(A) :
        /\ SapSets(A, TRUE)
        /\ call' = [call EXCEPT ![c] =
                       [call[c] EXCEPT !.at = "undo", !.todo = WithId(SetBy(A, N))]]
  BY DEF SetPartly
<1>4. A \in SUBSET Locs
  BY <1>1, RequestType
<1>5. Anonymous(A) = {{}}
  BY <1>2 DEF Anonymous
<1> DEFINE T == WithId(SetBy(A, {}))
<1>6. SapSets(A, TRUE) /\ call' = [call EXCEPT ![c] = [call[c] EXCEPT !.at = "undo", !.todo = T]]
  BY <1>3, <1>5
<1>7. /\ sapExt' = AfterSet(A) /\ sapExt' \in [Locs -> 0..MaxIds]
      /\ \A l \in A : sapExt'[l] # 0
      /\ \A l \in Locs \ A : sapExt'[l] # 0 =>
           sapExt'[l] = sapExt[l] /\ (l \in unheard => l \in unheard')
  BY <1>1, <1>4, <1>6, AfterSetIs
<1>8. /\ \A b \in SetBy(A, {}) : b.loc \in A /\ b.id = AfterSet(A)[b.loc]
      /\ \A l \in A : \E b \in SetBy(A, {}) : b.loc = l
  BY <1>4, <1>7, SetByIs
<1>9. /\ \A b \in T : b.id = sapExt'[b.loc] /\ b.id # 0
      /\ \A l \in A : Keeps(T, l, sapExt')
  BY <1>7, <1>8 DEF WithId, Keeps
<1> HIDE DEF T
<1>10. /\ call'[c].at = "undo" /\ call'[c].todo = T /\ call'[c].prev = call[c].prev
       /\ call'[c].op = call[c].op
       /\ \A d \in Callers : d # c => call'[d] = call[d]
  BY <1>1, <1>6 DEF TypeOK, Call
<1>11. /\ Covered(sapExt, unheard, reported, {})
       /\ \A b \in call[c].prev : sapExt[b.loc] = 0 \/ b.loc \in unheard
  BY <1>1, <1>2, SettingLeft
<1>12. ASSUME NEW l \in Locs, sapExt'[l] # 0, l \notin unheard'
       PROVE  Keeps(T, l, sapExt') \/ (l \in reported /\ l \notin LocsOf(call[c].prev))
  <2>1. CASE l \in A
    BY <1>9, <2>1
  <2>2. CASE l \notin A
    <3>1. sapExt[l] # 0 /\ l \notin unheard
      BY <1>7, <1>12, <2>2
    <3> QED
      BY <1>11, <3>1 DEF Covered, LocsOf
  <2> QED
    BY <2>1, <2>2
<1>13. LeftOf(call'[c], sapExt', unheard', reported') /\ NamedOf(call'[c], External(bps'), sapExt', unheard')
  BY <1>1, <1>9, <1>10, <1>12 DEF LeftOf, NamedOf
<1>14. Active' => Resets(call'[c])
  BY <1>1, <1>2, <1>10, HolderIs DEF Resets
<1>15. "anonymous" \notin faults => \A b \in External(bps') : b.id # 0
  BY <1>1 DEF LeftInv
<1> QED
  BY <1>1, <1>10, <1>13, <1>14, <1>15, LeftHeld DEF Busy

\* No delete of the undo can fail: each breakpoint is set under its ID.
LEMMA LeftUndo ==
  ASSUME SafeInv, TruthInv, LeftInv, NEW c \in Callers, Undo(c)
  PROVE  LeftInv'
<1> USE SafeFacts
<1>1. /\ TypeOK /\ call[c].at = "undo" /\ call[c].at \in Holding
      /\ call[c].op \in {"add", "run"}
      /\ UNCHANGED <<faults, status, bps, reported>>
  BY DEF Undo, SafeInv, world, Holding, CallOK
<1>2. startMu = c /\ LeftOf(call[c], sapExt, unheard, reported) /\ (Active' <=> Active)
  BY <1>1, HolderIs DEF LeftInv, Active
<1>3. "delete" \notin faults
  BY <1>1, <1>2 DEF LeftInv, Tolerable, LeftOf
<1>4. PICK b \in call[c].todo :
        /\ call' = [call EXCEPT ![c].todo = @ \ {b}]
        /\ Forgets(b, TRUE) \/ MayFail(b)
  BY DEF Undo
<1>5. b.id = sapExt[b.loc] /\ b.id # 0 /\ b \in Bp /\ b.scope = "external"
  BY <1>1, <1>2 DEF LeftOf, CallOK
<1>6. Forgets(b, TRUE)
  BY <1>3, <1>4, <1>5 DEF MayFail
<1>7. /\ sapExt'[b.loc] = 0
      /\ \A l \in Locs : l # b.loc =>
           sapExt'[l] = sapExt[l] /\ (l \in unheard' <=> l \in unheard)
  BY <1>1, <1>5, <1>6, ForgetsIs
<1>8. /\ call'[c].at = "undo" /\ call'[c].todo = call[c].todo \ {b}
      /\ call'[c].prev = call[c].prev /\ call'[c].op = call[c].op
      /\ \A d \in Callers : d # c => call'[d] = call[d]
  BY <1>1, <1>4 DEF TypeOK, Call
<1>9. \A x \in call[c].todo : x \in Bp /\ x.scope = "external" /\ x.id = sapExt[x.loc]
                            /\ x.id # 0
  BY <1>1, <1>2 DEF LeftOf, CallOK
<1>10. ASSUME NEW x \in call[c].todo, x # b
       PROVE  x.loc # b.loc /\ sapExt'[x.loc] = sapExt[x.loc]
  <2>1. x.loc # b.loc
    BY <1>5, <1>9, <1>10 DEF Bp
  <2>2. x.loc \in Locs
    BY <1>9 DEF Bp
  <2> QED
    BY <1>7, <2>1, <2>2
<1>11. ASSUME NEW l \in Locs, sapExt'[l] # 0, l \notin unheard'
       PROVE  Keeps(call'[c].todo, l, sapExt')
                \/ (l \in reported /\ l \notin LocsOf(call[c].prev))
  <2>1. l # b.loc /\ sapExt'[l] = sapExt[l] /\ l \notin unheard
    BY <1>7, <1>11
  <2>2. Keeps(call[c].todo, l, sapExt) \/ (l \in reported /\ l \notin LocsOf(call[c].prev))
    BY <1>1, <1>2, <1>11, <2>1 DEF LeftOf
  <2> QED
    BY <1>8, <2>1, <2>2 DEF Keeps
<1>12. LeftOf(call'[c], sapExt', unheard', reported') /\ NamedOf(call'[c], External(bps'), sapExt', unheard')
  <2>1. "reject" \in faults
    BY <1>1, <1>2 DEF LeftOf
  <2>2. \A x \in call'[c].todo : x.id = sapExt'[x.loc] /\ x.id # 0
    BY <1>8, <1>9, <1>10
  <2> QED
    BY <1>1, <1>8, <1>11, <2>1, <2>2 DEF LeftOf, NamedOf
<1>13. Active' => Resets(call'[c])
  BY <1>1, <1>2, <1>8, HolderIs DEF Resets
<1>14. "anonymous" \notin faults => \A x \in External(bps') : x.id # 0
  BY <1>1 DEF LeftInv
<1> QED
  BY <1>1, <1>2, <1>8, <1>12, <1>13, <1>14, LeftHeld DEF Busy

LEMMA LeftCleanedUp ==
  ASSUME SafeInv, TruthInv, LeftInv, NEW c \in Callers, CleanedUp(c)
  PROVE  LeftInv'
<1> USE SafeFacts
<1>1. /\ TypeOK /\ call[c].at = "delete" /\ call[c].at \in Holding
      /\ call[c].op \in {"run", "stop"} /\ call[c].todo = {}
      /\ UNCHANGED <<faults, bps, sapExt, unheard>> /\ ~ Active'
      /\ reported' = reported \cup LocsOf(call[c].failed)
  BY DEF CleanedUp, SafeInv, Holding, Active, LetsGo, sap, world
<1>2. startMu = c /\ LeftOf(call[c], sapExt, unheard, reported)
      /\ ("anonymous" \notin faults => \A b \in External(bps') : b.id # 0)
  BY <1>1, HolderIs DEF LeftInv
<1>3. Covered(sapExt', unheard', reported', {})
  BY <1>1, <1>2 DEF LeftOf, Covered, Keeps
<1>4. CASE call[c].op = "stop"
  <2>1. call' = [call EXCEPT ![c] = NoCall] /\ NoCall.at \notin Holding
    BY <1>4 DEF NoCall, CleanedUp, Done, Holding
  <2>2. call'[c] = NoCall /\ \A d \in Callers : d # c => call'[d] = call[d]
    BY <1>1, <2>1 DEF TypeOK
  <2>3. LeftOf(call'[c], sapExt', unheard', reported') /\ NamedOf(call'[c], External(bps'), sapExt', unheard')
    BY <2>1, <2>2, LeftAside
  <2> QED
    BY <1>1, <1>2, <1>3, <2>2, <2>3, LeftHeld
<1>5. CASE call[c].op = "run"
  <2>1. call' = [call EXCEPT ![c] = [call[c] EXCEPT !.at = "set", !.failed = {},
                                                    !.halted = FALSE]]
    BY <1>5 DEF CleanedUp
  <2>2. /\ call'[c].at = "set" /\ call'[c].prev = {}
        /\ \A d \in Callers : d # c => call'[d] = call[d]
    BY <1>1, <1>5, <2>1 DEF TypeOK, Call, CallOK
  <2>3. LeftOf(call'[c], sapExt', unheard', reported') /\ NamedOf(call'[c], External(bps'), sapExt', unheard')
    BY <1>3, <2>2 DEF LeftOf, NamedOf
  <2> QED
    BY <1>1, <1>2, <2>2, <2>3, LeftHeld DEF Busy
<1> QED
  BY <1>1, <1>4, <1>5

LEMMA InitLeft == FaultSets \subseteq Tolerable /\ Init => LeftInv
<1> SUFFICES ASSUME FaultSets \subseteq Tolerable, Init PROVE LeftInv
  OBVIOUS
<1>1. faults \in Tolerable /\ External(bps) = {} /\ \A l \in Locs : sapExt[l] = 0
  BY DEF Init, External
<1>2. \A S : Covered(sapExt, unheard, reported, S)
  BY <1>1 DEF Covered
<1>3. \A c \in Callers : call[c] = NoCall /\ NoCall.at \notin Holding
  BY DEF Init, NoCall, Holding
<1>4. \A c \in Callers : /\ LeftOf(call[c], sapExt, unheard, reported)
                        /\ NamedOf(call[c], External(bps), sapExt, unheard)
  BY <1>3, LeftAside
<1> QED
  BY <1>1, <1>2, <1>4 DEF LeftInv

LEMMA StepLeft == SafeInv /\ TruthInv /\ LeftInv /\ [Next]_vars => LeftInv'
<1> SUFFICES ASSUME SafeInv, TruthInv, LeftInv, [Next]_vars PROVE LeftInv'
  OBVIOUS
<1>1. SafeInv'
  BY StepSafe
<1>2. CASE StatusStep \/ UNCHANGED vars
  <2>1. UNCHANGED <<call, sapExt, unheard, reported, faults>> /\ (Active <=> Active')
        /\ External(bps) = External(bps)'
    BY <1>2, StatusSafe DEF vars, sap, world, Active
  <2> QED
    BY <2>1 DEF LeftInv, LeftOf, NamedOf
<1>3. ASSUME NEW c \in Callers, Begins(c) \/ DebuggerStep(c) PROVE LeftInv'
  BY <1>1, <1>3, LeftAsides, LeftLaunch DEF Begins
<1>4. ASSUME NEW c \in Callers, ExternalStep(c) PROVE LeftInv'
  <2>1. CASE Refused(c) \/ Answered(c)
    BY <1>1, <2>1, LeftAsides
  <2>2. CASE Lock(c) \/ Delete(c) \/ DeleteFails(c) \/ DeleteLost(c) \/ CleanedUp(c)
    BY <2>2, LeftLock, LeftDelete, LeftDeleteFails, LeftCleanedUp
  <2>3. CASE SetAll(c) \/ SetPartly(c) \/ Undo(c)
    BY <2>3, LeftSetAll, LeftPartly, LeftUndo
  <2>4. CASE SetRefused(c) \/ SetLost(c) \/ Undone(c)
    BY <2>4, LeftFailed
  <2> QED
    BY <1>4, <2>1, <2>2, <2>3, <2>4 DEF ExternalStep
<1> QED
  BY <1>2, <1>3, <1>4 DEF Next

(* While nobody works on the external list, each breakpoint in SAP is in     *)
(* the list of the active run or was reported by a cleanup, when at most    *)
(* the faults of Tolerable happen together: set requests may fail and       *)
(* deletes too, or set requests may be rejected in part, or IDs may be      *)
(* missing while deletes fail; any of these with lost answers, and then but *)
(* for the locations of those (cleanupRun, resetExternalBreakpoints).        *)
THEOREM NothingIsForgotten ==
  ASSUME FaultSets \subseteq Tolerable
  PROVE  Spec => []NothingForgotten
<1>1. SafeInv /\ TruthInv /\ LeftInv => NothingForgotten
  <2> SUFFICES ASSUME SafeInv, LeftInv, startMu = "free"
               PROVE  Covered(sapExt, unheard, reported, IF Active THEN LocsOf(External(bps)) ELSE {})
    BY DEF NothingForgotten, Covered
  <2>1. \A c \in Callers : call[c].at \notin Busy /\ ~ Resets(call[c])
    BY SafeFacts, ConstantFacts DEF LockOf, Busy, Holding, Resets
  <2> QED
    BY <2>1 DEF LeftInv
<1>2. Init => LeftInv
  BY InitLeft
<1> QED
  BY <1>1, <1>2, InitSafe, InitTruth, StepSafe, StepTruth, StepLeft, PTL DEF Spec

(* Under the same faults a debug_set_breakpoint that fails names each        *)
(* location it lost, and names none that is still set, but where SAP set it *)
(* in a request whose answer was lost; one that succeeds has the old        *)
(* locations and the new one (resetExternalBreakpoints).                     *)
THEOREM LossesAreNamed ==
  ASSUME FaultSets \subseteq Tolerable
  PROVE  Spec => []LossesNamed
<1>1. LeftInv => LossesNamed
  BY DEF LeftInv, NamedOf, LossesNamed
<1>2. Init => LeftInv
  BY InitLeft
<1> QED
  BY <1>1, <1>2, InitSafe, InitTruth, StepSafe, StepTruth, StepLeft, PTL DEF Spec

-----------------------------------------------------------------------------
(* The breakpoints of the attached debugger.                               *)

AtDebugger == {"debugger", "store"}
Pending(k, op) == k.at = "store" /\ k.op = op
Added(k, b)   == \E c \in Callers : Pending(k[c], "add") /\ b \in k[c].todo
Removed(k, b) == \E c \in Callers : Pending(k[c], "remove") /\ b \in k[c].todo

\* The calls at the debugger are of the newest run, in the attachment they began
\* in; what they have done there and not yet stored is the whole difference, but
\* for the breakpoints whose answer was lost.  A breakpoint that is still to be
\* stored is nobody else's.
DebuggerInv ==
  /\ \A c \in Callers : call[c].at \in AtDebugger =>
       call[c].run = run /\ status \notin {"listening", "attaching"}
  /\ status \in {"listening", "attaching"} => Debugger(bps) = {}
  /\ status = "attached" /\ attached =>
       \A b \in Bp \ unheardDbg :
         b \in sapDbg <=> (b \in Debugger(bps) \/ Added(call, b)) /\ ~ Removed(call, b)
  /\ \A c \in Callers : Pending(call[c], "add") =>
       /\ \A d \in Callers \ {c} : call[c].todo \cap call[d].todo = {}
       /\ Active => call[c].todo \cap bps = {}

\* A step of c that neither begins nor ends a store.
LEMMA DebuggerFrame ==
  ASSUME SafeInv, DebuggerInv, NEW c \in Callers, UNCHANGED run,
         \A d \in Callers : d # c => call'[d] = call[d],
         call[c].at # "store", call'[c].at # "store",
         call'[c].at = "debugger"
           => call'[c].run = run /\ status \notin {"listening", "attaching"},
         Debugger(bps') = Debugger(bps), bps \subseteq Bp, bps' \subseteq Bp,
         status' = status \/ status' \notin {"listening", "attaching", "attached"},
         Active' => Active,
         \/ ~ attached'
         \/ /\ attached' = attached /\ unheardDbg \subseteq unheardDbg'
            /\ \A b \in Bp \ unheardDbg' : b \in sapDbg' <=> b \in sapDbg,
         \A b \in call'[c].todo : \/ b.scope = "external" \/ b \in call[c].todo
                                  \/ Active /\ b \in bps
  PROVE  DebuggerInv'
<1>1. ASSUME NEW op, NEW d \in Callers
      PROVE  /\ Pending(call'[d], op) <=> Pending(call[d], op)
             /\ Pending(call[d], op) => d # c /\ call'[d] = call[d]
  BY DEF Pending
<1>2. \A b : (Added(call', b) <=> Added(call, b)) /\ (Removed(call', b) <=> Removed(call, b))
  BY <1>1 DEF Added, Removed
<1>3. \A d \in Callers : call'[d].at \in AtDebugger =>
        call'[d].run = run' /\ status' \notin {"listening", "attaching"}
  BY DEF DebuggerInv, AtDebugger
<1>4. status' \in {"listening", "attaching"} => Debugger(bps') = {}
  BY DEF DebuggerInv
<1>5. status' = "attached" /\ attached' =>
        \A b \in Bp \ unheardDbg' :
          b \in sapDbg' <=> (b \in Debugger(bps') \/ Added(call', b)) /\ ~ Removed(call', b)
  <2> SUFFICES ASSUME status' = "attached", attached', NEW b \in Bp \ unheardDbg'
               PROVE  b \in sapDbg' <=>
                        (b \in Debugger(bps') \/ Added(call', b)) /\ ~ Removed(call', b)
    OBVIOUS
  <2>1. attached /\ status = "attached" /\ b \notin unheardDbg
        /\ (b \in sapDbg' <=> b \in sapDbg)
    OBVIOUS
  <2>2. b \in sapDbg <=> (b \in Debugger(bps) \/ Added(call, b)) /\ ~ Removed(call, b)
    BY <2>1 DEF DebuggerInv
  <2>3. /\ Added(call', b) <=> Added(call, b)
        /\ Removed(call', b) <=> Removed(call, b)
        /\ b \in Debugger(bps') <=> b \in Debugger(bps)
    BY <1>2
  <2> QED
    BY <2>1, <2>2, <2>3, Zenon
<1>6. ASSUME NEW d \in Callers, Pending(call[d], "add")
      PROVE  /\ \A e \in Callers \ {d} : call'[d].todo \cap call'[e].todo = {}
             /\ Active' => call'[d].todo \cap bps' = {}
  <2>1. d # c /\ call'[d] = call[d]
    BY <1>1, <1>6
  <2>2. \A b \in call[d].todo : b \in Bp /\ b.scope = "debugger"
    BY <1>6, SafeFacts DEF Pending, CallOK
  <2>3. /\ \A e \in Callers \ {d} : call[d].todo \cap call[e].todo = {}
        /\ Active => call[d].todo \cap bps = {}
    BY <1>6 DEF DebuggerInv
  <2>4. call[d].todo \cap call'[c].todo = {}
    BY <2>1, <2>2, <2>3
  <2>5. Active' => call[d].todo \cap bps' = {}
    BY <2>2, <2>3 DEF Debugger
  <2> QED
    BY <2>1, <2>3, <2>4, <2>5
<1> QED
  BY <1>1, <1>3, <1>4, <1>5, <1>6 DEF DebuggerInv

LEMMA DebuggerStatus ==
  ASSUME SafeInv, DebuggerInv, ~ Overlap, StatusStep
  PROVE  DebuggerInv'
<1>1. UNCHANGED <<call, run>> /\ (Active <=> Active')
  BY StatusSafe
<1>2. \A b, c, op : (Added(call', b) <=> Added(call, b)) /\ (Removed(call', b) <=> Removed(call, b))
                   /\ (Pending(call'[c], op) <=> Pending(call[c], op))
  BY <1>1 DEF Added, Removed, Pending
<1>3. CASE Hit \/ WindowEnds \/ AttachmentEnds \/ DebuggeeEnds
  <2>1. /\ bps' = bps /\ ~ (status' = "attached" /\ attached')
        /\ status' \in {"listening", "attaching"} => status \in {"listening", "attaching"}
    BY <1>3 DEF Hit, WindowEnds, AttachmentEnds, DebuggeeEnds, LetsGo
  <2> QED
    BY <1>1, <1>2, <2>1 DEF DebuggerInv
<1>4. CASE Attach
  <2>1. status = "attaching" /\ status' = "attached" /\ sapDbg' = {} /\ bps' = bps
    BY <1>4 DEF Attach
  <2>2. Debugger(bps) = {} /\ \A c \in Callers : call[c].at \notin AtDebugger
    BY <2>1 DEF DebuggerInv
  <2>3. \A b : ~ Added(call, b) /\ ~ Removed(call, b)
    BY <2>2 DEF Added, Removed, Pending, AtDebugger
  <2> QED
    BY <1>1, <1>2, <2>1, <2>2, <2>3 DEF DebuggerInv
<1>5. CASE Rearm
  <2>1. \A c \in Callers : call[c].at \notin AtDebugger
    BY <1>5 DEF Rearm, Settled, AtDebugger
  <2>2. status' = "listening" /\ bps' = External(bps)
    BY <1>5 DEF Rearm
  <2>3. Debugger(bps') = {}
    BY <2>2 DEF Debugger, External
  <2>4. \A c \in Callers : \A op : ~ Pending(call[c], op)
    BY <2>1 DEF Pending, AtDebugger
  <2> QED
    BY <1>1, <1>2, <2>1, <2>2, <2>3, <2>4 DEF DebuggerInv
<1> QED
  BY <1>3, <1>4, <1>5 DEF StatusStep

LEMMA DebuggerBegins ==
  ASSUME SafeInv, DebuggerInv, NEW c \in Callers, Begins(c)
  PROVE  DebuggerInv'
<1> USE SafeFacts
<1>1. bps \subseteq Bp /\ TypeOK
  BY DEF DataOK, SafeInv
<1>2. ASSUME NEW l \in Locs, AddBegins(c, l) PROVE DebuggerInv'
  <2>1. /\ UNCHANGED <<run, bps, status, attached, sapDbg, unheardDbg>> /\ call[c].at = "idle"
        /\ \A d \in Callers : d # c => call'[d] = call[d]
        /\ call'[c].at \in {"admit", "lock"} /\ call'[c].todo = {}
    BY <1>1, <1>2 DEF AddBegins, TypeOK, NoCall, sap, Idle
  <2> QED
    BY <1>1, <2>1, DebuggerFrame DEF Active
<1>3. ASSUME NEW b \in bps, RemoveBegins(c, b) PROVE DebuggerInv'
  <2>1. /\ UNCHANGED <<run, bps, status, attached, sapDbg, unheardDbg>> /\ call[c].at = "idle"
        /\ \A d \in Callers : d # c => call'[d] = call[d]
        /\ call'[c].at \in {"admit", "lock"} /\ call'[c].todo = {b} /\ Active
    BY <1>1, <1>3 DEF RemoveBegins, TypeOK, NoCall, sap, Idle
  <2> QED
    BY <1>1, <2>1, DebuggerFrame DEF Active
<1>4. ASSUME NEW op \in {"run", "stop"}, NEW L \in SUBSET Locs, LaunchBegins(c, op, L)
      PROVE  DebuggerInv'
  <2>1. /\ UNCHANGED <<run, bps, attached, sapDbg, unheardDbg>> /\ call[c].at = "idle"
        /\ status' = status \/ status' = "stopping"
        /\ \A d \in Callers : d # c => call'[d] = call[d]
        /\ ~ Active'
    BY <1>1, <1>4 DEF LaunchBegins, TypeOK, sap, Idle, Active
  <2>2. call'[c].at \in {"delete", "set", "answer"}
        /\ (\A b \in call'[c].todo : b.scope = "external")
    <3>1. CASE Active
      <4>1. call'[c].todo = WithId(External(bps)) /\ call'[c].at = "delete"
        BY <1>1, <1>4, <3>1 DEF LaunchBegins, TypeOK, NoCall
      <4> QED
        BY <4>1 DEF WithId, External
    <3>2. CASE ~ Active
      BY <1>1, <1>4, <3>2 DEF LaunchBegins, TypeOK, NoCall
    <3> QED
      BY <3>1, <3>2
  <2> QED
    BY <1>1, <2>1, <2>2, DebuggerFrame
<1> QED
  BY <1>2, <1>3, <1>4 DEF Begins

LEMMA DebuggerSets ==
  ASSUME SafeInv, DebuggerInv, NEW c \in Callers, DebuggerSet(c)
  PROVE  DebuggerInv'
<1> USE SafeFacts
<1>1. PICK l \in call[c].want : Free(l, "debugger") # {} /\
        LET b == [loc |-> l, id |-> NewId(l, "debugger"), scope |-> "debugger"] IN
        /\ sapDbg' = sapDbg \cup {b} /\ unheardDbg' = unheardDbg \ {b}
        /\ call' = [call EXCEPT ![c] = [@ EXCEPT !.at = "store", !.todo = {b}]]
  BY DEF DebuggerSet
<1> DEFINE b == [loc |-> l, id |-> NewId(l, "debugger"), scope |-> "debugger"]
<1>2. b \in Bp \ Known
  BY <1>1, DebuggerBp
<1>3. call' = [call EXCEPT ![c] = [call[c] EXCEPT !.at = "store", !.todo = {b}]]
      /\ sapDbg' = sapDbg \cup {b} /\ unheardDbg' = unheardDbg \ {b}
  BY <1>1
<1> HIDE DEF b
<1>4. /\ UNCHANGED <<run, status, bps, attached>> /\ call[c].at = "debugger"
      /\ call[c].op = "add" /\ TypeOK /\ (Active' <=> Active)
  BY DEF DebuggerSet, SafeInv, Active
<1>5. /\ \A d \in Callers : d # c => call'[d] = call[d]
      /\ call'[c].at = "store" /\ call'[c].op = "add" /\ call'[c].todo = {b}
      /\ call'[c].run = call[c].run
  BY <1>3, <1>4 DEF TypeOK, Call
<1>6. /\ \A d \in Callers : b \notin call[d].todo
      /\ Active => b \notin bps
  BY <1>2 DEF Known
<1>7. \A d \in Callers : \A op : Pending(call'[d], op) <=> Pending(call[d], op) \/ (d = c /\ op = "add")
  BY <1>4, <1>5 DEF Pending
<1>8. \A x : /\ Added(call', x) <=> Added(call, x) \/ x = b
             /\ Removed(call', x) <=> Removed(call, x)
  <2>1. ~ Pending(call[c], "add") /\ ~ Pending(call[c], "remove")
    BY <1>4 DEF Pending
  <2> QED
    BY <1>5, <1>7, <2>1 DEF Added, Removed
<1>9. ~ Removed(call, b)
  BY <1>6 DEF Removed
<1>10. status' = "attached" /\ attached' =>
         \A x \in Bp \ unheardDbg' :
           x \in sapDbg' <=> (x \in Debugger(bps') \/ Added(call', x)) /\ ~ Removed(call', x)
  <2> SUFFICES ASSUME status' = "attached", attached', NEW x \in Bp \ unheardDbg'
               PROVE  x \in sapDbg' <=> (x \in Debugger(bps') \/ Added(call', x)) /\ ~ Removed(call', x)
    OBVIOUS
  <2>1. x # b => (x \in sapDbg <=> (x \in Debugger(bps) \/ Added(call, x)) /\ ~ Removed(call, x))
    BY <1>3, <1>4 DEF DebuggerInv
  <2>2. x \in sapDbg' <=> x \in sapDbg \/ x = b
    BY <1>3
  <2>3. x \in Debugger(bps') <=> x \in Debugger(bps)
    BY <1>4
  <2>4. x = b => ~ Removed(call, x)
    BY <1>9
  <2> QED
    BY <1>8, <2>1, <2>2, <2>3, <2>4, Zenon
<1>11. \A d \in Callers : call'[d].at \in AtDebugger =>
         call'[d].run = run' /\ status' \notin {"listening", "attaching"}
  BY <1>4, <1>5 DEF DebuggerInv, AtDebugger
<1>12. ASSUME NEW d \in Callers, Pending(call'[d], "add")
       PROVE  /\ \A e \in Callers \ {d} : call'[d].todo \cap call'[e].todo = {}
              /\ Active' => call'[d].todo \cap bps' = {}
  <2>1. CASE d = c
    BY <1>4, <1>5, <1>6, <2>1
  <2>2. CASE d # c
    <3>1. Pending(call[d], "add") /\ call'[d] = call[d]
      BY <1>5, <1>7, <1>12, <2>2
    <3> QED
      BY <1>4, <1>5, <1>6, <2>2, <3>1 DEF DebuggerInv
  <2> QED
    BY <2>1, <2>2
<1>13. status' \in {"listening", "attaching"} => Debugger(bps') = {}
  BY <1>4 DEF DebuggerInv
<1> QED
  BY <1>10, <1>11, <1>12, <1>13 DEF DebuggerInv

LEMMA DebuggerDeletes ==
  ASSUME SafeInv, DebuggerInv, NEW c \in Callers, DebuggerDelete(c)
  PROVE  DebuggerInv'
<1> USE SafeFacts
<1>1. /\ UNCHANGED <<run, status, bps, attached>> /\ call[c].at = "debugger"
      /\ call[c].op = "remove" /\ TypeOK /\ (Active' <=> Active)
      /\ call' = [call EXCEPT ![c].at = "store"] /\ sapDbg' = sapDbg \ call[c].todo
      /\ unheardDbg' = unheardDbg \ call[c].todo
  BY DEF DebuggerDelete, SafeInv, Active
<1>2. /\ \A d \in Callers : d # c => call'[d] = call[d]
      /\ call'[c].at = "store" /\ call'[c].op = "remove"
      /\ \A d \in Callers : call'[d].todo = call[d].todo /\ call'[d].run = call[d].run
  BY <1>1 DEF TypeOK, Call
<1>3. \A d \in Callers : \A op : Pending(call'[d], op) <=> Pending(call[d], op) \/ (d = c /\ op = "remove")
  BY <1>1, <1>2 DEF Pending
<1>4. \A x : /\ Added(call', x) <=> Added(call, x)
             /\ Removed(call', x) <=> Removed(call, x) \/ x \in call[c].todo
  BY <1>2, <1>3 DEF Added, Removed
<1>5. status' = "attached" /\ attached' =>
        \A x \in Bp \ unheardDbg' :
           x \in sapDbg' <=> (x \in Debugger(bps') \/ Added(call', x)) /\ ~ Removed(call', x)
  <2> SUFFICES ASSUME status' = "attached", attached', NEW x \in Bp \ unheardDbg'
               PROVE  x \in sapDbg' <=> (x \in Debugger(bps') \/ Added(call', x)) /\ ~ Removed(call', x)
    OBVIOUS
  <2>1. x \notin call[c].todo =>
          (x \in sapDbg <=> (x \in Debugger(bps) \/ Added(call, x)) /\ ~ Removed(call, x))
    BY <1>1 DEF DebuggerInv
  <2>2. x \in sapDbg' <=> x \in sapDbg /\ x \notin call[c].todo
    BY <1>1
  <2>3. x \in Debugger(bps') <=> x \in Debugger(bps)
    BY <1>1
  <2> QED
    BY <1>4, <2>1, <2>2, <2>3, Zenon
<1>6. \A d \in Callers : call'[d].at \in AtDebugger =>
        call'[d].run = run' /\ status' \notin {"listening", "attaching"}
  BY <1>1, <1>2 DEF DebuggerInv, AtDebugger
<1>7. \A d \in Callers : Pending(call'[d], "add") =>
        /\ \A e \in Callers \ {d} : call'[d].todo \cap call'[e].todo = {}
        /\ Active' => call'[d].todo \cap bps' = {}
  BY <1>1, <1>2, <1>3 DEF DebuggerInv
<1>8. status' \in {"listening", "attaching"} => Debugger(bps') = {}
  BY <1>1 DEF DebuggerInv
<1> QED
  BY <1>5, <1>6, <1>7, <1>8 DEF DebuggerInv

LEMMA DebuggerStore ==
  ASSUME SafeInv, DebuggerInv, NEW c \in Callers, Store(c)
  PROVE  DebuggerInv'
<1> USE SafeFacts
<1>1. /\ UNCHANGED <<run, status, sapDbg, attached, unheardDbg>> /\ call[c].at = "store" /\ Done(c)
      /\ TypeOK /\ (Active' <=> Active) /\ call[c].op \in {"add", "remove"}
  BY DEF Store, SafeInv, Active, sap, CallOK
<1>2. call'[c] = NoCall /\ \A d \in Callers : d # c => call'[d] = call[d]
  BY <1>1 DEF Done, TypeOK
<1>3. NoCall.at = "idle" /\ NoCall.todo = {}
  BY DEF NoCall
<1>4. call[c].run = run /\ status \notin {"listening", "attaching"}
  BY <1>1 DEF DebuggerInv, AtDebugger
<1>5. \A b \in call[c].todo : b \in Bp /\ b.scope = "debugger"
  BY <1>1 DEF CallOK
<1>6. \A d \in Callers : \A op : Pending(call'[d], op) <=> Pending(call[d], op) /\ d # c
  BY <1>2, <1>3 DEF Pending
<1>7. \A x : /\ Added(call, x) <=> Added(call', x) \/ (call[c].op = "add" /\ x \in call[c].todo)
             /\ Removed(call, x) <=> Removed(call', x) \/ (call[c].op = "remove" /\ x \in call[c].todo)
  <2>1. \A op : Pending(call[c], op) <=> call[c].op = op
    BY <1>1 DEF Pending
  <2> QED
    BY <1>2, <1>6, <2>1 DEF Added, Removed
<1>8. \A d \in Callers : call'[d].at \in AtDebugger =>
        call'[d].run = run' /\ status' \notin {"listening", "attaching"}
  BY <1>1, <1>2, <1>3 DEF DebuggerInv, AtDebugger
<1>9. CASE call[c].op = "add"
  <2>1. bps' = bps \cup call[c].todo
    BY <1>4, <1>9 DEF Store
  <2>2. \A x : x \in Debugger(bps') <=> x \in Debugger(bps) \/ x \in call[c].todo
    BY <1>5, <2>1 DEF Debugger
  <2>3. status' = "attached" /\ attached' =>
          \A x \in Bp \ unheardDbg' :
           x \in sapDbg' <=> (x \in Debugger(bps') \/ Added(call', x)) /\ ~ Removed(call', x)
    <3> SUFFICES ASSUME status' = "attached", attached', NEW x \in Bp \ unheardDbg'
                 PROVE  x \in sapDbg' <=> (x \in Debugger(bps') \/ Added(call', x)) /\ ~ Removed(call', x)
      OBVIOUS
    <3>1. x \in sapDbg <=> (x \in Debugger(bps) \/ Added(call, x)) /\ ~ Removed(call, x)
      BY <1>1 DEF DebuggerInv
    <3>2. (x \in sapDbg' <=> x \in sapDbg) /\ (Removed(call, x) <=> Removed(call', x))
      BY <1>1, <1>7, <1>9
    <3>3. Added(call, x) <=> Added(call', x) \/ x \in call[c].todo
      BY <1>7, <1>9
    <3> QED
      BY <2>2, <3>1, <3>2, <3>3, Zenon
  <2>4. ASSUME NEW d \in Callers, Pending(call'[d], "add")
        PROVE  /\ \A e \in Callers \ {d} : call'[d].todo \cap call'[e].todo = {}
               /\ Active' => call'[d].todo \cap bps' = {}
    <3>1. Pending(call[d], "add") /\ d # c /\ call'[d] = call[d]
      BY <1>2, <1>6, <2>4
    <3>2. /\ \A e \in Callers \ {d} : call[d].todo \cap call[e].todo = {}
          /\ Active => call[d].todo \cap bps = {}
      BY <3>1 DEF DebuggerInv
    <3>3. \A e \in Callers \ {d} : call'[d].todo \cap call'[e].todo = {}
      BY <1>2, <1>3, <3>1, <3>2
    <3>4. call[d].todo \cap call[c].todo = {}
      BY <3>1, <3>2
    <3> QED
      BY <1>1, <2>1, <3>1, <3>2, <3>3, <3>4
  <2> QED
    BY <1>1, <1>4, <1>8, <2>3, <2>4 DEF DebuggerInv
<1>10. CASE call[c].op = "remove"
  <2>1. bps' = bps \ call[c].todo
    BY <1>4, <1>10 DEF Store
  <2>2. \A x : x \in Debugger(bps') <=> x \in Debugger(bps) /\ x \notin call[c].todo
    BY <2>1 DEF Debugger
  <2>3. \A x \in call[c].todo : ~ Added(call, x) /\ Removed(call, x)
    <3>1. \A x \in call[c].todo : Removed(call, x)
      BY <1>7, <1>10
    <3>2. ASSUME NEW x \in call[c].todo, Added(call, x) PROVE FALSE
      <4>1. PICK d \in Callers : Pending(call[d], "add") /\ x \in call[d].todo
        BY <3>2 DEF Added
      <4>2. d # c
        BY <1>10, <4>1 DEF Pending
      <4> QED
        BY <3>2, <4>1, <4>2 DEF DebuggerInv
    <3> QED
      BY <3>1, <3>2
  <2>4. status' = "attached" /\ attached' =>
          \A x \in Bp \ unheardDbg' :
           x \in sapDbg' <=> (x \in Debugger(bps') \/ Added(call', x)) /\ ~ Removed(call', x)
    <3> SUFFICES ASSUME status' = "attached", attached', NEW x \in Bp \ unheardDbg'
                 PROVE  x \in sapDbg' <=> (x \in Debugger(bps') \/ Added(call', x)) /\ ~ Removed(call', x)
      OBVIOUS
    <3>1. x \in sapDbg <=> (x \in Debugger(bps) \/ Added(call, x)) /\ ~ Removed(call, x)
      BY <1>1 DEF DebuggerInv
    <3>2. (x \in sapDbg' <=> x \in sapDbg) /\ (Added(call, x) <=> Added(call', x))
      BY <1>1, <1>7, <1>10
    <3>3. Removed(call, x) <=> Removed(call', x) \/ x \in call[c].todo
      BY <1>7, <1>10
    <3>4. x \in call[c].todo => ~ Added(call, x)
      BY <2>3
    <3> QED
      BY <2>2, <3>1, <3>2, <3>3, <3>4, Zenon
  <2>5. ASSUME NEW d \in Callers, Pending(call'[d], "add")
        PROVE  /\ \A e \in Callers \ {d} : call'[d].todo \cap call'[e].todo = {}
               /\ Active' => call'[d].todo \cap bps' = {}
    <3>1. Pending(call[d], "add") /\ d # c /\ call'[d] = call[d]
      BY <1>2, <1>6, <2>5
    <3> QED
      BY <1>1, <1>2, <1>3, <2>1, <3>1 DEF DebuggerInv
  <2> QED
    BY <1>1, <1>4, <1>8, <2>4, <2>5 DEF DebuggerInv
<1> QED
  BY <1>1, <1>9, <1>10

\* What an external request and a detach do to the debugger's breakpoints.
DebuggerKept == UNCHANGED <<sapDbg, attached, unheardDbg>> \/ ~ attached'

LEMMA DebuggerKeeps ==
  ASSUME TypeOK
  PROVE  /\ UNCHANGED sap => DebuggerKept
         /\ LetsGo => DebuggerKept
         /\ ExternalRequest => DebuggerKept
<1>1. ExternalRequest => DebuggerKept
  BY DEF ExternalRequest, DebuggerKept, TypeOK
<1> QED
  BY <1>1 DEF sap, LetsGo, DebuggerKept

\* A step at the external list that leaves the run.
LEMMA DebuggerAside ==
  ASSUME SafeInv, SafeInv', DebuggerInv, NEW c \in Callers, UNCHANGED run,
         status' = status \/ status' = "stopped",
         \A d \in Callers : d # c => call'[d] = call[d],
         call[c].at \notin AtDebugger, call'[c].at \notin AtDebugger,
         DebuggerKept, Debugger(bps') = Debugger(bps),
         \/ call'[c].at \in {"delete", "undo"}
         \/ call'[c].todo \subseteq call[c].todo
  PROVE  DebuggerInv'
<1>1. bps \subseteq Bp /\ bps' \subseteq Bp
  BY DEF SafeInv, TypeOK
<1>2. CallOK(call'[c])
  BY DEF SafeInv, CallsOK
<1>3. \A b \in call'[c].todo : b.scope = "external" \/ b \in call[c].todo
  BY <1>2 DEF CallOK
<1>4. Active' => Active
  BY DEF Active
<1> QED
  BY <1>1, <1>3, <1>4, DebuggerFrame DEF AtDebugger, DebuggerKept

LEMMA DebuggerAsides ==
  ASSUME SafeInv, SafeInv', DebuggerInv, NEW c \in Callers,
         Refused(c) \/ Answered(c) \/ Lock(c) \/ CleanedUp(c)
  PROVE  DebuggerInv'
<1> USE SafeFacts
<1>1. TypeOK /\ call[c].at \in {"lock", "answer", "delete"} /\ UNCHANGED <<run, bps>>
  BY DEF SafeInv, Refused, Answered, Lock, CleanedUp
<1>2. NoCall.at = "idle" /\ NoCall.todo = {}
  BY DEF NoCall
<1>3. Done(c) => /\ call'[c] = NoCall
                 /\ \A d \in Callers : d # c => call'[d] = call[d]
  BY <1>1 DEF Done, TypeOK
<1>4. CASE Refused(c) \/ Answered(c)
  <2>1. Done(c) /\ UNCHANGED <<status, sap>>
    BY <1>4 DEF Refused, Answered
  <2> QED
    BY <1>1, <1>2, <1>3, <2>1, DebuggerKeeps, DebuggerAside DEF AtDebugger
<1>5. CASE Lock(c)
  <2>1. PICK P, T : call' = [call EXCEPT ![c] =
           [call[c] EXCEPT !.at = "delete", !.prev = P, !.todo = T]]
    <3>1. CASE call[c].op = "add"
      BY <1>5, <3>1 DEF Lock
    <3>2. CASE call[c].op # "add"
      <4>1. [call[c] EXCEPT !.at = "delete"] =
              [call[c] EXCEPT !.at = "delete", !.prev = call[c].prev, !.todo = call[c].todo]
        BY DEF Call
      <4> QED
        BY <1>5, <3>2, <4>1 DEF Lock
    <3> QED
      BY <3>1, <3>2
  <2>2. call'[c].at = "delete" /\ \A d \in Callers : d # c => call'[d] = call[d]
    BY <1>1, <2>1 DEF TypeOK, Call
  <2>3. UNCHANGED <<status, sap>>
    BY <1>5 DEF Lock
  <2> QED
    BY <1>1, <2>2, <2>3, DebuggerKeeps, DebuggerAside DEF AtDebugger
<1>6. CASE CleanedUp(c)
  <2>1. status' = "stopped" /\ DebuggerKept
    BY <1>1, <1>6, DebuggerKeeps DEF CleanedUp
  <2>2. CASE call[c].op = "stop"
    BY <1>1, <1>2, <1>3, <1>6, <2>1, <2>2, DebuggerAside DEF CleanedUp, AtDebugger
  <2>3. CASE call[c].op # "stop"
    <3>1. call' = [call EXCEPT ![c] = [call[c] EXCEPT !.at = "set", !.failed = {},
                                                      !.halted = FALSE]]
      BY <1>6, <2>3 DEF CleanedUp
    <3>2. /\ call'[c].at = "set" /\ call'[c].todo = call[c].todo
          /\ \A d \in Callers : d # c => call'[d] = call[d]
      BY <1>1, <3>1 DEF TypeOK, Call
    <3> QED
      BY <1>1, <2>1, <3>2, DebuggerAside DEF AtDebugger
  <2> QED
    BY <2>2, <2>3
<1> QED
  BY <1>4, <1>5, <1>6

LEMMA DebuggerDeleting ==
  ASSUME SafeInv, SafeInv', TruthInv, DebuggerInv, NEW c \in Callers,
         Delete(c) \/ DeleteFails(c) \/ DeleteLost(c)
  PROVE  DebuggerInv'
<1> USE SafeFacts
<1>1. /\ TypeOK /\ call[c].at = "delete" /\ UNCHANGED <<run, status>>
      /\ \A b \in call[c].todo : b.scope = "external"
  BY DEF SafeInv, Delete, DeleteFails, DeleteLost, CallOK
<1>2. DebuggerKept
  BY <1>1, DebuggerKeeps DEF Delete, DeleteFails, DeleteLost, Forgets
<1>3. /\ \A d \in Callers : d # c => call'[d] = call[d]
      /\ call'[c].at \in {"delete", "answer"} /\ call'[c].todo \subseteq call[c].todo
  <2>1. CASE \E good, lost : Answer(c, good, lost)
    <3>1. PICK good, lost : Answer(c, good, lost)
      BY <2>1
    <3>2. call' = [call EXCEPT ![c] = [call[c] EXCEPT !.at = "answer", !.ok = good,
                                                      !.named = lost]]
      BY <3>1 DEF Answer
    <3> QED
      BY <1>1, <3>2 DEF TypeOK, Call
  <2>2. CASE \E T, F : T \subseteq call[c].todo
                       /\ call' = [call EXCEPT ![c] = [call[c] EXCEPT !.todo = T, !.failed = F]]
    <3>1. PICK T, F : T \subseteq call[c].todo
                       /\ call' = [call EXCEPT ![c] = [call[c] EXCEPT !.todo = T, !.failed = F]]
      BY <2>2
    <3> QED
      BY <1>1, <3>1 DEF TypeOK, Call
  <2>3. CASE Delete(c)
    <3>1. PICK b \in call[c].todo :
            IF call[c].op = "remove"
              THEN Answer(c, TRUE, {})
              ELSE call' = [call EXCEPT ![c].todo = @ \ {b}]
      BY <2>3 DEF Delete
    <3>2. CASE call[c].op = "remove"
      BY <2>1, <3>1, <3>2
    <3>3. CASE call[c].op # "remove"
      <4>1. call' = [call EXCEPT ![c] = [call[c] EXCEPT !.todo = call[c].todo \ {b},
                                                        !.failed = call[c].failed]]
        BY <1>1, <3>1, <3>3 DEF TypeOK, Call
      <4>2. call[c].todo \ {b} \subseteq call[c].todo
        OBVIOUS
      <4> QED
        BY <2>2, <4>1, <4>2
    <3> QED
      BY <3>2, <3>3
  <2>4. CASE DeleteFails(c) \/ DeleteLost(c)
    <3>1. PICK b \in call[c].todo :
            IF call[c].op \in {"run", "stop"}
              THEN call' = [call EXCEPT ![c].todo = @ \ {b}, ![c].failed = @ \cup {b}]
              ELSE \E lost : Answer(c, FALSE, lost)
      BY <2>4 DEF DeleteFails, DeleteLost, DeleteFailed
    <3>2. CASE call[c].op \in {"run", "stop"}
      <4>1. call' = [call EXCEPT ![c] = [call[c] EXCEPT !.todo = call[c].todo \ {b},
                                                        !.failed = call[c].failed \cup {b}]]
        BY <1>1, <3>1, <3>2 DEF TypeOK, Call
      <4>2. call[c].todo \ {b} \subseteq call[c].todo
        OBVIOUS
      <4> QED
        BY <2>2, <4>1, <4>2
    <3>3. CASE call[c].op \notin {"run", "stop"}
      BY <2>1, <3>1, <3>3
    <3> QED
      BY <3>2, <3>3
  <2> QED
    BY <2>3, <2>4
<1>4. Debugger(bps') = Debugger(bps)
  <2>1. CASE Delete(c)
    <3>1. PICK b \in call[c].todo : bps' \in {bps, bps \ {b}}
      BY <2>1 DEF Delete
    <3> QED
      BY <1>1, <3>1 DEF Debugger
  <2>2. CASE DeleteFails(c) \/ DeleteLost(c)
    <3>1. bps' \in {bps, bps \ (WithId(call[c].prev) \ call[c].todo)}
      BY <2>2 DEF DeleteFails, DeleteLost, DeleteFailed
    <3>2. CASE call[c].op = "add"
      <4>1. call[c].prev = External(bps)
        BY <1>1, <3>2 DEF TruthInv, Resets, ResetOK
      <4> QED
        BY <3>1, <4>1 DEF Debugger, External, WithId
    <3>3. CASE call[c].op # "add"
      <4>1. call[c].op \in {"run", "stop"} \/ call[c].prev = {}
        BY <1>1, <3>3 DEF CallOK, Holding, Ops
      <4>2. bps' = bps
        BY <2>2, <3>1, <4>1 DEF DeleteFails, DeleteLost, DeleteFailed, WithId
      <4> QED
        BY <4>2
    <3> QED
      BY <3>2, <3>3
  <2> QED
    BY <2>1, <2>2
<1> QED
  BY <1>1, <1>2, <1>3, <1>4, DebuggerAside DEF AtDebugger

\* A new run starts when the clients are done with the last attachment.
LEMMA DebuggerSetAll ==
  ASSUME SafeInv, SafeInv', DebuggerInv, ~ Overlap, NEW c \in Callers, SetAll(c)
  PROVE  DebuggerInv'
<1> USE SafeFacts
<1>1. TypeOK /\ call[c].at \in {"delete", "set"}
  BY SettingIs DEF SafeInv, SetAll
<1>2. PICK S \in SUBSET Bp :
        /\ \A b \in S : b.scope = "external"
        /\ IF call[c].op = "run"
             THEN /\ bps' = S
                  /\ run' = run + 1 /\ status' = "listening"
                  /\ startMu' = "free" /\ Done(c)
             ELSE /\ bps' = S \cup Debugger(bps)
                  /\ Answer(c, ~ call[c].again, {})
                  /\ UNCHANGED <<run, status, startMu>>
  BY <1>1, SetAllIs
<1>3. CASE call[c].op = "run"
  <2>1. status' = "listening" /\ Debugger(bps') = {}
    BY <1>2, <1>3 DEF Debugger
  <2>2. \A d \in Callers : call[d].at \notin AtDebugger
    BY <1>3 DEF SetAll, Settled, AtDebugger
  <2>3. \A d \in Callers : call'[d] \in {call[d], NoCall}
    BY <1>1, <1>2, <1>3 DEF Done, TypeOK
  <2>4. \A d \in Callers : call'[d].at \notin AtDebugger
    <3>1. NoCall.at \notin AtDebugger
      BY DEF NoCall, AtDebugger
    <3> QED
      BY <2>2, <2>3, <3>1
  <2>5. \A d \in Callers : \A op : ~ Pending(call'[d], op)
    BY <2>4 DEF Pending, AtDebugger
  <2> QED
    BY <2>1, <2>4, <2>5 DEF DebuggerInv
<1>4. CASE call[c].op # "run"
  <2>1. call' = [call EXCEPT ![c] = [call[c] EXCEPT !.at = "answer", !.ok = ~ call[c].again,
                                                    !.named = {}]]
    BY <1>2, <1>4 DEF Answer
  <2>2. /\ call'[c].at = "answer" /\ call'[c].todo = call[c].todo
        /\ \A d \in Callers : d # c => call'[d] = call[d]
    BY <1>1, <2>1 DEF TypeOK, Call
  <2>3. Debugger(bps') = Debugger(bps) /\ UNCHANGED <<run, status>>
    BY <1>2, <1>4 DEF Debugger
  <2>4. DebuggerKept
    BY <1>1, DebuggerKeeps DEF SetAll, NothingToSet, SapSets
  <2> QED
    BY <1>1, <2>2, <2>3, <2>4, DebuggerAside DEF AtDebugger
<1> QED
  BY <1>3, <1>4

LEMMA DebuggerSetting ==
  ASSUME SafeInv, SafeInv', DebuggerInv, NEW c \in Callers,
         SetRefused(c) \/ SetLost(c) \/ Undone(c) \/ SetPartly(c) \/ Undo(c)
  PROVE  DebuggerInv'
<1> USE SafeFacts
<1>1. /\ TypeOK /\ call[c].at \in {"delete", "set", "undo"} /\ UNCHANGED <<run, status>>
  BY SettingIs DEF SafeInv, SetRefused, SetLost, Undone, SetPartly, Undo
<1>2. CASE SetRefused(c) \/ SetLost(c) \/ Undone(c)
  <2>1. SetFailed(c) /\ DebuggerKept
    BY <1>1, <1>2, DebuggerKeeps DEF SetRefused, SetLost, SapSets, Undone
  <2>2. Debugger(bps') = Debugger(bps)
    <3>1. bps' \in {bps, Debugger(bps)}
      BY <2>1 DEF SetFailed
    <3> QED
      BY <3>1 DEF Debugger
  <2>3. PICK k : /\ call' = [call EXCEPT ![c] = k]
                 /\ k.at \in {"idle", "answer", "set"} /\ k.todo \subseteq call[c].todo
    <3>1. CASE call[c].op = "run"
      BY <2>1, <3>1 DEF SetFailed, Done, NoCall
    <3>2. CASE call[c].op # "run" /\ call[c].again
      <4> DEFINE m == [call[c] EXCEPT !.at = "answer", !.ok = FALSE,
                                      !.named = LocsOf(call[c].prev)]
      <4>1. call' = [call EXCEPT ![c] = m]
        BY <2>1, <3>2 DEF SetFailed, Answer
      <4>2. m.at = "answer" /\ m.todo = call[c].todo
        BY DEF Call
      <4> HIDE DEF m
      <4> QED
        BY <4>1, <4>2
    <3>3. CASE call[c].op # "run" /\ ~ call[c].again
      <4> DEFINE m == [call[c] EXCEPT !.at = "set", !.again = TRUE, !.todo = {}]
      <4>1. call' = [call EXCEPT ![c] = m]
        BY <2>1, <3>3 DEF SetFailed
      <4>2. m.at = "set" /\ m.todo = {}
        BY DEF Call
      <4> HIDE DEF m
      <4> QED
        BY <4>1, <4>2
    <3> QED
      BY <3>1, <3>2, <3>3
  <2>4. call'[c] = k /\ \A d \in Callers : d # c => call'[d] = call[d]
    BY <1>1, <2>3 DEF TypeOK
  <2> QED
    BY <1>1, <2>1, <2>2, <2>3, <2>4, DebuggerAside DEF AtDebugger
<1>3. CASE SetPartly(c) \/ Undo(c)
  <2>1. DebuggerKept /\ bps' = bps
    BY <1>1, <1>3, DebuggerKeeps DEF SetPartly, SapSets, Undo, Forgets
  <2>2. PICK T : call' = [call EXCEPT ![c] = [call[c] EXCEPT !.at = "undo", !.todo = T]]
    <3>1. CASE SetPartly(c)
      BY <3>1 DEF SetPartly
    <3>2. CASE Undo(c)
      <4>1. PICK b : call' = [call EXCEPT ![c].todo = @ \ {b}]
        BY <3>2 DEF Undo
      <4>2. call[c].at = "undo"
        BY <3>2 DEF Undo
      <4>3. call' = [call EXCEPT ![c] = [call[c] EXCEPT !.at = "undo",
                                                        !.todo = call[c].todo \ {b}]]
        BY <1>1, <4>1, <4>2 DEF TypeOK, Call
      <4> QED
        BY <4>3
    <3> QED
      BY <1>3, <3>1, <3>2
  <2>3. call'[c].at = "undo" /\ \A d \in Callers : d # c => call'[d] = call[d]
    BY <1>1, <2>2 DEF TypeOK, Call
  <2> QED
    BY <1>1, <2>1, <2>3, DebuggerAside DEF AtDebugger
<1> QED
  BY <1>2, <1>3

\* The call is admitted, or fails.
LEMMA DebuggerAdmits ==
  ASSUME SafeInv, DebuggerInv, NEW c \in Callers, Admit(c) \/ DebuggerFails(c)
  PROVE  DebuggerInv'
<1> USE SafeFacts
<1>1. /\ TypeOK /\ call[c].at \in {"admit", "debugger"}
      /\ UNCHANGED <<run, status, bps, attached, sapDbg, unheardDbg>>
  BY DEF SafeInv, Admit, DebuggerFails, sap
<1>2. NoCall.at = "idle" /\ NoCall.todo = {}
  BY DEF NoCall
<1>3. /\ \A d \in Callers : d # c => call'[d] = call[d]
      /\ call'[c].at \in {"idle", "debugger"} /\ call'[c].todo \subseteq call[c].todo
      /\ call'[c].at = "debugger" => call'[c].run = run /\ status = "attached"
  <2>1. CASE Done(c)
    BY <1>1, <1>2, <2>1 DEF Done, TypeOK
  <2>2. CASE ~ Done(c)
    <3>1. /\ call' = [call EXCEPT ![c].at = "debugger"]
          /\ status = "attached" /\ call[c].run = run
      BY <2>2 DEF Admit, DebuggerFails
    <3> QED
      BY <1>1, <3>1 DEF TypeOK, Call
  <2> QED
    BY <2>1, <2>2
<1>4. bps \subseteq Bp /\ bps' \subseteq Bp /\ Debugger(bps') = Debugger(bps)
      /\ (Active' => Active)
  BY <1>1 DEF TypeOK, Active
<1> QED
  BY <1>1, <1>3, <1>4, DebuggerFrame

\* The debugger did what the call asked for, and the call does not know.
LEMMA DebuggerLoses ==
  ASSUME SafeInv, DebuggerInv, NEW c \in Callers, DebuggerLost(c)
  PROVE  DebuggerInv'
<1> USE SafeFacts
<1>1. /\ TypeOK /\ call[c].at = "debugger" /\ Done(c)
      /\ UNCHANGED <<run, status, bps, attached>>
  BY DEF SafeInv, DebuggerLost
<1>2. NoCall.at = "idle" /\ NoCall.todo = {}
  BY DEF NoCall
<1>3. call'[c] = NoCall /\ \A d \in Callers : d # c => call'[d] = call[d]
  BY <1>1 DEF Done, TypeOK
<1>4. PICK S : /\ unheardDbg' = unheardDbg \cup S
               /\ sapDbg' = sapDbg \cup S \/ sapDbg' = sapDbg \ S
  <2>1. CASE call[c].op = "add"
    BY <2>1 DEF DebuggerLost
  <2>2. CASE call[c].op # "add"
    BY <2>2 DEF DebuggerLost
  <2> QED
    BY <2>1, <2>2
<1>5. unheardDbg \subseteq unheardDbg'
      /\ \A b \in Bp \ unheardDbg' : b \in sapDbg' <=> b \in sapDbg
  BY <1>4
<1>6. bps \subseteq Bp /\ bps' \subseteq Bp /\ Debugger(bps') = Debugger(bps)
      /\ (Active' => Active)
  BY <1>1 DEF TypeOK, Active
<1> QED
  BY <1>1, <1>2, <1>3, <1>5, <1>6, DebuggerFrame

LEMMA InitDebugger == Init => DebuggerInv
<1> SUFFICES ASSUME Init PROVE DebuggerInv
  OBVIOUS
<1>1. \A c \in Callers : call[c].at = "idle"
  BY DEF Init, NoCall
<1>2. bps = {} /\ status = "none"
  BY DEF Init
<1> QED
  BY <1>1, <1>2 DEF DebuggerInv, AtDebugger, Pending

LEMMA StepDebugger ==
  ~ Overlap /\ SafeInv /\ TruthInv /\ DebuggerInv /\ [Next]_vars => DebuggerInv'
<1> SUFFICES ASSUME ~ Overlap, SafeInv, TruthInv, DebuggerInv, [Next]_vars PROVE DebuggerInv'
  OBVIOUS
<1>1. SafeInv'
  BY StepSafe
<1>2. CASE UNCHANGED vars
  BY <1>2 DEF vars, sap, DebuggerInv, AtDebugger, Pending, Added, Removed, Debugger, Active
<1>3. CASE StatusStep
  BY <1>3, DebuggerStatus
<1>4. ASSUME NEW c \in Callers, Begins(c) PROVE DebuggerInv'
  BY <1>4, DebuggerBegins
<1>5. ASSUME NEW c \in Callers, DebuggerStep(c) PROVE DebuggerInv'
  BY <1>5, DebuggerAdmits, DebuggerSets, DebuggerDeletes, DebuggerLoses, DebuggerStore
     DEF DebuggerStep
<1>6. ASSUME NEW c \in Callers, ExternalStep(c) PROVE DebuggerInv'
  BY <1>1, <1>6, DebuggerAsides, DebuggerDeleting, DebuggerSetAll, DebuggerSetting
     DEF ExternalStep
<1> QED
  BY <1>2, <1>3, <1>4, <1>5, <1>6 DEF Next

(* The debugger-scope part of the list is what the attached debugger has,   *)
(* but for breakpoints whose answer was lost, whatever fails, as long as    *)
(* the calls at the debugger end before the next window starts (~ Overlap): *)
(* a call that stores its answer late would put a breakpoint of an ended    *)
(* attachment into the list of the next one (addBreakpoint,                 *)
(* removeBreakpoint, rearm).                                                *)
THEOREM DebuggerListIsExact ==
  ASSUME ~ Overlap
  PROVE  Spec => []DebuggerListExact
<1>1. SafeInv /\ DebuggerInv => DebuggerListExact
  <2> SUFFICES ASSUME SafeInv, DebuggerInv, status = "attached", attached,
                      \A c \in Callers : call[c].at \notin {"debugger", "store"}
               PROVE  Debugger(bps) \ unheardDbg = sapDbg \ unheardDbg
    BY DEF DebuggerListExact
  <2>1. \A b : ~ Added(call, b) /\ ~ Removed(call, b)
    BY DEF Added, Removed, Pending
  <2>2. \A b \in Bp \ unheardDbg : b \in sapDbg <=> b \in Debugger(bps)
    BY <2>1 DEF DebuggerInv
  <2>3. sapDbg \subseteq Bp /\ Debugger(bps) \subseteq Bp
    BY Scopes DEF SafeInv, TypeOK
  <2> QED
    BY <2>2, <2>3
<1>2. Init => DebuggerInv
  BY InitDebugger
<1>3. SafeInv /\ TruthInv /\ DebuggerInv /\ [Next]_vars => DebuggerInv'
  BY StepDebugger
<1> QED
  BY <1>1, <1>2, <1>3, InitSafe, InitTruth, StepSafe, StepTruth, PTL DEF Spec
=============================================================================
