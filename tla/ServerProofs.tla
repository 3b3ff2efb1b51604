---------------------------- MODULE ServerProofs ----------------------------
(***************************************************************************)
(* Theorems about Server: what the process promises at its start, what a   *)
(* call answers and what the local log has of it, for any callers, sizes   *)
(* of batches, limits and builds.                                          *)
(***************************************************************************)
EXTENDS Server, FiniteSetTheorems, LeastProofs, TLAPS

-----------------------------------------------------------------------------
(* While a call works, every object is in a state of its tool, and there is *)
(* nothing beyond the objects that were passed.                            *)

MayBe(tool) ==
  {"waiting"} \cup
  IF tool \in FanTools THEN {"asking"} \cup CanSay(tool)
  ELSE IF tool = "syntax_check" THEN CanSay(tool)
  ELSE IF tool \in ListTools THEN {"data", "ok", "failed"}
  ELSE {"ok", "missing", "failed"}

\* What is written down of an object, and which objects the counters have: an
\* export counts as it goes, a batch when all of it is there.
Written(k, i) == IF k.item[i] \in Done THEN EntryOf(k.tool, k.item[i]) ELSE "zero"
Counted(k, S) == {i \in InState(k, S) : k.tool \in ListTools \/ i < k.next}

SumOK(k) ==
  /\ k.sum.good = IF "good" \in CountedBy(k.tool) THEN Cardinality(Counted(k, {"ok"})) ELSE 0
  /\ k.sum.failed = IF "failed" \in CountedBy(k.tool)
                      THEN Cardinality(Counted(k, {"failed"})) ELSE 0
  /\ k.sum.alerts = IF "alerts" \in CountedBy(k.tool)
                      THEN Cardinality(Counted(k, {"alert"}))
                           + 2 * Cardinality(Counted(k, {"errors"})) ELSE 0

WorkOK(k) ==
  k.at \in {"working", "second", "count"} =>
    /\ k.tool \in CallTools /\ ~ k.bad
    /\ k.tool \in TwoStepTools \cup GitTools => ~ k.batch
    /\ k.tool = "export_packages" => k.batch
    /\ k.at = "second" => k.tool \in TwoStepTools
    /\ ~ k.batch => k.n = 1
    /\ \A i \in Items : k.item[i] \in IF i <= k.n THEN MayBe(k.tool) ELSE {""}
    /\ \A i \in Items : k.entry[i] = Written(k, i)
    /\ IF k.at # "count" THEN k.next = 1
       ELSE Tallies(k) /\ k.next <= k.n + 1 /\ \A i \in 1..k.n : k.item[i] \in Done
    /\ SumOK(k)

\* The semaphore: at most Limit requests of a batch are in flight.
InLimit(k) == k.tool \in FanTools => Cardinality(InState(k, {"asking"})) <= Limit

Said(k, S) == Cardinality({i \in Items : k.item[i] \in S})

Truthful(k) ==
  /\ k.batch =>
       /\ LET truth == [good |-> Said(k, {"ok"}), absent |-> Said(k, {"missing"}),
                        failed |-> Said(k, {"failed"}),
                        alerts |-> Said(k, {"alert"}) + 2 * Said(k, {"errors"})]
          IN  \A f \in CountedBy(k.tool) : k.sum[f] = truth[f]
       /\ Said(k, Done) = k.n \/ (k.cancelled /\ k.tool \in ListTools)
       /\ \A i \in 1..k.n : k.entry[i] = "error" <=> k.item[i] = "failed"
  /\ ~ k.batch /\ ~ k.error =>
       \/ k.item[1] \in {"ok", "alert", "errors"}
       \/ k.item[1] = "missing" /\ k.tool = "object_exists"
  /\ k.bad => k.error /\ \A i \in Items : k.item[i] = ""
  /\ k.left => k.named

CallOK(k) ==
  k \in Call /\ InLimit(k) /\ WorkOK(k) /\ (k.at = "answer" => Truthful(k))

CallInv == /\ call \in [Callers -> Call]
           /\ \A c \in Callers : CallOK(call[c])

(* A line goes through the handlers in their order, stderr first; nothing   *)
(* is logged, and nobody is called, before the destination is settled.     *)
LineOK(l, remote) ==
  /\ l.at = "handler" => l.next = 1 \/ (l.next = 2 /\ remote)
  /\ l.at \in {"render", "send", "retry"} => l.next = 2 /\ remote
  /\ l.at \in {"none", "handler", "render", "send"} => l.copies = 0
  /\ l.at = "retry" => l.copies <= 1
  /\ l.next > 1 => l.local
  /\ l.at = "done" /\ l.due => l.next > 1

LineInv == \A c \in Callers :
  /\ LineOK(line[c], Remote(server.dest))
  /\ line[c].at # "none" => call[c].at = "log"
  /\ call[c].at # "idle" => server.phase = "serving"

-----------------------------------------------------------------------------
(* Sets of objects.                                                        *)

LEMMA ConstantFacts == MaxItems \in Nat /\ 1 <= MaxItems /\ Limit \in Nat /\ 1 <= Limit
BY ToolCallsAssumption DEF ToolCallsAssumption

LEMMA ToolsOf == \A c \in Callers : Tools[c] \subseteq CallTools
BY ToolCallsAssumption DEF ToolCallsAssumption

LEMMA Within ==
  ASSUME NEW n \in 0..MaxItems
  PROVE  /\ 1..n \subseteq Items /\ n \in Nat
         /\ \A i \in Items : i \in Nat /\ (i > n \/ i \in 1..n) /\ (i > n <=> ~ (i <= n))
BY ConstantFacts DEF Items

LEMMA CountOf == ASSUME NEW k \in Call PROVE k.n \in 0..MaxItems
BY DEF Call

LEMMA SomeItems ==
  ASSUME NEW S \in SUBSET Items
  PROVE  IsFiniteSet(S) /\ Cardinality(S) \in 0..MaxItems
<1>1. IsFiniteSet(Items) /\ Cardinality(Items) = MaxItems
  BY ConstantFacts, FS_Interval DEF Items
<1>2. IsFiniteSet(S) /\ Cardinality(S) <= MaxItems
  BY <1>1, FS_Subset
<1> QED
  BY <1>2, FS_CardinalityType, ConstantFacts

LEMMA InStateItems ==
  ASSUME NEW k \in Call, NEW S
  PROVE  InState(k, S) \subseteq Items /\ InState(k, S) \subseteq Nat
BY ConstantFacts, CountOf DEF InState, Items

\* The objects beyond those that were passed are in no state.
LEMMA SaidIs ==
  ASSUME NEW k \in Call, \A i \in Items : i > k.n => k.item[i] = "",
         NEW S, "" \notin S
  PROVE  {i \in Items : k.item[i] \in S} = InState(k, S)
<1>1. k.n \in 0..MaxItems
  BY CountOf
<1>2. ASSUME NEW i \in Items, k.item[i] \in S PROVE i \in 1..k.n
  BY <1>1, <1>2, Within
<1>3. 1..k.n \subseteq Items
  BY <1>1, Within
<1> QED
  BY <1>2, <1>3 DEF InState

\* First is the first.
LEMMA FirstIs ==
  ASSUME NEW k \in Call, InState(k, {"waiting", "data"}) # {}
  PROVE  First(k) \in 1..k.n /\ k.item[First(k)] \in {"waiting", "data"}
<1>1. \E i \in InState(k, {"waiting", "data"}) :
        \A j \in InState(k, {"waiting", "data"}) : i <= j
  BY InStateItems, HasFirst
<1>2. First(k) \in InState(k, {"waiting", "data"})
  BY <1>1 DEF First
<1> QED
  BY <1>2 DEF InState

LEMMA Words == /\ \A t : CanSay(t) \subseteq Done /\ MayBe(t) \subseteq ItemStates
               /\ Done \subseteq ItemStates /\ "asking" \notin Done
               /\ \A t, s : EntryOf(t, s) \in Entries
BY DEF CanSay, Done, MayBe, ItemStates, EntryOf, Entries

LEMMA NoCallOK ==
  /\ NoCall \in Call /\ CallOK(NoCall) /\ NoCall.at = "idle"
  /\ \A i \in Items : NoCall.item[i] = "" /\ NoCall.entry[i] = "zero"
<1>1. NoCall \in Call /\ NoCall.at = "idle"
      /\ \A i \in Items : NoCall.item[i] = "" /\ NoCall.entry[i] = "zero"
  <2>1. 0 \in 0..MaxItems /\ 1 \in 1..(MaxItems + 1)
    BY ConstantFacts
  <2>2. /\ [i \in Items |-> ""] \in [Items -> ItemStates]
        /\ [i \in Items |-> "zero"] \in [Items -> Entries]
    BY DEF ItemStates, Entries
  <2>3. Zero \in Counters
    BY <2>1 DEF Zero, Counters
  <2> QED
    BY <2>1, <2>2, <2>3 DEF NoCall, Call
<1>2. InLimit(NoCall) /\ WorkOK(NoCall) /\ NoCall.at # "answer"
  BY DEF NoCall, InLimit, WorkOK, FanTools
<1> QED
  BY <1>1, <1>2 DEF CallOK

-----------------------------------------------------------------------------
(* The steps of a call.                                                    *)

CallMoves(c, k) == CallOK(k) /\ call' = [call EXCEPT ![c] = k]

LEMMA CallKept ==
  ASSUME CallInv, NEW c \in Callers, NEW k, CallMoves(c, k)
  PROVE  CallInv' /\ call'[c] = k /\ \A d \in Callers : d # c => call'[d] = call[d]
BY DEF CallInv, CallMoves, CallOK

\* Before the loop a batch has counted nothing.
LEMMA NoneCounted ==
  ASSUME NEW k \in Call, k.next = 1, k.tool \notin ListTools, NEW S
  PROVE  Counted(k, S) = {} /\ Cardinality(Counted(k, S)) = 0
<1>1. \A i \in 1..k.n : i \in Nat /\ ~ (i < 1)
  BY CountOf, Within, ConstantFacts
<1>2. Counted(k, S) = {}
  BY <1>1 DEF Counted, InState
<1> QED
  BY <1>2, FS_EmptySet

LEMMA NothingCounted ==
  ASSUME NEW k \in Call, k.next = 1, k.tool \notin ListTools,
         k.sum.good = 0, k.sum.failed = 0, k.sum.alerts = 0
  PROVE  SumOK(k)
BY NoneCounted DEF SumOK

LEMMA NothingYet ==
  ASSUME NEW k \in Call, k.next = 1, k.tool \notin ListTools, SumOK(k)
  PROVE  k.sum.good = 0 /\ k.sum.failed = 0 /\ k.sum.alerts = 0
BY NoneCounted DEF SumOK

LEMMA CountedItems ==
  ASSUME NEW k \in Call, NEW S
  PROVE  /\ Counted(k, S) \subseteq Items /\ IsFiniteSet(Counted(k, S))
         /\ Cardinality(Counted(k, S)) \in Nat
<1>1. Counted(k, S) \subseteq Items
  BY InStateItems DEF Counted
<1> QED
  BY <1>1, SomeItems

\* A call as it comes, before it is looked at: NoCall with a tool.
Fresh(k) ==
  /\ k \in Call /\ ~ k.bad /\ k.n = 0 /\ k.sum = Zero /\ k.next = 1 /\ ~ k.left
  /\ \A i \in Items : k.item[i] = "" /\ k.entry[i] = "zero"
  /\ k.tool \in TwoStepTools \cup GitTools => ~ k.batch
  /\ k.tool = "export_packages" => k.batch

LEMMA BeginsMoves ==
  ASSUME CallInv, NEW c \in Callers, NEW k, Fresh(k), Begins(c, k)
  PROVE  \E m : CallMoves(c, m) /\ m.at = "working" /\ m.tool \in Tools[c]
<1>1. PICK n \in IF k.batch THEN 0..MaxItems ELSE {1} :
        call' = [call EXCEPT ![c] = [k EXCEPT !.at = "working", !.n = n,
          !.item = [i \in Items |-> IF i <= n THEN "waiting" ELSE ""]]]
  BY DEF Begins
<1> DEFINE f == [i \in Items |-> IF i <= n THEN "waiting" ELSE ""]
           m == [k EXCEPT !.at = "working", !.n = n, !.item = f]
<1>0. k \in Call /\ k.sum = Zero
  BY DEF Fresh
<1>2. n \in 0..MaxItems /\ (~ k.batch => n = 1) /\ k \in Call
  BY <1>0, ConstantFacts
<1>3. f \in [Items -> ItemStates] /\ \A i \in Items : f[i] = IF i <= n THEN "waiting" ELSE ""
  BY DEF ItemStates
<1>4. k.tool \in Tools[c] /\ k.tool \in CallTools
  BY ToolsOf DEF Begins
<1>5. call' = [call EXCEPT ![c] = m]
  BY <1>1
<1> HIDE DEF f
<1>6. /\ m \in Call /\ m.at = "working" /\ m.tool = k.tool /\ m.n = n /\ m.item = f
      /\ m.bad = k.bad /\ m.batch = k.batch /\ m.entry = k.entry
      /\ m.next = k.next /\ m.sum = k.sum
  BY <1>2, <1>3 DEF Call
<1> HIDE DEF m
<1>7. \A i \in Items : m.item[i] \in {"waiting", ""}
  BY <1>3, <1>6
<1>8. InState(m, {"asking"}) = {} /\ \A S : "waiting" \notin S /\ "" \notin S => Counted(m, S) = {}
  <2>1. 1..n \subseteq Items
    BY <1>2, ConstantFacts DEF Items
  <2> QED
    BY <1>6, <1>7, <2>1 DEF InState, Counted
<1>9. InLimit(m)
  <2>1. InState(m, {"asking"}) = {}
    BY <1>8
  <2> QED
    BY <2>1, ConstantFacts, FS_EmptySet DEF InLimit
<1>10. SumOK(m)
  <2>1. /\ Counted(m, {"ok"}) = {} /\ Counted(m, {"failed"}) = {}
        /\ Counted(m, {"alert"}) = {} /\ Counted(m, {"errors"}) = {}
    BY <1>8
  <2>2. m.sum.good = 0 /\ m.sum.failed = 0 /\ m.sum.alerts = 0
    BY <1>0, <1>6 DEF Zero
  <2> QED
    BY <2>1, <2>2, FS_EmptySet DEF SumOK
<1>11. \A i \in Items : m.entry[i] = Written(m, i)
  BY <1>6, <1>7 DEF Written, Done, Fresh
<1>12. WorkOK(m)
  BY <1>2, <1>3, <1>4, <1>6, <1>10, <1>11 DEF WorkOK, MayBe, Fresh
<1> QED
  BY <1>4, <1>5, <1>6, <1>9, <1>12 DEF CallMoves, CallOK

LEMMA CheckedMoves ==
  ASSUME CallInv, NEW c \in Callers, NEW k, Fresh(k), Checked(c, k), k.tool \notin FanTools
  PROVE  \E m : CallMoves(c, m) /\ m.at \in {"working", "answer"} /\ m.tool \in Tools[c]
<1>1. CASE Begins(c, k)
  BY <1>1, BeginsMoves
<1>2. CASE ~ Begins(c, k)
  <2> DEFINE m == [k EXCEPT !.at = "answer", !.bad = TRUE, !.error = TRUE]
  <2>1. call' = [call EXCEPT ![c] = m] /\ k.tool \in Tools[c]
    BY <1>2 DEF Checked
  <2>2. /\ m \in Call /\ m.at = "answer" /\ m.tool = k.tool /\ m.error /\ m.left = k.left
        /\ m.item = k.item /\ m.n = k.n /\ m.sum = k.sum /\ m.entry = k.entry
    BY DEF Call, Fresh
  <2> HIDE DEF m
  <2>3. \A S : "" \notin S => Said(m, S) = 0
    <3> SUFFICES ASSUME NEW S, "" \notin S PROVE Said(m, S) = 0
      OBVIOUS
    <3>1. {i \in Items : m.item[i] \in S} = {}
      BY <2>2 DEF Fresh
    <3> QED
      BY <3>1, FS_EmptySet DEF Said
  <2>4. /\ Said(m, {"ok"}) = 0 /\ Said(m, {"missing"}) = 0 /\ Said(m, {"failed"}) = 0
        /\ Said(m, {"alert"}) = 0 /\ Said(m, {"errors"}) = 0 /\ Said(m, Done) = 0
    BY <2>3 DEF Done
  <2>5. \A f \in CountedBy(m.tool) : f \in {"good", "absent", "failed", "alerts"}
    BY DEF CountedBy
  <2>6. m.sum = Zero /\ m.n = 0 /\ ~ m.left /\ \A i \in Items : m.item[i] = ""
    BY <2>2 DEF Fresh
  <2> DEFINE truth == [good |-> Said(m, {"ok"}), absent |-> Said(m, {"missing"}),
                       failed |-> Said(m, {"failed"}),
                       alerts |-> Said(m, {"alert"}) + 2 * Said(m, {"errors"})]
  <2>8. \A f \in CountedBy(m.tool) : m.sum[f] = truth[f]
    <3>1. /\ truth["good"] = 0 /\ truth["absent"] = 0 /\ truth["failed"] = 0
          /\ truth["alerts"] = 0
      BY <2>4
    <3>2. /\ m.sum["good"] = 0 /\ m.sum["absent"] = 0 /\ m.sum["failed"] = 0
          /\ m.sum["alerts"] = 0
      <4>1. m.sum = Zero
        BY <2>6
      <4> QED
        BY <4>1 DEF Zero
    <3> HIDE DEF truth
    <3> QED
      BY <2>5, <3>1, <3>2
  <2>9. \A i \in 1..m.n : m.entry[i] = "error" <=> m.item[i] = "failed"
    <3>1. m.n = 0
      BY <2>6
    <3> QED
      BY <3>1
  <2>7. Truthful(m)
    BY <2>2, <2>4, <2>6, <2>8, <2>9 DEF Truthful
  <2> QED
    BY <2>1, <2>2, <2>7 DEF CallMoves, CallOK, InLimit, WorkOK
<1> QED
  BY <1>1, <1>2

LEMMA CallBeginsMoves ==
  ASSUME CallInv, NEW c \in Callers, CallBegins(c)
  PROVE  /\ call[c].at = "idle"
         /\ \E m : CallMoves(c, m) /\ m.at \in {"working", "answer"} /\ m.tool \in Tools[c]
<1>0. call[c].at = "idle"
  BY DEF CallBegins, GetSource, GetObjectInfo, ObjectExists, RunUnitTests, SyntaxCheck,
         Asks, ExportPackage, ExportPackages, RunClass, VerifySource, AbapGit, Begins, Checked
<1>1. ASSUME NEW tool \in CallTools, tool # "export_packages"
      PROVE  Fresh([NoCall EXCEPT !.tool = tool])
  BY <1>1, NoCallOK DEF Call, NoCall, Fresh
<1>2. ASSUME NEW tool \in FanTools \cup {"syntax_check", "export_packages"},
             NEW batch \in BOOLEAN, tool = "export_packages" => batch
      PROVE  Fresh([NoCall EXCEPT !.tool = tool, !.batch = batch])
  <2>1. tool \in CallTools /\ tool \notin TwoStepTools \cup GitTools
    BY DEF CallTools, FanTools, ListTools, TwoStepTools, GitTools
  <2> QED
    BY <1>2, <2>1, NoCallOK DEF Call, NoCall, Fresh
<1>3. CASE GetSource(c) \/ GetObjectInfo(c) \/ ObjectExists(c) \/ RunUnitTests(c)
           \/ SyntaxCheck(c)
  <2>1. PICK tool \in FanTools \cup {"syntax_check"}, batch \in BOOLEAN :
          Begins(c, [NoCall EXCEPT !.tool = tool, !.batch = batch])
    BY <1>3 DEF GetSource, GetObjectInfo, ObjectExists, RunUnitTests, SyntaxCheck,
                Asks, FanTools
  <2>2. tool # "export_packages"
    BY DEF FanTools
  <2> QED
    BY <1>0, <1>2, <2>1, <2>2, BeginsMoves
<1>4. CASE ExportPackages(c)
  <2> DEFINE k == [NoCall EXCEPT !.tool = "export_packages", !.batch = TRUE]
  <2>1. Fresh(k) /\ Checked(c, k) /\ k.tool \notin FanTools
    BY <1>2, <1>4 DEF ExportPackages, NoCall, FanTools
  <2> HIDE DEF k
  <2> QED
    BY <1>0, <2>1, CheckedMoves
<1>5. CASE ExportPackage(c) \/ RunClass(c) \/ VerifySource(c) \/ AbapGit(c)
  <2>1. PICK tool \in {"export_package"} \cup TwoStepTools \cup GitTools :
          Checked(c, [NoCall EXCEPT !.tool = tool])
    BY <1>5 DEF ExportPackage, RunClass, VerifySource, AbapGit, TwoStepTools
  <2>2. tool \in CallTools /\ tool # "export_packages" /\ tool \notin FanTools
    BY DEF CallTools, ListTools, TwoStepTools, GitTools, FanTools
  <2> DEFINE k == [NoCall EXCEPT !.tool = tool]
  <2>3. Fresh(k) /\ k.tool \notin FanTools
    BY <1>1, <2>2 DEF NoCall
  <2> HIDE DEF k
  <2> QED
    BY <1>0, <2>1, <2>3, CheckedMoves DEF k
<1> QED
  BY <1>3, <1>4, <1>5 DEF CallBegins

(* An object gets a state that is not "asking", with the entry that goes     *)
(* with it; an export that is on disk is counted.                          *)
LEMMA OneItem ==
  ASSUME NEW k, CallOK(k), k.at \in {"working", "second"},
         NEW i \in 1..k.n, NEW s \in MayBe(k.tool), s # "asking",
         k.tool \in ListTools => k.item[i] \notin Done,
         NEW m \in Call, m.at = "working", m.item = [k.item EXCEPT ![i] = s],
         m.entry = [k.entry EXCEPT ![i] = IF s \in Done THEN EntryOf(k.tool, s) ELSE "zero"],
         k.item[i] \in Done => s \in Done,
         m.tool = k.tool, m.batch = k.batch, m.n = k.n, m.bad = k.bad, m.next = k.next,
         m.sum = IF k.tool \in ListTools /\ s = "ok" THEN [k.sum EXCEPT !.good = @ + 1] ELSE k.sum
  PROVE  CallOK(m)
<1>0. k \in Call /\ WorkOK(k) /\ InLimit(k) /\ k.next = 1 /\ SumOK(k)
  BY DEF CallOK, WorkOK
<1>1. i \in Items /\ i <= k.n
  BY <1>0, CountOf, ConstantFacts DEF Items
<1>2. m.item[i] = s /\ \A j \in Items : j # i => m.item[j] = k.item[j]
  BY <1>0, <1>1 DEF Call
<1>3. \A j \in Items : m.entry[j] = Written(m, j)
  <2> SUFFICES ASSUME NEW j \in Items PROVE m.entry[j] = Written(m, j)
    OBVIOUS
  <2>1. k.entry \in [Items -> Entries] /\ k.entry[j] = Written(k, j)
    BY <1>0 DEF Call, WorkOK
  <2>2. CASE j = i
    BY <1>1, <1>2, <2>1, <2>2 DEF Written
  <2>3. CASE j # i
    BY <1>1, <1>2, <2>1, <2>3 DEF Written
  <2> QED
    BY <2>2, <2>3
<1>4. SumOK(m)
  <2>1. CASE k.tool \notin ListTools
    BY <1>0, <2>1, NothingYet, NothingCounted
  <2>2. CASE k.tool \in ListTools
    <3>1. CountedBy(k.tool) = {"good"} /\ CountedBy(m.tool) = {"good"}
      BY <2>2 DEF CountedBy, ListTools
    <3>2. m.sum.failed = k.sum.failed /\ m.sum.alerts = k.sum.alerts
          /\ m.sum.good = IF s = "ok" THEN k.sum.good + 1 ELSE k.sum.good
      BY <1>0, <2>2 DEF Call, Counters
    <3>3. 1..k.n \subseteq Items
      BY <1>0, CountOf, Within
    <3>4. i \notin Counted(k, {"ok"}) /\ k.item[i] # "ok"
      BY <2>2 DEF Counted, InState, Done
    <3>5. Counted(m, {"ok"}) = IF s = "ok" THEN Counted(k, {"ok"}) \cup {i}
                               ELSE Counted(k, {"ok"})
      BY <1>2, <2>2, <3>3, <3>4 DEF Counted, InState
    <3>6. IsFiniteSet(Counted(k, {"ok"})) /\ Cardinality(Counted(k, {"ok"})) \in Nat
      BY <1>0, CountedItems
    <3>7. Cardinality(Counted(m, {"ok"})) =
            IF s = "ok" THEN Cardinality(Counted(k, {"ok"})) + 1
            ELSE Cardinality(Counted(k, {"ok"}))
      BY <3>4, <3>5, <3>6, FS_AddElement
    <3> QED
      BY <1>0, <3>1, <3>2, <3>7 DEF SumOK
  <2> QED
    BY <2>1, <2>2
<1>5. WorkOK(m)
  BY <1>0, <1>1, <1>2, <1>3, <1>4 DEF WorkOK
<1>6. InState(m, {"asking"}) \subseteq InState(k, {"asking"})
  <2>1. 1..k.n \subseteq Items
    BY <1>0, CountOf, ConstantFacts DEF Items
  <2> QED
    BY <1>2, <2>1 DEF InState
<1>7. IsFiniteSet(InState(k, {"asking"}))
      /\ Cardinality(InState(k, {"asking"})) \in Nat
  BY <1>0, InStateItems, SomeItems
<1>8. /\ Cardinality(InState(m, {"asking"})) <= Cardinality(InState(k, {"asking"}))
      /\ Cardinality(InState(m, {"asking"})) \in Nat
  BY <1>6, <1>7, FS_Subset, FS_CardinalityType
<1>9. InLimit(m)
  BY <1>0, <1>7, <1>8, ConstantFacts DEF InLimit
<1> QED
  BY <1>5, <1>9 DEF CallOK

\* The same for an object that is done: the action as the handlers write it.
LEMMA SettlesMoves ==
  ASSUME CallInv, NEW c \in Callers, NEW i \in 1..call[c].n,
         call[c].at \in {"working", "second"}, NEW left \in BOOLEAN,
         NEW s \in MayBe(call[c].tool) \cap Done,
         call[c].tool \in ListTools => call[c].item[i] \notin Done,
         NEW sum, sum = IF call[c].tool \in ListTools /\ s = "ok"
                          THEN [call[c].sum EXCEPT !.good = @ + 1] ELSE call[c].sum,
         Settles(c, [call[c] EXCEPT !.at = "working", !.left = left, !.sum = sum], i, s)
  PROVE  \E m : CallMoves(c, m) /\ m.at = "working"
<1> DEFINE k == call[c]
           j == [k EXCEPT !.at = "working", !.left = left, !.sum = sum]
           m == [j EXCEPT !.item = [j.item EXCEPT ![i] = s],
                          !.entry = [j.entry EXCEPT ![i] = EntryOf(j.tool, s)]]
<1>0. CallOK(k) /\ k \in Call
  BY DEF CallInv, CallOK
<1>7. k.sum \in Counters
  BY <1>0 DEF Call
<1>1. sum \in Counters
  BY <1>7 DEF Counters
<1> HIDE DEF k
<1>2. /\ j \in Call /\ j.at = "working" /\ j.tool = k.tool /\ j.n = k.n /\ j.sum = sum
      /\ j.batch = k.batch /\ j.bad = k.bad /\ j.item = k.item /\ j.entry = k.entry
      /\ j.next = k.next
  BY <1>0, <1>1 DEF Call
<1>3. call' = [call EXCEPT ![c] = m]
  BY DEF Settles, k
<1> HIDE DEF j
<1>4. s \in ItemStates /\ s # "asking" /\ EntryOf(j.tool, s) \in Entries
  BY Words
<1>5. /\ m \in Call /\ m.at = "working" /\ m.tool = k.tool /\ m.n = k.n /\ m.sum = sum
      /\ m.batch = k.batch /\ m.bad = k.bad /\ m.next = k.next
      /\ m.item = [k.item EXCEPT ![i] = s]
      /\ m.entry = [k.entry EXCEPT ![i] = EntryOf(k.tool, s)]
  BY <1>2, <1>4 DEF Call
<1> HIDE DEF m
<1>6. CallOK(m)
  BY <1>0, <1>4, <1>5, OneItem DEF k
<1> QED
  BY <1>3, <1>5, <1>6 DEF CallMoves

\* The record that Settles starts from, when nothing else changes.
LEMMA SameCall ==
  ASSUME NEW k \in Call, k.at = "working"
  PROVE  /\ k = [k EXCEPT !.at = "working", !.left = k.left, !.sum = k.sum]
         /\ k.left \in BOOLEAN
         /\ [k EXCEPT !.sum.good = @ + 1] =
              [k EXCEPT !.at = "working", !.left = k.left,
                        !.sum = [k.sum EXCEPT !.good = @ + 1]]
BY DEF Call

LEMMA BatchMoves ==
  ASSUME CallInv, NEW c \in Callers, NEW i \in Items, Acquire(c, i) \/ Answered(c, i)
  PROVE  \E m : CallMoves(c, m) /\ m.at = "working"
<1> DEFINE k == call[c]
<1>0. CallOK(k) /\ k \in Call /\ WorkOK(k) /\ InLimit(k) /\ k.n \in 0..MaxItems
  BY CountOf DEF CallInv, CallOK
<1>1. CASE Acquire(c, i)
  <2> DEFINE m == [k EXCEPT !.item = [k.item EXCEPT ![i] = "asking"]]
  <2>1. /\ k.at = "working" /\ k.tool \in FanTools /\ k.item[i] = "waiting"
        /\ Cardinality(InState(k, {"asking"})) < Limit
        /\ call' = [call EXCEPT ![c] = m]
    BY <1>1 DEF Acquire, Slots
  <2>2. /\ m \in Call /\ m.at = "working" /\ m.tool = k.tool /\ m.n = k.n
        /\ m.batch = k.batch /\ m.bad = k.bad /\ m.entry = k.entry
        /\ m.next = k.next /\ m.sum = k.sum
        /\ m.item = [k.item EXCEPT ![i] = "asking"]
    BY <1>0, <2>1 DEF Call, ItemStates
  <2>3. i \in 1..k.n
    BY <1>0, <2>1, Within DEF WorkOK
  <2> HIDE DEF k, m
  <2>4. m.item[i] = "asking" /\ \A j \in Items : j # i => m.item[j] = k.item[j]
    BY <1>0, <2>2 DEF Call
  <2>5. k.tool \notin ListTools /\ k.next = 1 /\ SumOK(k)
    BY <1>0, <2>1 DEF WorkOK, FanTools, ListTools
  <2>6. SumOK(m)
    BY <1>0, <2>2, <2>5, NothingYet, NothingCounted
  <2>7. \A j \in Items : m.entry[j] = Written(m, j)
    BY <1>0, <2>1, <2>2, <2>4 DEF WorkOK, Written, Done
  <2>8. WorkOK(m)
    BY <1>0, <2>1, <2>2, <2>3, <2>4, <2>6, <2>7, ConstantFacts DEF WorkOK, MayBe
  <2>9. InState(m, {"asking"}) = InState(k, {"asking"}) \cup {i}
    <3>1. 1..k.n \subseteq Items
      BY <1>0, ConstantFacts DEF Items
    <3> QED
      BY <2>2, <2>3, <2>4, <3>1 DEF InState
  <2>10. /\ i \notin InState(k, {"asking"}) /\ IsFiniteSet(InState(k, {"asking"}))
         /\ Cardinality(InState(k, {"asking"})) \in Nat
    <3>1. i \notin InState(k, {"asking"})
      BY <2>1 DEF InState
    <3> QED
      BY <1>0, <3>1, InStateItems, SomeItems
  <2>11. Cardinality(InState(m, {"asking"})) = Cardinality(InState(k, {"asking"})) + 1
    BY <2>9, <2>10, FS_AddElement
  <2>12. InLimit(m)
    BY <2>1, <2>10, <2>11, ConstantFacts DEF InLimit
  <2> QED
    BY <2>1, <2>2, <2>8, <2>12 DEF CallMoves, CallOK
<1>2. CASE Answered(c, i)
  <2>1. PICK said \in CanSay(k.tool) : Settles(c, k, i, said)
    BY <1>2 DEF Answered
  <2>2. k.at = "working" /\ k.tool \in FanTools /\ k.item[i] = "asking"
    BY <1>2 DEF Answered
  <2>3. said \in MayBe(k.tool) \cap Done /\ k.tool \notin ListTools
    BY <2>2, Words DEF MayBe, FanTools, ListTools
  <2>4. i \in 1..k.n
    BY <1>0, <2>2, Within DEF WorkOK
  <2>5. Settles(c, [k EXCEPT !.at = "working", !.left = k.left, !.sum = k.sum], i, said)
        /\ k.left \in BOOLEAN
    BY <1>0, <2>1, <2>2, SameCall
  <2> QED
    BY <2>2, <2>3, <2>4, <2>5, SettlesMoves
<1> QED
  BY <1>1, <1>2

LEMMA AtOnceMoves ==
  ASSUME CallInv, NEW c \in Callers, AnsweredAtOnce(c)
  PROVE  \E m : CallMoves(c, m) /\ m.at = "working"
<1> DEFINE k == call[c]
<1>0. CallOK(k) /\ k \in Call /\ WorkOK(k) /\ k.n \in 0..MaxItems
  BY CountOf DEF CallInv, CallOK
<1>1. PICK said \in [1..k.n -> CanSay(k.tool)] :
        call' = [call EXCEPT ![c] =
          [k EXCEPT !.item = [i \in Items |-> IF i <= k.n THEN said[i] ELSE ""],
                    !.entry = [i \in Items |->
                      IF i <= k.n THEN EntryOf(k.tool, said[i]) ELSE "zero"]]]
  BY DEF AnsweredAtOnce
<1> DEFINE f == [i \in Items |-> IF i <= k.n THEN said[i] ELSE ""]
           g == [i \in Items |-> IF i <= k.n THEN EntryOf(k.tool, said[i]) ELSE "zero"]
           m == [k EXCEPT !.item = f, !.entry = g]
<1>2. k.at = "working" /\ k.tool = "syntax_check" /\ call' = [call EXCEPT ![c] = m]
  BY <1>1 DEF AnsweredAtOnce
<1>3. \A i \in Items : i <= k.n => said[i] \in CanSay(k.tool)
  BY <1>0, Within
<1>4. f \in [Items -> ItemStates] /\ \A i \in Items : f[i] = IF i <= k.n THEN said[i] ELSE ""
  BY <1>3, Words DEF ItemStates
<1>5. g \in [Items -> Entries]
      /\ \A i \in Items : g[i] = IF i <= k.n THEN EntryOf(k.tool, said[i]) ELSE "zero"
  BY Words DEF Entries
<1> HIDE DEF f, g
<1>6. /\ m \in Call /\ m.at = "working" /\ m.tool = k.tool /\ m.n = k.n
      /\ m.batch = k.batch /\ m.bad = k.bad /\ m.item = f /\ m.entry = g
      /\ m.next = k.next /\ m.sum = k.sum
  BY <1>0, <1>2, <1>4, <1>5 DEF Call
<1> HIDE DEF k, m
<1>7. k.tool \notin ListTools /\ k.next = 1 /\ SumOK(k)
  BY <1>0, <1>2 DEF WorkOK, ListTools
<1>8. SumOK(m)
  BY <1>0, <1>6, <1>7, NothingYet, NothingCounted
<1>9. \A i \in Items : m.entry[i] = Written(m, i)
  BY <1>3, <1>4, <1>5, <1>6, Words DEF Written, Done
<1>10. \A i \in Items : m.item[i] \in IF i <= m.n THEN MayBe(m.tool) ELSE {""}
  BY <1>2, <1>3, <1>4, <1>6 DEF MayBe, FanTools
<1>11. WorkOK(m)
  BY <1>0, <1>2, <1>6, <1>7, <1>8, <1>9, <1>10 DEF WorkOK
<1>12. InLimit(m)
  BY <1>2, <1>6 DEF InLimit, FanTools
<1> QED
  BY <1>2, <1>6, <1>11, <1>12 DEF CallMoves, CallOK

LEMMA ListMoves ==
  ASSUME CallInv, NEW c \in Callers, Fetch(c) \/ Write(c)
  PROVE  \E m : CallMoves(c, m) /\ m.at = "working"
<1> DEFINE k == call[c]
           i == First(k)
<1>0. CallOK(k) /\ k \in Call /\ k.n \in 0..MaxItems
  BY CountOf DEF CallInv, CallOK
<1>1. k.at = "working" /\ k.tool \in ListTools /\ InState(k, {"waiting", "data"}) # {}
  BY DEF Fetch, Write, InList, InState
<1>2. i \in 1..k.n /\ k.item[i] \in {"waiting", "data"}
  BY <1>0, <1>1, FirstIs
<1>3. k.item[i] \notin Done
  BY <1>2 DEF Done
<1>4. /\ {"data", "ok", "failed"} \subseteq MayBe(k.tool)
      /\ {"ok", "failed"} \subseteq MayBe(k.tool) \cap Done
  BY <1>1 DEF MayBe, ListTools, FanTools, Done
<1>5. k = [k EXCEPT !.at = "working", !.left = k.left, !.sum = k.sum] /\ k.left \in BOOLEAN
      /\ [k EXCEPT !.sum.good = @ + 1] =
           [k EXCEPT !.at = "working", !.left = k.left,
                     !.sum = [k.sum EXCEPT !.good = @ + 1]]
  BY <1>0, <1>1, SameCall
<1>6. CASE Settles(c, k, i, "failed")
  <2>1. Settles(c, [k EXCEPT !.at = "working", !.left = k.left, !.sum = k.sum], i, "failed")
    BY <1>5, <1>6
  <2> HIDE DEF i
  <2> QED
    BY <1>1, <1>2, <1>3, <1>4, <1>5, <2>1, SettlesMoves
<1>7. CASE Settles(c, [k EXCEPT !.sum.good = @ + 1], i, "ok")
  <2>1. Settles(c, [k EXCEPT !.at = "working", !.left = k.left,
                             !.sum = [k.sum EXCEPT !.good = @ + 1]], i, "ok")
    BY <1>5, <1>7
  <2> HIDE DEF i
  <2> QED
    BY <1>1, <1>2, <1>3, <1>4, <1>5, <2>1, SettlesMoves
<1>8. CASE call' = [call EXCEPT ![c].item[i] = "data"]
  <2> DEFINE m == [k EXCEPT !.item = [k.item EXCEPT ![i] = "data"]]
  <2>1. call' = [call EXCEPT ![c] = m]
    BY <1>8
  <2> HIDE DEF i
  <2>2. /\ m \in Call /\ m.at = "working" /\ m.tool = k.tool /\ m.n = k.n
        /\ m.batch = k.batch /\ m.bad = k.bad /\ m.entry = k.entry
        /\ m.next = k.next /\ m.sum = k.sum
        /\ m.item = [k.item EXCEPT ![i] = "data"]
    BY <1>0, <1>1 DEF Call, ItemStates
  <2> HIDE DEF k, m
  <2>3. m.entry = [k.entry EXCEPT ![i] = "zero"]
    <3>1. i \in Items /\ k.entry \in [Items -> Entries] /\ k.entry[i] = "zero"
      BY <1>0, <1>1, <1>2, <1>3, Within DEF CallOK, Call, WorkOK, Written
    <3> QED
      BY <2>2, <3>1
  <2>4. CallOK(m)
    <3>1. "data" \notin Done /\ "data" # "ok" /\ "data" # "asking"
      BY DEF Done
    <3> QED
      BY <1>0, <1>1, <1>2, <1>3, <1>4, <2>2, <2>3, <3>1, OneItem
  <2> QED
    BY <2>1, <2>2, <2>4 DEF CallMoves
<1> QED
  BY <1>6, <1>7, <1>8 DEF Fetch, Write

LEMMA TwoStepMoves ==
  ASSUME CallInv, NEW c \in Callers, LooksUp(c) \/ Second(c)
  PROVE  \E m : CallMoves(c, m) /\ m.at \in {"working", "second"}
<1> DEFINE k == call[c]
<1>0. CallOK(k) /\ k \in Call /\ WorkOK(k) /\ InLimit(k)
  BY DEF CallInv, CallOK
<1>1. /\ k.at \in {"working", "second"} /\ k.tool \in TwoStepTools \cup GitTools
      /\ k.n = 1 /\ 1 \in 1..k.n
  <2>1. k.at \in {"working", "second"} /\ (k.at = "working" \/ Second(c))
        /\ (Second(c) \/ k.tool \in TwoStepTools \cup GitTools)
    BY DEF LooksUp, Second
  <2>2. Second(c) => k.at = "second"
    BY DEF Second
  <2> HIDE DEF k
  <2>3. k.tool \in TwoStepTools \cup GitTools
    BY <1>0, <2>1, <2>2 DEF WorkOK
  <2>4. k.n = 1
    BY <1>0, <2>1, <2>3 DEF WorkOK
  <2> QED
    BY <2>1, <2>3, <2>4
<1>2. /\ k.tool \notin ListTools
      /\ {"ok", "missing", "failed"} \subseteq MayBe(k.tool) \cap Done
  BY <1>1 DEF MayBe, ListTools, FanTools, TwoStepTools, GitTools, Done
<1>3. ASSUME NEW s \in {"ok", "missing", "failed"}, Settles(c, k, 1, s), k.at = "working"
      PROVE  \E m : CallMoves(c, m) /\ m.at = "working"
  <2>1. Settles(c, [k EXCEPT !.at = "working", !.left = k.left, !.sum = k.sum], 1, s)
        /\ k.left \in BOOLEAN
    BY <1>0, <1>3, SameCall
  <2> QED
    BY <1>1, <1>2, <2>1, SettlesMoves
<1>4. ASSUME k.at = "working", k.tool \in TwoStepTools,
             call' = [call EXCEPT ![c].at = "second"]
      PROVE  \E m : CallMoves(c, m) /\ m.at = "second"
  <2> DEFINE m == [k EXCEPT !.at = "second"]
  <2>1. /\ m \in Call /\ m.at = "second" /\ m.tool = k.tool /\ m.n = k.n
        /\ m.batch = k.batch /\ m.bad = k.bad /\ m.item = k.item /\ m.entry = k.entry
        /\ m.next = k.next /\ m.sum = k.sum
    BY <1>0 DEF Call
  <2>2. call' = [call EXCEPT ![c] = m]
    BY <1>4
  <2> HIDE DEF k, m
  <2>3. SumOK(m) /\ \A i \in Items : m.entry[i] = Written(m, i)
    BY <1>0, <1>1, <1>2, <1>4, <2>1, NothingYet, NothingCounted DEF WorkOK, Written
  <2>4. WorkOK(m) /\ InLimit(m)
    BY <1>0, <1>4, <2>1, <2>3 DEF WorkOK, InLimit, FanTools, TwoStepTools
  <2> QED
    BY <2>1, <2>2, <2>4 DEF CallMoves, CallOK
<1>5. CASE LooksUp(c)
  <2>1. k.at = "working"
    BY <1>5 DEF LooksUp
  <2>2. \/ \E s \in {"ok", "missing", "failed"} : Settles(c, k, 1, s)
        \/ k.tool \in TwoStepTools /\ call' = [call EXCEPT ![c].at = "second"]
    BY <1>5 DEF LooksUp
  <2> HIDE DEF k
  <2> QED
    BY <1>3, <1>4, <2>1, <2>2
<1>6. CASE Second(c)
  <2>1. PICK s \in {"ok", "failed"}, left \in BOOLEAN :
          Settles(c, [k EXCEPT !.at = "working", !.left = left], 1, s)
    BY <1>6 DEF Second
  <2>2. Settles(c, [k EXCEPT !.at = "working", !.left = left, !.sum = k.sum], 1, s)
    <3>1. [k EXCEPT !.at = "working", !.left = left] =
            [k EXCEPT !.at = "working", !.left = left, !.sum = k.sum]
      BY <1>0 DEF Call
    <3> QED
      BY <2>1, <3>1
  <2> QED
    BY <1>1, <1>2, <2>2, SettlesMoves
<1> QED
  BY <1>5, <1>6

LEMMA OthersMove ==
  ASSUME CallInv, NEW c \in Callers
  PROVE  /\ Cancel(c) => \E m : CallMoves(c, m) /\ m.at = "working"
         /\ Logs(c) => \E m : CallMoves(c, m) /\ m.at = "log"
         /\ Returns(c) => CallMoves(c, NoCall)
<1> DEFINE k == call[c]
<1>0. CallOK(k) /\ k \in Call /\ WorkOK(k) /\ InLimit(k)
  BY DEF CallInv, CallOK
<1>1. ASSUME Cancel(c) PROVE \E m : CallMoves(c, m) /\ m.at = "working"
  <2> DEFINE m == [k EXCEPT !.cancelled = TRUE]
  <2>1. /\ m \in Call /\ m.at = "working" /\ m.tool = k.tool /\ m.n = k.n
        /\ m.batch = k.batch /\ m.bad = k.bad /\ m.item = k.item /\ k.at = "working"
        /\ m.entry = k.entry /\ m.next = k.next /\ m.sum = k.sum
        /\ call' = [call EXCEPT ![c] = m]
    BY <1>0, <1>1 DEF Call, Cancel
  <2> HIDE DEF k, m
  <2>2. WorkOK(m) /\ InLimit(m)
    <3>1. \A S : InState(m, S) = InState(k, S) /\ Counted(m, S) = Counted(k, S)
      BY <2>1 DEF InState, Counted
    <3>3. SumOK(k) /\ \A i \in Items : k.entry[i] = Written(k, i)
      BY <1>0, <2>1 DEF WorkOK
    <3>2. SumOK(m) /\ \A i \in Items : m.entry[i] = Written(m, i)
      BY <2>1, <3>1, <3>3 DEF SumOK, Written
    <3> QED
      BY <1>0, <2>1, <3>1, <3>2 DEF WorkOK, InLimit
  <2> QED
    BY <2>1, <2>2 DEF CallMoves, CallOK
<1>2. ASSUME Logs(c) PROVE \E m : CallMoves(c, m) /\ m.at = "log"
  <2> DEFINE m == [NoCall EXCEPT !.at = "log"]
  <2>1. m \in Call /\ m.at = "log" /\ m.tool = ""
    BY NoCallOK DEF Call, NoCall
  <2>2. CallOK(m)
    BY <2>1 DEF CallOK, InLimit, WorkOK, FanTools
  <2> QED
    BY <1>2, <2>1, <2>2 DEF Logs, CallMoves
<1>3. ASSUME Returns(c) PROVE CallMoves(c, NoCall)
  BY <1>3, NoCallOK DEF Returns, CallMoves
<1> QED
  BY <1>1, <1>2, <1>3

-----------------------------------------------------------------------------
(* The count and the answer.                                               *)

\* Where the answer is complete, every object is done, or the client has
\* cancelled an export.
LEMMA CompleteMeans ==
  ASSUME NEW k \in Call, WorkOK(k), k.at = "working", Complete(k)
  PROVE  \/ \A i \in 1..k.n : k.item[i] \in MayBe(k.tool) \cap Done
         \/ k.tool = "export_packages" /\ k.cancelled
<1>1. 1..k.n \subseteq Items /\ \A i \in 1..k.n : i <= k.n
  BY CountOf, Within
<1>2. \A i \in 1..k.n : k.item[i] \in MayBe(k.tool)
  BY <1>1 DEF WorkOK
<1>3. MayBe(k.tool) \subseteq Done \cup {"waiting", "asking", "data"}
  BY Words DEF MayBe, Done
<1>4. CASE InState(k, {"waiting", "asking", "data"}) = {}
  BY <1>2, <1>3, <1>4 DEF InState
<1> QED
  BY <1>4 DEF Complete

LEMMA WaitedMoves ==
  ASSUME CallInv, NEW c \in Callers, Waited(c)
  PROVE  \E m : CallMoves(c, m) /\ m.at = "count"
<1> DEFINE k == call[c]
           m == [k EXCEPT !.at = "count"]
<1>0. /\ CallOK(k) /\ k \in Call /\ WorkOK(k) /\ InLimit(k)
      /\ k.at = "working" /\ Complete(k) /\ Tallies(k) /\ call' = [call EXCEPT ![c] = m]
  BY DEF CallInv, CallOK, Waited
<1>1. /\ m \in Call /\ m.at = "count" /\ m.tool = k.tool /\ m.n = k.n
      /\ m.batch = k.batch /\ m.bad = k.bad /\ m.item = k.item /\ m.entry = k.entry
      /\ m.next = k.next /\ m.sum = k.sum
  BY <1>0 DEF Call
<1> HIDE DEF k, m
<1>2. k.tool \notin ListTools /\ k.tool # "export_packages"
  BY <1>0 DEF Tallies, Counting, FanTools, ListTools
<1>3. \A i \in 1..k.n : k.item[i] \in Done
  BY <1>0, <1>2, CompleteMeans
<1>8. k.n \in Nat
  BY <1>0, CountOf, Within
<1>9. k.next = 1
  BY <1>0 DEF WorkOK
<1>4. k.next = 1 /\ k.n \in Nat /\ 1 <= k.n + 1
  BY <1>8, <1>9
<1>5. SumOK(m) /\ \A i \in Items : m.entry[i] = Written(m, i)
  BY <1>0, <1>1, <1>2, <1>4, NothingYet, NothingCounted DEF WorkOK, Written
<1>6. WorkOK(m)
  BY <1>0, <1>1, <1>3, <1>4, <1>5 DEF WorkOK, Tallies
<1>7. InLimit(m)
  <2>1. InState(m, {"asking"}) = InState(k, {"asking"})
    BY <1>1 DEF InState
  <2> QED
    BY <1>0, <1>1, <2>1 DEF InLimit
<1> QED
  BY <1>0, <1>1, <1>6, <1>7 DEF CallMoves, CallOK

\* What the loop sees in an entry is what became of the object.
LEMMA EntrySays ==
  ASSUME NEW tool, Counting(tool), NEW said \in MayBe(tool) \cap Done,
         NEW e, e = EntryOf(tool, said)
  PROVE  /\ Good(tool, e) <=> "good" \in CountedBy(tool) /\ said = "ok"
         /\ Failed(tool, e) <=> "failed" \in CountedBy(tool) /\ said = "failed"
         /\ Alerts(tool, e) = IF "alerts" \notin CountedBy(tool) THEN 0
                              ELSE Plus(said = "alert") + 2 * Plus(said = "errors")
<1>1. tool \in FanTools \/ tool = "syntax_check"
  BY DEF Counting
<1>2. CASE tool \in {"get_source", "get_object_info"}
  <2>1. said \in {"ok", "failed"} /\ CountedBy(tool) = {"good", "failed"}
    BY <1>2 DEF MayBe, Done, FanTools, CanSay, CountedBy
  <2> QED
    BY <1>2, <2>1 DEF EntryOf, Good, Failed, Alerts, Plus
<1>3. CASE tool = "object_exists"
  <2>1. said \in {"ok", "missing", "failed"} /\ CountedBy(tool) = {"good", "absent", "failed"}
    BY <1>3 DEF MayBe, Done, FanTools, CanSay, CountedBy
  <2> QED
    BY <1>3, <2>1 DEF EntryOf, Good, Failed, Alerts, Plus
<1>4. CASE tool = "run_unit_tests"
  <2>1. said \in {"ok", "alert", "failed"} /\ CountedBy(tool) = {"alerts"}
    BY <1>4 DEF MayBe, Done, FanTools, CanSay, CountedBy
  <2> QED
    BY <1>4, <2>1 DEF EntryOf, Good, Failed, Alerts, Plus
<1>5. CASE tool = "syntax_check"
  <2>1. said \in {"ok", "alert", "errors", "failed"} /\ CountedBy(tool) = {"good", "alerts"}
    BY <1>5 DEF MayBe, Done, FanTools, CanSay, CountedBy
  <2> QED
    BY <1>5, <2>1 DEF EntryOf, Good, Failed, Alerts, Plus
<1> QED
  BY <1>1, <1>2, <1>3, <1>4, <1>5 DEF FanTools

LEMMA CountMoves ==
  ASSUME CallInv, NEW c \in Callers, Count(c)
  PROVE  \E m : CallMoves(c, m) /\ m.at = "count"
<1> DEFINE k == call[c]
           e == k.entry[k.next]
           sum == [good   |-> k.sum.good + Plus(Good(k.tool, e)), absent |-> 0,
                   failed |-> k.sum.failed + Plus(Failed(k.tool, e)),
                   alerts |-> k.sum.alerts + Alerts(k.tool, e)]
           m == [k EXCEPT !.next = k.next + 1, !.sum = sum]
<1>0. /\ CallOK(k) /\ k \in Call /\ WorkOK(k) /\ InLimit(k)
      /\ k.at = "count" /\ k.next <= k.n /\ call' = [call EXCEPT ![c] = m]
  BY DEF CallInv, CallOK, Count
<1> HIDE DEF k
<1>1. /\ k.n \in Nat /\ k.n <= MaxItems /\ k.next \in Nat /\ 1 <= k.next
      /\ 1..k.n \subseteq Items /\ k.next \in 1..k.n /\ k.next \in Items
      /\ Tallies(k) /\ SumOK(k)
  <2>1. k.n \in 0..MaxItems /\ k.next \in 1..(MaxItems + 1)
    BY <1>0 DEF Call
  <2>2. Tallies(k) /\ SumOK(k)
    BY <1>0 DEF WorkOK
  <2>3. k.next \in 1..k.n /\ 1..k.n \subseteq Items
    BY <1>0, <2>1, ConstantFacts, Within
  <2> QED
    BY <1>0, <2>1, <2>2, <2>3, ConstantFacts
<1>2. k.item[k.next] \in MayBe(k.tool) \cap Done /\ e = EntryOf(k.tool, k.item[k.next])
  BY <1>0, <1>1 DEF WorkOK, Written
<1>3. /\ Good(k.tool, e) <=> "good" \in CountedBy(k.tool) /\ k.item[k.next] = "ok"
      /\ Failed(k.tool, e) <=> "failed" \in CountedBy(k.tool) /\ k.item[k.next] = "failed"
      /\ Alerts(k.tool, e) =
           IF "alerts" \notin CountedBy(k.tool) THEN 0
           ELSE Plus(k.item[k.next] = "alert") + 2 * Plus(k.item[k.next] = "errors")
  BY <1>1, <1>2, EntrySays DEF Tallies
<1> HIDE DEF e
<1>4. k.sum.good \in Nat /\ k.sum.failed \in Nat /\ k.sum.alerts \in Nat
  BY <1>0 DEF Call, Counters
<1>5. sum \in Counters
  <2>1. Plus(Good(k.tool, e)) \in Nat /\ Plus(Failed(k.tool, e)) \in Nat
        /\ Alerts(k.tool, e) \in Nat
    BY DEF Plus, Alerts
  <2> QED
    BY <1>4, <2>1 DEF Counters
<1>6. /\ sum.good = k.sum.good + Plus(Good(k.tool, e))
      /\ sum.failed = k.sum.failed + Plus(Failed(k.tool, e))
      /\ sum.alerts = k.sum.alerts + Alerts(k.tool, e)
  OBVIOUS
<1> HIDE DEF sum
<1>7. k.next + 1 \in 1..(MaxItems + 1)
  BY <1>0, <1>1, ConstantFacts
<1>8. /\ m \in Call /\ m.at = "count" /\ m.tool = k.tool /\ m.n = k.n /\ m.sum = sum
      /\ m.batch = k.batch /\ m.bad = k.bad /\ m.item = k.item /\ m.entry = k.entry
      /\ m.next = k.next + 1
  BY <1>0, <1>5, <1>7 DEF Call
<1> HIDE DEF m
<1>9. k.tool \notin ListTools
  BY <1>1 DEF Tallies, Counting, FanTools, ListTools
<1>10. \A w : Cardinality(Counted(m, {w})) =
                Cardinality(Counted(k, {w})) + Plus(k.item[k.next] = w)
              /\ Cardinality(Counted(k, {w})) \in Nat
  <2> SUFFICES ASSUME NEW w
               PROVE  Cardinality(Counted(m, {w})) =
                        Cardinality(Counted(k, {w})) + Plus(k.item[k.next] = w)
                      /\ Cardinality(Counted(k, {w})) \in Nat
    OBVIOUS
  <2>1. IsFiniteSet(Counted(k, {w})) /\ Cardinality(Counted(k, {w})) \in Nat
    BY <1>0, CountedItems
  <2>2. \A i \in 1..k.n : i < k.next + 1 <=> i < k.next \/ i = k.next
    BY <1>1
  <2>3. k.next \notin Counted(k, {w})
    BY <1>1, <1>9 DEF Counted
  <2>4. CASE k.item[k.next] = w
    <3>1. Counted(m, {w}) = Counted(k, {w}) \cup {k.next}
      BY <1>1, <1>8, <1>9, <2>2, <2>4 DEF Counted, InState
    <3> QED
      BY <2>1, <2>3, <2>4, <3>1, FS_AddElement DEF Plus
  <2>5. CASE k.item[k.next] # w
    <3>1. Counted(m, {w}) = Counted(k, {w})
      BY <1>1, <1>8, <1>9, <2>2, <2>5 DEF Counted, InState
    <3> QED
      BY <2>1, <2>5, <3>1 DEF Plus
  <2> QED
    BY <2>4, <2>5
<1>11. SumOK(m)
  <2>1. m.sum.good = IF "good" \in CountedBy(m.tool)
                       THEN Cardinality(Counted(m, {"ok"})) ELSE 0
    BY <1>1, <1>3, <1>6, <1>8, <1>10 DEF SumOK, Plus
  <2>2. m.sum.failed = IF "failed" \in CountedBy(m.tool)
                         THEN Cardinality(Counted(m, {"failed"})) ELSE 0
    <3>1. Cardinality(Counted(m, {"failed"})) =
            Cardinality(Counted(k, {"failed"})) + Plus(k.item[k.next] = "failed")
          /\ Cardinality(Counted(k, {"failed"})) \in Nat
      BY <1>10
    <3>2. /\ m.tool = k.tool /\ m.sum.failed = k.sum.failed + Plus(Failed(k.tool, e))
          /\ k.sum.failed = IF "failed" \in CountedBy(k.tool)
                              THEN Cardinality(Counted(k, {"failed"})) ELSE 0
      BY <1>1, <1>6, <1>8 DEF SumOK
    <3> QED
      BY <1>3, <3>1, <3>2 DEF Plus
  <2>3. m.sum.alerts = IF "alerts" \in CountedBy(m.tool)
                         THEN Cardinality(Counted(m, {"alert"}))
                              + 2 * Cardinality(Counted(m, {"errors"})) ELSE 0
    <3>1. Cardinality(Counted(m, {"alert"})) =
            Cardinality(Counted(k, {"alert"})) + Plus(k.item[k.next] = "alert")
          /\ Cardinality(Counted(k, {"alert"})) \in Nat
      BY <1>10
    <3>2. Cardinality(Counted(m, {"errors"})) =
            Cardinality(Counted(k, {"errors"})) + Plus(k.item[k.next] = "errors")
          /\ Cardinality(Counted(k, {"errors"})) \in Nat
      BY <1>10
    <3>3. /\ m.tool = k.tool /\ m.sum.alerts = k.sum.alerts + Alerts(k.tool, e)
          /\ k.sum.alerts = IF "alerts" \in CountedBy(k.tool)
                              THEN Cardinality(Counted(k, {"alert"}))
                                   + 2 * Cardinality(Counted(k, {"errors"})) ELSE 0
      BY <1>1, <1>6, <1>8 DEF SumOK
    <3>4. /\ Plus(k.item[k.next] = "alert") \in Nat
          /\ Plus(k.item[k.next] = "errors") \in Nat
      BY DEF Plus
    <3>5. CASE "alerts" \in CountedBy(k.tool)
      <4>1. Alerts(k.tool, e) =
              Plus(k.item[k.next] = "alert") + 2 * Plus(k.item[k.next] = "errors")
        BY <1>3, <3>5
      <4> QED
        BY <3>1, <3>2, <3>3, <3>4, <3>5, <4>1
    <3>6. CASE "alerts" \notin CountedBy(k.tool)
      BY <1>3, <3>3, <3>6
    <3> QED
      BY <3>5, <3>6
  <2> QED
    BY <2>1, <2>2, <2>3 DEF SumOK
<1>12. \A i \in Items : m.entry[i] = Written(m, i)
  BY <1>0, <1>8 DEF WorkOK, Written
<1>13. WorkOK(m)
  <2>1. Tallies(m) /\ m.next <= m.n + 1 /\ \A i \in 1..m.n : m.item[i] \in Done
    <3>1. \A i \in 1..k.n : k.item[i] \in Done
      BY <1>0 DEF WorkOK
    <3>2. Tallies(m)
      BY <1>1, <1>8 DEF Tallies
    <3> QED
      BY <1>0, <1>1, <1>8, <3>1, <3>2
  <2> QED
    BY <1>0, <1>8, <1>11, <1>12, <2>1 DEF WorkOK
<1>14. InLimit(m)
  <2>1. InState(m, {"asking"}) = InState(k, {"asking"})
    BY <1>8 DEF InState
  <2> QED
    BY <1>0, <1>8, <2>1 DEF InLimit
<1> QED
  BY <1>0, <1>8, <1>13, <1>14 DEF CallMoves, CallOK

LEMMA DisjointSum ==
  ASSUME NEW S, NEW T, IsFiniteSet(S), IsFiniteSet(T), S \cap T = {}
  PROVE  /\ IsFiniteSet(S \cup T) /\ Cardinality(S \cup T) = Cardinality(S) + Cardinality(T)
         /\ Cardinality(S) \in Nat /\ Cardinality(T) \in Nat
<1>1. Cardinality(S) \in Nat /\ Cardinality(T) \in Nat
  BY FS_CardinalityType
<1>2. Cardinality(S \cap T) = 0
  BY FS_EmptySet
<1>3. IsFiniteSet(S \cup T)
      /\ Cardinality(S \cup T) = Cardinality(S) + Cardinality(T) - Cardinality(S \cap T)
  BY FS_Union
<1> QED
  BY <1>1, <1>2, <1>3

\* The objects that are in none of two states are in the third.
LEMMA AbsentIs ==
  ASSUME NEW k \in Call, \A i \in 1..k.n : k.item[i] \in {"ok", "missing", "failed"}
  PROVE  k.n - Cardinality(InState(k, {"ok"})) - Cardinality(InState(k, {"failed"}))
           = Cardinality(InState(k, {"missing"}))
<1> DEFINE O == InState(k, {"ok"})  M == InState(k, {"missing"})  F == InState(k, {"failed"})
<1>1. /\ O \in SUBSET Items /\ M \in SUBSET Items /\ F \in SUBSET Items
      /\ O \cap M = {} /\ (O \cup M) \cap F = {} /\ (O \cup M) \cup F = 1..k.n
  BY InStateItems DEF InState
<1>2. Cardinality(1..k.n) = k.n /\ k.n \in Nat
  <2>1. k.n \in Nat
    BY CountOf, Within
  <2> QED
    BY <2>1, FS_Interval
<1>3. /\ IsFiniteSet(O) /\ IsFiniteSet(M) /\ IsFiniteSet(F)
      /\ Cardinality(O) \in Nat /\ Cardinality(M) \in Nat /\ Cardinality(F) \in Nat
  BY <1>1, SomeItems
<1> HIDE DEF O, M, F
<1>4. IsFiniteSet(O \cup M) /\ Cardinality(O \cup M) = Cardinality(O) + Cardinality(M)
  BY <1>1, <1>3, DisjointSum
<1>5. Cardinality((O \cup M) \cup F) = Cardinality(O \cup M) + Cardinality(F)
  BY <1>1, <1>3, <1>4, DisjointSum
<1>6. k.n - Cardinality(O) - Cardinality(F) = Cardinality(M)
  <2>1. k.n = Cardinality(O) + Cardinality(M) + Cardinality(F)
    BY <1>1, <1>2, <1>4, <1>5
  <2> QED
    BY <1>3, <2>1
<1> QED
  BY <1>6 DEF O, M, F

\* Before the answer the counters have every object, or the export counted them.
LEMMA AllCounted ==
  ASSUME NEW k \in Call, WorkOK(k), k.at \in {"working", "count"},
         k.at = "count" => k.next > k.n, k.batch, k.at = "working" => k.tool \in ListTools
  PROVE  /\ "good" \in CountedBy(k.tool) => k.sum.good = Cardinality(InState(k, {"ok"}))
         /\ "failed" \in CountedBy(k.tool) => k.sum.failed = Cardinality(InState(k, {"failed"}))
         /\ "alerts" \in CountedBy(k.tool) =>
              k.sum.alerts = Cardinality(InState(k, {"alert"}))
                             + 2 * Cardinality(InState(k, {"errors"}))
<1>0. k.next \in 1..(MaxItems + 1) /\ k.n \in 0..MaxItems
  BY DEF Call
<1>1. k.n \in Nat /\ k.next \in Nat
  BY <1>0, ConstantFacts
<1>2. \A i \in 1..k.n : k.tool \in ListTools \/ i < k.next
  BY <1>1
<1>3. \A S : Counted(k, S) = InState(k, S)
  BY <1>2 DEF Counted, InState
<1>4. SumOK(k)
  BY DEF WorkOK
<1> QED
  BY <1>3, <1>4 DEF SumOK

LEMMA AnswersMoves ==
  ASSUME CallInv, NEW c \in Callers, Answers(c)
  PROVE  \E m : CallMoves(c, m) /\ m.at = "answer"
<1> DEFINE k == call[c]
           absent == IF k.batch THEN Absent(k) ELSE 0
           sum == [k.sum EXCEPT !.absent = absent]
           m == [k EXCEPT !.at = "answer", !.sum = sum, !.error = Fails(k),
                          !.named = Names(k)]
<1>0. /\ CallOK(k) /\ k \in Call /\ WorkOK(k) /\ InLimit(k) /\ k.sum \in Counters
      /\ call' = [call EXCEPT ![c] = m]
      /\ \/ k.at = "working" /\ Complete(k) /\ ~ Tallies(k)
         \/ k.at = "count" /\ k.next > k.n
  BY DEF CallInv, CallOK, Answers, Call
<1> HIDE DEF k
<1>1. \/ \A i \in 1..k.n : k.item[i] \in MayBe(k.tool) \cap Done
      \/ k.tool = "export_packages" /\ k.cancelled
  <2>1. CASE k.at = "working"
    BY <1>0, <2>1, CompleteMeans
  <2>2. CASE k.at = "count"
    <3>1. \A i \in 1..k.n : i \in Items /\ i <= k.n
      BY <1>0, CountOf, Within
    <3> QED
      BY <1>0, <2>2, <3>1 DEF WorkOK
  <2> QED
    BY <1>0, <2>1, <2>2
<1>2. k.batch =>
        /\ "good" \in CountedBy(k.tool) => k.sum.good = Cardinality(InState(k, {"ok"}))
        /\ "failed" \in CountedBy(k.tool) => k.sum.failed = Cardinality(InState(k, {"failed"}))
        /\ "alerts" \in CountedBy(k.tool) =>
             k.sum.alerts = Cardinality(InState(k, {"alert"}))
                            + 2 * Cardinality(InState(k, {"errors"}))
  <2>1. k.batch /\ k.at = "working" => k.tool \in ListTools
    BY <1>0 DEF WorkOK, Tallies, Counting, CallTools
  <2> QED
    BY <1>0, <2>1, AllCounted
<1>3. k.batch /\ k.tool = "object_exists" => absent = Cardinality(InState(k, {"missing"}))
  <2> SUFFICES ASSUME k.batch, k.tool = "object_exists"
               PROVE  absent = Cardinality(InState(k, {"missing"}))
    OBVIOUS
  <2>1. \A i \in 1..k.n : k.item[i] \in {"ok", "missing", "failed"}
    BY <1>1 DEF MayBe, CanSay, FanTools, Done
  <2>2. k.n - Cardinality(InState(k, {"ok"})) - Cardinality(InState(k, {"failed"}))
          = Cardinality(InState(k, {"missing"}))
    BY <1>0, <2>1, AbsentIs
  <2> QED
    BY <1>2, <2>2 DEF Absent, CountedBy
<1>4. absent \in Nat
  <2>1. Cardinality(InState(k, {"missing"})) \in Nat
    BY <1>0, InStateItems, SomeItems
  <2> QED
    BY <1>3, <2>1 DEF Absent
<1>5. Fails(k) \in BOOLEAN /\ Names(k) \in BOOLEAN
  BY <1>0 DEF Fails, Names, Call
<1> HIDE DEF absent
<1>6. /\ sum \in Counters /\ sum.absent = absent /\ sum.good = k.sum.good
      /\ sum.failed = k.sum.failed /\ sum.alerts = k.sum.alerts
  BY <1>0, <1>4 DEF Counters
<1> HIDE DEF sum
<1>7. /\ m \in Call /\ m.at = "answer" /\ m.sum = sum /\ m.error = Fails(k)
      /\ m.named = Names(k) /\ m.tool = k.tool /\ m.batch = k.batch /\ m.n = k.n
      /\ m.item = k.item /\ m.entry = k.entry /\ m.bad = k.bad /\ m.left = k.left
      /\ m.cancelled = k.cancelled
  BY <1>0, <1>5, <1>6 DEF Call
<1> HIDE DEF m
<1>8. InLimit(m) /\ WorkOK(m)
  <2>1. InState(m, {"asking"}) = InState(k, {"asking"})
    BY <1>7 DEF InState
  <2> QED
    BY <1>0, <1>7, <2>1 DEF InLimit, WorkOK
<1>9. \A S : "" \notin S => Said(m, S) = Cardinality(InState(k, S))
  <2>1. \A i \in Items : i > k.n => k.item[i] = ""
    BY <1>0, CountOf, Within DEF WorkOK
  <2> QED
    BY <1>0, <1>7, <2>1, SaidIs DEF Said
<1>10. ASSUME m.batch
       PROVE  LET truth == [good |-> Said(m, {"ok"}), absent |-> Said(m, {"missing"}),
                            failed |-> Said(m, {"failed"}),
                            alerts |-> Said(m, {"alert"}) + 2 * Said(m, {"errors"})]
              IN  \A f \in CountedBy(m.tool) : m.sum[f] = truth[f]
  <2>1. \A f \in CountedBy(m.tool) : f \in {"good", "absent", "failed", "alerts"}
    BY DEF CountedBy
  <2>2. /\ Said(m, {"ok"}) = Cardinality(InState(k, {"ok"}))
        /\ Said(m, {"missing"}) = Cardinality(InState(k, {"missing"}))
        /\ Said(m, {"failed"}) = Cardinality(InState(k, {"failed"}))
        /\ Said(m, {"alert"}) = Cardinality(InState(k, {"alert"}))
        /\ Said(m, {"errors"}) = Cardinality(InState(k, {"errors"}))
    BY <1>9
  <2>3. "absent" \in CountedBy(k.tool) => k.tool = "object_exists"
    BY DEF CountedBy
  <2>4. /\ "good" \in CountedBy(k.tool) => m.sum.good = Said(m, {"ok"})
        /\ "absent" \in CountedBy(k.tool) => m.sum.absent = Said(m, {"missing"})
        /\ "failed" \in CountedBy(k.tool) => m.sum.failed = Said(m, {"failed"})
        /\ "alerts" \in CountedBy(k.tool) =>
             m.sum.alerts = Said(m, {"alert"}) + 2 * Said(m, {"errors"})
    BY <1>2, <1>3, <1>6, <1>7, <1>10, <2>2, <2>3
  <2> QED
    BY <1>7, <2>1, <2>4
<1>11. Said(m, Done) = m.n \/ (m.cancelled /\ m.tool \in ListTools)
  <2>1. CASE \A i \in 1..k.n : k.item[i] \in MayBe(k.tool) \cap Done
    <3>1. InState(k, Done) = 1..k.n
      BY <2>1 DEF InState
    <3>2. k.n \in Nat
      BY <1>0, CountOf, Within
    <3>3. Cardinality(InState(k, Done)) = k.n
      BY <3>1, <3>2, FS_Interval
    <3> QED
      BY <1>7, <1>9, <3>3 DEF Done
  <2>2. CASE k.tool = "export_packages" /\ k.cancelled
    BY <1>7, <2>2 DEF ListTools
  <2> QED
    BY <1>1, <2>1, <2>2
<1>12. \A i \in 1..k.n : /\ k.item[i] \in MayBe(k.tool) /\ k.entry[i] = Written(k, i)
  <2>1. \A i \in 1..k.n : i \in Items /\ i <= k.n
    BY <1>0, CountOf, Within
  <2> QED
    BY <1>0, <2>1 DEF WorkOK
<1>13. k.tool \in CallTools /\ (k.tool \in TwoStepTools \cup GitTools => ~ k.batch)
       /\ (k.tool = "export_packages" => k.batch) /\ ~ k.bad /\ (~ k.batch => k.n = 1)
  BY <1>0 DEF WorkOK
<1>14. ASSUME m.batch, NEW i \in 1..m.n
       PROVE  m.entry[i] = "error" <=> m.item[i] = "failed"
  <2>1. k.item[i] = "missing" => k.tool = "object_exists"
    BY <1>7, <1>12, <1>13, <1>14 DEF MayBe, CanSay, CallTools, FanTools
  <2> QED
    BY <1>7, <1>12, <1>14, <2>1 DEF Written, EntryOf, Done
<1>15. ASSUME ~ m.batch, ~ m.error
       PROVE  \/ m.item[1] \in {"ok", "alert", "errors"}
              \/ m.item[1] = "missing" /\ m.tool = "object_exists"
  <2>3. ~ k.batch /\ ~ Fails(k)
    BY <1>7, <1>15
  <2>1. 1 \in 1..k.n /\ k.entry[1] # "error" /\ k.tool # "export_packages"
    BY <1>13, <2>3 DEF Fails
  <2>2. k.item[1] \in Done
    BY <1>1, <2>1
  <2> QED
    BY <1>7, <1>12, <2>1, <2>2 DEF Written, EntryOf, Done
<1>16. m.left => m.named
  BY <1>7 DEF Names, Hint
<1>17. Truthful(m)
  BY <1>7, <1>10, <1>11, <1>13, <1>14, <1>15, <1>16 DEF Truthful
<1> QED
  BY <1>0, <1>7, <1>8, <1>17 DEF CallMoves, CallOK

\* What a step of the handler does to its call.
LEMMA CallStepMoves ==
  ASSUME CallInv, NEW c \in Callers, CallStep(c)
  PROVE  /\ call[c].at \in {"working", "second", "count"}
         /\ \E m : CallMoves(c, m) /\ m.at \in {"working", "second", "count", "answer"}
<1>1. call[c].at \in {"working", "second", "count"}
  BY DEF CallStep, Acquire, Answered, AnsweredAtOnce, Fetch, Write, InList, LooksUp,
         Second, Waited, Count, Answers
<1> QED
  BY <1>1, BatchMoves, AtOnceMoves, ListMoves, TwoStepMoves, WaitedMoves, CountMoves,
     AnswersMoves DEF CallStep

-----------------------------------------------------------------------------
(* The log.                                                                *)

LEMMA FanOutIs ==
  ASSUME NEW remote \in BOOLEAN
  PROVE  /\ FanOut(remote)[1] = "stderr"
         /\ remote => FanOut(remote)[2] = "papertrail" /\ Len(FanOut(remote)) = 2
         /\ ~ remote => Len(FanOut(remote)) = 1
BY DEF FanOut

LEMMA NoLineOK ==
  NoLine \in Line /\ NoLine.at = "none" /\ \A remote : LineOK(NoLine, remote)
BY DEF NoLine, Line, LineOK, Steps

LineMoves(c, l, remote) ==
  /\ l \in Line /\ LineOK(l, remote) /\ line' = [line EXCEPT ![c] = l]

\* The next handler of the fan-out, or the end: stderr has the line by now.
LEMMA GoesOnMoves ==
  ASSUME LogTypeOK, NEW c \in Callers, NEW remote \in BOOLEAN, NEW f \in Line,
         GoesOn(c, remote, f), f.local,
         \/ line[c].next = 1 /\ f.copies = 0
         \/ line[c].next = 2 /\ remote
  PROVE  \E l : LineMoves(c, l, remote) /\ l.at # "none"
<1> DEFINE next == line[c].next + 1
           l == [f EXCEPT !.at = IF next > Len(FanOut(remote)) THEN "done" ELSE "handler",
                          !.next = next]
<1>1. line' = [line EXCEPT ![c] = l]
  BY DEF GoesOn
<1>2. next \in 1..3 /\ (next = 2 \/ next = 3)
  OBVIOUS
<1>3. /\ l \in Line /\ l.next = next /\ l.local /\ l.copies = f.copies
      /\ l.at = IF next > Len(FanOut(remote)) THEN "done" ELSE "handler"
  BY <1>2 DEF Line, Steps
<1> HIDE DEF l, next
<1>4. next = 2 \/ l.at = "done"
  <2>1. Len(FanOut(remote)) = 1 \/ Len(FanOut(remote)) = 2
    BY FanOutIs
  <2>2. next = 3 => next > Len(FanOut(remote))
    <3>1. 3 > 1 /\ 3 > 2
      OBVIOUS
    <3> QED
      BY <2>1, <3>1
  <2> QED
    BY <1>2, <1>3, <2>2
<1>5. next = 2 /\ l.at = "handler" => remote
  <2>1. ~ remote /\ next = 2 => next > Len(FanOut(remote))
    BY FanOutIs
  <2> QED
    BY <1>3, <2>1
<1>6. l.at = "handler" => l.copies = 0
  <2> SUFFICES ASSUME l.at = "handler" PROVE f.copies = 0
    BY <1>3
  <2>1. next = 2
    BY <1>4
  <2> QED
    BY <2>1 DEF LogTypeOK, Line, next
<1>7. LineOK(l, remote)
  BY <1>2, <1>3, <1>4, <1>5, <1>6 DEF LineOK
<1> QED
  <2>1. l.at # "none"
    BY <1>3
  <2>2. l \in Line
    BY <1>3
  <2> QED
    BY <1>1, <1>7, <2>1, <2>2 DEF LineMoves

LEMMA LogStepMoves ==
  ASSUME LogTypeOK, NEW c \in Callers, NEW remote \in BOOLEAN,
         LineOK(line[c], remote), LogStep(c, remote)
  PROVE  /\ line[c].at # "none"
         /\ \E l : LineMoves(c, l, remote) /\ l.at # "none"
         /\ mu' \in Callers \cup {None} /\ buf' \in [Buffers -> SUBSET Callers]
<1>0. line[c] \in Line
  BY DEF LogTypeOK
<1>1. CASE Stderr(c, remote)
  <2> DEFINE f == [line[c] EXCEPT !.local = TRUE]
  <2>1. line[c].at = "handler" /\ GoesOn(c, remote, f) /\ UNCHANGED <<mu, buf>>
    BY <1>1 DEF Stderr
  <2>2. line[c].next = 1
    BY <1>1, <2>1, FanOutIs DEF Stderr, LineOK
  <2>3. f \in Line /\ f.local /\ f.copies = 0
    BY <1>0, <2>1 DEF Line, LineOK
  <2> HIDE DEF f
  <2> QED
    BY <2>1, <2>2, <2>3, GoesOnMoves DEF LogTypeOK
<1>2. CASE Lock(c, remote)
  <2> DEFINE l == [line[c] EXCEPT !.at = "render"]
  <2>1. /\ line[c].at = "handler" /\ line' = [line EXCEPT ![c] = l] /\ mu' = c
        /\ UNCHANGED buf
    BY <1>2 DEF Lock
  <2>2. line[c].next = 2 /\ remote
    BY <1>2, <2>1, FanOutIs DEF Lock, LineOK
  <2>3. l \in Line /\ LineOK(l, remote) /\ l.at # "none"
    BY <1>0, <2>1, <2>2 DEF Line, Steps, LineOK
  <2> QED
    BY <2>1, <2>3 DEF LineMoves, LogTypeOK
<1>3. CASE Render(c)
  <2> DEFINE cleared == [buf EXCEPT ![Logger.own] = {}]
             written == [cleared EXCEPT ![Logger.json] = cleared[Logger.json] \cup {c}]
             l == [line[c] EXCEPT !.at = "send", !.text = written[Logger.own]]
  <2>1. /\ line[c].at = "render" /\ line' = [line EXCEPT ![c] = l] /\ buf' = written
        /\ UNCHANGED mu
    <3>1. line[c].at = "render" /\ UNCHANGED mu
      BY <1>3 DEF Render
    <3>2. buf' = written
      BY <1>3 DEF Render
    <3>3. line' = [line EXCEPT ![c].at = "send", ![c].text = written[Logger.own]]
      BY <1>3 DEF Render
    <3> HIDE DEF written
    <3>4. line' = [line EXCEPT ![c] = l]
      BY <1>0, <3>3 DEF LogTypeOK, Line
    <3> QED
      BY <3>1, <3>2, <3>4
  <2>2. Logger.own \in Buffers /\ Logger.json \in Buffers
    BY DEF Logger, WithAttrs, NewPapertrail, Buffers
  <2>3. written \in [Buffers -> SUBSET Callers]
    <3>1. cleared \in [Buffers -> SUBSET Callers]
      BY DEF LogTypeOK
    <3> HIDE DEF cleared
    <3> QED
      BY <3>1, <2>2
  <2>4. written[Logger.own] \subseteq Callers
    BY <2>2, <2>3
  <2> HIDE DEF cleared, written
  <2>5. l \in Line /\ LineOK(l, remote) /\ l.at # "none"
    BY <1>0, <2>1, <2>4 DEF Line, Steps, LineOK
  <2> QED
    BY <2>1, <2>3, <2>5 DEF LineMoves, LogTypeOK
<1>4. ASSUME NEW arrives \in BOOLEAN, line[c].at \in {"send", "retry"}
      PROVE  /\ Delivered(c, arrives) \in Line /\ Delivered(c, arrives).local
             /\ Delivered(c, arrives).next = 2 /\ line[c].next = 2 /\ remote
             /\ line[c].at = "send" => Delivered(c, arrives).copies <= 1
  <2>1. line[c].copies \in 0..1 /\ line[c].next = 2 /\ line[c].local /\ remote
        /\ (line[c].at = "send" => line[c].copies = 0)
    BY <1>0, <1>4 DEF Line, LineOK
  <2>2. (IF arrives THEN line[c].copies + 1 ELSE line[c].copies) \in 0..2
        /\ (line[c].at = "send"
              => (IF arrives THEN line[c].copies + 1 ELSE line[c].copies) <= 1)
    BY <2>1
  <2> QED
    BY <1>0, <2>1, <2>2 DEF Delivered, Line
<1>5. CASE Send(c, remote)
  <2>1. PICK good \in BOOLEAN, arrives \in BOOLEAN :
          IF good THEN GoesOn(c, remote, Delivered(c, arrives)) /\ mu' = None
          ELSE /\ line' = [line EXCEPT ![c] = [Delivered(c, arrives) EXCEPT !.at = "retry"]]
               /\ UNCHANGED mu
    BY <1>5 DEF Send
  <2> DEFINE d == Delivered(c, arrives)
             l == [d EXCEPT !.at = "retry"]
  <2>2. line[c].at = "send" /\ UNCHANGED buf
    BY <1>5 DEF Send
  <2>3. d \in Line /\ d.local /\ d.next = 2 /\ line[c].next = 2 /\ remote /\ d.copies <= 1
    BY <1>4, <2>2
  <2> HIDE DEF d
  <2>4. CASE good
    BY <2>1, <2>2, <2>3, <2>4, GoesOnMoves DEF d, LogTypeOK
  <2>5. CASE ~ good
    <3>1. l \in Line /\ LineOK(l, remote) /\ l.at # "none"
      BY <2>3 DEF Line, Steps, LineOK
    <3>2. line' = [line EXCEPT ![c] = l] /\ UNCHANGED mu
      BY <2>1, <2>5 DEF d
    <3> QED
      BY <2>2, <3>1, <3>2 DEF LineMoves, LogTypeOK
  <2> QED
    BY <2>4, <2>5
<1>6. CASE Retry(c, remote)
  <2>1. PICK good \in BOOLEAN, arrives \in BOOLEAN :
          IF good THEN GoesOn(c, remote, Delivered(c, arrives))
          ELSE Ends(c, Delivered(c, arrives))
    BY <1>6 DEF Retry
  <2> DEFINE d == Delivered(c, arrives)
             l == [d EXCEPT !.at = "done"]
  <2>2. line[c].at = "retry" /\ UNCHANGED buf /\ mu' = None
    BY <1>6 DEF Retry
  <2>3. d \in Line /\ d.local /\ d.next = 2 /\ line[c].next = 2 /\ remote
    BY <1>4, <2>2
  <2> HIDE DEF d
  <2>4. CASE good
    BY <2>1, <2>2, <2>3, <2>4, GoesOnMoves DEF d, LogTypeOK
  <2>5. CASE ~ good
    <3>1. l \in Line /\ LineOK(l, remote) /\ l.at # "none"
      BY <2>3 DEF Line, Steps, LineOK
    <3>2. line' = [line EXCEPT ![c] = l]
      BY <2>1, <2>5 DEF d, Ends
    <3> QED
      BY <2>2, <3>1, <3>2 DEF LineMoves, LogTypeOK
  <2> QED
    BY <2>4, <2>5
<1> QED
  BY <1>1, <1>2, <1>3, <1>5, <1>6 DEF LogStep

-----------------------------------------------------------------------------
(* The start of the process.                                               *)

ServerTypeOK ==
  /\ server.phase \in Phases /\ server.level \in Levels
  /\ server.dest \in Destination
  /\ server.served \subseteq DOMAIN GroupOf /\ server.marked \subseteq server.served
  /\ server.advertised \subseteq DOMAIN GroupOf \cup {"get_ddic_info"}

StartPromises ==
  /\ server.phase = "decided" /\ server.consent # "prompt"
       => server.served \cap SaidMarked = server.marked
  /\ server.phase = "decided"
       => server.advertised \cap DebugNames = server.served \cap DebugNames
  /\ "documented" \in server.files => server.config = "documented"
  /\ Remote(server.dest) => server.dest.host = server.dest.port

\* Host and port come from the environment, or both are what the build has.
LEMMA DestinationIs ==
  ASSUME NEW env \in [host : EnvValues, port : EnvValues], NEW built \in BuiltIn
  PROVE  LET d == ResolvePapertrail(env, built) IN
         d \in Destination /\ (Remote(d) => d.host = d.port)
<1>1. built \in [host : {"", "built"}, port : {"", "built"}]
  BY ServerAssumption DEF ServerAssumption
<1>2. CASE env.host = "unset" /\ env.port = "unset"
  BY <1>1, <1>2 DEF ResolvePapertrail, Destination, Remote
<1>3. CASE ~ (env.host = "unset" /\ env.port = "unset")
  <2> DEFINE d == [f \in {"host", "port"} |-> IF env[f] = "unset" THEN "" ELSE env[f]]
  <2>1. ResolvePapertrail(env, built) = d
    BY <1>3 DEF ResolvePapertrail
  <2>2. /\ d.host = IF env.host = "unset" THEN "" ELSE env.host
        /\ d.port = IF env.port = "unset" THEN "" ELSE env.port
    OBVIOUS
  <2>3. d.host \in {"", "env"} /\ d.port \in {"", "env"}
    BY <2>2 DEF EnvValues
  <2>4. d = [f \in {"host", "port"} |-> d[f]]
    OBVIOUS
  <2> HIDE DEF d
  <2>5. d \in Destination
    <3>1. d["host"] \in {"", "env", "built"} /\ d["port"] \in {"", "env", "built"}
      BY <2>3
    <3> QED
      BY <2>4, <3>1 DEF Destination
  <2> QED
    BY <2>1, <2>3, <2>5 DEF Remote
<1> QED
  BY <1>2, <1>3

LEMMA StartDecides ==
  ASSUME Start PROVE ServerTypeOK' /\ StartPromises' /\ server'.phase # "serving"
<1>1. PICK flag \in GroupArgs, cfg \in GroupArgs, consent \in ConsentArgs,
           level \in {"info", "error"},
           env \in [host : EnvValues, port : EnvValues], built \in BuiltIn,
           given \in BOOLEAN, home \in BOOLEAN, found \in SUBSET {"documented", "config.json"} :
        LET groups == EnabledGroups(flag, cfg)
            mode   == ParseConsentMode(consent)
            config == ConfigPath(given, home, found)
            good   == mode # "error" /\ (given \/ config \in found) IN
        server' = [phase |-> IF good THEN "decided" ELSE "refused",
                      served |-> IF good THEN Served(groups) ELSE {},
                      marked |-> IF good THEN Marked(mode, groups) ELSE {},
                      advertised |-> IF good THEN Advertised(groups) ELSE {},
                      consent |-> consent, config |-> config,
                      files |-> IF given \/ ~ home THEN {} ELSE found,
                      dest |-> ResolvePapertrail(env, built), level |-> level]
  BY DEF Start
<1> DEFINE groups == EnabledGroups(flag, cfg)
           mode   == ParseConsentMode(consent)
           config == ConfigPath(given, home, found)
           good   == mode # "error" /\ (given \/ config \in found)
<1> HIDE DEF groups, mode, config, good
<1>2. /\ server'.phase = IF good THEN "decided" ELSE "refused"
      /\ server'.served = IF good THEN Served(groups) ELSE {}
      /\ server'.marked = IF good THEN Marked(mode, groups) ELSE {}
      /\ server'.advertised = IF good THEN Advertised(groups) ELSE {}
      /\ server'.consent = consent /\ server'.config = config
      /\ server'.files = IF given \/ ~ home THEN {} ELSE found
      /\ server'.dest = ResolvePapertrail(env, built) /\ server'.level = level
  BY <1>1 DEF groups, mode, config, good
<1>3. Served(groups) \subseteq DOMAIN GroupOf /\ Marked(mode, groups) \subseteq Served(groups)
  BY DEF Served, Marked
<1>4. Advertised(groups) \cap DebugNames = Served(groups) \cap DebugNames
  <2>1. AlwaysNamed \cap DebugNames = {}
    BY DEF AlwaysNamed, SaidMarked, DebugNames
  <2>2. \A t \in DebugNames : t \in DOMAIN GroupOf /\ GroupOf[t] = "debug"
    BY DEF DebugNames, GroupOf
  <2> QED
    BY <2>1, <2>2 DEF Advertised, Served
<1>5. ServerTypeOK'
  <2>1. Advertised(groups) \subseteq DOMAIN GroupOf \cup {"get_ddic_info"}
    BY DEF Advertised, AlwaysNamed, SaidMarked, DebugNames, GroupOf
  <2> QED
    BY <1>2, <1>3, <2>1, DestinationIs DEF ServerTypeOK, Phases, Levels
<1>6. server'.phase = "decided" /\ server'.consent # "prompt"
        => server'.served \cap SaidMarked = server'.marked
  <2> SUFFICES ASSUME server'.phase = "decided", consent # "prompt"
               PROVE  Served(groups) \cap SaidMarked = Marked(mode, groups) /\ good
    BY <1>2
  <2>1. good /\ mode # "error"
    BY <1>2 DEF good
  <2>2. mode # "prompt"
    BY DEF mode, ParseConsentMode
  <2> QED
    BY <2>1, <2>2 DEF Marked, SaidMarked, Irreversible
<1>7. "documented" \in server'.files => server'.config = "documented"
  BY <1>2 DEF config, ConfigPath
<1> QED
  BY <1>2, <1>4, <1>5, <1>6, <1>7, DestinationIs DEF StartPromises

LEMMA ListenKeeps ==
  ASSUME ServerTypeOK, StartPromises, Listen
  PROVE  /\ ServerTypeOK' /\ StartPromises' /\ server'.phase = "serving"
         /\ server.phase # "serving" /\ Remote(server.dest)' = Remote(server.dest)
<1> DEFINE dest == IF Remote(server.dest) THEN [host |-> "env", port |-> "env"]
                   ELSE NoServer.dest
<1>1. /\ server.phase = "decided" /\ server'.phase = "serving"
      /\ server'.served = server.served \cap CallTools /\ server'.marked = {}
      /\ server'.advertised = {} /\ server'.files = {}
      /\ server'.level = server.level /\ server'.dest = dest
  BY DEF Listen, NoServer
<1>2. dest \in Destination /\ (Remote(dest) => dest.host = dest.port)
      /\ Remote(dest) = Remote(server.dest)
  BY DEF NoServer, Destination, Remote
<1> HIDE DEF dest
<1> QED
  BY <1>1, <1>2 DEF ServerTypeOK, StartPromises, Phases

\* Which branch gives a hint.
LEMMA HintsAreFit == HintsFit
<1> SUFFICES ASSUME NEW e \in ErrorShape
             PROVE  /\ e.companion # "" => Hint(e) \cap Kinds = {}
                    /\ e.kind = "unauthorized" => "unauthorized" \in Hint(e)
                    /\ "server_error" \in Hint(e) => ~ e.leftover /\ Hint(e) = {"server_error"}
                    /\ e.leftover => "verify_leftover" \in Hint(e)
                    /\ e.type = "save_failure" /\ e.t100 = "other"
                         => "retry_with_transport" \notin Hint(e)
                    /\ e.t100 = "TK102" => "forbidden" \notin Hint(e)
  BY DEF HintsFit
<1>1. /\ e.companion \in {"", "REMOTE_CHANGED", "INTERNAL", "not_installed"}
      /\ e.leftover \in BOOLEAN /\ e.kind \in Kinds
      /\ e.type \in {"", "save_failure", "no_access", "parameter"}
      /\ e.t100 \in {"", "cts", "enqueue", "TK102", "other"}
      /\ e.type = "save_failure" => e.kind = "server_error"
      /\ e.type = "no_access" => e.kind = "forbidden"
      /\ e.type = "parameter" => e.kind = "bad_request"
      /\ e.companion # "" => e.kind = "unknown" /\ ~ e.leftover
  BY DEF ErrorShape
<1>2. CASE e.companion # ""
  <2>1. Hint(e) \subseteq {"remote_changed", "install_companion"}
    BY <1>2 DEF Hint, CompanionHint
  <2> QED
    BY <1>1, <1>2, <2>1 DEF Kinds
<1>3. CASE e.companion = "" /\ e.leftover
  BY <1>1, <1>3 DEF Hint
<1>4. CASE e.companion = "" /\ ~ e.leftover
  <2>1. Hint(e) = Refined(e)
    BY <1>4 DEF Hint
  <2>2. HintByKind(e) \subseteq {e.kind, "already_exists", "inactive"}
    BY DEF HintByKind
  <2>3. e.kind = "unauthorized" => Refined(e) = {"unauthorized"}
    BY <1>1 DEF Refined, SaveConflict, HintByKind
  <2>4. "server_error" \in Refined(e) => Refined(e) = {"server_error"}
    BY <1>1 DEF Refined, HintByKind
  <2>5. e.type = "save_failure" /\ e.t100 = "other" => "retry_with_transport" \notin Refined(e)
    BY <1>1 DEF Refined, SaveConflict, HintByKind, Kinds
  <2>6. e.t100 = "TK102" => "forbidden" \notin Refined(e)
    BY <1>1 DEF Refined, HintByKind, SystemNotModifiable, Kinds
  <2> QED
    BY <1>4, <2>1, <2>3, <2>4, <2>5, <2>6
<1> QED
  BY <1>1, <1>2, <1>3, <1>4

-----------------------------------------------------------------------------
(* Everything together.                                                    *)

SafeInv == ServerTypeOK /\ StartPromises /\ LogTypeOK /\ CallInv /\ LineInv

LEMMA InitSafe == Init => SafeInv
<1> SUFFICES ASSUME Init PROVE SafeInv
  OBVIOUS
<1>1. ServerTypeOK /\ StartPromises
  BY DEF Init, NoServer, ServerTypeOK, StartPromises, Phases, Levels, Destination, Remote
<1>2. LogTypeOK /\ \A c \in Callers : line[c] = NoLine
  BY NoLineOK DEF Init, LogInit, LogTypeOK
<1>3. CallInv /\ \A c \in Callers : call[c] = NoCall
  BY NoCallOK DEF Init, CallInit, CallInv
<1>4. LineInv
  BY <1>2, <1>3, NoLineOK, NoCallOK DEF LineInv
<1> QED
  BY <1>1, <1>2, <1>3, <1>4 DEF SafeInv

\* A step that leaves the server and the log alone: one call moves, which has
\* no line and does not get one.
LEMMA CallOnly ==
  ASSUME SafeInv, NEW c \in Callers, NEW m, CallMoves(c, m),
         UNCHANGED <<server, logVars>>, call[c].at # "log",
         server.phase = "serving"
  PROVE  SafeInv'
<1>1. CallInv' /\ call'[c] = m /\ \A d \in Callers : d # c => call'[d] = call[d]
  BY CallKept DEF SafeInv
<1>2. UNCHANGED <<server, line, mu, buf>>
  BY DEF logVars
<1>3. LineInv'
  BY <1>1, <1>2 DEF SafeInv, LineInv
<1> QED
  BY <1>1, <1>2, <1>3 DEF SafeInv, ServerTypeOK, StartPromises, LogTypeOK

LEMMA SafeStep == SafeInv /\ [Next]_vars => SafeInv'
<1> SUFFICES ASSUME SafeInv, [Next]_vars PROVE SafeInv'
  OBVIOUS
<1> USE DEF SafeInv
<1>1. CASE Start \/ Listen
  <2>1. UNCHANGED <<call, line, mu, buf>>
    BY <1>1 DEF Start, Listen, logVars
  <2>2. ServerTypeOK' /\ StartPromises' /\ server.phase # "serving"
    BY <1>1, StartDecides, ListenKeeps DEF Start
  <2>3. \A c \in Callers : call[c].at = "idle" /\ line[c].at = "none" /\ line[c] \in Line
    BY <2>2 DEF LineInv, LogTypeOK
  <2>4. LineInv'
    BY <2>1, <2>3 DEF LineInv, LineOK
  <2> QED
    BY <2>1, <2>2, <2>4 DEF CallInv, LogTypeOK
<1>2. ASSUME NEW c \in Callers, Dispatch(c)
      PROVE  SafeInv'
  <2>1. CallBegins(c) /\ server.phase = "serving" /\ UNCHANGED <<server, logVars>>
    BY <1>2 DEF Dispatch
  <2>2. call[c].at = "idle" /\ \E m : CallMoves(c, m)
    BY <2>1, CallBeginsMoves
  <2> QED
    BY <2>1, <2>2, CallOnly
<1>3. ASSUME NEW c \in Callers, Step(c) \/ Cancelled(c)
      PROVE  SafeInv'
  <2>1. UNCHANGED <<server, logVars>> /\ (CallStep(c) \/ Cancel(c))
    BY <1>3 DEF Step, Cancelled
  <2>2. call[c].at \in {"working", "second", "count"} /\ \E m : CallMoves(c, m)
    BY <2>1, CallStepMoves, OthersMove DEF Cancel
  <2>3. server.phase = "serving"
    BY <2>2 DEF LineInv
  <2> QED
    BY <2>1, <2>2, <2>3, CallOnly
<1>4. ASSUME NEW c \in Callers, Logged(c)
      PROVE  SafeInv'
  <2>1. Logs(c) /\ UNCHANGED <<server, mu, buf>> /\ call[c].at = "answer"
    BY <1>4 DEF Logged, Logs
  <2>2. PICK m : CallMoves(c, m) /\ m.at = "log"
    BY <2>1, OthersMove
  <2>3. CallInv' /\ call'[c] = m /\ \A d \in Callers : d # c => call'[d] = call[d]
    BY <2>2, CallKept
  <2> DEFINE due == Enabled(server.level, IF call[c].error THEN "error" ELSE "ok")
             l == [NoLine EXCEPT !.at = IF due THEN "handler" ELSE "done", !.due = due]
  <2>4. line' = [line EXCEPT ![c] = l]
    BY <1>4 DEF Logged, LogBegins
  <2>5. due \in BOOLEAN
    BY DEF Enabled
  <2> HIDE DEF due
  <2>6. l \in Line /\ \A remote \in BOOLEAN : LineOK(l, remote)
    <3>1. l \in Line
      BY <2>5, NoLineOK DEF Line, Steps
    <3>2. /\ l.at = IF due THEN "handler" ELSE "done"
          /\ l.due = due /\ l.next = 1 /\ l.copies = 0
      BY DEF NoLine
    <3> HIDE DEF l
    <3>3. ASSUME NEW remote \in BOOLEAN PROVE LineOK(l, remote)
      BY <2>5, <3>2 DEF LineOK
    <3> QED
      BY <3>1, <3>3
  <2> HIDE DEF l
  <2>7. /\ line' \in [Callers -> Line] /\ line'[c] = l
        /\ \A d \in Callers : d # c => line'[d] = line[d]
    BY <2>4, <2>6 DEF LogTypeOK
  <2>8. LineInv'
    <3>1. Remote(server.dest) \in BOOLEAN /\ server.phase = "serving"
      BY <2>1 DEF Remote, LineInv
    <3> QED
      BY <2>1, <2>2, <2>3, <2>6, <2>7, <3>1 DEF LineInv
  <2> QED
    BY <2>1, <2>3, <2>7, <2>8 DEF ServerTypeOK, StartPromises, LogTypeOK
<1>5. ASSUME NEW c \in Callers, WriteLine(c)
      PROVE  SafeInv'
  <2>1. LogStep(c, Remote(server.dest)) /\ UNCHANGED <<server, call>>
    BY <1>5 DEF WriteLine
  <2>2. /\ line[c].at # "none"
        /\ \E l : LineMoves(c, l, Remote(server.dest)) /\ l.at # "none"
        /\ mu' \in Callers \cup {None} /\ buf' \in [Buffers -> SUBSET Callers]
    <3>1. Remote(server.dest) \in BOOLEAN /\ LineOK(line[c], Remote(server.dest))
      BY DEF Remote, LineInv
    <3> QED
      BY <2>1, <3>1, LogStepMoves
  <2>3. PICK l : LineMoves(c, l, Remote(server.dest)) /\ l.at # "none"
    BY <2>2
  <2>4. /\ line' \in [Callers -> Line] /\ line'[c] = l
        /\ \A d \in Callers : d # c => line'[d] = line[d]
    BY <2>3 DEF LineMoves, LogTypeOK
  <2>5. LineInv'
    BY <2>1, <2>2, <2>3, <2>4 DEF LineInv, LineMoves
  <2> QED
    BY <2>1, <2>2, <2>4, <2>5 DEF ServerTypeOK, StartPromises, LogTypeOK, CallInv
<1>6. ASSUME NEW c \in Callers, Respond(c)
      PROVE  SafeInv'
  <2>1. CallMoves(c, NoCall) /\ line' = [line EXCEPT ![c] = NoLine]
        /\ UNCHANGED <<server, mu, buf>>
    BY <1>6, OthersMove DEF Respond
  <2>2. CallInv' /\ call'[c] = NoCall /\ \A d \in Callers : d # c => call'[d] = call[d]
    BY <2>1, CallKept
  <2>3. /\ line' \in [Callers -> Line] /\ line'[c] = NoLine
        /\ \A d \in Callers : d # c => line'[d] = line[d]
    BY <2>1, NoLineOK DEF LogTypeOK
  <2>4. LineInv'
    <3>1. NoCall.at = "idle" /\ NoLine.at = "none" /\ \A remote : LineOK(NoLine, remote)
      BY NoLineOK, NoCallOK
    <3> QED
      BY <2>1, <2>2, <2>3, <3>1 DEF LineInv
  <2> QED
    BY <2>1, <2>2, <2>3, <2>4 DEF ServerTypeOK, StartPromises, LogTypeOK
<1>7. CASE UNCHANGED vars
  BY <1>7 DEF vars, ServerTypeOK, StartPromises, LogTypeOK, CallInv, LineInv
<1> QED
  BY <1>1, <1>2, <1>3, <1>4, <1>5, <1>6, <1>7 DEF Next

LEMMA Invariance == Spec => []SafeInv
BY InitSafe, SafeStep, PTL DEF Spec

(* The server, the handlers and the log find what they look for, and a      *)
(* batch of any size has at most Limit requests in flight (the semaphore of *)
(* the batch tools), also when requests fail.                              *)
THEOREM ServerTypes == Spec => []TypeOK
<1>1. SafeInv => TypeOK
  BY DEF SafeInv, TypeOK, ServerTypeOK, CallInv, CallOK, InLimit, CallTypeOK, LineInv
<1> QED
  BY Invariance, <1>1, PTL

(* What the process decides at its start, for any tool groups and any build *)
(* whose destination is complete or missing: unless consent is given, the   *)
(* served tools that carry the mark are those of which the instructions say *)
(* so, the debugger is described if and only if it is served, the           *)
(* documented configuration wins, and host and port of the remote log       *)
(* belong together (main.go, consent.go, logging.go); a hint fits its error *)
(* (errors.go).                                                            *)
THEOREM PromisesHold == Spec => []PromisesKept
<1>1. SafeInv => PromisesKept
  BY HintsAreFit DEF SafeInv, StartPromises, PromisesKept
<1> QED
  BY Invariance, <1>1, PTL

(* For batches and exports of any size: what the loops of the handlers have *)
(* counted, and the entries they have written, agree with what became of    *)
(* every object; an answer without an error hides no failure; wrong         *)
(* arguments change nothing; what verify_source leaves behind is named.     *)
THEOREM AnswersAreTrue == Spec => []AnswersTrue
<1>1. SafeInv => AnswersTrue
  BY DEF SafeInv, CallInv, CallOK, Truthful, Said, AnswersTrue
<1> QED
  BY Invariance, <1>1, PTL

(* Whatever becomes of the copy for Papertrail, stderr has the line of every *)
(* call that is answered and whose level is logged (fanout.go).             *)
THEOREM LoggedLocally == Spec => []LogsLocally
<1>1. SafeInv => LogsLocally
  BY DEF SafeInv, LineInv, LineOK, LogsLocally
<1> QED
  BY Invariance, <1>1, PTL
=============================================================================
