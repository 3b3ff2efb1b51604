-------------------------- MODULE TransportsProofs --------------------------
(***************************************************************************)
(* Theorems about Transports: what the answers are worth, and when nothing *)
(* is tried twice, for any callers and transports.                         *)
(***************************************************************************)
EXTENDS Transports, TLAPS

(* Quoted: no object's name can pass for the status 404.  Confirmed: the   *)
(* answer to a release that was carried out is not lost, either.           *)
Quoted    == "text404" \notin Faults
Confirmed == Quoted /\ "lost_release" \notin Faults

-----------------------------------------------------------------------------
\* Nothing is known yet of a call.
Fresh(k) ==
  /\ k.done = {} /\ ~ k.lost /\ ~ k.ok /\ ~ k.via /\ ~ k.released /\ ~ k.bad
  /\ k.said # "partial" /\ ~ k.named404 /\ k.tool # "update_customizing"

(* A call that SAP carried out over ADT reaches the fallback only as a      *)
(* release whose answer was lost, and then its transport is not modifiable  *)
(* any more, so that the fallback can do nothing.  A release may have       *)
(* released tasks.                                                         *)
AtFallback(k, st) ==
  /\ ~ k.ok /\ ~ k.via /\ ~ k.released /\ ~ k.bad
  /\ k.said # "partial"
  /\ \/ k.done = {}
     \/ k.done = {"tasks"} /\ k.tool = "release_transport"
     \/ /\ k.done = {"adt"} /\ k.lost /\ k.tool = "release_transport"
        /\ st[k.tr] # "modifiable"
  /\ k.tool \notin ReadTools

\* AnswersTrue, of one call.
TrueAnswer(k, st) ==
  /\ k.ok /\ ~ Vague(k) => k.done = {IF k.via THEN "fallback" ELSE "adt"}
  /\ k.released => /\ Whole(k) = {IF k.via THEN "fallback" ELSE "adt"}
                   /\ st[k.tr] = "released"
  /\ k.via => k.ok /\ Whole(k) = {"fallback"}
  /\ ~ k.ok => Whole(k) = {} \/ k.lost
  /\ k.ok /\ k.said = "partial" => k.warned
  /\ k.bad => k.done = {} /\ ~ k.ok

CallInv(k, st) ==
  /\ k.at = "adt" => Fresh(k)
  /\ k.at = "fallback" => AtFallback(k, st)
  /\ k.at = "answer" => TrueAnswer(k, st)

AnswerInv == \A c \in Callers : CallInv(call[c], state)

\* Nobody makes a transport modifiable again, or takes a release back.
Settles(old_state, new_state) ==
  \A t \in Trs :
    /\ old_state[t] = "released" => new_state[t] = "released"
    /\ old_state[t] # "modifiable" => new_state[t] # "modifiable"

-----------------------------------------------------------------------------
\* The record of a new call is one.
LEMMA NoCallType == NoCall \in Call /\ Fresh(NoCall)
<1>1. (CHOOSE t \in Trs : TRUE) \in Trs
  BY TransportsAssumption
<1> QED
  BY <1>1 DEF NoCall, Call, Fresh, Said, ReadBack, Errors

LEMMA InitTypes == Init => TypeOK
<1> SUFFICES ASSUME Init PROVE TypeOK
  OBVIOUS
<1>1. call \in [Callers -> Call]
  BY NoCallType DEF Init
<1>2. state \in [Trs -> States]
  BY DEF Init, States
<1>3. \A c \in Callers : call[c].at = "idle"
  BY DEF Init, NoCall
<1> QED
  BY <1>1, <1>2, <1>3 DEF Init, TypeOK

\* One call becomes another that is well typed.
LEMMA TypesKept ==
  ASSUME TypeOK, NEW c \in Callers, NEW k \in Call,
         call' = [call EXCEPT ![c] = k],
         k.at = "fallback" => fallback # "none",
         state' \in [Trs -> States], UNCHANGED <<old, fallback>>
  PROVE  TypeOK'
<1>1. \A d \in Callers : call'[d] = IF d = c THEN k ELSE call[d]
  BY DEF TypeOK
<1> QED
  BY <1>1 DEF TypeOK

\* What holds of the other calls still holds when transports settle.
LEMMA InvKept ==
  ASSUME TypeOK, AnswerInv, NEW c \in Callers, NEW k \in Call,
         call' = [call EXCEPT ![c] = k],
         CallInv(k, state'), Settles(state, state')
  PROVE  AnswerInv'
<1> SUFFICES ASSUME NEW d \in Callers PROVE CallInv(call'[d], state')
  BY DEF AnswerInv
<1>1. CASE d = c
  <2>1. call'[d] = k
    BY <1>1 DEF TypeOK
  <2> QED
    BY <2>1
<1>2. CASE d # c
  <2>1. call'[d] = call[d] /\ call[d] \in Call
    BY <1>2 DEF TypeOK
  <2>2. call[d].tr \in Trs
    BY <2>1 DEF Call
  <2>3. CallInv(call[d], state)
    BY DEF AnswerInv
  <2> QED
    BY <2>1, <2>2, <2>3 DEF CallInv, AtFallback, TrueAnswer, Settles
<1> QED
  BY <1>1, <1>2

\* A call begins: it goes to ADT, or is answered at once.
LEMMA AsksTypes ==
  ASSUME TypeOK, NEW c \in Callers, NEW k \in Call, Asks(c, k)
  PROVE  TypeOK'
<1>1. PICK valid \in BOOLEAN :
        call' = [call EXCEPT ![c] = [k EXCEPT !.at = IF valid THEN "adt" ELSE "answer"]]
  BY DEF Asks
<1> DEFINE r == [k EXCEPT !.at = IF valid THEN "adt" ELSE "answer"]
<1>2. r \in Call /\ r.at # "fallback"
  BY DEF Call
<1>3. UNCHANGED <<old, fallback, state>>
  BY DEF Asks
<1>4. state' \in [Trs -> States]
  BY <1>3 DEF TypeOK
<1> HIDE DEF r
<1>5. call' = [call EXCEPT ![c] = r]
  BY <1>1 DEF r
<1> QED
  BY <1>2, <1>3, <1>4, <1>5, TypesKept

LEMMA AsksAnswers ==
  ASSUME TypeOK, AnswerInv, NEW c \in Callers, NEW k \in Call, Fresh(k), Asks(c, k)
  PROVE  AnswerInv'
<1>1. PICK valid \in BOOLEAN :
        call' = [call EXCEPT ![c] = [k EXCEPT !.at = IF valid THEN "adt" ELSE "answer"]]
  BY DEF Asks
<1> DEFINE r == [k EXCEPT !.at = IF valid THEN "adt" ELSE "answer"]
<1>2. r \in Call
  BY DEF Call
<1>3. CallInv(r, state')
  <2>1. /\ r.at \in {"adt", "answer"} /\ r.done = {} /\ ~ r.lost /\ ~ r.ok /\ ~ r.via
        /\ ~ r.released /\ ~ r.bad /\ r.said # "partial" /\ ~ r.named404
        /\ r.tool # "update_customizing"
    BY DEF Call, Fresh
  <2> HIDE DEF r
  <2> QED
    BY <2>1 DEF CallInv, Fresh, TrueAnswer, Whole
<1>4. Settles(state, state')
  BY DEF Asks, Settles
<1> HIDE DEF r
<1>5. call' = [call EXCEPT ![c] = r]
  BY <1>1 DEF r
<1> QED
  BY <1>2, <1>3, <1>4, <1>5, InvKept

\* The records the tools begin with.
LEMMA NewObjects ==
  ASSUME NEW tool \in Tools, NEW special \in BOOLEAN, NEW named \in BOOLEAN
  PROVE  /\ [NoCall EXCEPT !.tool = tool, !.special = special] \in Call
         /\ [NoCall EXCEPT !.tool = tool, !.special = special, !.named404 = named] \in Call
         /\ tool # "update_customizing" =>
              Fresh([NoCall EXCEPT !.tool = tool, !.special = special])
         /\ tool # "update_customizing" /\ ~ named =>
              Fresh([NoCall EXCEPT !.tool = tool, !.special = special, !.named404 = named])
BY NoCallType DEF Call, Fresh

\* The tools that name a transport, or the one of the record.
AskingTools == Tools \ {"create_transport", "create_object", "update_customizing"}

\* The records they begin with, whatever else was asked for.
Asked(k) ==
  \E tool \in AskingTools, t \in Trs, special \in BOOLEAN :
    k \in {[NoCall EXCEPT !.tool = tool, !.tr = t],
          [NoCall EXCEPT !.tool = tool, !.tr = t, !.special = special]}

LEMMA AskedCalls == ASSUME NEW k, Asked(k) PROVE k \in Call /\ Fresh(k)
<1>1. PICK tool \in AskingTools, t \in Trs, special \in BOOLEAN :
        k \in {[NoCall EXCEPT !.tool = tool, !.tr = t],
              [NoCall EXCEPT !.tool = tool, !.tr = t, !.special = special]}
  BY DEF Asked
<1>2. tool \in Tools /\ tool # "update_customizing"
  BY DEF AskingTools
<1> QED
  BY <1>1, <1>2, NoCallType DEF Call, Fresh

LEMMA ToolsAsk ==
  ASSUME NEW c \in Callers,
         ReleaseTransport(c) \/ CreateTransportTask(c) \/ DeleteTransport(c)
           \/ AddToTransport(c) \/ RemoveFromTransport(c) \/ CopyTransportObjects(c)
           \/ AddPackageToTransport(c) \/ RollbackTransport(c)
           \/ GetTransportRequests(c) \/ GetTransportObjects(c)
           \/ CreatePackage(c) \/ DeleteObject(c)
  PROVE  \E k : Asked(k) /\ Asks(c, k)
<1>1. \E tool \in AskingTools : AsksFor(c, tool) \/ AsksSpecial(c, tool)
  BY DEF AskingTools, Tools, EntryTools, FillTools, PlainTools, ReadTools,
         ReleaseTransport, CreateTransportTask, DeleteTransport, AddToTransport,
         RemoveFromTransport, CopyTransportObjects, AddPackageToTransport,
         RollbackTransport, GetTransportRequests, GetTransportObjects,
         CreatePackage, DeleteObject
<1>2. PICK tool \in AskingTools : AsksFor(c, tool) \/ AsksSpecial(c, tool)
  BY <1>1
<1>3. CASE AsksFor(c, tool)
  <2>1. PICK t \in Trs : Asks(c, [NoCall EXCEPT !.tool = tool, !.tr = t])
    BY <1>3 DEF AsksFor
  <2> DEFINE k == [NoCall EXCEPT !.tool = tool, !.tr = t]
  <2>2. Asked(k)
    BY DEF Asked
  <2> QED
    BY <2>1, <2>2
<1>4. CASE AsksSpecial(c, tool)
  <2>1. PICK t \in Trs, special \in BOOLEAN :
          Asks(c, [NoCall EXCEPT !.tool = tool, !.tr = t, !.special = special])
    BY <1>4 DEF AsksSpecial
  <2> DEFINE k == [NoCall EXCEPT !.tool = tool, !.tr = t, !.special = special]
  <2>2. Asked(k)
    BY DEF Asked
  <2> QED
    BY <2>1, <2>2
<1> QED
  BY <1>2, <1>3, <1>4

-----------------------------------------------------------------------------
\* What a handler makes of an answer of ADT, and of the fallback.
LEMMA AfterAdtType ==
  ASSUME TypeOK, NEW k \in Call, NEW said \in Said
  PROVE  /\ AfterAdt(k, said) \in Call
         /\ AfterAdt(k, said).at = "fallback" => fallback # "none"
<1>1. CASE FallsBack(k, said)
  <2>1. fallback # "none"
    BY <1>1 DEF FallsBack, ReleaseFallsBack, CreateFallsBack, EntryFallsBack,
                FillFallsBack, ObjectFallsBack
  <2> QED
    BY <1>1, <2>1 DEF AfterAdt, Call
<1>2. CASE ~ FallsBack(k, said)
  <2>1. Succeeds(k, said) \in BOOLEAN /\ ReleasedIn(said) \in BOOLEAN
    BY DEF Succeeds, ReleasedIn
  <2> QED
    BY <1>2, <2>1 DEF AfterAdt, Call
<1> QED
  BY <1>1, <1>2

LEMMA AfterFallbackType ==
  ASSUME NEW k \in Call, NEW good \in BOOLEAN
  PROVE  AfterFallback(k, good) \in Call /\ AfterFallback(k, good).at = "answer"
BY DEF AfterFallback, Call

\* SAP's step keeps the states and settles them.
LEMMA ExecutesSettles ==
  ASSUME TypeOK, NEW k \in Call, NEW s \in {"released", "release_in_progress"},
         Can(k), Executes(k, s)
  PROVE  state' \in [Trs -> States] /\ Settles(state, state')
<1>1. k.tr \in Trs
  BY DEF Call
<1>2. CASE k.tool = "release_transport"
  <2>1. state' = [state EXCEPT ![k.tr] = s] /\ state[k.tr] = "modifiable"
    BY <1>2 DEF Executes, Can, NeedsModifiable
  <2> QED
    BY <1>1, <2>1 DEF TypeOK, States, Settles
<1>3. CASE k.tool = "delete_transport"
  <2>1. state' = [state EXCEPT ![k.tr] = "deleted"] /\ state[k.tr] = "modifiable"
    BY <1>3 DEF Executes, Can, NeedsModifiable
  <2> QED
    BY <1>1, <2>1 DEF TypeOK, States, Settles
<1>4. CASE k.tool \notin {"release_transport", "delete_transport"}
  <2>1. state' = state
    BY <1>4 DEF Executes
  <2> QED
    BY <2>1 DEF TypeOK, Settles
<1> QED
  BY <1>2, <1>3, <1>4

Way(k) == IF k.tool \in ReadTools THEN {} ELSE {"adt"}

\* ADT answers said to a call that SAP carried out, and left s behind.
Execution(c, s, lose, said) ==
  /\ Executes(call[c], s)
  /\ call' = [call EXCEPT ![c] =
       AfterAdt([call[c] EXCEPT !.done = @ \cup Way(call[c]), !.lost = lose], said)]
  /\ lose => said = "error" /\ MayLose(call[c])
  /\ ~ lose /\ call[c].tool # "release_transport" => said = "ok"
  /\ ~ lose /\ call[c].tool = "release_transport" => said \in {"unknown", s}

LEMMA AdtExecution ==
  ASSUME NEW c \in Callers, AdtExecutes(c)
  PROVE  \E s \in {"released", "release_in_progress"}, lose \in BOOLEAN, said \in Said :
           Execution(c, s, lose, said)
<1>1. PICK s \in {"released", "release_in_progress"},
           lose \in {MayLose(call[c]) /\ call[c].tool \notin ReadTools, FALSE},
           unread \in BOOLEAN :
        /\ Executes(call[c], s)
        /\ call' = [call EXCEPT ![c] =
             AfterAdt([call[c] EXCEPT
               !.done = @ \cup Way(call[c]), !.lost = lose],
               IF lose THEN "error"
               ELSE IF call[c].tool # "release_transport" THEN "ok"
               ELSE IF unread THEN "unknown" ELSE s)]
  BY DEF AdtExecutes, Way
<1> DEFINE said == IF lose THEN "error"
                   ELSE IF call[c].tool # "release_transport" THEN "ok"
                   ELSE IF unread THEN "unknown" ELSE s
<1>2. lose \in BOOLEAN /\ (lose => MayLose(call[c]))
  OBVIOUS
<1>3. said \in Said
  BY DEF Said, ReadBack, Errors
<1> WITNESS s \in {"released", "release_in_progress"}
<1> WITNESS lose \in BOOLEAN
<1> WITNESS said \in Said
<1> QED
  BY <1>1, <1>2 DEF Execution

\* ADT answers said to a call that SAP carried out otherwise than asked: it
\* released tasks alone, or removed an entry of another request.
OtherEffect(c, k, said) ==
  /\ call' = [call EXCEPT ![c] = AfterAdt(k, said)]
  /\ UNCHANGED <<old, fallback, state>>
  /\ k.tool = call[c].tool /\ k.tr = call[c].tr /\ k.special /\ k.bad = call[c].bad
  /\ k.ok = call[c].ok /\ k.via = call[c].via /\ k.released = call[c].released
  /\ k.named404 = call[c].named404
  /\ \/ /\ k.tool = "release_transport" /\ k.done = call[c].done \cup {"tasks"}
        /\ said \in {"error", "modifiable", "unknown"}
     \/ /\ k.tool = "remove_from_transport" /\ k.done = call[c].done \cup {"stray"}
        /\ said = IF k.lost THEN "error" ELSE "ok"

LEMMA OtherEffects ==
  ASSUME TypeOK, NEW c \in Callers, AdtReleasesTasks(c) \/ AdtStrays(c)
  PROVE  \E k \in Call, said \in Said : OtherEffect(c, k, said)
<1>0. call[c] \in Call
  BY DEF TypeOK
<1>1. CASE AdtReleasesTasks(c)
  <2>1. PICK said \in {"error", "modifiable", "unknown"} :
          call' = [call EXCEPT ![c] =
                     AfterAdt([call[c] EXCEPT !.done = @ \cup {"tasks"}], said)]
    BY <1>1 DEF AdtReleasesTasks
  <2> DEFINE k == [call[c] EXCEPT !.done = @ \cup {"tasks"}]
  <2>2. /\ k \in Call /\ k.done = call[c].done \cup {"tasks"}
        /\ k.tool = call[c].tool /\ k.tr = call[c].tr /\ k.special = call[c].special
        /\ k.bad = call[c].bad /\ k.ok = call[c].ok /\ k.via = call[c].via
        /\ k.released = call[c].released /\ k.named404 = call[c].named404
    BY <1>0 DEF Call
  <2>3. call' = [call EXCEPT ![c] = AfterAdt(k, said)]
    BY <2>1
  <2> HIDE DEF k
  <2>4. said \in Said /\ OtherEffect(c, k, said)
    BY <1>1, <2>2, <2>3 DEF AdtReleasesTasks, OtherEffect, Said, ReadBack, Errors
  <2> QED
    BY <2>2, <2>4
<1>2. CASE AdtStrays(c)
  <2>1. PICK lose \in BOOLEAN :
          call' = [call EXCEPT ![c] =
            AfterAdt([call[c] EXCEPT !.done = @ \cup {"stray"}, !.lost = lose],
                     IF lose THEN "error" ELSE "ok")]
    BY <1>2 DEF AdtStrays
  <2> DEFINE k == [call[c] EXCEPT !.done = @ \cup {"stray"}, !.lost = lose]
             said == IF lose THEN "error" ELSE "ok"
  <2>2. /\ k \in Call /\ k.done = call[c].done \cup {"stray"} /\ k.lost = lose
        /\ k.tool = call[c].tool /\ k.tr = call[c].tr /\ k.special = call[c].special
        /\ k.bad = call[c].bad /\ k.ok = call[c].ok /\ k.via = call[c].via
        /\ k.released = call[c].released /\ k.named404 = call[c].named404
    BY <1>0 DEF Call
  <2>3. call' = [call EXCEPT ![c] = AfterAdt(k, said)]
    BY <2>1
  <2>4. said \in Said /\ said = IF k.lost THEN "error" ELSE "ok"
    BY <2>2 DEF Said, Errors
  <2> HIDE DEF k, said
  <2>5. OtherEffect(c, k, said)
    BY <1>2, <2>2, <2>3, <2>4 DEF AdtStrays, OtherEffect
  <2> QED
    BY <2>2, <2>4, <2>5
<1> QED
  BY <1>1, <1>2

-----------------------------------------------------------------------------
\* Every step keeps the types.
LEMMA AdtTypes ==
  ASSUME TypeOK, NEW c \in Callers,
         \/ AdtExecutes(c) \/ AdtRefuses(c) \/ AdtSilent(c)
         \/ AdtReleasesTasks(c) \/ AdtStrays(c)
  PROVE  TypeOK'
<1>0. call[c] \in Call
  BY DEF TypeOK
<1>1. CASE AdtExecutes(c)
  <2>1. PICK s \in {"released", "release_in_progress"}, lose \in BOOLEAN,
             said \in Said : Execution(c, s, lose, said)
    BY <1>1, AdtExecution
  <2> DEFINE k == [call[c] EXCEPT !.done = @ \cup Way(call[c]), !.lost = lose]
  <2>2. k \in Call
    BY <1>0 DEF Call, Way
  <2>3. AfterAdt(k, said) \in Call /\ (AfterAdt(k, said).at = "fallback" => fallback # "none")
    BY <2>2, AfterAdtType
  <2>4. state' \in [Trs -> States] /\ UNCHANGED <<old, fallback>>
    BY <1>0, <1>1, <2>1, ExecutesSettles DEF AdtExecutes, Execution
  <2> QED
    BY <2>1, <2>3, <2>4, TypesKept DEF Execution
<1>2. CASE AdtRefuses(c) \/ AdtSilent(c)
  <2>1. PICK said \in Said : call' = [call EXCEPT ![c] = AfterAdt(call[c], said)]
    BY <1>2 DEF AdtRefuses, AdtSilent, Said, ReadBack
  <2>2. UNCHANGED <<old, fallback, state>>
    BY <1>2 DEF AdtRefuses, AdtSilent
  <2>3. state' \in [Trs -> States]
    BY <2>2 DEF TypeOK
  <2> QED
    BY <1>0, <2>1, <2>2, <2>3, AfterAdtType, TypesKept
<1>3. CASE AdtReleasesTasks(c) \/ AdtStrays(c)
  <2>1. PICK k \in Call, said \in Said : OtherEffect(c, k, said)
    BY <1>3, OtherEffects
  <2>2. state' \in [Trs -> States]
    BY <2>1 DEF OtherEffect, TypeOK
  <2> QED
    BY <2>1, <2>2, AfterAdtType, TypesKept DEF OtherEffect
<1> QED
  BY <1>1, <1>2, <1>3

LEMMA FallbackTypes ==
  ASSUME TypeOK, NEW c \in Callers,
         FallbackExecutes(c) \/ FallbackRefuses(c) \/ Answered(c)
  PROVE  TypeOK'
<1>0. call[c] \in Call
  BY DEF TypeOK
<1>1. CASE FallbackExecutes(c)
  <2>1. PICK good \in BOOLEAN :
          call' = [call EXCEPT ![c] =
            AfterFallback([call[c] EXCEPT !.done = @ \cup {"fallback"}, !.lost = ~ good],
                          good)]
    BY <1>1 DEF FallbackExecutes
  <2> DEFINE k == [call[c] EXCEPT !.done = @ \cup {"fallback"}, !.lost = ~ good]
  <2>2. k \in Call
    BY <1>0 DEF Call
  <2>3. AfterFallback(k, good) \in Call /\ AfterFallback(k, good).at = "answer"
    BY <2>2, AfterFallbackType
  <2>4. state' \in [Trs -> States] /\ UNCHANGED <<old, fallback>>
    BY <1>0, <1>1, ExecutesSettles DEF FallbackExecutes
  <2> QED
    BY <2>1, <2>3, <2>4, TypesKept
<1>2. CASE FallbackRefuses(c)
  <2>1. call' = [call EXCEPT ![c] = AfterFallback(call[c], FALSE)]
    BY <1>2 DEF FallbackRefuses
  <2>2. AfterFallback(call[c], FALSE) \in Call
        /\ AfterFallback(call[c], FALSE).at = "answer"
    BY <1>0, AfterFallbackType
  <2>3. state' \in [Trs -> States] /\ UNCHANGED <<old, fallback>>
    BY <1>2 DEF FallbackRefuses, TypeOK
  <2> QED
    BY <2>1, <2>2, <2>3, TypesKept
<1>3. CASE Answered(c)
  <2>1. NoCall \in Call /\ NoCall.at = "idle"
    BY NoCallType DEF NoCall
  <2>2. state' \in [Trs -> States] /\ UNCHANGED <<old, fallback>>
        /\ call' = [call EXCEPT ![c] = NoCall]
    BY <1>3 DEF Answered, TypeOK
  <2> QED
    BY <2>1, <2>2, TypesKept
<1> QED
  BY <1>1, <1>2, <1>3

LEMMA CustomizingTypes ==
  ASSUME TypeOK, NEW c \in Callers, UpdateCustomizing(c)
  PROVE  TypeOK'
<1>1. PICK e1 \in Entry, e2 \in Entry :
        call' = [call EXCEPT ![c] =
          [NoCall EXCEPT !.tool = "update_customizing",
             !.bad = Wrong(e1) \/ Wrong(e2),
             !.at = IF fallback # "none" /\ ValidEntry(e1) /\ ValidEntry(e2)
                      THEN "fallback" ELSE "answer"]]
  BY DEF UpdateCustomizing
<1> DEFINE k == [NoCall EXCEPT !.tool = "update_customizing",
             !.bad = Wrong(e1) \/ Wrong(e2),
             !.at = IF fallback # "none" /\ ValidEntry(e1) /\ ValidEntry(e2)
                      THEN "fallback" ELSE "answer"]
<1>2. k \in Call
  <2>1. (Wrong(e1) \/ Wrong(e2)) \in BOOLEAN
    OBVIOUS
  <2>2. "update_customizing" \in Tools
    BY DEF Tools
  <2> QED
    BY <2>1, <2>2, NoCallType DEF Call
<1>3. k.at = "fallback" => fallback # "none"
  BY NoCallType DEF Call
<1>4. state' \in [Trs -> States] /\ UNCHANGED <<old, fallback>>
  BY DEF UpdateCustomizing, TypeOK
<1> HIDE DEF k
<1>5. call' = [call EXCEPT ![c] = k]
  BY <1>1 DEF k
<1> QED
  BY <1>2, <1>3, <1>4, <1>5, TypesKept

LEMMA ToolTypes ==
  ASSUME TypeOK, NEW c \in Callers, TransportTool(c) \/ ObjectTool(c)
  PROVE  TypeOK'
<1>1. CASE CreateTransport(c)
  <2>1. PICK copies \in BOOLEAN :
          Asks(c, [NoCall EXCEPT !.tool = "create_transport", !.special = copies])
    BY <1>1 DEF CreateTransport
  <2>2. "create_transport" \in Tools
    BY DEF Tools
  <2> QED
    BY <2>1, <2>2, NewObjects, AsksTypes
<1>2. CASE CreateObject(c)
  <2>1. PICK ddic \in BOOLEAN, named \in BOOLEAN :
          Asks(c, [NoCall EXCEPT !.tool = "create_object", !.special = ddic,
                                 !.named404 = named])
    BY <1>2 DEF CreateObject
  <2>2. "create_object" \in Tools
    BY DEF Tools
  <2> QED
    BY <2>1, <2>2, NewObjects, AsksTypes
<1>3. CASE UpdateCustomizing(c)
  BY <1>3, CustomizingTypes
<1>4. CASE ~ (CreateTransport(c) \/ CreateObject(c) \/ UpdateCustomizing(c))
  <2>1. PICK k : Asked(k) /\ Asks(c, k)
    BY <1>4, ToolsAsk DEF TransportTool, ObjectTool
  <2>2. k \in Call
    BY <2>1, AskedCalls
  <2> QED
    BY <2>1, <2>2, AsksTypes
<1> QED
  BY <1>1, <1>2, <1>3, <1>4

LEMMA StepTypes == TypeOK /\ [Next]_vars => TypeOK'
<1> SUFFICES ASSUME TypeOK, [Next]_vars PROVE TypeOK'
  OBVIOUS
<1>1. CASE \E c \in Callers : TransportTool(c) \/ ObjectTool(c)
  BY <1>1, ToolTypes
<1>2. CASE \E c \in Callers : Proceeds(c)
  BY <1>2, AdtTypes, FallbackTypes DEF Proceeds
<1>3. CASE \E t \in Trs : SapReleases(t)
  BY <1>3 DEF SapReleases, TypeOK, States
<1>4. CASE UNCHANGED vars
  BY <1>4 DEF vars, TypeOK
<1> QED
  BY <1>1, <1>2, <1>3, <1>4 DEF Next

(* Every call is in a handler, and waits for the fallback only where one   *)
(* is configured: no handler calls a fallback that is not there            *)
(* (transport.go, object.go, customizing_write.go).                        *)
THEOREM TypesCorrect == Spec => []TypeOK
BY InitTypes, StepTypes, PTL DEF Spec

-----------------------------------------------------------------------------
\* The answers.
LEMMA InitAnswers == Init => AnswerInv
<1> SUFFICES ASSUME Init PROVE AnswerInv
  OBVIOUS
<1>1. \A c \in Callers : call[c].at = "idle"
  BY DEF Init, NoCall
<1> QED
  BY <1>1 DEF AnswerInv, CallInv

\* ADT carried the call out.
LEMMA ExecutedInv ==
  ASSUME TypeOK, NEW c \in Callers, Fresh(call[c]),
         NEW s \in {"released", "release_in_progress"}, NEW lose \in BOOLEAN,
         NEW said \in Said, Execution(c, s, lose, said),
         NEW k \in Call, k = [call[c] EXCEPT !.done = @ \cup Way(call[c]), !.lost = lose]
  PROVE  CallInv(AfterAdt(k, said), state')
<1>0. call[c] \in Call /\ call[c].tr \in Trs
  BY DEF TypeOK, Call
<1>1. /\ k.tool = call[c].tool /\ k.tr = call[c].tr /\ k.done = Way(call[c])
      /\ k.lost = lose /\ ~ k.ok /\ ~ k.via /\ ~ k.released /\ ~ k.bad
      /\ ~ k.named404 /\ k.tool # "update_customizing"
  BY <1>0 DEF Call, Fresh
<1>2. said # "partial"
  BY DEF Execution
<1>3. CASE FallsBack(k, said)
  <2>1. k.tool = "release_transport" /\ lose
    BY <1>1, <1>3 DEF FallsBack, ReleaseFallsBack, CreateFallsBack, EntryFallsBack,
         FillFallsBack, ObjectFallsBack, Execution, Errors, EntryTools, FillTools
  <2>2. state' = [state EXCEPT ![k.tr] = s]
    BY <1>1, <2>1 DEF Execution, Executes
  <2>3. state'[k.tr] # "modifiable"
    BY <1>0, <1>1, <2>2 DEF TypeOK
  <2>4. k.done = {"adt"} /\ k.tool \notin ReadTools
    BY <1>1, <2>1 DEF Way, ReadTools
  <2> DEFINE r == [k EXCEPT !.at = "fallback", !.said = said]
  <2>5. /\ r.at = "fallback" /\ r.said = said /\ r.tool = k.tool /\ r.tr = k.tr
        /\ r.done = k.done /\ r.lost = k.lost /\ ~ r.ok /\ ~ r.via /\ ~ r.released
        /\ ~ r.bad
    BY <1>1 DEF Call
  <2>6. AfterAdt(k, said) = r
    BY <1>3 DEF AfterAdt
  <2> HIDE DEF r
  <2> QED
    BY <1>1, <1>2, <2>1, <2>3, <2>4, <2>5, <2>6 DEF CallInv, AtFallback
<1>4. CASE ~ FallsBack(k, said)
  <2> DEFINE r == [k EXCEPT !.at = "answer", !.said = said, !.ok = Succeeds(k, said),
                     !.released = k.tool = "release_transport" /\ ReleasedIn(said),
                     !.warned = said = "partial"]
  <2>1. AfterAdt(k, said) = r
    BY <1>4 DEF AfterAdt
  <2>2. /\ r.at = "answer" /\ r.said = said /\ r.tool = k.tool /\ r.tr = k.tr
        /\ r.done = k.done /\ r.lost = k.lost /\ ~ r.via /\ ~ r.bad
        /\ r.ok = Succeeds(k, said)
        /\ r.released = (k.tool = "release_transport" /\ ReleasedIn(said))
    BY <1>1 DEF Call
  <2> HIDE DEF r
  <2>3. r.tool \notin ReadTools => r.done = {"adt"}
    BY <1>1, <2>2 DEF Way
  <2>4. r.released => /\ r.tool = "release_transport" /\ state'[r.tr] = "released"
                      /\ r.tool \notin ReadTools
    <3>1. SUFFICES ASSUME r.released
                   PROVE  r.tool = "release_transport" /\ state'[r.tr] = "released"
      BY DEF ReadTools
    <3>2. k.tool = "release_transport" /\ said = "released"
      BY <2>2, <3>1 DEF ReleasedIn
    <3>3. s = "released"
      BY <1>1, <3>2 DEF Execution
    <3>4. state' = [state EXCEPT ![k.tr] = s]
      BY <1>1, <3>2 DEF Execution, Executes
    <3> QED
      BY <1>0, <1>1, <2>2, <3>2, <3>3, <3>4 DEF TypeOK
  <2>5. ~ r.ok => r.lost
    BY <1>1, <2>2 DEF Succeeds, Execution, ReadBack
  <2>6. r.tool \in ReadTools => Vague(r)
    BY DEF Vague
  <2> QED
    BY <1>2, <2>1, <2>2, <2>3, <2>4, <2>5, <2>6 DEF CallInv, TrueAnswer, Whole
<1> QED
  BY <1>3, <1>4

\* ADT carried nothing out: it refused, or answered a success all the same.
LEMMA UndoneInv ==
  ASSUME NEW k \in Call, Fresh(k), NEW said \in Said, NEW st,
         k.tool \in ReadTools => said = "partial" \/ said \in Errors,
         \/ said \in Errors
         \/ said \in {"modifiable", "unknown"} /\ k.tool = "release_transport"
         \/ said = "ok" /\ k.tool \in FillTools
         \/ said = "ok" /\ k.tool = "remove_from_transport" /\ k.special
         \/ said = "partial" /\ k.tool \in ReadTools
  PROVE  CallInv(AfterAdt(k, said), st)
<1>1. CASE FallsBack(k, said)
  <2>1. k.tool \notin ReadTools /\ said # "partial"
    BY <1>1 DEF FallsBack, ReleaseFallsBack, CreateFallsBack, EntryFallsBack,
         FillFallsBack, ObjectFallsBack, Errors, EntryTools, FillTools, ReadTools
  <2> DEFINE r == [k EXCEPT !.at = "fallback", !.said = said]
  <2>2. /\ r.at = "fallback" /\ r.said = said /\ r.tool = k.tool
        /\ r.done = {} /\ ~ r.ok /\ ~ r.via /\ ~ r.released /\ ~ r.bad
    BY DEF Call, Fresh
  <2>3. AfterAdt(k, said) = r
    BY <1>1 DEF AfterAdt
  <2> HIDE DEF r
  <2> QED
    BY <2>1, <2>2, <2>3 DEF CallInv, AtFallback
<1>2. CASE ~ FallsBack(k, said)
  <2> DEFINE r == [k EXCEPT !.at = "answer", !.said = said, !.ok = Succeeds(k, said),
                     !.released = k.tool = "release_transport" /\ ReleasedIn(said),
                     !.warned = said = "partial"]
  <2>1. AfterAdt(k, said) = r
    BY <1>2 DEF AfterAdt
  <2>2. /\ r.at = "answer" /\ r.said = said /\ r.tool = k.tool
        /\ r.special = k.special
        /\ r.done = {} /\ ~ r.via /\ ~ r.bad /\ r.ok = Succeeds(k, said)
        /\ r.released = (k.tool = "release_transport" /\ ReleasedIn(said))
        /\ r.warned = (said = "partial")
    BY DEF Call, Fresh
  <2> HIDE DEF r
  <2>3. ~ r.released
    BY <2>2 DEF ReleasedIn, Errors, FillTools, ReadTools
  <2>4. r.ok => Vague(r)
    BY <2>2 DEF Succeeds, Errors, ReadBack, Vague
  <2> QED
    BY <2>1, <2>2, <2>3, <2>4 DEF CallInv, TrueAnswer, Whole
<1> QED
  BY <1>1, <1>2

\* SAP released tasks alone, or removed another entry.
LEMMA OtherInv ==
  ASSUME NEW c \in Callers, Fresh(call[c]), NEW k \in Call, NEW said \in Said, NEW st,
         OtherEffect(c, k, said)
  PROVE  CallInv(AfterAdt(k, said), st)
<1>1. /\ k.special /\ ~ k.bad /\ ~ k.ok /\ ~ k.via /\ ~ k.released /\ ~ k.named404
      /\ \/ /\ k.tool = "release_transport" /\ k.done = {"tasks"}
            /\ said \in {"error", "modifiable", "unknown"}
         \/ /\ k.tool = "remove_from_transport" /\ k.done = {"stray"}
            /\ said = IF k.lost THEN "error" ELSE "ok"
  BY DEF OtherEffect, Fresh
<1>2. CASE FallsBack(k, said)
  <2>1. k.tool = "release_transport"
    BY <1>1, <1>2 DEF FallsBack, EntryFallsBack, EntryTools, FillTools
  <2> DEFINE r == [k EXCEPT !.at = "fallback", !.said = said]
  <2>2. /\ r.at = "fallback" /\ r.said = said /\ r.tool = k.tool
        /\ r.done = k.done /\ ~ r.ok /\ ~ r.via /\ ~ r.released /\ ~ r.bad
    BY <1>1 DEF Call
  <2>3. AfterAdt(k, said) = r
    BY <1>2 DEF AfterAdt
  <2> HIDE DEF r
  <2> QED
    BY <1>1, <2>1, <2>2, <2>3 DEF CallInv, AtFallback, ReadTools
<1>3. CASE ~ FallsBack(k, said)
  <2> DEFINE r == [k EXCEPT !.at = "answer", !.said = said, !.ok = Succeeds(k, said),
                     !.released = k.tool = "release_transport" /\ ReleasedIn(said),
                     !.warned = said = "partial"]
  <2>1. AfterAdt(k, said) = r
    BY <1>3 DEF AfterAdt
  <2>2. /\ r.at = "answer" /\ r.said = said /\ r.tool = k.tool /\ r.special
        /\ r.done = k.done /\ r.lost = k.lost /\ ~ r.via /\ ~ r.bad
        /\ r.ok = Succeeds(k, said)
        /\ r.released = (k.tool = "release_transport" /\ ReleasedIn(said))
    BY <1>1 DEF Call
  <2> HIDE DEF r
  <2>3. ~ r.released /\ Vague(r) /\ said # "partial"
    BY <1>1, <2>2 DEF ReleasedIn, Vague
  <2>4. ~ r.ok => Whole(r) = {} \/ r.lost
    BY <1>1, <2>2 DEF Succeeds, Whole
  <2> QED
    BY <2>1, <2>2, <2>3, <2>4 DEF CallInv, TrueAnswer
<1> QED
  BY <1>2, <1>3

LEMMA AdtAnswers ==
  ASSUME TypeOK, AnswerInv, NEW c \in Callers,
         \/ AdtExecutes(c) \/ AdtRefuses(c) \/ AdtSilent(c)
         \/ AdtReleasesTasks(c) \/ AdtStrays(c)
  PROVE  AnswerInv'
<1>0. call[c] \in Call /\ Fresh(call[c])
  BY DEF TypeOK, AnswerInv, CallInv, AdtExecutes, AdtRefuses, AdtSilent,
         AdtReleasesTasks, AdtStrays
<1>1. CASE AdtExecutes(c)
  <2>1. PICK s \in {"released", "release_in_progress"}, lose \in BOOLEAN,
             said \in Said : Execution(c, s, lose, said)
    BY <1>1, AdtExecution
  <2> DEFINE k == [call[c] EXCEPT !.done = @ \cup Way(call[c]), !.lost = lose]
  <2>2. k \in Call
    BY <1>0 DEF Call, Way
  <2>3. CallInv(AfterAdt(k, said), state')
    BY <1>0, <2>1, <2>2, ExecutedInv
  <2>4. AfterAdt(k, said) \in Call
    BY <2>2, AfterAdtType
  <2>5. Settles(state, state')
    BY <1>0, <1>1, <2>1, ExecutesSettles DEF AdtExecutes, Execution
  <2> QED
    BY <2>1, <2>3, <2>4, <2>5, InvKept DEF Execution
<1>2. CASE AdtRefuses(c) \/ AdtSilent(c)
  <2>1. PICK said \in Said :
          /\ call' = [call EXCEPT ![c] = AfterAdt(call[c], said)]
          /\ \/ said \in Errors
             \/ said \in {"modifiable", "unknown"} /\ call[c].tool = "release_transport"
             \/ said = "ok" /\ call[c].tool \in FillTools
             \/ /\ said = "ok" /\ call[c].tool = "remove_from_transport"
                /\ call[c].special
             \/ said = "partial" /\ call[c].tool \in ReadTools
    BY <1>2 DEF AdtRefuses, AdtSilent, Said, ReadBack, ReadTools
  <2>2. call[c].tool \in ReadTools => said = "partial" \/ said \in Errors
    BY <2>1 DEF ReadTools, FillTools
  <2>3. CallInv(AfterAdt(call[c], said), state')
    BY <1>0, <2>1, <2>2, UndoneInv
  <2>4. Settles(state, state')
    BY <1>2 DEF AdtRefuses, AdtSilent, Settles
  <2> QED
    BY <1>0, <2>1, <2>3, <2>4, AfterAdtType, InvKept
<1>3. CASE AdtReleasesTasks(c) \/ AdtStrays(c)
  <2>1. PICK k \in Call, said \in Said : OtherEffect(c, k, said)
    BY <1>3, OtherEffects
  <2>2. CallInv(AfterAdt(k, said), state')
    BY <1>0, <2>1, OtherInv
  <2>3. AfterAdt(k, said) \in Call
    BY AfterAdtType
  <2>4. Settles(state, state')
    BY <2>1 DEF OtherEffect, Settles
  <2> QED
    BY <2>1, <2>2, <2>3, <2>4, InvKept DEF OtherEffect
<1> QED
  BY <1>1, <1>2, <1>3

LEMMA FallbackAnswers ==
  ASSUME TypeOK, AnswerInv, NEW c \in Callers,
         FallbackExecutes(c) \/ FallbackRefuses(c) \/ Answered(c)
  PROVE  AnswerInv'
<1>0. call[c] \in Call /\ call[c].tr \in Trs
  BY DEF TypeOK, Call
<1>1. CASE FallbackExecutes(c)
  <2>1. PICK good \in BOOLEAN :
          call' = [call EXCEPT ![c] =
            AfterFallback([call[c] EXCEPT !.done = @ \cup {"fallback"}, !.lost = ~ good],
                          good)]
    BY <1>1 DEF FallbackExecutes
  <2>2. Can(call[c]) /\ Executes(call[c], "released") /\ AtFallback(call[c], state)
    BY <1>1 DEF FallbackExecutes, AnswerInv, CallInv
  <2>3. \/ call[c].done = {}
        \/ call[c].done = {"tasks"} /\ call[c].tool = "release_transport"
    BY <2>2 DEF AtFallback, Can, NeedsModifiable
  <2> DEFINE k == [call[c] EXCEPT !.done = @ \cup {"fallback"}, !.lost = ~ good]
             r == AfterFallback(k, good)
  <2>4. k \in Call
    BY <1>0 DEF Call
  <2>5. r \in Call
    BY <2>4, AfterFallbackType
  <2>6. /\ r.at = "answer" /\ r.ok = good /\ r.via = good
        /\ r.done = call[c].done \cup {"fallback"} /\ r.tool = call[c].tool
        /\ r.lost = ~ good /\ ~ r.bad /\ r.said # "partial" /\ r.tr = call[c].tr
        /\ r.released = (good /\ call[c].tool = "release_transport")
    BY <1>0, <2>2 DEF Call, AfterFallback, AtFallback
  <2>7. r.released => state'[r.tr] = "released"
    BY <1>0, <2>2, <2>6 DEF Executes, TypeOK
  <2>8. call' = [call EXCEPT ![c] = r]
    BY <2>1
  <2> HIDE DEF r
  <2>9. Whole(r) = {"fallback"} /\ (~ Vague(r) => r.done = {"fallback"})
    BY <2>3, <2>6 DEF Whole, Vague
  <2>9a. CallInv(r, state')
    BY <2>6, <2>7, <2>9 DEF CallInv, TrueAnswer
  <2>10. Settles(state, state')
    BY <1>0, <2>2, ExecutesSettles
  <2> QED
    BY <2>5, <2>8, <2>9a, <2>10, InvKept
<1>2. CASE FallbackRefuses(c)
  <2> DEFINE r == AfterFallback(call[c], FALSE)
  <2>1. call' = [call EXCEPT ![c] = r] /\ Settles(state, state')
    BY <1>2 DEF FallbackRefuses, Settles
  <2>2. r \in Call
    BY <1>0, AfterFallbackType
  <2>3. AtFallback(call[c], state)
    BY <1>2 DEF FallbackRefuses, AnswerInv, CallInv
  <2>4. /\ r.at = "answer" /\ ~ r.ok /\ ~ r.via /\ r.done = call[c].done
        /\ r.lost = call[c].lost /\ ~ r.bad /\ ~ r.released
    BY <1>0, <2>3 DEF Call, AfterFallback, AtFallback
  <2> HIDE DEF r
  <2>5. CallInv(r, state')
    BY <2>3, <2>4 DEF CallInv, TrueAnswer, AtFallback, Whole
  <2> QED
    BY <2>1, <2>2, <2>5, InvKept
<1>3. CASE Answered(c)
  <2>1. call' = [call EXCEPT ![c] = NoCall] /\ Settles(state, state')
    BY <1>3 DEF Answered, Settles
  <2>2. NoCall \in Call /\ CallInv(NoCall, state')
    BY NoCallType DEF NoCall, CallInv
  <2> QED
    BY <2>1, <2>2, InvKept
<1> QED
  BY <1>1, <1>2, <1>3

LEMMA CustomizingAnswers ==
  ASSUME TypeOK, AnswerInv, NEW c \in Callers, UpdateCustomizing(c)
  PROVE  AnswerInv'
<1>1. PICK e1 \in Entry, e2 \in Entry :
        call' = [call EXCEPT ![c] =
          [NoCall EXCEPT !.tool = "update_customizing",
             !.bad = Wrong(e1) \/ Wrong(e2),
             !.at = IF fallback # "none" /\ ValidEntry(e1) /\ ValidEntry(e2)
                      THEN "fallback" ELSE "answer"]]
  BY DEF UpdateCustomizing
<1> DEFINE k == [NoCall EXCEPT !.tool = "update_customizing",
             !.bad = Wrong(e1) \/ Wrong(e2),
             !.at = IF fallback # "none" /\ ValidEntry(e1) /\ ValidEntry(e2)
                      THEN "fallback" ELSE "answer"]
<1>2. k \in Call
  <2>1. (Wrong(e1) \/ Wrong(e2)) \in BOOLEAN
    OBVIOUS
  <2>2. "update_customizing" \in Tools
    BY DEF Tools
  <2> QED
    BY <2>1, <2>2, NoCallType DEF Call
<1>3. \A e \in Entry : ValidEntry(e) => ~ Wrong(e)
  BY DEF Entry, ValidEntry, Wrong
<1>4. /\ k.tool = "update_customizing" /\ k.done = {} /\ ~ k.ok /\ ~ k.via
      /\ ~ k.released /\ k.said # "partial" /\ k.at \in {"fallback", "answer"}
      /\ k.at = "fallback" => ~ k.bad
  BY <1>3, NoCallType DEF Call, Fresh
<1> HIDE DEF k
<1>5. CallInv(k, state')
  BY <1>4 DEF CallInv, AtFallback, TrueAnswer, ReadTools, Whole
<1>6. call' = [call EXCEPT ![c] = k] /\ Settles(state, state')
  BY <1>1 DEF k, UpdateCustomizing, Settles
<1> QED
  BY <1>2, <1>5, <1>6, InvKept

LEMMA ToolAnswers ==
  ASSUME Quoted, TypeOK, AnswerInv, NEW c \in Callers,
         TransportTool(c) \/ ObjectTool(c)
  PROVE  AnswerInv'
<1>1. CASE CreateTransport(c)
  <2>1. PICK copies \in BOOLEAN :
          Asks(c, [NoCall EXCEPT !.tool = "create_transport", !.special = copies])
    BY <1>1 DEF CreateTransport
  <2>2. "create_transport" \in Tools
    BY DEF Tools
  <2> QED
    BY <2>1, <2>2, NewObjects, AsksAnswers
<1>2. CASE CreateObject(c)
  <2>1. PICK ddic \in BOOLEAN, named \in BOOLEAN :
          /\ ~ named
          /\ Asks(c, [NoCall EXCEPT !.tool = "create_object", !.special = ddic,
                                    !.named404 = named])
    BY <1>2 DEF CreateObject, Quoted
  <2>2. "create_object" \in Tools
    BY DEF Tools
  <2> QED
    BY <2>1, <2>2, NewObjects, AsksAnswers
<1>3. CASE UpdateCustomizing(c)
  BY <1>3, CustomizingAnswers
<1>4. CASE ~ (CreateTransport(c) \/ CreateObject(c) \/ UpdateCustomizing(c))
  <2>1. PICK k : Asked(k) /\ Asks(c, k)
    BY <1>4, ToolsAsk DEF TransportTool, ObjectTool
  <2>2. k \in Call /\ Fresh(k)
    BY <2>1, AskedCalls
  <2> QED
    BY <2>1, <2>2, AsksAnswers
<1> QED
  BY <1>1, <1>2, <1>3, <1>4

\* Nobody but a call acts, or a transport is released.
LEMMA StillAnswers ==
  ASSUME TypeOK, AnswerInv, UNCHANGED call,
         UNCHANGED state \/ \E t \in Trs : SapReleases(t)
  PROVE  AnswerInv'
<1>1. Settles(state, state')
  BY DEF Settles, SapReleases, TypeOK
<1> SUFFICES ASSUME NEW c \in Callers PROVE CallInv(call[c], state')
  BY DEF AnswerInv
<1>2. call[c].tr \in Trs /\ CallInv(call[c], state)
  BY DEF TypeOK, Call, AnswerInv
<1> QED
  BY <1>1, <1>2 DEF CallInv, AtFallback, TrueAnswer, Settles

LEMMA StepAnswers == Quoted /\ TypeOK /\ AnswerInv /\ [Next]_vars => AnswerInv'
<1> SUFFICES ASSUME Quoted, TypeOK, AnswerInv, [Next]_vars PROVE AnswerInv'
  OBVIOUS
<1>1. CASE \E c \in Callers : TransportTool(c) \/ ObjectTool(c)
  BY <1>1, ToolAnswers
<1>2. CASE \E c \in Callers : Proceeds(c)
  BY <1>2, AdtAnswers, FallbackAnswers DEF Proceeds
<1>3. CASE (\E t \in Trs : SapReleases(t)) \/ UNCHANGED vars
  BY <1>3, StillAnswers DEF SapReleases, vars
<1> QED
  BY <1>1, <1>2, <1>3 DEF Next

(* The answer says what happened, as long as no object's name can pass for *)
(* the status 404 (object.go reads it out of the text of the error): a     *)
(* success was carried out exactly once, on the way it names, a transport  *)
(* that is reported released is released, and an error hides a change only *)
(* where the answer of SAP or of the fallback was lost or where the tasks   *)
(* of a request were released and the request was not.  A success of the   *)
(* tools of Vague means no more than that SAP took the call (transport.go, *)
(* transport_copies.go, object.go, customizing_write.go).                  *)
THEOREM AnswersHonest == ASSUME Quoted PROVE Spec => []AnswersTrue
<1>1. Init => TypeOK /\ AnswerInv
  BY InitTypes, InitAnswers
<1>2. TypeOK /\ AnswerInv /\ [Next]_vars => (TypeOK /\ AnswerInv)'
  BY StepTypes, StepAnswers
<1>3. TypeOK /\ AnswerInv => AnswersTrue
  BY DEF AnswerInv, CallInv, TrueAnswer, AnswersTrue
<1> QED
  BY <1>1, <1>2, <1>3, PTL DEF Spec

-----------------------------------------------------------------------------
\* Second tries.  The call that moves is the only one that can begin one.
LEMMA OneTries ==
  ASSUME TypeOK, NoSecondTry, NEW c \in Callers, NEW k,
         call' = [call EXCEPT ![c] = k],
         k.at = "fallback" => k.done \subseteq {"tasks"}
  PROVE  NoSecondTry'
<1> SUFFICES ASSUME NEW d \in Callers
             PROVE  call'[d].at = "fallback" => call'[d].done \subseteq {"tasks"}
  BY DEF NoSecondTry
<1>1. call'[d] = IF d = c THEN k ELSE call[d]
  BY DEF TypeOK
<1> QED
  BY <1>1 DEF NoSecondTry

\* ADT's answer to what was carried out arrives, except that of a create or a
\* change whose handlers do not take an error for a reason to fall back.
LEMMA AdtTriesOnce ==
  ASSUME Confirmed, TypeOK, AnswerInv, NoSecondTry, NEW c \in Callers,
         \/ AdtExecutes(c) \/ AdtRefuses(c) \/ AdtSilent(c)
         \/ AdtReleasesTasks(c) \/ AdtStrays(c)
  PROVE  NoSecondTry'
<1>0. call[c] \in Call /\ Fresh(call[c])
  BY DEF TypeOK, AnswerInv, CallInv, AdtExecutes, AdtRefuses, AdtSilent,
         AdtReleasesTasks, AdtStrays
<1>1. CASE AdtExecutes(c)
  <2>1. PICK s \in {"released", "release_in_progress"}, lose \in BOOLEAN,
             said \in Said : Execution(c, s, lose, said)
    BY <1>1, AdtExecution
  <2> DEFINE k == [call[c] EXCEPT !.done = @ \cup Way(call[c]), !.lost = lose]
  <2>2. k \in Call /\ k.tool = call[c].tool /\ ~ k.named404
    BY <1>0 DEF Call, Way, Fresh
  <2>3. ~ FallsBack(k, said)
    BY <2>1, <2>2 DEF FallsBack, ReleaseFallsBack, CreateFallsBack, EntryFallsBack,
         FillFallsBack, ObjectFallsBack, Execution, Errors, EntryTools, FillTools,
         MayLose, Confirmed
  <2>4. AfterAdt(k, said).at = "answer"
    BY <2>2, <2>3 DEF AfterAdt, Call
  <2> QED
    BY <2>1, <2>4, OneTries DEF Execution
<1>2. CASE AdtRefuses(c) \/ AdtSilent(c)
  <2>1. PICK said \in Said : call' = [call EXCEPT ![c] = AfterAdt(call[c], said)]
    BY <1>2 DEF AdtRefuses, AdtSilent, Said, ReadBack
  <2>2. AfterAdt(call[c], said).done = {}
    BY <1>0 DEF AfterAdt, Call, Fresh
  <2> QED
    BY <2>1, <2>2, OneTries
<1>3. CASE AdtReleasesTasks(c) \/ AdtStrays(c)
  <2>1. PICK k \in Call, said \in Said : OtherEffect(c, k, said)
    BY <1>3, OtherEffects
  <2>2. CallInv(AfterAdt(k, said), state')
    BY <1>0, <2>1, OtherInv
  <2>3. k.done \in {{"tasks"}, {"stray"}} /\ AfterAdt(k, said).done = k.done
    BY <1>0, <2>1 DEF OtherEffect, Fresh, AfterAdt, Call
  <2>4. AfterAdt(k, said).at = "fallback" => AfterAdt(k, said).done \subseteq {"tasks"}
    BY <2>2, <2>3 DEF CallInv, AtFallback
  <2> QED
    BY <2>1, <2>4, OneTries DEF OtherEffect
<1> QED
  BY <1>1, <1>2, <1>3

LEMMA AsksTriesOnce ==
  ASSUME TypeOK, NoSecondTry, NEW c \in Callers, NEW k \in Call, Asks(c, k)
  PROVE  NoSecondTry'
<1>1. PICK valid \in BOOLEAN :
        call' = [call EXCEPT ![c] = [k EXCEPT !.at = IF valid THEN "adt" ELSE "answer"]]
  BY DEF Asks
<1>2. [k EXCEPT !.at = IF valid THEN "adt" ELSE "answer"].at # "fallback"
  BY DEF Call
<1> QED
  BY <1>1, <1>2, OneTries

\* A customizing call begins at the fallback with nothing done.
LEMMA ToolsTryOnce ==
  ASSUME TypeOK, NoSecondTry, NEW c \in Callers, TransportTool(c) \/ ObjectTool(c)
  PROVE  NoSecondTry'
<1>1. CASE CreateTransport(c)
  <2>1. PICK copies \in BOOLEAN :
          Asks(c, [NoCall EXCEPT !.tool = "create_transport", !.special = copies])
    BY <1>1 DEF CreateTransport
  <2>2. "create_transport" \in Tools
    BY DEF Tools
  <2> QED
    BY <2>1, <2>2, NewObjects, AsksTriesOnce
<1>2. CASE CreateObject(c)
  <2>1. PICK ddic \in BOOLEAN, named \in BOOLEAN :
          Asks(c, [NoCall EXCEPT !.tool = "create_object", !.special = ddic,
                                 !.named404 = named])
    BY <1>2 DEF CreateObject
  <2>2. "create_object" \in Tools
    BY DEF Tools
  <2> QED
    BY <2>1, <2>2, NewObjects, AsksTriesOnce
<1>3. CASE UpdateCustomizing(c)
  <2>1. PICK e1 \in Entry, e2 \in Entry :
          call' = [call EXCEPT ![c] =
            [NoCall EXCEPT !.tool = "update_customizing",
               !.bad = Wrong(e1) \/ Wrong(e2),
               !.at = IF fallback # "none" /\ ValidEntry(e1) /\ ValidEntry(e2)
                        THEN "fallback" ELSE "answer"]]
    BY <1>3 DEF UpdateCustomizing
  <2> DEFINE k == [NoCall EXCEPT !.tool = "update_customizing",
               !.bad = Wrong(e1) \/ Wrong(e2),
               !.at = IF fallback # "none" /\ ValidEntry(e1) /\ ValidEntry(e2)
                        THEN "fallback" ELSE "answer"]
  <2>2. k.done = {}
    BY NoCallType DEF Call, Fresh
  <2> HIDE DEF k
  <2>3. call' = [call EXCEPT ![c] = k]
    BY <2>1 DEF k
  <2> QED
    BY <2>2, <2>3, OneTries
<1>4. CASE ~ (CreateTransport(c) \/ CreateObject(c) \/ UpdateCustomizing(c))
  <2>1. PICK k : Asked(k) /\ Asks(c, k)
    BY <1>4, ToolsAsk DEF TransportTool, ObjectTool
  <2>2. k \in Call
    BY <2>1, AskedCalls
  <2> QED
    BY <2>1, <2>2, AsksTriesOnce
<1> QED
  BY <1>1, <1>2, <1>3, <1>4

LEMMA FallbackTriesOnce ==
  ASSUME TypeOK, NoSecondTry, NEW c \in Callers,
         FallbackExecutes(c) \/ FallbackRefuses(c) \/ Answered(c)
  PROVE  NoSecondTry'
<1>0. call[c] \in Call
  BY DEF TypeOK
<1>1. CASE FallbackExecutes(c)
  <2>1. PICK good \in BOOLEAN :
          call' = [call EXCEPT ![c] =
            AfterFallback([call[c] EXCEPT !.done = @ \cup {"fallback"}, !.lost = ~ good],
                          good)]
    BY <1>1 DEF FallbackExecutes
  <2>2. [call[c] EXCEPT !.done = @ \cup {"fallback"}, !.lost = ~ good] \in Call
    BY <1>0 DEF Call
  <2> QED
    BY <2>1, <2>2, AfterFallbackType, OneTries
<1>2. CASE FallbackRefuses(c)
  BY <1>0, <1>2, AfterFallbackType, OneTries DEF FallbackRefuses
<1>3. CASE Answered(c)
  BY <1>3, OneTries DEF Answered, NoCall
<1> QED
  BY <1>1, <1>2, <1>3

LEMMA StepTriesOnce ==
  Confirmed /\ TypeOK /\ AnswerInv /\ NoSecondTry /\ [Next]_vars => NoSecondTry'
<1> SUFFICES ASSUME Confirmed, TypeOK, AnswerInv, NoSecondTry, [Next]_vars
             PROVE  NoSecondTry'
  OBVIOUS
<1>1. CASE \E c \in Callers : TransportTool(c) \/ ObjectTool(c)
  BY <1>1, ToolsTryOnce
<1>2. CASE \E c \in Callers : Proceeds(c)
  BY <1>2, AdtTriesOnce, FallbackTriesOnce DEF Proceeds
<1>3. CASE (\E t \in Trs : SapReleases(t)) \/ UNCHANGED vars
  BY <1>3 DEF SapReleases, vars, NoSecondTry
<1> QED
  BY <1>1, <1>2, <1>3 DEF Next

(* What SAP carried out over ADT is never handed to the fallback, as long  *)
(* as the answer to a release arrives and no object's name can pass for    *)
(* the status 404: every other lost answer is an error that no handler     *)
(* takes for a reason to fall back (transport.go, transport_copies.go,     *)
(* object.go).                                                             *)
THEOREM NothingTwice == ASSUME Confirmed PROVE Spec => []NoSecondTry
<1>1. Quoted
  BY DEF Confirmed
<1>2. Init => NoSecondTry
  <2> SUFFICES ASSUME Init PROVE NoSecondTry
    OBVIOUS
  <2>1. \A c \in Callers : call[c].at = "idle"
    BY DEF Init, NoCall
  <2> QED
    BY <2>1 DEF NoSecondTry
<1>3. Init => TypeOK /\ AnswerInv /\ NoSecondTry
  BY <1>2, InitTypes, InitAnswers
<1>4. TypeOK /\ AnswerInv /\ NoSecondTry /\ [Next]_vars
        => (TypeOK /\ AnswerInv /\ NoSecondTry)'
  BY <1>1, StepTypes, StepAnswers, StepTriesOnce
<1> QED
  BY <1>3, <1>4, PTL DEF Spec
=============================================================================
