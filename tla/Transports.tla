----------------------------- MODULE Transports -----------------------------
(***************************************************************************)
(* The tools that change SAP in one request and may turn to the optional   *)
(* fallback (BlackMagicClient, SAP GUI automation) where ADT cannot do it: *)
(* transport requests, their entries, new and deleted objects, customizing *)
(* (tools/transport.go, transport_copies.go, object.go, rollback.go,       *)
(* customizing_write.go).  A call asks ADT, may ask the fallback, and       *)
(* answers.  The question is what the answer and the second attempt are    *)
(* worth when SAP, the network or the fallback fail half way: the answer   *)
(* to a request that SAP carried out may be lost.                          *)
(*                                                                         *)
(* What a call asks for is abstract except the state of a transport; done  *)
(* records on which of the two ways SAP carried it out.                    *)
(***************************************************************************)
EXTENDS Naturals, FiniteSets

CONSTANTS Callers,  \* tool calls in flight at a time
          Trs,      \* transport requests
          Faults    \* what may go wrong, a subset of AllFaults

\* "refuse": SAP or the fallback answers an error and does nothing.
\* "lost": an error answers what was carried out; "lost_release" the same for
\* the release of a transport over ADT.
\* "text404": the name of an object has "404" in it, and errors quote it.
AllFaults == {"refuse", "lost", "lost_release", "text404"}

ASSUME TransportsAssumption == Trs # {} /\ Faults \subseteq AllFaults

VARIABLES
  old,       \* the system is an ECC (SAP_BASIS 7.50)
  fallback,  \* "none", "base", or "full": with the optional extensions
  state,     \* SAP: the state of each transport
  call       \* the handler each caller is in

vars == <<old, fallback, state, call>>

EntryTools == {"add_to_transport", "remove_from_transport"}
FillTools  == {"copy_transport_objects", "add_package_to_transport"}
PlainTools == {"create_transport_task", "delete_transport", "create_package",
               "delete_object", "rollback_transport"}
ReadTools  == {"get_transport_requests", "get_transport_objects"}
Tools == {"release_transport", "create_transport", "create_object",
          "update_customizing"}
           \cup EntryTools \cup FillTools \cup PlainTools \cup ReadTools

States == {"modifiable", "release_in_progress", "released", "deleted"}

\* What adtler returns: no error (a release with the state it read back), or
\* one of the errors the handlers tell apart.
ReadBack == {"released", "release_in_progress", "modifiable", "unknown"}
Errors   == {"unsupported", "not_found", "error"}
Said     == {"", "ok", "partial"} \cup ReadBack \cup Errors

(* A call.  special: a create_transport of category W or T, a create_object *)
(* of a DDIC type, a release with include_tasks, or a removal whose         *)
(* position is stale when SAP looks at it; named404: an object name with   *)
(* 404 in it.  bad: the arguments break a documented rule.  done: what SAP *)
(* did: the call, over ADT or the fallback; only tasks of the request to    *)
(* be released; or, a stray change, to another entry.  lost: a change was   *)
(* answered with an error.  ok, via, released, warned: the answer           *)
(* (create_object and update_customizing do not name the way).              *)
Call == [tool : Tools \cup {""}, at : {"idle", "adt", "fallback", "answer"},
         tr : Trs, special : BOOLEAN, named404 : BOOLEAN, bad : BOOLEAN,
         done : SUBSET {"adt", "fallback", "tasks", "stray"}, lost : BOOLEAN,
         said : Said,
         ok : BOOLEAN, via : BOOLEAN, released : BOOLEAN, warned : BOOLEAN]
NoCall == [tool |-> "", at |-> "idle", tr |-> CHOOSE t \in Trs : TRUE,
           special |-> FALSE, named404 |-> FALSE, bad |-> FALSE, done |-> {},
           lost |-> FALSE, said |-> "", ok |-> FALSE, via |-> FALSE,
           released |-> FALSE, warned |-> FALSE]

TypeOK ==
  /\ old \in BOOLEAN /\ fallback \in {"none", "base", "full"}
  /\ state \in [Trs -> States] /\ call \in [Callers -> Call]
  /\ \A c \in Callers : call[c].at = "fallback" => fallback # "none"

Init ==
  /\ old \in BOOLEAN /\ fallback \in {"none", "base", "full"}
  /\ state = [t \in Trs |-> "modifiable"]
  /\ call = [c \in Callers |-> NoCall]

-----------------------------------------------------------------------------
(* The tools.  Missing or wrong arguments are answered at once.            *)

Asks(c, k) ==
  /\ call[c].at = "idle"
  /\ \E valid \in BOOLEAN :
       call' = [call EXCEPT ![c] =
                  [k EXCEPT !.at = IF valid THEN "adt" ELSE "answer"]]
  /\ UNCHANGED <<old, fallback, state>>

AsksFor(c, tool) == \E t \in Trs : Asks(c, [NoCall EXCEPT !.tool = tool, !.tr = t])

CreateTransportTask(c) == AsksFor(c, "create_transport_task")
DeleteTransport(c) == AsksFor(c, "delete_transport")
AddToTransport(c) == AsksFor(c, "add_to_transport")
CopyTransportObjects(c) == AsksFor(c, "copy_transport_objects")
AddPackageToTransport(c) == AsksFor(c, "add_package_to_transport")
RollbackTransport(c) == AsksFor(c, "rollback_transport")
GetTransportRequests(c) == AsksFor(c, "get_transport_requests")
GetTransportObjects(c) == AsksFor(c, "get_transport_objects")
CreatePackage(c) == AsksFor(c, "create_package")
DeleteObject(c) == AsksFor(c, "delete_object")

AsksSpecial(c, tool) ==
  \E t \in Trs, special \in BOOLEAN :
    Asks(c, [NoCall EXCEPT !.tool = tool, !.tr = t, !.special = special])

\* With include_tasks or without.
ReleaseTransport(c) == AsksSpecial(c, "release_transport")
\* By a position that is current or stale.
RemoveFromTransport(c) == AsksSpecial(c, "remove_from_transport")

CreateTransport(c) ==
  \E copies \in BOOLEAN :
    Asks(c, [NoCall EXCEPT !.tool = "create_transport", !.special = copies])

CreateObject(c) ==
  \E ddic, named \in BOOLEAN :
    /\ named => "text404" \in Faults
    /\ Asks(c, [NoCall EXCEPT !.tool = "create_object", !.special = ddic,
                              !.named404 = named])

\* A row of update_customizing: does it have keys, has it values, its op.
Entry == [keys : BOOLEAN, values : BOOLEAN, op : {"", "upsert", "delete", "other"}]
ValidEntry(e) ==
  /\ e.keys
  /\ IF e.op \in {"", "upsert"} THEN e.values ELSE e.op = "delete" /\ ~ e.values

\* The schema: keys are required, values are "required when op is upsert (or
\* omitted), forbidden when op is delete".
Wrong(e) == ~ e.keys \/ e.op = "other" \/ (e.op = "delete") = e.values

\* All entries are looked at before any is written; ADT has no part in it.
UpdateCustomizing(c) ==
  /\ call[c].at = "idle"
  /\ \E e1, e2 \in Entry :
       LET go == fallback # "none" /\ ValidEntry(e1) /\ ValidEntry(e2) IN
       call' = [call EXCEPT ![c] =
         [NoCall EXCEPT !.tool = "update_customizing",
                        !.bad = Wrong(e1) \/ Wrong(e2),
                        !.at = IF go THEN "fallback" ELSE "answer"]]
  /\ UNCHANGED <<old, fallback, state>>

-----------------------------------------------------------------------------
(* When a handler turns to the fallback.                                   *)

\* Wrong: a fallback that is not there is called.
ReleaseFallsBack_bug(said) == said \in Errors \cup {"modifiable"}
\* An error, or 200 while the transport stayed modifiable.
ReleaseFallsBack(said) == said \in Errors \cup {"modifiable"} /\ fallback # "none"

\* Wrong: any error makes the fallback create the request.
CreateFallsBack_bug(said) == said \in Errors /\ fallback # "none"
CreateFallsBack(said) == said = "unsupported" /\ fallback # "none"

EntryFallsBack(said) == said = "unsupported" /\ fallback = "full"
FillFallsBack(said)  == said = "unsupported" /\ fallback = "full"

\* "404" anywhere in the text of the error.
ObjectFallsBack(k, said) ==
  /\ k.special /\ fallback # "none"
  /\ said = "not_found" \/ (said \in Errors /\ k.named404)

FallsBack(k, said) ==
  \/ k.tool = "release_transport" /\ ReleaseFallsBack(said)
  \/ k.tool = "create_transport" /\ CreateFallsBack(said)
  \/ k.tool \in EntryTools /\ EntryFallsBack(said)
  \/ k.tool \in FillTools /\ FillFallsBack(said)
  \/ k.tool = "create_object" /\ ObjectFallsBack(k, said)

-----------------------------------------------------------------------------
(* SAP and the fallback.                                                   *)

NeedsModifiable == {"release_transport", "delete_transport"}
                     \cup EntryTools \cup FillTools
Can(k) == k.tool \in NeedsModifiable => state[k.tr] = "modifiable"

\* What ECC does not offer; adtler says the same of a transport that is no
\* longer modifiable for an add or a copy (adtler#288).
Unsupported(k) ==
  \/ old /\ k.tool \in EntryTools \cup FillTools
  \/ old /\ k.tool = "create_transport" /\ k.special
  \/ ~ Can(k) /\ k.tool \in FillTools \cup {"add_to_transport"}
NoEndpoint(k) == old /\ k.tool = "create_object" /\ k.special

\* SAP carries the call out; a release may go on after the answer.
Executes(k, s) ==
  state' = CASE k.tool = "release_transport" -> [state EXCEPT ![k.tr] = s]
             [] k.tool = "delete_transport" -> [state EXCEPT ![k.tr] = "deleted"]
             [] OTHER -> state

MayLose(k) ==
  (IF k.tool = "release_transport" THEN "lost_release" ELSE "lost") \in Faults

-----------------------------------------------------------------------------
(* The answers.                                                            *)

\* Wrong: every state but modifiable is reported as released.
ReleasedIn_bug(said) == said # "modifiable"
\* releaseTransportResultOf.
ReleasedIn(said) == said = "released"

\* The listing that ran into a limit is an answer with a warning.
Succeeds(k, said) ==
  \/ said \in {"ok", "partial"}
  \/ k.tool = "release_transport" /\ said \in ReadBack \ {"modifiable"}

AfterAdt(k, said) ==
  IF FallsBack(k, said)
    THEN [k EXCEPT !.at = "fallback", !.said = said]
    ELSE [k EXCEPT !.at = "answer", !.said = said, !.ok = Succeeds(k, said),
                   !.released = k.tool = "release_transport" /\ ReleasedIn(said),
                   !.warned = said = "partial"]
AfterFallback(k, good) ==
  [k EXCEPT !.at = "answer", !.ok = good, !.via = good,
            !.released = good /\ k.tool = "release_transport"]

-----------------------------------------------------------------------------
AdtExecutes(c) ==
  LET k == call[c] IN
  /\ k.at = "adt" /\ Can(k) /\ ~ Unsupported(k) /\ ~ NoEndpoint(k)
  /\ \E s \in IF k.tool = "release_transport"
                THEN {"released", "release_in_progress"} ELSE {"released"},
        lose \in {MayLose(k) /\ k.tool \notin ReadTools, FALSE},
        unread \in BOOLEAN :
       LET said == IF lose THEN "error"
                   ELSE IF k.tool # "release_transport" THEN "ok"
                   ELSE IF unread THEN "unknown" ELSE s
           way == IF k.tool \in ReadTools THEN {} ELSE {"adt"} IN
       /\ Executes(k, s)
       /\ call' = [call EXCEPT ![c] =
                     AfterAdt([k EXCEPT !.done = @ \cup way, !.lost = lose], said)]
  /\ UNCHANGED <<old, fallback>>

AdtRefuses(c) ==
  LET k == call[c] IN
  /\ k.at = "adt"
  /\ \E said \in Errors :
       /\ \/ said = "unsupported" /\ Unsupported(k)
          \/ said = "not_found" /\ NoEndpoint(k)
          \/ said = "error" /\ (~ Can(k) \/ "refuse" \in Faults)
       /\ call' = [call EXCEPT ![c] = AfterAdt(k, said)]
  /\ UNCHANGED <<old, fallback, state>>

\* include_tasks: SAP released tasks and then refused one, or the request; or,
\* on ECC, answered 200 and left the request modifiable.
AdtReleasesTasks(c) ==
  LET k == call[c] IN
  /\ k.at = "adt" /\ k.tool = "release_transport" /\ k.special /\ Can(k)
  /\ \E said \in {"error", "modifiable", "unknown"} :
       /\ IF said = "error" THEN "refuse" \in Faults ELSE old
       /\ call' = [call EXCEPT ![c] =
                     AfterAdt([k EXCEPT !.done = @ \cup {"tasks"}], said)]
  /\ UNCHANGED <<old, fallback, state>>

\* The handler of SAP selects an entry by its position alone: a stale one may
\* be the position of an entry of another request.
AdtStrays(c) ==
  LET k == call[c] IN
  /\ k.at = "adt" /\ k.tool = "remove_from_transport" /\ k.special
  /\ Can(k) /\ ~ Unsupported(k)
  /\ \E lose \in BOOLEAN :
       /\ lose => MayLose(k)
       /\ call' = [call EXCEPT ![c] =
            AfterAdt([k EXCEPT !.done = @ \cup {"stray"}, !.lost = lose],
                     IF lose THEN "error" ELSE "ok")]
  /\ UNCHANGED <<old, fallback, state>>

\* Success although nothing was done: the ECC release, the copy into a target
\* that SAP could not lock, a removal whose position matches nothing; a listing
\* that stopped early.
AdtSilent(c) ==
  LET k == call[c] IN
  /\ k.at = "adt"
  /\ \E said \in {"modifiable", "unknown", "ok", "partial"} :
       /\ \/ said \in {"modifiable", "unknown"} /\ k.tool = "release_transport"
             /\ old /\ Can(k)
          \/ said = "ok" /\ k.tool \in FillTools /\ ~ old /\ Can(k)
          \/ said = "ok" /\ k.tool = "remove_from_transport" /\ k.special
             /\ ~ old /\ Can(k)
          \/ said = "partial" /\ k.tool = "get_transport_requests"
       /\ call' = [call EXCEPT ![c] = AfterAdt(k, said)]
  /\ UNCHANGED <<old, fallback, state>>

\* An answer without a request number counts as a failure of the fallback.
FallbackExecutes(c) ==
  LET k == call[c] IN
  /\ k.at = "fallback" /\ Can(k)
  /\ \E good \in {TRUE, "lost" \notin Faults} :
       call' = [call EXCEPT ![c] =
         AfterFallback([k EXCEPT !.done = @ \cup {"fallback"}, !.lost = ~ good],
                       good)]
  /\ Executes(k, "released")
  /\ UNCHANGED <<old, fallback>>

FallbackRefuses(c) ==
  /\ call[c].at = "fallback"
  /\ ~ Can(call[c]) \/ "refuse" \in Faults
  /\ call' = [call EXCEPT ![c] = AfterFallback(@, FALSE)]
  /\ UNCHANGED <<old, fallback, state>>

Answered(c) ==
  /\ call[c].at = "answer"
  /\ call' = [call EXCEPT ![c] = NoCall]
  /\ UNCHANGED <<old, fallback, state>>

\* SAP ends a release, or a colleague releases.
SapReleases(t) ==
  /\ state[t] \in {"modifiable", "release_in_progress"}
  /\ state' = [state EXCEPT ![t] = "released"]
  /\ UNCHANGED <<old, fallback, call>>

TransportTool(c) ==
  \/ ReleaseTransport(c) \/ CreateTransport(c) \/ CreateTransportTask(c)
  \/ DeleteTransport(c) \/ AddToTransport(c) \/ RemoveFromTransport(c)
  \/ CopyTransportObjects(c) \/ AddPackageToTransport(c)
  \/ RollbackTransport(c) \/ GetTransportRequests(c) \/ GetTransportObjects(c)
ObjectTool(c) ==
  CreateObject(c) \/ CreatePackage(c) \/ DeleteObject(c) \/ UpdateCustomizing(c)
Proceeds(c) ==
  \/ AdtExecutes(c) \/ AdtRefuses(c) \/ AdtSilent(c)
  \/ AdtReleasesTasks(c) \/ AdtStrays(c)
  \/ FallbackExecutes(c) \/ FallbackRefuses(c) \/ Answered(c)

Next ==
  \/ \E c \in Callers : TransportTool(c) \/ ObjectTool(c) \/ Proceeds(c)
  \/ \E t \in Trs : SapReleases(t)

Spec == Init /\ [][Next]_vars

-----------------------------------------------------------------------------
(* What SAP carried out over ADT is not tried again: the release "may well *)
(* have gone through, so releasing again would be wrong"                   *)
(* (transport.go), and a second create makes a second object.  At most      *)
(* tasks of the request are released when the fallback is asked for it.     *)
NoSecondTry ==
  \A c \in Callers : call[c].at = "fallback" => call[c].done \subseteq {"tasks"}

\* What SAP did beyond tasks.
Whole(k) == k.done \ {"tasks"}

\* The successes that promise nothing: a listing, a tool that fills a transport
\* (verifyCopiesHint), a release (the answer has the state that was read back),
\* a removal over ADT by a position that may be stale (the description of
\* remove_from_transport).
Vague(k) ==
  \/ k.tool \in ReadTools \cup FillTools \cup {"release_transport"}
  \/ k.tool = "remove_from_transport" /\ k.special /\ ~ k.via

(* The answer says what happened: a success was carried out exactly once,  *)
(* on the way it names; released is what SAP has; an error hides a change  *)
(* only if the answer to it was lost, or if it is a release that got no     *)
(* further than the tasks; a listing that is not complete carries a         *)
(* warning; customizing is written only when every entry keeps the rules    *)
(* of update_customizing's schema, never the first entries of a list whose  *)
(* last one is wrong.                                                      *)
AnswersTrue ==
  \A c \in Callers :
    LET k == call[c] IN
    k.at = "answer" =>
      /\ k.ok /\ ~ Vague(k) => k.done = {IF k.via THEN "fallback" ELSE "adt"}
      /\ k.released => /\ Whole(k) = {IF k.via THEN "fallback" ELSE "adt"}
                       /\ state[k.tr] = "released"
      /\ k.via => k.ok /\ Whole(k) = {"fallback"}
      /\ ~ k.ok => Whole(k) = {} \/ k.lost
      /\ k.ok /\ k.said = "partial" => k.warned
      /\ k.bad => k.done = {} /\ ~ k.ok
=============================================================================
