----------------------------- MODULE ToolCalls -----------------------------
(***************************************************************************)
(* The tools that ask SAP more than once for one answer: the batches with a *)
(* goroutine for each object and a semaphore (get_source, get_object_info,  *)
(* object_exists, run_unit_tests), the exports that go through a list of     *)
(* packages, and the tools whose answer hangs on a second request or on      *)
(* their arguments (run_class, verify_source, abapgit_pull, abapgit_push).   *)
(* What SAP is asked is abstract; what it says of each object is kept, to   *)
(* compare with it what the handler writes down and counts.                *)
(***************************************************************************)
EXTENDS Logging

CONSTANTS Tools,     \* bound: the tools that each caller calls
          MaxItems,  \* bound: objects in one call
          Limit      \* requests in flight in one batch (10)

FanTools == {"get_source", "get_object_info", "object_exists", "run_unit_tests"}
ListTools == {"export_package", "export_packages"}
TwoStepTools == {"run_class", "verify_source"}
GitTools == {"abapgit_pull", "abapgit_push"}
CallTools == FanTools \cup {"syntax_check"} \cup ListTools \cup TwoStepTools \cup GitTools

ASSUME ToolCallsAssumption ==
  /\ Tools \in [Callers -> SUBSET CallTools]
  /\ MaxItems \in Nat \ {0} /\ Limit \in Nat \ {0}

VARIABLE call  \* the handler each caller is in

Items == 1..MaxItems

(* item, the truth: what has become of an object in SAP and on disk: "ok",  *)
(* "alert" (found, with a test alert or one syntax error), "errors" (with   *)
(* two of them), "missing" (404) or "failed"; "data": an export has arrived *)
(* and is not on disk yet.                                                 *)
Done == {"ok", "alert", "errors", "missing", "failed"}
ItemStates == {"", "waiting", "asking", "data"} \cup Done

(* entry: what the handler has written down of it in its results; "zero":   *)
(* nothing yet, the zero value of the slice.                               *)
Entries == {"zero", "data", "alert", "errors", "absent", "error"}

(* sum: the counters of the answer; next: where the loop over the results   *)
(* is.  batch: an array was passed.  cancelled: the client has given the    *)
(* call up.  bad: the arguments are wrong, or there is no list of packages.  *)
(* left: verify_source's program is still in SAP.  named: the answer names   *)
(* what is left.                                                           *)
Counters == [good : Nat, absent : Nat, failed : Nat, alerts : Nat]
Zero == [good |-> 0, absent |-> 0, failed |-> 0, alerts |-> 0]
Call == [tool : CallTools \cup {""},
         at : {"idle", "working", "second", "count", "answer", "log"},
         batch : BOOLEAN, n : 0..MaxItems, item : [Items -> ItemStates],
         entry : [Items -> Entries], sum : Counters, next : 1..(MaxItems + 1),
         error : BOOLEAN, cancelled : BOOLEAN, bad : BOOLEAN,
         left : BOOLEAN, named : BOOLEAN]
NoCall == [tool |-> "", at |-> "idle", batch |-> FALSE, n |-> 0,
           item |-> [i \in Items |-> ""], entry |-> [i \in Items |-> "zero"],
           sum |-> Zero, next |-> 1, error |-> FALSE,
           cancelled |-> FALSE, bad |-> FALSE, left |-> FALSE, named |-> FALSE]

InState(k, S) == {i \in 1..k.n : k.item[i] \in S}

CallTypeOK ==
  /\ call \in [Callers -> Call]
  /\ \A c \in Callers : call[c].tool \in FanTools =>
       Cardinality(InState(call[c], {"asking"})) <= Limit

CallInit == call = [c \in Callers |-> NoCall]

-----------------------------------------------------------------------------
\* getStringOrSlice: one object, or an array that may be empty.
Begins(c, k) ==
  /\ call[c].at = "idle" /\ k.tool \in Tools[c]
  /\ \E n \in IF k.batch THEN 0..MaxItems ELSE {1} :
       call' = [call EXCEPT ![c] = [k EXCEPT !.at = "working", !.n = n,
         !.item = [i \in Items |-> IF i <= n THEN "waiting" ELSE ""]]]

Asks(c, tool) == \E batch \in BOOLEAN :
  Begins(c, [NoCall EXCEPT !.tool = tool, !.batch = batch])
GetSource(c) == Asks(c, "get_source")
GetObjectInfo(c) == Asks(c, "get_object_info")
ObjectExists(c) == Asks(c, "object_exists")
RunUnitTests(c) == Asks(c, "run_unit_tests")
SyntaxCheck(c) == Asks(c, "syntax_check")

\* The arguments are looked at first (requireString, decodeArgList).
Checked(c, k) ==
  \/ Begins(c, k)
  \/ /\ call[c].at = "idle" /\ k.tool \in Tools[c]
     /\ call' = [call EXCEPT ![c] =
                   [k EXCEPT !.at = "answer", !.bad = TRUE, !.error = TRUE]]

RunClass(c) == Checked(c, [NoCall EXCEPT !.tool = "run_class"])
VerifySource(c) == Checked(c, [NoCall EXCEPT !.tool = "verify_source"])
AbapGit(c) == \E tool \in GitTools : Checked(c, [NoCall EXCEPT !.tool = tool])

\* The directory must be there, and the search be answered; an empty result is
\* an answer.
ExportPackage(c) == Checked(c, [NoCall EXCEPT !.tool = "export_package"])
ExportPackages(c) ==
  Checked(c, [NoCall EXCEPT !.tool = "export_packages", !.batch = TRUE])

\* Only export_packages looks at it itself; a request just fails.
Cancel(c) ==
  /\ call[c].at = "working" /\ call[c].tool = "export_packages" /\ ~ call[c].cancelled
  /\ call' = [call EXCEPT ![c].cancelled = TRUE]

-----------------------------------------------------------------------------
(* The goroutines of a batch.                                              *)

\* Wrong: the place of a request that failed is not given back.
Slots_bug(k) == InState(k, {"asking", "failed"})
Slots(k) == InState(k, {"asking"})

Acquire(c, i) ==
  LET k == call[c] IN
  /\ k.at = "working" /\ k.tool \in FanTools /\ k.item[i] = "waiting"
  /\ Cardinality(Slots(k)) < Limit
  /\ call' = [call EXCEPT ![c].item[i] = "asking"]

\* What SAP can say; a request of a cancelled call may still be answered.
CanSay(tool) ==
  CASE tool = "syntax_check" -> {"ok", "alert", "errors", "failed"}
    [] tool = "run_unit_tests" -> {"ok", "alert", "failed"}
    [] tool = "object_exists" -> {"ok", "missing", "failed"}
    [] OTHER -> {"ok", "failed"}

\* The entry for what SAP has said: only object_exists tells a 404 apart.
EntryOf(tool, said) ==
  CASE said = "ok" -> "data"
    [] said \in {"alert", "errors"} -> said
    [] said = "missing" /\ tool = "object_exists" -> "absent"
    [] OTHER -> "error"

\* An object is done: what became of it, and its entry.
Settles(c, k, i, said) ==
  call' = [call EXCEPT ![c] = [k EXCEPT !.item[i] = said, !.entry[i] = EntryOf(k.tool, said)]]

Answered(c, i) ==
  LET k == call[c] IN
  /\ k.at = "working" /\ k.tool \in FanTools /\ k.item[i] = "asking"
  /\ \E said \in CanSay(k.tool) : Settles(c, k, i, said)

\* syntax_check has a request of SAP's for the whole array.
AnsweredAtOnce(c) ==
  LET k == call[c] IN
  /\ k.at = "working" /\ k.tool = "syntax_check"
  /\ InState(k, {"waiting"}) # {}
  /\ \E said \in [1..k.n -> CanSay(k.tool)] :
       call' = [call EXCEPT ![c] =
         [k EXCEPT !.item = [i \in Items |-> IF i <= k.n THEN said[i] ELSE ""],
                   !.entry = [i \in Items |->
                     IF i <= k.n THEN EntryOf(k.tool, said[i]) ELSE "zero"]]]

-----------------------------------------------------------------------------
(* The exports go through their list in its order.                          *)

First(k) == CHOOSE i \in InState(k, {"waiting", "data"}) :
              \A j \in InState(k, {"waiting", "data"}) : i <= j
InList(k) == k.at = "working" /\ k.tool \in ListTools

\* The request for a package; not after a cancel.
Fetch(c) ==
  LET k == call[c] IN
  /\ InList(k) /\ ~ k.cancelled /\ InState(k, {"waiting", "data"}) # {}
  /\ k.item[First(k)] = "waiting"
  /\ \/ call' = [call EXCEPT ![c].item[First(k)] = "data"]
     \/ Settles(c, k, First(k), "failed")

\* WriteExport; `exported` counts what is on disk.
Write(c) ==
  LET k == call[c] IN
  /\ InList(k) /\ InState(k, {"data"}) # {}
  /\ \/ Settles(c, [k EXCEPT !.sum.good = @ + 1], First(k), "ok")
     \/ Settles(c, k, First(k), "failed")

-----------------------------------------------------------------------------
(* run_class looks the class up and then runs it; verify_source checks and   *)
(* then removes its program; a pull or push is one request.                *)

\* run_class takes every error of its look-up as a class that does not exist.
LooksUp(c) ==
  LET k == call[c] IN
  /\ k.at = "working" /\ k.tool \in TwoStepTools \cup GitTools /\ k.item[1] = "waiting"
  /\ \/ k.tool \in GitTools /\ \E said \in {"ok", "failed"} : Settles(c, k, 1, said)
     \/ k.tool = "run_class" /\ Settles(c, k, 1, "missing")
     \/ k.tool \in TwoStepTools /\ call' = [call EXCEPT ![c].at = "second"]

\* The class runs, or the check ends: a failed check and a program that stays
\* are two different things.
Second(c) ==
  /\ call[c].at = "second"
  /\ \E said \in {"ok", "failed"}, left \in BOOLEAN :
       /\ left => call[c].tool = "verify_source"
       /\ Settles(c, [call[c] EXCEPT !.at = "working", !.left = left], 1, said)

-----------------------------------------------------------------------------
(* The answer.                                                             *)

\* Wrong: the goroutines that have their place are not waited for.
Complete_bug(k) == InState(k, {"waiting", "data"}) = {}
\* wg.Wait, the end of the list, or a cancel between two packages.
Complete(k) ==
  \/ InState(k, {"waiting", "asking", "data"}) = {}
  \/ k.tool = "export_packages" /\ k.cancelled /\ InState(k, {"data"}) = {}

\* The counters that the answer of a batch has (succeeded, found, clean or
\* exported; missing; failed; total_with_alerts or total_errors).
CountedBy(tool) ==
  CASE tool \in {"get_source", "get_object_info"} -> {"good", "failed"}
    [] tool = "object_exists" -> {"good", "absent", "failed"}
    [] tool = "syntax_check" -> {"good", "alerts"}
    [] tool = "run_unit_tests" -> {"alerts"}
    [] OTHER -> {"good"}

(* The loops over the results, which see the entries only: an entry without  *)
(* an error is a success, but object_exists asks for a find, and syntax_check *)
(* for no message of type E; its total_errors are the messages.             *)
Counting(tool) == tool \in FanTools \cup {"syntax_check"}
Good(tool, e) == IF tool = "object_exists" THEN e = "data"
                 ELSE "good" \in CountedBy(tool) /\ e \notin {"error", "alert", "errors"}
Failed(tool, e) == "failed" \in CountedBy(tool) /\ e = "error"
Alerts(tool, e) == IF "alerts" \notin CountedBy(tool) THEN 0
                   ELSE CASE e = "alert" -> 1 [] e = "errors" -> 2 [] OTHER -> 0
Plus(x) == IF x THEN 1 ELSE 0

Count(c) ==
  LET k == call[c]
      e == k.entry[k.next] IN
  /\ k.at = "count" /\ k.next <= k.n
  /\ call' = [call EXCEPT ![c] = [k EXCEPT !.next = @ + 1,
       !.sum = [good   |-> k.sum.good + Plus(Good(k.tool, e)),
                absent |-> 0,
                failed |-> k.sum.failed + Plus(Failed(k.tool, e)),
                alerts |-> k.sum.alerts + Alerts(k.tool, e)]]]

\* A single object's failure is the tool's.
Fails(k) == ~ k.batch /\ k.entry[1] = "error"

\* cleanup_error, or the hint of a failed check.
Names(k) ==
  IF k.entry[1] = "data" THEN k.left
  ELSE k.left /\ "verify_leftover" \in
         Hint([companion |-> "", leftover |-> TRUE, kind |-> "server_error",
               type |-> "", t100 |-> "", mentions |-> {}])

Tallies(k) == k.batch /\ Counting(k.tool)

\* A batch is counted when it is complete.
Waited(c) ==
  LET k == call[c] IN
  /\ k.at = "working" /\ Complete(k) /\ Tallies(k)
  /\ call' = [call EXCEPT ![c].at = "count"]

\* object_exists: what is neither found nor failed is missing.
Absent(k) == IF k.tool = "object_exists" THEN k.n - k.sum.good - k.sum.failed ELSE 0

Answers(c) ==
  LET k == call[c] IN
  /\ \/ k.at = "working" /\ Complete(k) /\ ~ Tallies(k)
     \/ k.at = "count" /\ k.next > k.n
  /\ call' = [call EXCEPT ![c] =
       [k EXCEPT !.at = "answer", !.sum.absent = IF k.batch THEN Absent(k) ELSE 0,
                 !.error = Fails(k), !.named = Names(k)]]

\* What the client sees stays until its line is logged.
Logs(c) ==
  /\ call[c].at = "answer"
  /\ call' = [call EXCEPT ![c] = [NoCall EXCEPT !.at = "log"]]

Returns(c) ==
  /\ call[c].at = "log"
  /\ call' = [call EXCEPT ![c] = NoCall]

CallBegins(c) ==
  \/ GetSource(c) \/ GetObjectInfo(c) \/ ObjectExists(c) \/ RunUnitTests(c)
  \/ SyntaxCheck(c) \/ ExportPackage(c) \/ ExportPackages(c) \/ RunClass(c)
  \/ VerifySource(c) \/ AbapGit(c)
CallStep(c) ==
  \/ \E i \in Items : Acquire(c, i) \/ Answered(c, i)
  \/ AnsweredAtOnce(c) \/ Fetch(c) \/ Write(c) \/ LooksUp(c) \/ Second(c)
  \/ Waited(c) \/ Count(c) \/ Answers(c)

-----------------------------------------------------------------------------
(* The answer says what happened to every object.  The totals of a batch,   *)
(* counted over the entries or beside them, agree with what became of the   *)
(* objects ("missing counts confirmed-absent (404) objects; failed counts   *)
(* objects whose existence check itself errored": object_exists;            *)
(* total_errors is every message of type E, exported every package on       *)
(* disk); packages are left out of an export only if the client cancelled.  *)
(* An answer without an error hides no failure: a single object is then     *)
(* fine, or confirmed absent, and a batch has an error in the entries of     *)
(* the objects that failed and in no others.  Nothing is asked with wrong   *)
(* arguments, and the program that verify_source leaves behind is named.    *)
AnswersTrue ==
  \A c \in Callers :
    LET k == call[c]
        said(S) == Cardinality({i \in Items : k.item[i] \in S})
        truth == [good |-> said({"ok"}), absent |-> said({"missing"}),
                  failed |-> said({"failed"}),
                  alerts |-> said({"alert"}) + 2 * said({"errors"})] IN
    k.at = "answer" =>
      /\ k.batch => /\ \A f \in CountedBy(k.tool) : k.sum[f] = truth[f]
                    /\ said(Done) = k.n \/ (k.cancelled /\ k.tool \in ListTools)
                    /\ \A i \in 1..k.n : k.entry[i] = "error" <=> k.item[i] = "failed"
      /\ ~ k.batch /\ ~ k.error =>
           \/ k.item[1] \in {"ok", "alert", "errors"}
           \/ k.item[1] = "missing" /\ k.tool = "object_exists"
      /\ k.bad => k.error /\ \A i \in Items : k.item[i] = ""
      /\ k.left => k.named
=============================================================================
