------------------------------ MODULE Logging ------------------------------
(***************************************************************************)
(* The log line of a tool call: the fan-out writes it to stderr and then to *)
(* Papertrail over one connection, which is made anew once when a write     *)
(* fails (logging/fanout.go, papertrail.go; Setup in logging.go).  A call   *)
(* is answered when its line is done, so a line must end whatever the       *)
(* network does: dialling and writing take 5 s at most.                    *)
(***************************************************************************)
EXTENDS Naturals, Sequences, Startup

CONSTANT Callers  \* tool calls in flight at a time

VARIABLES
  line,  \* the log line of each caller
  mu,    \* papertrailHandler.mu
  buf    \* the text in the buffer of each handler, as the lines it is from

logVars == <<line, mu, buf>>

None == "none"

(* at: the handler of the fan-out that is next, or the step of the          *)
(* Papertrail handler.  due: its level is logged.  local: stderr has it.    *)
(* copies, text: how often Papertrail has received a message for it, and    *)
(* what was in it.  Whether the connection is there, is dead or dies is the *)
(* network's choice at each attempt.                                       *)
Steps == {"none", "handler", "render", "send", "retry", "done"}
Line == [at : Steps, next : 1..3, due : BOOLEAN, local : BOOLEAN,
         copies : 0..2, text : SUBSET Callers]
NoLine == [at |-> "none", next |-> 1, due |-> FALSE, local |-> FALSE,
           copies |-> 0, text |-> {}]

Buffers == {"root", "derived"}

LogTypeOK ==
  /\ line \in [Callers -> Line]
  /\ mu \in Callers \cup {None} /\ buf \in [Buffers -> SUBSET Callers]

LogInit ==
  /\ line = [c \in Callers |-> NoLine] /\ mu = None
  /\ buf = [b \in Buffers |-> {}]

-----------------------------------------------------------------------------
\* newPapertrailHandler: the JSON handler writes into the buffer.
NewPapertrail == [own |-> "root", json |-> "root"]
\* The derived JSON handler still writes where its parent did.
WithAttrs(h) == [h EXCEPT !.own = "derived"]
\* Setup: every logger has the version and the commit.
Logger == WithAttrs(NewPapertrail)

\* Wrong: the remote handler comes first.
FanOut_bug(remote) == IF remote THEN <<"papertrail", "stderr">> ELSE <<"stderr">>
FanOut(remote) == IF remote THEN <<"stderr", "papertrail">> ELSE <<"stderr">>

\* withLogging, when the handler has returned.
LogBegins(c, status, level) ==
  line' = [line EXCEPT ![c] =
    [NoLine EXCEPT !.at = IF Enabled(level, status) THEN "handler" ELSE "done",
                   !.due = Enabled(level, status)]]

\* The fan-out goes on after a handler that succeeded, and ends at a failure.
GoesOn(c, remote, f) ==
  LET next == line[c].next + 1 IN
  line' = [line EXCEPT ![c] =
    [f EXCEPT !.at = IF next > Len(FanOut(remote)) THEN "done" ELSE "handler",
              !.next = next]]
\* Wrong: it dials until a write succeeds.
Ends_bug(c, f) == line' = [line EXCEPT ![c] = [f EXCEPT !.at = "retry"]]
Ends(c, f) == line' = [line EXCEPT ![c] = [f EXCEPT !.at = "done"]]

Stderr(c, remote) ==
  /\ line[c].at = "handler" /\ FanOut(remote)[line[c].next] = "stderr"
  /\ GoesOn(c, remote, [line[c] EXCEPT !.local = TRUE])
  /\ UNCHANGED <<mu, buf>>

Lock(c, remote) ==
  /\ line[c].at = "handler" /\ FanOut(remote)[line[c].next] = "papertrail"
  /\ mu = None /\ mu' = c
  /\ line' = [line EXCEPT ![c].at = "render"]
  /\ UNCHANGED buf

\* The own buffer is emptied, then the JSON handler writes, then it is read.
Render(c) ==
  LET cleared == [buf EXCEPT ![Logger.own] = {}]
      written == [cleared EXCEPT ![Logger.json] = @ \cup {c}] IN
  /\ line[c].at = "render"
  /\ buf' = written
  /\ line' = [line EXCEPT ![c].at = "send", ![c].text = written[Logger.own]]
  /\ UNCHANGED mu

Delivered(c, arrives) ==
  [line[c] EXCEPT !.copies = IF arrives THEN @ + 1 ELSE @]

\* send: a write that fails may have arrived, and one that succeeds may not.
Send(c, remote) ==
  /\ line[c].at = "send"
  /\ \E good, arrives \in BOOLEAN :
       IF good THEN GoesOn(c, remote, Delivered(c, arrives)) /\ mu' = None
       ELSE /\ line' = [line EXCEPT ![c] = [Delivered(c, arrives) EXCEPT !.at = "retry"]]
            /\ UNCHANGED mu
  /\ UNCHANGED buf

\* The connection is closed, dialled again and used once.
Retry(c, remote) ==
  /\ line[c].at = "retry"
  /\ \E good, arrives \in BOOLEAN :
       IF good THEN GoesOn(c, remote, Delivered(c, arrives))
       ELSE Ends(c, Delivered(c, arrives))
  /\ mu' = None
  /\ UNCHANGED buf

LogStep(c, remote) ==
  Stderr(c, remote) \/ Lock(c, remote) \/ Render(c) \/ Send(c, remote) \/ Retry(c, remote)

-----------------------------------------------------------------------------
(* stderr has the line of every call whose level is logged when the call is *)
(* answered, whatever became of the remote copy: "logging is best-effort    *)
(* and must never break a tool call" (middleware.go).                       *)
LogsLocally == \A c \in Callers : line[c].at = "done" /\ line[c].due => line[c].local

(* "papertrailHandler sends JSON log records" (papertrail.go): what          *)
(* Papertrail receives for a line is that line and nothing else.            *)
RemoteCarries ==
  \A c \in Callers : line[c].copies > 0 => line[c].text = {c}
=============================================================================
