------------------------------- MODULE Server -------------------------------
(***************************************************************************)
(* The process from its start to the answers of its tools: run and          *)
(* buildServer (main.go) decide what is served (Startup), every handler     *)
(* (ToolCalls) is wrapped by withLogging (tools/middleware.go), and the     *)
(* answer leaves when its log line is done (Logging).  The end of the       *)
(* process is in DebugSessions.                                            *)
(***************************************************************************)
EXTENDS ToolCalls

CONSTANTS GroupArgs,   \* what --tools and the configuration may name
          BuiltIn      \* Papertrail destinations that builds have

ConsentArgs == {"", "strict", "prompt", "Prompt"}
EnvValues   == {"unset", "", "env"}
Destination == [host : {"", "env", "built"}, port : {"", "env", "built"}]

ASSUME ServerAssumption == BuiltIn \subseteq [host : {"", "built"}, port : {"", "built"}]

VARIABLE server  \* what run has decided

vars == <<server, call, line, mu, buf>>

(* consent, config, files: the mode that was asked for, the path that was   *)
(* chosen and the files there were, forgotten when the server listens.      *)
NoServer == [phase |-> "start", served |-> {}, marked |-> {}, advertised |-> {},
             consent |-> "", config |-> "", files |-> {}, dest |-> [host |-> "", port |-> ""],
             level |-> "info"]
Phases == {"start", "decided", "refused", "serving"}

TypeOK ==
  /\ server.phase \in Phases /\ server.level \in Levels
  /\ server.dest \in Destination
  /\ server.served \subseteq DOMAIN GroupOf /\ server.marked \subseteq server.served
  /\ server.advertised \subseteq DOMAIN GroupOf \cup {"get_ddic_info"}
  /\ LogTypeOK /\ CallTypeOK
  /\ \A c \in Callers : line[c].at # "none" => call[c].at = "log"

Init == server = NoServer /\ CallInit /\ LogInit

-----------------------------------------------------------------------------
\* Setup, the flags, the configuration: an unknown consent mode ends the
\* process, and so does a configuration that is not there.
Start ==
  /\ server.phase = "start"
  /\ \E flag, cfg \in GroupArgs, consent \in ConsentArgs, level \in {"info", "error"},
        env \in [host : EnvValues, port : EnvValues], built \in BuiltIn,
        given, home \in BOOLEAN, found \in SUBSET {"documented", "config.json"} :
       LET groups == EnabledGroups(flag, cfg)
           mode   == ParseConsentMode(consent)
           config == ConfigPath(given, home, found)
           good   == mode # "error" /\ (given \/ config \in found) IN
       server' = [phase |-> IF good THEN "decided" ELSE "refused",
                     served |-> IF good THEN Served(groups) ELSE {},
                     marked |-> IF good THEN Marked(mode, groups) ELSE {},
                     advertised |-> IF good THEN Advertised(groups) ELSE {},
                     consent |-> consent, config |-> config,
                     files |-> IF given \/ ~ home THEN {} ELSE found,
                     dest |-> ResolvePapertrail(env, built), level |-> level]
  /\ UNCHANGED <<call, logVars>>

Listen ==
  /\ server.phase = "decided"
  /\ server' = [NoServer EXCEPT !.phase = "serving", !.served = server.served \cap CallTools,
                  !.level = server.level,
                  !.dest = IF Remote(server.dest) THEN [host |-> "env", port |-> "env"]
                           ELSE NoServer.dest]
  /\ UNCHANGED <<call, logVars>>

Dispatch(c) ==
  /\ server.phase = "serving"
  /\ CallBegins(c)
  /\ call'[c].tool \in server.served
  /\ UNCHANGED <<server, logVars>>

Step(c) == CallStep(c) /\ UNCHANGED <<server, logVars>>
Cancelled(c) == Cancel(c) /\ UNCHANGED <<server, logVars>>

\* withLogging, when the handler has returned: its status is the answer's.
Logged(c) ==
  /\ Logs(c)
  /\ LogBegins(c, IF call[c].error THEN "error" ELSE "ok", server.level)
  /\ UNCHANGED <<server, mu, buf>>

WriteLine(c) == LogStep(c, Remote(server.dest)) /\ UNCHANGED <<server, call>>

Respond(c) ==
  /\ Returns(c) /\ line[c].at = "done"
  /\ line' = [line EXCEPT ![c] = NoLine]
  /\ UNCHANGED <<server, mu, buf>>

Next ==
  \/ Start \/ Listen
  \/ \E c \in Callers :
       Dispatch(c) \/ Step(c) \/ Cancelled(c) \/ Logged(c) \/ WriteLine(c) \/ Respond(c)

(* Goroutines run and sync.Mutex lets no waiter starve.  That a request to  *)
(* SAP returns, with an answer or an error, is assumed: these handlers set   *)
(* no deadline, and the library that sends it is not in this repository.    *)
Fairness ==
  \A c \in Callers :
    /\ WF_vars(Step(c)) /\ WF_vars(Logged(c)) /\ WF_vars(Respond(c))
    /\ WF_vars(WriteLine(c))
    /\ SF_vars(Lock(c, Remote(server.dest)) /\ UNCHANGED <<server, call>>)
Spec == Init /\ [][Next]_vars /\ Fairness

-----------------------------------------------------------------------------
(* What the process promises at its start.  Unless --consent says exactly    *)
(* "prompt", the tools that carry the mark are those served ones of which    *)
(* the instructions say so, no fewer ("falling back would quietly hand back  *)
(* the permanent consent the mode exists to withhold", ParseConsentMode) and *)
(* no more (a name too many "tells the model to expect a prompt that never   *)
(* comes", main_test.go:235-236).  The debugger is described if and only if  *)
(* it is there: "otherwise the instructions promise tools the client cannot  *)
(* see" (serverInstructions; of the other tools the text speaks whatever is  *)
(* served).  A stale config.json does not "shadow" the documented file       *)
(* (findConfigFile).  The log goes to a destination whose host and port have *)
(* the same source, against "accidental delivery to the wrong Papertrail     *)
(* account" (Setup).                                                       *)
PromisesKept ==
  /\ server.phase = "decided" /\ server.consent # "prompt"
       => server.served \cap SaidMarked = server.marked
  /\ server.phase = "decided"
       => server.advertised \cap DebugNames = server.served \cap DebugNames
  /\ "documented" \in server.files => server.config = "documented"
  /\ Remote(server.dest) => server.dest.host = server.dest.port
  /\ HintsFit

(* Every call is answered, whatever SAP and Papertrail do with its requests *)
(* (the semaphore of a batch, the mutex of the log).                        *)
CallsAnswered == \A c \in Callers : call[c].at # "idle" ~> call[c].at = "idle"
=============================================================================
