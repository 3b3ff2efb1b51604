------------------------------ MODULE Startup ------------------------------
(***************************************************************************)
(* What the process decides before it serves: the configuration file, the  *)
(* tool groups, the consent marks, the instructions and the destination of  *)
(* the remote log (main.go, tools/register.go, consent.go, logging.go), and *)
(* the hint of an error answer (tools/errors.go, abapgitsync.go).  All of   *)
(* it is a function of its inputs.                                         *)
(***************************************************************************)
EXTENDS Naturals, FiniteSets

-----------------------------------------------------------------------------
(* Tool groups.                                                            *)

AllGroups == {"source", "code-intelligence", "objects", "version", "locking",
              "testing", "messages", "shortdumps", "transport", "enhancements",
              "debug", "export", "system"}
DefaultGroups == AllGroups \ {"debug"}

\* names may hold a name that no group has.
ParseToolGroups(names) ==
  CASE names = {} -> DefaultGroups
    [] "all" \in names -> AllGroups
    [] OTHER -> names

\* --tools, or else the "tools" of the configuration.
EnabledGroups(flag, cfg) == ParseToolGroups(IF flag = {} THEN cfg ELSE flag)

\* The group of each tool that this module or ToolCalls speaks of, and of the
\* debugging guide, a resource that is registered with its tools.
GroupOf ==
  [get_source |-> "source", patch_source |-> "source",
   set_source_from_file |-> "source", verify_source |-> "code-intelligence",
   get_object_info |-> "objects", object_exists |-> "objects",
   create_object |-> "objects", delete_object |-> "objects",
   syntax_check |-> "testing", run_unit_tests |-> "testing",
   get_transport_requests |-> "transport", create_transport |-> "transport",
   release_transport |-> "transport", delete_transport |-> "transport",
   rollback_transport |-> "transport", debug_run |-> "debug",
   debug_wait |-> "debug", debug_step |-> "debug", debug_stop |-> "debug",
   debugging_guide |-> "debug", export_package |-> "export",
   export_packages |-> "export", abapgit_pull |-> "export",
   abapgit_push |-> "export", update_customizing |-> "export",
   select_system |-> "system", run_query |-> "system", run_class |-> "system"]

Served(groups) == {t \in DOMAIN GroupOf : GroupOf[t] \in groups}

(* serverInstructions: the eight tools whose approval the text says is asked *)
(* for, a list of its own beside consent.go's; what the text names whatever  *)
(* is served (get_ddic_info is no tool of this server); and what it names    *)
(* only if the group is there.                                             *)
SaidMarked == {"delete_object", "delete_transport", "release_transport",
               "rollback_transport", "run_class", "update_customizing",
               "abapgit_pull", "abapgit_push"}
AlwaysNamed == SaidMarked \cup
  {"get_source", "patch_source", "set_source_from_file", "create_object",
   "get_transport_requests", "create_transport", "get_object_info",
   "get_ddic_info", "run_query", "select_system"}
DebugNames == {"debug_run", "debug_wait", "debug_step", "debug_stop", "debugging_guide"}

\* Wrong: the debugging rules come with every text, as the other names do.
Advertised_bug(groups) == AlwaysNamed \cup DebugNames
Advertised(groups) ==
  AlwaysNamed \cup (IF "debug" \in groups THEN DebugNames ELSE {})

-----------------------------------------------------------------------------
(* Consent.                                                                *)

Irreversible == {"delete_object", "delete_transport", "release_transport",
                 "rollback_transport", "run_class", "update_customizing",
                 "abapgit_pull", "abapgit_push"}

\* Wrong: what is not understood is the mode without marks.
ParseConsentMode_bug(flag) == IF flag \in {"", "strict"} THEN "strict" ELSE "prompt"
ParseConsentMode(flag) ==
  CASE flag \in {"", "strict"} -> "strict"
    [] flag = "prompt" -> "prompt"
    [] OTHER -> "error"

\* annotate, for every tool that is registered.
Marked(mode, groups) ==
  IF mode = "prompt" THEN {} ELSE Served(groups) \cap Irreversible

-----------------------------------------------------------------------------
(* The configuration file and the log.                                     *)

\* resolveConfigPath, findConfigFile.  found: the files there are.
ConfigPath(env, home, found) ==
  CASE env -> "SAP_CONFIG_FILE"
    [] ~ env /\ home /\ "documented" \in found -> "documented"
    [] ~ env /\ "config.json" \in found /\ ~ (home /\ "documented" \in found)
         -> "config.json"
    [] OTHER -> IF home THEN "documented" ELSE "config.json"

\* A pair: one that is set overrides both.
ResolvePapertrail(env, built) ==
  IF env.host = "unset" /\ env.port = "unset" THEN built
  ELSE [f \in {"host", "port"} |-> IF env[f] = "unset" THEN "" ELSE env[f]]

\* Setup: the remote handler is there only with both.
Remote(dest) == dest.host # "" /\ dest.port # ""

\* parseLevel and Enabled: a call is logged at info, or at error.
Levels == {"debug", "info", "warn", "error"}
Enabled(level, status) == status = "ok" => level \in {"debug", "info"}

-----------------------------------------------------------------------------
(* matchHint: the hints that go with an error, by their names.              *)

(* An error: the code of the abapGit companion ("": none), the program that *)
(* verify_source left behind, adtler's kind, the exception type, the T100   *)
(* key, and what its texts and properties mention.                         *)
Kinds == {"unauthorized", "forbidden", "bad_request", "server_error",
          "locked_in_transport", "method_not_allowed", "not_found", "unknown"}
Mentions == {"transport", "corrNr", "no_delete", "not_modifiable",
             "already_exists", "inactive"}
ErrorShape ==
  {e \in [companion : {"", "REMOTE_CHANGED", "INTERNAL", "not_installed"},
          leftover : BOOLEAN, kind : Kinds,
          type : {"", "save_failure", "no_access", "parameter"},
          t100 : {"", "cts", "enqueue", "TK102", "other"},
          mentions : {m \in SUBSET Mentions : Cardinality(m) <= 2}] :
     /\ e.type = "save_failure" => e.kind = "server_error"
     /\ e.type = "no_access" => e.kind = "forbidden"
     /\ e.type = "parameter" => e.kind = "bad_request"
     /\ e.companion # "" => e.kind = "unknown" /\ ~ e.leftover}

CompanionHint(code) ==
  CASE code = "REMOTE_CHANGED" -> {"remote_changed"}
    [] code = "not_installed" -> {"install_companion"}
    [] OTHER -> {}

\* transportSaveConflict; ECC's body has no key at all.
SaveConflict(e) ==
  /\ e.type = "save_failure"
  /\ e.t100 = "cts" \/ (e.t100 = "" /\ "corrNr" \in e.mentions)
SystemNotModifiable(e) == e.t100 = "TK102" \/ "not_modifiable" \in e.mentions

HintByKind(e) ==
  CASE e.kind # "unknown" -> {e.kind}
    [] e.kind = "unknown" /\ "already_exists" \in e.mentions -> {"already_exists"}
    [] e.kind = "unknown" /\ e.mentions \cap {"already_exists", "inactive"} = {"inactive"}
         -> {"inactive"}
    [] OTHER -> {}

Refined(e) ==
  CASE e.kind = "locked_in_transport" -> {"locked_in_transport"}
    [] SaveConflict(e) -> {"retry_with_transport"}
    [] e.kind = "method_not_allowed" /\ "no_delete" \in e.mentions -> {"no_delete"}
    [] e.type = "no_access" /\ e.t100 = "enqueue" -> {"own_access_conflict"}
    [] e.type = "parameter" /\ "corrNr" \in e.mentions -> {"corrNr_missing"}
    [] e.kind = "bad_request" /\ "transport" \in e.mentions
         /\ ~ (e.type = "parameter" /\ "corrNr" \in e.mentions) -> {"transport"}
    [] e.kind = "forbidden" /\ SystemNotModifiable(e)
         /\ ~ (e.type = "no_access" /\ e.t100 = "enqueue") -> {"closed"}
    [] OTHER -> HintByKind(e)

Hint(e) ==
  IF e.companion # "" THEN CompanionHint(e.companion)
  ELSE IF e.leftover
    THEN {"verify_leftover"} \cup (IF e.kind = "unauthorized" THEN {"unauthorized"} ELSE {})
  ELSE Refined(e)

-----------------------------------------------------------------------------
(* What the comments of errors.go promise of a hint, whichever of its       *)
(* branches comes first: a companion's error gets no hint by status; a      *)
(* rejected logon is never without "do not retry"; "retry once" is neither   *)
(* for verify_source, where "every call creates a new temporary program",   *)
(* nor beside the hint to write to a request; a save failure of another      *)
(* message never points at its own request; and authorizations are not       *)
(* blamed for a system that is closed.                                      *)
HintsFit ==
  \A e \in ErrorShape :
    /\ e.companion # "" => Hint(e) \cap Kinds = {}
    /\ e.kind = "unauthorized" => "unauthorized" \in Hint(e)
    /\ "server_error" \in Hint(e) => ~ e.leftover /\ Hint(e) = {"server_error"}
    /\ e.leftover => "verify_leftover" \in Hint(e)
    /\ e.type = "save_failure" /\ e.t100 = "other" => "retry_with_transport" \notin Hint(e)
    /\ e.t100 = "TK102" => "forbidden" \notin Hint(e)
=============================================================================
