----------------------------- MODULE Cibadmin -----------------------------
(***************************************************************************)
(* The cibadmin tool (src/tools/cibadmin.c).  The command line is parsed   *)
(* option by option, each option's callback or store changing the global   *)
(* `options'; main() then checks the command, builds the CIB call options, *)
(* reads the input XML, sets up ACL rendering, connects to the CIB, sends  *)
(* one request, renders the result and cleans up.  The outcome of every    *)
(* call into the outside world (reading input, sign-on, the request, ACL   *)
(* evaluation and rendering, disconnecting) is a nondeterministic choice.  *)
(***************************************************************************)
EXTENDS Integers, Sequences, FiniteSets, TLC, SequencesExt

CONSTANTS
  Tokens,     (* command-line arguments, as "-Q", "-o=valid", "-S=color"... *)
  MaxArgs,    (* how many arguments a command line has at most              *)
  NULL        (* a model value: no string, no XML, no connection            *)

ASSUME MaxArgs \in Nat

VARIABLES
  argv,       (* the arguments parsed so far                               *)
  options,    (* the global `options' struct                               *)
  extra_args, (* non-option arguments left after parsing                   *)
  pc,         (* where main() is                                           *)
  cmd_options,(* options.cmd_options, the set of CIB call option flags      *)
  input,      (* the input XML: NULL or "xml"                              *)
  acl_cred,   (* the user whose permissions are rendered                   *)
  connected,  (* cib_conn is signed on                                     *)
  request,    (* the request sent to the CIB, or NULL                      *)
  output,     (* the XML the CIB returned: NULL or "xml"                   *)
  annotated,  (* the credentials the output was annotated for, or NULL     *)
  exit_code,
  failures    (* the outside calls that failed, in no order                *)

vars == <<argv, options, extra_args, pc, cmd_options, input, acl_cred,
          connected, request, output, annotated, exit_code, failures>>

DEFAULT_TIMEOUT == 30
USER == "tony"

(* enum cibadmin_cmd, as the option that selects each command.             *)
CommandOf ==
  ("-u" :> "upgrade") @@ ("-Q" :> "query") @@ ("-E" :> "erase")
  @@ ("-B" :> "bump") @@ ("-C" :> "create") @@ ("-M" :> "modify")
  @@ ("-P" :> "patch") @@ ("-R" :> "replace") @@ ("-D" :> "delete")
  @@ ("-d" :> "delete_all") @@ ("-a" :> "empty") @@ ("-5" :> "md5_sum")
  @@ ("-6" :> "md5_sum_versioned")

Commands == {CommandOf[o] : o \in DOMAIN CommandOf}

(* --show-access arguments: none ("auto") and the three named modes.       *)
RenderModeOf ==
  ("-S" :> "default") @@ ("-S=namespace" :> "namespace")
  @@ ("-S=text" :> "text") @@ ("-S=color" :> "color")

RenderModes == {"none"} \cup {RenderModeOf[o] : o \in DOMAIN RenderModeOf}

(* The initial `options' (the struct's initializer) and call options.      *)
InitOptions ==
  [cmd |-> "query", section_type |-> "all", cib_section |-> NULL,
   timeout_sec |-> DEFAULT_TIMEOUT, acl_render_mode |-> "none",
   cib_user |-> NULL, input_file |-> FALSE, input_string |-> FALSE,
   input_stdin |-> FALSE, delete_all |-> FALSE, allow_create |-> FALSE,
   force |-> FALSE, get_node_path |-> FALSE, no_children |-> FALSE]

-----------------------------------------------------------------------------
(***************************************************************************)
(* Option callbacks and stores.                                            *)
(***************************************************************************)
(* Mutant: delete_all is not cleared by a later command option.            *)
command_cb_no_reset(opts, o) ==
  IF o = "-d" THEN [opts EXCEPT !.cmd = CommandOf[o], !.delete_all = TRUE]
              ELSE [opts EXCEPT !.cmd = CommandOf[o]]

(* command_cb(): every command option clears delete_all; -d sets it.      *)
command_cb(opts, o) ==
  LET cleared == [opts EXCEPT !.delete_all = FALSE]
  IN  IF o = "-d" THEN [cleared EXCEPT !.cmd = CommandOf[o], !.delete_all = TRUE]
                  ELSE [cleared EXCEPT !.cmd = CommandOf[o]]

ShowAccessOptions == DOMAIN RenderModeOf \cup {"-S=bogus"}

(* show_access_cb(): the mode it sets, and (next) whether it returns TRUE; *)
(* an unknown mode is a parse error.                                       *)
show_access_cb(opts, o) ==
  IF o \in DOMAIN RenderModeOf
    THEN [opts EXCEPT !.acl_render_mode = RenderModeOf[o]]
    ELSE opts

show_access_cb_accepts(o) == o \in DOMAIN RenderModeOf

SectionOptions == {"-o=valid", "-o=invalid", "-A"}

(* Mutant: the first of -o/-A wins.                                        *)
section_cb_first_wins(opts, o) ==
  IF opts.section_type # "all" THEN opts
  ELSE [opts EXCEPT !.section_type = IF o = "-A" THEN "xpath" ELSE "scope",
                    !.cib_section = o]

(* section_cb(): the last of -o/-A sets both the type and the string.     *)
section_cb(opts, o) ==
  [opts EXCEPT !.section_type = IF o = "-A" THEN "xpath" ELSE "scope",
               !.cib_section = o]

(* The effect of one argument on `options'.                                *)
OptionEffect(opts, o) ==
  CASE o \in DOMAIN CommandOf   -> command_cb(opts, o)
    [] o \in SectionOptions     -> section_cb(opts, o)
    [] o \in ShowAccessOptions -> show_access_cb(opts, o)
    [] o = "-x"   -> [opts EXCEPT !.input_file = TRUE]
    [] o = "-X"   -> [opts EXCEPT !.input_string = TRUE]
    [] o = "-p"   -> [opts EXCEPT !.input_stdin = TRUE]
    [] o = "-f"   -> [opts EXCEPT !.force = TRUE]
    [] o = "-t=0" -> [opts EXCEPT !.timeout_sec = 0]
    [] o = "-U"   -> [opts EXCEPT !.cib_user = USER]
    [] o = "-e"   -> [opts EXCEPT !.get_node_path = TRUE]
    [] o = "-c"   -> [opts EXCEPT !.allow_create = TRUE]
    [] o = "-n"   -> [opts EXCEPT !.no_children = TRUE]
    [] OTHER      -> opts

-----------------------------------------------------------------------------
(***************************************************************************)
(* main().                                                                 *)
(***************************************************************************)
cmd_is_dangerous(opts) == opts.cmd \in {"delete_all", "erase", "upgrade"}

(* cibadmin_command_info[cmd].cib_request.                                 *)
CibRequest(cmd) == IF cmd = "delete_all" THEN "delete" ELSE cmd

(* The call options main() adds from the parsed options.                  *)
CallOptions(opts) ==
  (IF opts.section_type = "xpath" THEN {"xpath"} ELSE {})
  \cup (IF opts.allow_create THEN {"can_create"} ELSE {})
  \cup (IF opts.delete_all THEN {"multiple"} ELSE {})
  \cup (IF opts.get_node_path THEN {"xpath_address"} ELSE {})
  \cup (IF opts.no_children THEN {"no_children"} ELSE {})

Init ==
  /\ argv = <<>>
  /\ options = InitOptions
  /\ extra_args = FALSE
  /\ pc = "parse"
  /\ cmd_options = {"sync_call"}
  /\ input = NULL
  /\ acl_cred = NULL
  /\ connected = FALSE
  /\ request = NULL
  /\ output = NULL
  /\ annotated = "none"
  /\ exit_code = "OK"
  /\ failures = {}

(* Go to `done' with an exit code.                                         *)
Fail(code) == pc' = "done" /\ exit_code' = code

(* g_option_context_parse_strv(), one argument.                            *)
ParseArg(o) ==
  /\ pc = "parse"
  /\ Len(argv) < MaxArgs
  /\ argv' = Append(argv, o)
  /\ IF o = "ARG"
       THEN extra_args' = TRUE /\ UNCHANGED <<options, pc, exit_code>>
       ELSE IF o \in ShowAccessOptions /\ ~show_access_cb_accepts(o)
         THEN Fail("USAGE") /\ UNCHANGED <<options, extra_args>>
         ELSE options' = OptionEffect(options, o)
              /\ UNCHANGED <<extra_args, pc, exit_code>>
  /\ UNCHANGED <<cmd_options, input, acl_cred, connected, request, output,
                 annotated, failures>>

(* From the end of parsing up to read_input(): non-option arguments, the  *)
(* empty CIB, the --force check for dangerous commands, call options.      *)
CheckCommand ==
  /\ pc = "parse"
  /\ CASE extra_args -> Fail("USAGE") /\ UNCHANGED cmd_options
       [] options.cmd = "empty" -> Fail("OK") /\ UNCHANGED cmd_options
       [] cmd_is_dangerous(options) /\ ~options.force ->
            Fail("UNSAFE") /\ UNCHANGED cmd_options
       [] OTHER -> /\ cmd_options' = cmd_options \cup CallOptions(options)
                   /\ pc' = "read_input"
                   /\ UNCHANGED exit_code
  /\ UNCHANGED <<argv, options, extra_args, input, acl_cred, connected,
                 request, output, annotated, failures>>

(* read_input(): a file, else a string, else stdin; `readable' is whether *)
(* the chosen source parses as XML.                                        *)
HasInputSource(opts) == opts.input_file \/ opts.input_string \/ opts.input_stdin

(* The commands that print a digest of the input instead of calling the CIB. *)
DigestCommands == {"md5_sum", "md5_sum_versioned"}

(* output_digest(): without input XML a usage error, else the digest is   *)
(* printed; either way main() goes to done.                               *)
output_digest(xml) ==
  IF xml = NULL THEN Fail("USAGE") ELSE pc' = "done" /\ UNCHANGED exit_code

(***************************************************************************)
(* From read_input() up to the sign-on: the input is read; when there is   *)
(* no input and ACLs are to be shown, -U is required and its user moves    *)
(* from cib_user to acl_cred (the CIB is then read as the invoking user);  *)
(* digest commands print and stop (output_digest() needs input); --modify  *)
(* adds score_update.                                                      *)
(***************************************************************************)
ReadInput(readable) ==
  LET source  == HasInputSource(options)
      xml     == IF source THEN "xml" ELSE NULL
      takeAcl == xml = NULL /\ options.acl_render_mode # "none"
  IN
  /\ pc = "read_input"
  /\ source \/ readable
  /\ IF source /\ ~readable
       THEN /\ Fail("DATAERR")
            /\ failures' = failures \cup {"input"}
            /\ UNCHANGED <<input, options, acl_cred, cmd_options>>
       ELSE /\ input' = xml
            /\ UNCHANGED failures
            /\ IF takeAcl /\ options.cib_user = NULL
                 THEN Fail("USAGE") /\ UNCHANGED <<options, acl_cred, cmd_options>>
                 ELSE
                 /\ acl_cred' = IF takeAcl THEN options.cib_user ELSE acl_cred
                 /\ options' = IF takeAcl THEN [options EXCEPT !.cib_user = NULL]
                                          ELSE options
                 /\ CASE options.cmd \in DigestCommands ->
                           output_digest(xml) /\ UNCHANGED cmd_options
                      [] OTHER ->
                           /\ cmd_options' = cmd_options \cup
                                 (IF options.cmd = "modify" THEN {"score_update"} ELSE {})
                           /\ pc' = "signon"
                           /\ UNCHANGED exit_code
  /\ UNCHANGED <<argv, extra_args, connected, request, output, annotated>>

(* Mutant: a failed sign-on goes on to the request (a missing goto done). *)
SignOn_no_goto(ok) ==
  /\ pc = "signon"
  /\ IF ok
       THEN connected' = TRUE /\ pc' = "request" /\ UNCHANGED <<exit_code, failures>>
       ELSE /\ exit_code' = "ERROR" /\ pc' = "request"
            /\ failures' = failures \cup {"signon"}
            /\ UNCHANGED connected
  /\ UNCHANGED <<argv, options, extra_args, cmd_options, input, acl_cred,
                 request, output, annotated>>

(* cib__create_signon(): a failure ends the run with its exit code.       *)
SignOn(ok) ==
  /\ pc = "signon"
  /\ IF ok
       THEN connected' = TRUE /\ pc' = "request" /\ UNCHANGED <<exit_code, failures>>
       ELSE /\ Fail("ERROR")
            /\ failures' = failures \cup {"signon"}
            /\ UNCHANGED connected
  /\ UNCHANGED <<argv, options, extra_args, cmd_options, input, acl_cred,
                 request, output, annotated>>

(* The results cib_internal_op() can give this command: "unchanged" is the *)
(* schema-unchanged answer to an upgrade.                                  *)
Results(cmd) ==
  {"ok", "error", "schema_validation"} \cup
    (IF cmd = "upgrade" THEN {"unchanged"} ELSE {})

(* Mutant: a non-positive --timeout is passed on without the default.    *)
RequestOf_no_default(opts) ==
  [op |-> CibRequest(opts.cmd), section |-> opts.cib_section,
   flags |-> cmd_options, user |-> opts.cib_user, input |-> input,
   timeout |-> opts.timeout_sec]

(* The request as sent, with the timeout after defaulting.                 *)
RequestOf(opts) ==
  [op |-> CibRequest(opts.cmd), section |-> opts.cib_section,
   flags |-> cmd_options, user |-> opts.cib_user, input |-> input,
   timeout |-> IF opts.timeout_sec < 1 THEN DEFAULT_TIMEOUT ELSE opts.timeout_sec]

(***************************************************************************)
(* The timeout default, the request, and its result: an upgrade found      *)
(* unnecessary is a success, any other failure sets the exit code; with no *)
(* output XML main() is done.                                              *)
(***************************************************************************)
SendRequest(rc, xml) ==
  /\ pc = "request"
  /\ request' = RequestOf(options)
  /\ output' = xml
  /\ CASE rc = "unchanged" -> UNCHANGED <<exit_code, failures>>
       [] rc = "ok"        -> UNCHANGED <<exit_code, failures>>
       [] rc = "schema_validation" ->
            exit_code' = "CONFIG" /\ failures' = failures \cup {"request"}
       [] OTHER ->
            exit_code' = "ERROR" /\ failures' = failures \cup {"request"}
  /\ pc' = IF xml = NULL THEN "done" ELSE "render"
  /\ UNCHANGED <<argv, options, extra_args, cmd_options, input, acl_cred,
                 connected, annotated>>

(***************************************************************************)
(* Showing the output: with --show-access it is annotated for acl_cred and *)
(* rendered, either step failing with CRM_EX_CONFIG; otherwise it is        *)
(* printed.                                                                *)
(***************************************************************************)
RenderOutput(annotate_ok, render_ok) ==
  /\ pc = "render"
  /\ pc' = "done"
  /\ IF options.acl_render_mode # "none"
       THEN /\ annotated' = acl_cred
            /\ CASE ~annotate_ok ->
                      exit_code' = "CONFIG" /\ failures' = failures \cup {"annotate"}
                 [] ~render_ok ->
                      exit_code' = "CONFIG" /\ failures' = failures \cup {"render"}
                 [] OTHER -> UNCHANGED <<exit_code, failures>>
       ELSE annotate_ok /\ render_ok /\ UNCHANGED <<annotated, exit_code, failures>>
  /\ UNCHANGED <<argv, options, extra_args, cmd_options, input, acl_cred,
                 connected, request, output>>

(* Mutant: the clean-up result overwrites the exit code.                    *)
FinishCode_always(code, cleanup_ok) == IF cleanup_ok THEN "OK" ELSE "ERROR"

(* done: the clean-up result decides the exit code only if it is still OK. *)
FinishCode(code, cleanup_ok) ==
  IF code = "OK" THEN (IF cleanup_ok THEN "OK" ELSE "ERROR") ELSE code

(* done: free everything, disconnect (cib__clean_up_connection() can only  *)
(* fail for a connection that exists), and exit.                          *)
Finish(cleanup_ok) ==
  /\ pc = "done"
  /\ connected \/ cleanup_ok
  /\ pc' = "exited"
  /\ connected' = FALSE
  /\ exit_code' = FinishCode(exit_code, cleanup_ok)
  /\ failures' = failures \cup (IF cleanup_ok THEN {} ELSE {"cleanup"})
  /\ UNCHANGED <<argv, options, extra_args, cmd_options, input, acl_cred,
                 request, output, annotated>>

(* The steps of main() after the arguments are parsed *)
Main ==
  \/ CheckCommand
  \/ \E readable \in BOOLEAN : ReadInput(readable)
  \/ \E ok \in BOOLEAN : SignOn(ok)
  \/ \E rc \in Results(options.cmd), xml \in {NULL, "xml"} : SendRequest(rc, xml)
  \/ \E a, r \in BOOLEAN : RenderOutput(a, r)
  \/ \E ok \in BOOLEAN : Finish(ok)

Next == (\E o \in Tokens : ParseArg(o)) \/ Main

Spec == Init /\ [][Next]_vars


-----------------------------------------------------------------------------
Phases == {"parse", "read_input", "signon", "request", "render", "done", "exited"}
ExitCodes == {"OK", "USAGE", "UNSAFE", "DATAERR", "ERROR", "CONFIG"}

TypeOK ==
  /\ argv \in Seq(Tokens) /\ Len(argv) <= MaxArgs
  /\ options.cmd \in Commands
  /\ options.acl_render_mode \in RenderModes
  /\ options.cib_user \in {NULL, USER}
  /\ pc \in Phases
  /\ input \in {NULL, "xml"} /\ output \in {NULL, "xml"}
  /\ acl_cred \in {NULL, USER}
  /\ annotated \in {"none", NULL, USER}
  /\ exit_code \in ExitCodes
  /\ failures \subseteq {"input", "signon", "request", "annotate", "render", "cleanup"}
  /\ request = NULL \/ request.timeout >= 1

(* The last command option on the command line, if any.                    *)
LastOf(S) ==
  LET idx == {i \in DOMAIN argv : argv[i] \in S}
  IN  IF idx = {} THEN NULL ELSE argv[CHOOSE i \in idx : \A j \in idx : j <= i]

(***************************************************************************)
(* A request that may remove several objects at once (cib_multiple) is     *)
(* sent only when the last command option given was --delete-all and       *)
(* --force was given: command_cb() must clear delete_all when a later      *)
(* command replaces -d, or "-d -D" would bypass the --force check.         *)
(***************************************************************************)
MultipleDeleteNeedsForce ==
  (request # NULL /\ "multiple" \in request.flags)
    => /\ LastOf(DOMAIN CommandOf) = "-d"
       /\ "-f" \in Range(argv)

(***************************************************************************)
(* The request's section is the last -o/--scope or -A/--xpath given, and   *)
(* it is sent as an XPath exactly when that last one was -A.               *)
(***************************************************************************)
SectionIsLastGiven ==
  request # NULL
    => /\ request.section = LastOf(SectionOptions)
       /\ ("xpath" \in request.flags <=> LastOf(SectionOptions) = "-A")

(***************************************************************************)
(* cibadmin never exits 0 after a failed outside call: reading the input, *)
(* signing on, the request, ACL evaluation or rendering, or disconnecting. *)
(* The clean-up result in `done' must not overwrite an earlier error.      *)
(***************************************************************************)
FailureNeverExitsOk ==
  (pc = "exited" /\ failures # {}) => exit_code # "OK"

(* The session main() holds with the CIB, as CibadminSession sees it *)
Session == INSTANCE CibadminSession
             WITH conn <- connected, sent <- request # NULL, exited <- pc = "exited"

(***************************************************************************)
(* main() implements the session promise of CibadminSession: whatever the  *)
(* command line and the outside calls return, it signs on at most once, it *)
(* sends a request only after cib__create_signon() succeeded and only one, *)
(* and at exit cib__clean_up_connection() has closed the connection; no   *)
(* failure path goes on to the request or skips the disconnect.            *)
(***************************************************************************)
SessionRefined == Session!SSpec

(***************************************************************************)
(* --show-access annotates the output for the user given with -U, from a  *)
(* CIB read with full permissions (no user on the request): the comment   *)
(* at the hand-over of cib_user to acl_cred requires both.                 *)
(***************************************************************************)
AccessShownForUser ==
  annotated # "none" => (annotated = USER /\ request.user = NULL)

=============================================================================
