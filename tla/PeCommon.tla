------------------------------ MODULE PeCommon ------------------------------
(***************************************************************************)
(* Scheduler helpers of src/lib/pengine/common.c other than merge_weights() *)
(* (module Score): the validators of the enum cluster options and the     *)
(* option table that advertises their values; the text conversions of     *)
(* action failure responses, tasks and roles; and add_hash_param(), which  *)
(* fills a parameter table from several sources in precedence order.       *)
(* Strings that come from headers outside this source tree (CRMD_ACTION_*, *)
(* CRM_OP_*, RSC_ROLE_*_S) are given the macro's name as their value.      *)
(***************************************************************************)
EXTENDS Integers, Sequences, SequencesExt, FiniteSets

CONSTANTS
  Names,      (* parameter names given to add_hash_param()                *)
  Values,     (* parameter values given to add_hash_param()               *)
  NULL,       (* a NULL name or value                                     *)
  MaxCalls,   (* how many add_hash_param() calls fill one table           *)
  Lookups     (* the <<node, rsc>> pairs an attribute is looked up for:   *)
              (* a node is NULL or [attrs |-> its value of the attribute, *)
              (* remote_rsc |-> NULL or [container |-> NULL or            *)
              (* [running_on |-> the nodes it is active on]]]; a rsc is  *)
              (* NULL or [target |-> its container-attribute-target]     *)

ASSUME NULL \notin Names \cup Values /\ "#default" \notin Values
ASSUME MaxCalls \in Nat

VARIABLES
  hash,    (* the parameter table add_hash_param() fills                  *)
  calls,   (* the add_hash_param() calls made so far                      *)
  last     (* the last conversion or validation: its input and result    *)

vars == <<hash, calls, last>>

-----------------------------------------------------------------------------
(***************************************************************************)
(* Option validators, and the enum rows of pe_opts: name, the values the   *)
(* row advertises (its "values" column), the default, and the validator.   *)
(***************************************************************************)
check_health(v) ==
  v \in {"none", "custom", "only-green", "progressive", "migrate-on-red"}

(* Mutant: the deprecated alias "poweroff" no longer accepted.            *)
check_stonith_action_no_alias(v) == v \in {"reboot", "off"}

check_stonith_action(v) == v \in {"reboot", "poweroff", "off"}

check_placement_strategy(v) ==
  v \in {"default", "utilization", "minimal", "balanced"}

EnumOptions ==
  { [name |-> "stonith-action", values |-> {"reboot", "off", "poweroff"},
     default |-> "reboot"],
    [name |-> "node-health-strategy",
     values |-> {"none", "migrate-on-red", "only-green", "progressive", "custom"},
     default |-> "none"],
    [name |-> "placement-strategy",
     values |-> {"default", "utilization", "minimal", "balanced"},
     default |-> "default"] }

(* The row's validator applied to a value.                                 *)
Validate(name, v) ==
  CASE name = "stonith-action"       -> check_stonith_action(v)
    [] name = "node-health-strategy" -> check_health(v)
    [] name = "placement-strategy"   -> check_placement_strategy(v)

-----------------------------------------------------------------------------
(***************************************************************************)
(* Text conversions.                                                       *)
(***************************************************************************)
FailResponses ==
  {"action_fail_ignore", "action_fail_block", "action_fail_recover",
   "action_fail_migrate", "action_fail_stop", "action_fail_fence",
   "action_fail_standby", "action_fail_restart_container",
   "action_fail_reset_remote"}

fail2text(fail) ==
  CASE fail = "action_fail_ignore"            -> "ignore"
    [] fail = "action_fail_block"             -> "block"
    [] fail = "action_fail_recover"           -> "recover"
    [] fail = "action_fail_migrate"           -> "migrate"
    [] fail = "action_fail_stop"              -> "stop"
    [] fail = "action_fail_fence"             -> "fence"
    [] fail = "action_fail_standby"           -> "standby"
    [] fail = "action_fail_restart_container" -> "restart-container"
    [] fail = "action_fail_reset_remote"      -> "reset-remote"
    [] OTHER                                  -> "<unknown>"

(* task2text(): its switch, one string per enum action_tasks value.        *)
task2text(task) ==
  CASE task = "no_action"       -> "no_action"
    [] task = "stop_rsc"        -> "CRMD_ACTION_STOP"
    [] task = "stopped_rsc"     -> "CRMD_ACTION_STOPPED"
    [] task = "start_rsc"       -> "CRMD_ACTION_START"
    [] task = "started_rsc"     -> "CRMD_ACTION_STARTED"
    [] task = "shutdown_crm"    -> "CRM_OP_SHUTDOWN"
    [] task = "stonith_node"    -> "CRM_OP_FENCE"
    [] task = "monitor_rsc"     -> "CRMD_ACTION_STATUS"
    [] task = "action_notify"   -> "CRMD_ACTION_NOTIFY"
    [] task = "action_notified" -> "CRMD_ACTION_NOTIFIED"
    [] task = "action_promote"  -> "CRMD_ACTION_PROMOTE"
    [] task = "action_promoted" -> "CRMD_ACTION_PROMOTED"
    [] task = "action_demote"   -> "CRMD_ACTION_DEMOTE"
    [] task = "action_demoted"  -> "CRMD_ACTION_DEMOTED"
    [] OTHER                    -> "<unknown>"

Tasks == {"no_action", "stop_rsc", "stopped_rsc", "start_rsc", "started_rsc",
          "shutdown_crm", "stonith_node", "monitor_rsc", "action_notify",
          "action_notified", "action_promote", "action_promoted",
          "action_demote", "action_demoted"}

(* text2task()'s own chain of string tests, in its order.  The             *)
(* SUPPORT_TRACING branches all give no_action, as an unknown string does. *)
TaskChain ==
  << <<"CRMD_ACTION_STOP", "stop_rsc">>, <<"CRMD_ACTION_STOPPED", "stopped_rsc">>,
     <<"CRMD_ACTION_START", "start_rsc">>, <<"CRMD_ACTION_STARTED", "started_rsc">>,
     <<"CRM_OP_SHUTDOWN", "shutdown_crm">>, <<"CRM_OP_FENCE", "stonith_node">>,
     <<"CRMD_ACTION_STATUS", "monitor_rsc">>, <<"CRMD_ACTION_NOTIFY", "action_notify">>,
     <<"CRMD_ACTION_NOTIFIED", "action_notified">>,
     <<"CRMD_ACTION_PROMOTE", "action_promote">>, <<"CRMD_ACTION_DEMOTE", "action_demote">>,
     <<"CRMD_ACTION_PROMOTED", "action_promoted">>,
     <<"CRMD_ACTION_DEMOTED", "action_demoted">> >>

(* The enum of the first link of a chain whose string is `text', or dflt.  *)
FirstMatch(chain, text, dflt) ==
  LET i == {j \in DOMAIN chain : chain[j][1] = text}
  IN  IF i = {} THEN dflt ELSE chain[Min(i)][2]

(* Mutant: the CRMD_ACTION_STARTED branch copied from the one above it.    *)
text2task_started(task) ==
  FirstMatch([TaskChain EXCEPT ![4] = <<"CRMD_ACTION_STARTED", "start_rsc">>],
             task, "no_action")

text2task(task) == FirstMatch(TaskChain, task, "no_action")

Roles == {"RSC_ROLE_UNKNOWN", "RSC_ROLE_STOPPED", "RSC_ROLE_STARTED",
          "RSC_ROLE_SLAVE", "RSC_ROLE_MASTER"}

(* role2text(): its switch; a value out of range fails a CRM_CHECK and    *)
(* gives the unknown role's string.                                       *)
role2text(role) ==
  CASE role = "RSC_ROLE_UNKNOWN" -> "RSC_ROLE_UNKNOWN_S"
    [] role = "RSC_ROLE_STOPPED" -> "RSC_ROLE_STOPPED_S"
    [] role = "RSC_ROLE_STARTED" -> "RSC_ROLE_STARTED_S"
    [] role = "RSC_ROLE_SLAVE"   -> "RSC_ROLE_SLAVE_S"
    [] role = "RSC_ROLE_MASTER"  -> "RSC_ROLE_MASTER_S"
    [] OTHER                     -> "RSC_ROLE_UNKNOWN_S"

(* text2role()'s own chain, in its order; an unknown string is logged and *)
(* read as the unknown role.                                              *)
RoleChain ==
  << <<"RSC_ROLE_STOPPED_S", "RSC_ROLE_STOPPED">>, <<"RSC_ROLE_STARTED_S", "RSC_ROLE_STARTED">>,
     <<"RSC_ROLE_SLAVE_S", "RSC_ROLE_SLAVE">>, <<"RSC_ROLE_MASTER_S", "RSC_ROLE_MASTER">>,
     <<"RSC_ROLE_UNKNOWN_S", "RSC_ROLE_UNKNOWN">> >>

text2role(role) == FirstMatch(RoleChain, role, "RSC_ROLE_UNKNOWN")

-----------------------------------------------------------------------------
(***************************************************************************)
(* add_hash_param(): a NULL name or value, or the value "#default", is     *)
(* ignored; otherwise the value is stored only if the name has none yet.   *)
(***************************************************************************)
(* Mutant: "#default" stored as if it were a value.                      *)
add_hash_param_keep_default(h, name, value) ==
  IF name = NULL \/ value = NULL \/ name \in DOMAIN h THEN h
  ELSE (name :> value) @@ h

(* Mutant: a later value replaces the stored one (g_hash_table_replace()). *)
add_hash_param_replace(h, name, value) ==
  IF name = NULL \/ value \in {NULL, "#default"} THEN h
  ELSE (name :> value) @@ h

add_hash_param(h, name, value) ==
  IF name = NULL \/ value \in {NULL, "#default"} \/ name \in DOMAIN h THEN h
  ELSE (name :> value) @@ h

(***************************************************************************)
(* Node attribute lookups, for the one attribute name looked up.          *)
(***************************************************************************)
pe_node_attribute_raw(node) == IF node = NULL THEN NULL ELSE node.attrs

(* Mutant: the resource's container-attribute-target ignored.             *)
pe_node_attribute_calculated_own(node, rsc) == pe_node_attribute_raw(node)

(* "host" reads the attribute of the first node the guest node's          *)
(* container is running on; a failed CRM_ASSERT() aborts ("abort").        *)
pe_node_attribute_calculated(node, rsc) ==
  CASE node = NULL                                   -> NULL
    [] rsc = NULL \/ rsc.target # "host"             -> node.attrs
    [] node.remote_rsc = NULL                        -> "abort"
    [] node.remote_rsc.container = NULL              -> "abort"
    [] node.remote_rsc.container.running_on # <<>>   ->
         Head(node.remote_rsc.container.running_on).attrs
    [] OTHER                                         -> NULL

(* The caller creates an empty table.                                      *)
Init ==
  /\ hash = [n \in {} |-> NULL]
  /\ calls = <<>>
  /\ last = [op |-> "none", given |-> NULL, back |-> NULL]

(* One parameter offered, by a source of lower precedence than the last.  *)
AddHashParam(name, value) ==
  /\ Len(calls) < MaxCalls
  /\ hash' = add_hash_param(hash, name, value)
  /\ calls' = Append(calls, <<name, value>>)
  /\ UNCHANGED last

(* A task written as text (task2text()) and read back (text2task()).      *)
ConvertTask(t) ==
  /\ last' = [op |-> "task", given |-> t, back |-> text2task(task2text(t))]
  /\ UNCHANGED <<hash, calls>>

(* A role written as text (role2text()) and read back (text2role()).      *)
ConvertRole(r) ==
  /\ last' = [op |-> "role", given |-> r, back |-> text2role(role2text(r))]
  /\ UNCHANGED <<hash, calls>>

(* A failure response named by fail2text().                               *)
NameFailure(f) ==
  /\ last' = [op |-> "fail", given |-> f, back |-> fail2text(f)]
  /\ UNCHANGED <<hash, calls>>

(* A value of an enum option checked by the row's validator.              *)
CheckOption(o, v) ==
  /\ last' = [op |-> "option", given |-> <<o, v>>, back |-> Validate(o.name, v)]
  /\ UNCHANGED <<hash, calls>>

(* An attribute of a node read for a resource, or for no resource.        *)
LookupAttribute(node, rsc) ==
  /\ last' = [op |-> "attr", given |-> <<node, rsc>>,
              back |-> IF rsc = NULL THEN pe_node_attribute_raw(node)
                       ELSE pe_node_attribute_calculated(node, rsc)]
  /\ UNCHANGED <<hash, calls>>

AdvertisedValues == UNION {o.values : o \in EnumOptions}

Next ==
  \/ \E name \in Names \cup {NULL}, value \in Values \cup {NULL, "#default"} :
       AddHashParam(name, value)
  \/ \E t \in Tasks : ConvertTask(t)
  \/ \E r \in Roles : ConvertRole(r)
  \/ \E f \in FailResponses : NameFailure(f)
  \/ \E o \in EnumOptions, v \in AdvertisedValues : CheckOption(o, v)
  \/ \E l \in Lookups : LookupAttribute(l[1], l[2])

Spec == Init /\ [][Next]_vars

-----------------------------------------------------------------------------
TypeOK ==
  /\ \E D \in SUBSET Names : hash \in [D -> Values]
  /\ calls \in Seq((Names \cup {NULL}) \X (Values \cup {NULL, "#default"}))
  /\ Len(calls) <= MaxCalls
  /\ last.op \in {"none", "task", "role", "fail", "option", "attr"}

(***************************************************************************)
(* The table keeps, for every name, the value of the first call that gave  *)
(* it a real value, and has no entry for a name that never had one: a NULL *)
(* or "#default" offered by a higher-precedence source must leave the name *)
(* open for a lower one, and a lower one must never override a higher one *)
(* (add_hash_param()'s lookup before insert, as resource meta-attributes   *)
(* rely on when they are unpacked from the resource, then its parents).   *)
(***************************************************************************)
FirstValueWins ==
  \A n \in Names :
    LET given == {i \in DOMAIN calls : calls[i][1] = n /\ calls[i][2] \in Values}
    IN  /\ (n \in DOMAIN hash) <=> given # {}
        /\ given # {} =>
             hash[n] = calls[CHOOSE i \in given : \A j \in given : i <= j][2]

(***************************************************************************)
(* A value an enum option of pe_opts advertises passes the row's         *)
(* validator exactly when the row itself lists it (a value another enum  *)
(* row advertises is rejected), and the row's default is one it lists: a *)
(* value the scheduler metadata shows must pass the validator that         *)
(* verify_pe_options() applies, or it is replaced by the default.          *)
(***************************************************************************)
OptionTableConsistent ==
  last.op = "option" =>
    LET o == last.given[1]
        v == last.given[2]
    IN  /\ last.back <=> v \in o.values
        /\ o.default \in o.values

(***************************************************************************)
(* The text conversions invert each other: text2task(task2text(t)) = t for *)
(* every task, text2role(role2text(r)) = r for every role, and fail2text() *)
(* names every failure response differently and never "<unknown>", so a  *)
(* task or role written to the CIB reads back as itself.                  *)
(***************************************************************************)
ConversionsInvertible ==
  /\ last.op \in {"task", "role"} => last.back = last.given
  /\ last.op = "fail" =>
       /\ last.back # "<unknown>"
       /\ \A g \in FailResponses : fail2text(g) = last.back => g = last.given

(***************************************************************************)
(* A resource whose container-attribute-target is "host" reads, on a guest *)
(* node, the attribute of the node its container runs on (the first one    *)
(* when it is active on several) and nothing while the container is        *)
(* stopped, never the guest node's own value; any other lookup reads the   *)
(* node's own value (pe_node_attribute_calculated(), used so that a         *)
(* container on the host's local storage sees the host's attributes).      *)
(***************************************************************************)
AttributeFromContainerHost ==
  last.op = "attr" =>
    LET node == last.given[1]
        rsc  == last.given[2]
        fromHost == node # NULL /\ rsc # NULL /\ rsc.target = "host"
    IN  /\ node = NULL => last.back = NULL
        /\ node # NULL /\ ~fromHost => last.back = node.attrs
        /\ fromHost =>
             LET hosts == node.remote_rsc.container.running_on
             IN  IF hosts = <<>> THEN last.back = NULL
                 ELSE last.back = hosts[1].attrs

=============================================================================
