---------------------------- MODULE MCPeCommon ----------------------------
(***************************************************************************)
(* The helpers of src/lib/pengine/common.c together: a caller that fills a *)
(* parameter table with add_hash_param() (module PeCommon) and folds       *)
(* constraint scores into a node weight with merge_weights() (module       *)
(* Score), in any order, with at most MaxCalls of these calls in all, and  *)
(* converts and validates texts in between.  The two components share no  *)
(* state; each keeps its own invariants under the other's steps.          *)
(***************************************************************************)
EXTENDS PeCommon

CONSTANTS INFINITY, Scores, MaxMerges

VARIABLES weight, merged

Sc == INSTANCE Score

allvars == <<hash, calls, last, weight, merged>>

(* Two parameter names and two values: enough for a name given twice with  *)
(* different values, after a NULL or "#default", and a name never given.   *)
MCNames == {"target-role", "is-managed"}
MCValues == {"v1", "v2"}

(* The code's INFINITY, and scores chosen so that two large preferences   *)
(* saturate when added, a small one does not, and both sentinels occur.   *)
MCScores == {-INFINITY, -600000, -1, 0, 1, 600000, INFINITY}

(* Cluster nodes n1 (attribute "v1") and n2 (attribute unset); guest     *)
(* nodes whose container runs on n1, is stopped, or is active on n2 and n1 *)
(* (a container found on two hosts); resources without the meta-attribute, *)
(* with "host", and with another value.  A "host" lookup on a node that is *)
(* not a guest node (a cluster node, or a remote node, whose remote_rsc has *)
(* no container) fails a CRM_ASSERT() and is left out (README: hazards).   *)
N1 == [attrs |-> "v1", remote_rsc |-> NULL]
N2 == [attrs |-> NULL, remote_rsc |-> NULL]
Guest(v, hosts) == [attrs |-> v, remote_rsc |-> [container |-> [running_on |-> hosts]]]
Remote == [attrs |-> "v2", remote_rsc |-> [container |-> NULL]]
MCNodes == {N1, N2, Remote, Guest("v2", <<N1>>), Guest("v2", <<>>), Guest("v1", <<N2, N1>>)}
MCRscs == {NULL, [target |-> NULL], [target |-> "host"], [target |-> "local"]}
IsGuest(n) == n.remote_rsc # NULL /\ n.remote_rsc.container # NULL
MCLookups ==
  {l \in (MCNodes \cup {NULL}) \X MCRscs :
     ~(l[1] # NULL /\ l[2] # NULL /\ l[2].target = "host" /\ ~IsGuest(l[1]))}

(* The calls that fill a table or a weight, together.                     *)
Budgeted == Len(calls) + Len(merged)

CommonInit == Init /\ Sc!Init

CommonNext ==
  \/ /\ Next /\ UNCHANGED <<weight, merged>>
     /\ calls' # calls => Budgeted < MaxCalls
  \/ Sc!Next /\ UNCHANGED vars /\ Budgeted < MaxCalls

CommonSpec == CommonInit /\ [][CommonNext]_allvars

(* Both components keep their types.                                      *)
CommonTypeOK == TypeOK /\ Sc!TypeOK

(* The weight follows the scores merged into it (module Score).           *)
WeightFollowsScores == Sc!WeightFollowsScores
=============================================================================
