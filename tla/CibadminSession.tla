-------------------------- MODULE CibadminSession --------------------------
(***************************************************************************)
(* What one cibadmin invocation promises about its session with the CIB,   *)
(* as the tool's help and the comments of main() describe it: it signs on  *)
(* at most once, sends its one request only over an open connection, and   *)
(* exits once, with the connection closed.  Everything main() does locally *)
(* (parsing, the --force check, reading the input, the digest, rendering)  *)
(* is a stuttering step here.                                              *)
(***************************************************************************)
VARIABLES
  conn,     \* a CIB connection is open
  sent,     \* the request has been sent
  exited    \* crm_exit() has been called

svars == <<conn, sent, exited>>

SInit == ~conn /\ ~sent /\ ~exited

(* Sign on, before any request *)
Connect ==
  /\ ~conn /\ ~sent /\ ~exited
  /\ conn' = TRUE
  /\ UNCHANGED <<sent, exited>>

(* The one request, over the connection *)
Send ==
  /\ conn /\ ~sent /\ ~exited
  /\ sent' = TRUE
  /\ UNCHANGED <<conn, exited>>

(* Exit, closing any connection; nothing follows *)
Exit ==
  /\ ~exited
  /\ exited' = TRUE
  /\ conn' = FALSE
  /\ UNCHANGED sent

SNext == Connect \/ Send \/ Exit

SSpec == SInit /\ [][SNext]_svars
=============================================================================
