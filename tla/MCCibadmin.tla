---------------------------- MODULE MCCibadmin ----------------------------
(* Command lines for Cibadmin.                                              *)
EXTENDS Cibadmin

(* Commands: a query, the dangerous ones (-E, -u, -d), a plain delete (-D, *)
(* to follow -d), a modify and a digest; input from a string or a file;   *)
(* --force; both section options; --show-access with -U, and an unknown   *)
(* mode; the node-path flag; a zero timeout; a stray argument.            *)
MCTokens ==
  {"-Q", "-E", "-u", "-d", "-D", "-M", "-5",
   "-X", "-x", "-f", "-o=valid", "-o=invalid", "-A",
   "-S", "-S=bogus", "-U", "-e", "-t=0", "ARG"}

(* The --show-access hand-over: query, show access, user, input.           *)
MCAccessTokens == {"-Q", "-S=color", "-U", "-X"}
=============================================================================
