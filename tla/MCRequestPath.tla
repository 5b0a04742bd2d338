---------------------------- MODULE MCRequestPath ----------------------------
(***************************************************************************)
(* An instance of RequestPath for TLC: as many chats can be in flight as   *)
(* the pool has connections, and one more request waits for them.          *)
(***************************************************************************)
EXTENDS RequestPath
=============================================================================
