--------------------------- MODULE MCAuthSessions ---------------------------
(***************************************************************************)
(* An instance of AuthSessions for TLC: two emails and two usernames, so   *)
(* that accounts can clash in either, and enough requests to use a token   *)
(* twice at once and once more.                                            *)
(***************************************************************************)
EXTENDS AuthSessions, TLC

\* Slots, emails and names are interchangeable.
Slots ==
  Permutations(Requests) \cup Permutations(Emails) \cup Permutations(Names)
=============================================================================
