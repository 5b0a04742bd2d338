------------------------------ MODULE RowLocks ------------------------------
(***************************************************************************)
(* PostgreSQL row locks as the workflow services meet them through         *)
(* SQLAlchemy.  External code: modelled from how app/workflows uses it.     *)
(*                                                                         *)
(* A lock is a pair <<mode, row>>:                                          *)
(*   "key_share"      an INSERT whose foreign key references the row        *)
(*   "no_key_update"  an UPDATE of the row's non-key columns                *)
(*   "update"         SELECT ... FOR UPDATE                                 *)
(* A transaction keeps its locks until it commits or rolls back.            *)
(***************************************************************************)

Modes == {"key_share", "no_key_update", "update"}

\* Two transactions may share a row only when one of them merely references
\* it and the other does not hold it FOR UPDATE.
Conflicting(m, n) ==
  \/ m = "update" \/ n = "update"
  \/ m = "no_key_update" /\ n = "no_key_update"

\* One of the locks in held stands in the way of one of the locks in wanted.
Obstructs(held, wanted) ==
  \E k \in held, l \in wanted : k[2] = l[2] /\ Conflicting(k[1], l[1])
=============================================================================
