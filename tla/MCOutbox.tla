------------------------------ MODULE MCOutbox ------------------------------
(***************************************************************************)
(* An instance of the outbox for TLC: two transactions, one of them with   *)
(* two events, and two overlapping runs of the task.                       *)
(***************************************************************************)
EXTENDS Outbox, TLC

CONSTANTS m1, m2, m3, t1, t2

TwoThenOne == m1 :> t1 @@ m2 :> t1 @@ m3 :> t2
=============================================================================
