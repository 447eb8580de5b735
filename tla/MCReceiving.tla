----------------------------- MODULE MCReceiving -----------------------------
(***************************************************************************)
(* Instances of ordering and receiving for TLC: one order of two lines,   *)
(* two receipts and a shipment.                                            *)
(***************************************************************************)
EXTENDS Receiving, TLC

CONSTANTS o1, l1, l2, r1, r2, a1

TwoLines == l1 :> o1 @@ l2 :> o1
ReceiptSymmetry == Permutations(Receipts)
=============================================================================
