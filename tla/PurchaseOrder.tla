---------------------------- MODULE PurchaseOrder ----------------------------
(***************************************************************************)
(* The life of purchase orders: their status under PO_FSM, the quantities  *)
(* ordered, received and open of their lines, their value and what they    *)
(* take from a rate contract.  Every unit price is 1, so that a value is a *)
(* quantity; an amendment may also change the value alone.  Receipts are   *)
(* recorded through RecordReceipt by module Receiving.                     *)
(***************************************************************************)
EXTENDS Integers, FiniteSets, FiniteSetsExt

CONSTANTS
    Orders,         \* purchase orders, created or not
    Lines,          \* their lines
    OrderOf,        \* the order of a line
    Contracted,     \* orders placed under the rate contract
    ContractValue,  \* its total_value
    AutoApprove,    \* PO_AUTO_APPROVE_THRESHOLD
    ReapprovalPct,  \* PO_AMENDMENT_REAPPROVAL_THRESHOLD_PCT, in percent
    MaxQuantity,    \* bound on quantities
    ValueChanges,   \* value_change of the amendments that change no line
    MaxAmendments   \* bound on the amendments of one order

VARIABLES
    po,         \* PurchaseOrder.status, "NONE" before it is created
    ordered,    \* PoLine.ordered_quantity
    received,   \* PoLine.received_quantity
    open,       \* PoLine.open_quantity
    total,      \* PurchaseOrder.total_value
    amendments, \* PurchaseOrder.amendment_count
    workflows,  \* approval workflows of the order still running
    utilized    \* Contract.utilized_value

lineVars == <<ordered, received, open>>
orderVars == <<po, lineVars, total, amendments, workflows, utilized>>

ASSUME OrderAssumption ==
    /\ Orders # {} /\ IsFiniteSet(Lines) /\ OrderOf \in [Lines -> Orders]
    /\ Contracted \subseteq Orders
    /\ {ContractValue, AutoApprove, ReapprovalPct, MaxAmendments} \subseteq Nat
    /\ MaxQuantity \in Nat \ {0}
    /\ ValueChanges \subseteq Int

LinesOf(o) == {l \in Lines : OrderOf[l] = o}
Value(q, S) == MapThenSumSet(LAMBDA l : q[l], S)
Magnitude(v) == IF v < 0 THEN -v ELSE v

\* The statuses the service assigns; synonyms and the statuses nothing sets
\* (SYNC_PENDING, AMENDMENT_PENDING) are left out.
POStatus == {"NONE", "DRAFT", "PENDING_APPROVAL", "APPROVED", "REJECTED", "RELEASED",
             "ACKNOWLEDGED", "REJECTED_BY_SUPPLIER", "PARTIALLY_RECEIVED",
             "FULLY_RECEIVED", "AMENDED", "CANCELLED", "CLOSED"}

PO_FSM ==
    [st \in POStatus |->
        CASE st = "DRAFT" -> {"PENDING_APPROVAL", "APPROVED", "RELEASED", "CANCELLED"}
          [] st = "PENDING_APPROVAL" -> {"APPROVED", "REJECTED", "CANCELLED"}
          [] st = "APPROVED" -> {"RELEASED", "CANCELLED"}
          [] st = "RELEASED" -> {"ACKNOWLEDGED", "REJECTED_BY_SUPPLIER", "CANCELLED"}
          [] st = "ACKNOWLEDGED" ->
                 {"PARTIALLY_RECEIVED", "FULLY_RECEIVED", "AMENDED", "CANCELLED"}
          [] st = "REJECTED_BY_SUPPLIER" -> {"AMENDED", "CANCELLED"}
          [] st = "AMENDED" -> {"RELEASED", "PENDING_APPROVAL", "APPROVED", "CANCELLED"}
          [] st = "PARTIALLY_RECEIVED" -> {"FULLY_RECEIVED", "CANCELLED"}
          [] st = "FULLY_RECEIVED" -> {"CLOSED"}
          [] OTHER -> {}]

OrderTypeOK ==
    /\ po \in [Orders -> POStatus]
    /\ {ordered, received, open} \subseteq [Lines -> Nat]
    /\ total \in [Orders -> Int]
    /\ amendments \in [Orders -> 0..MaxAmendments]
    /\ workflows \in [Orders -> 0..MaxAmendments + 1]
    /\ utilized \in Int

OrderInit ==
    /\ po = [o \in Orders |-> "NONE"]
    /\ ordered = [l \in Lines |-> 0]
    /\ received = [l \in Lines |-> 0]
    /\ open = [l \in Lines |-> 0]
    /\ total = [o \in Orders |-> 0]
    /\ amendments = [o \in Orders |-> 0]
    /\ workflows = [o \in Orders |-> 0]
    /\ utilized = 0

-----------------------------------------------------------------------------
(* What the handlers share.                                                 *)

\* ContractService.update_utilization, under the contract's row lock; only an
\* increase beyond the contract's value is refused.
Utilize(o, v) ==
    IF o \in Contracted
    THEN utilized + v <= ContractValue /\ utilized' = utilized + v
    ELSE UNCHANGED utilized

\* An approval workflow is instantiated when a rule matches the order.
MayStartWorkflow(o) ==
    workflows' \in {workflows, [workflows EXCEPT ![o] = @ + 1]}

\* Mutant: what is received too much counts as less than nothing.
MissingSigned(q, r) == q - r

\* max(0, ordered - received)
Missing(q, r) == IF r < q THEN q - r ELSE 0

\* A handler that only moves the order along PO_FSM.
Moves(o, st) ==
    /\ st \in PO_FSM[po[o]]
    /\ po' = [po EXCEPT ![o] = st]
    /\ UNCHANGED <<lineVars, total, amendments, workflows>>

-----------------------------------------------------------------------------
(* Creation.                                                                *)

\* The lines of order o get quantities q, all of it open.
Placed(o, q) ==
    /\ po[o] = "NONE"
    /\ ordered' = [l \in Lines |-> IF l \in LinesOf(o) THEN q[l] ELSE ordered[l]]
    /\ open' = [l \in Lines |-> IF l \in LinesOf(o) THEN q[l] ELSE open[l]]
    /\ total' = [total EXCEPT ![o] = Value(q, LinesOf(o))]
    /\ UNCHANGED <<received, amendments>>

Create(o, q) ==
    /\ Placed(o, q)
    /\ Utilize(o, total'[o])
    /\ IF total'[o] <= AutoApprove
       THEN po' = [po EXCEPT ![o] = "APPROVED"] /\ UNCHANGED workflows
       ELSE po' = [po EXCEPT ![o] = "PENDING_APPROVAL"] /\ MayStartWorkflow(o)

\* RequisitionService.convert_to_po: a draft without a contract.
ConvertRequisition(o, q) ==
    /\ o \notin Contracted
    /\ Placed(o, q)
    /\ po' = [po EXCEPT ![o] = "DRAFT"]
    /\ UNCHANGED <<workflows, utilized>>

-----------------------------------------------------------------------------
(* Approval, release and the vendor's answer.                               *)

Approve(o) == Moves(o, "APPROVED") /\ UNCHANGED utilized
Reject(o) == Moves(o, "REJECTED") /\ UNCHANGED utilized
SendToVendor(o) == Moves(o, "RELEASED") /\ UNCHANGED utilized
RecordVendorAcknowledgement(o) ==
    /\ Moves(o, "ACKNOWLEDGED") \/ Moves(o, "REJECTED_BY_SUPPLIER")
    /\ UNCHANGED utilized

\* A running workflow ends; _sync_entity_on_completion changes an order that
\* still waits and, unlike cancel_po, leaves the contract alone.
WorkflowEnds(o) ==
    /\ workflows[o] > 0
    /\ workflows' = [workflows EXCEPT ![o] = @ - 1]
    /\ IF po[o] \in {"PENDING_APPROVAL", "DRAFT"}
       THEN \E st \in {"APPROVED", "REJECTED", "CANCELLED"} : po' = [po EXCEPT ![o] = st]
       ELSE UNCHANGED po
    /\ UNCHANGED <<lineVars, total, amendments, utilized>>

-----------------------------------------------------------------------------
(* Amendment, closing and cancellation.                                     *)

\* amend_po after it has changed the order's value by v, whatever the order's
\* status: only an increase is taken from the contract, and a change of more
\* than the threshold needs a new approval.
Amended(o, v) ==
    /\ po[o] # "NONE"
    /\ amendments[o] < MaxAmendments
    /\ amendments' = [amendments EXCEPT ![o] = @ + 1]
    /\ IF v > 0 THEN Utilize(o, v) ELSE UNCHANGED utilized
    /\ IF total[o] > 0 /\ 100 * Magnitude(v) > ReapprovalPct * total[o]
       THEN po' = [po EXCEPT ![o] = "PENDING_APPROVAL"] /\ MayStartWorkflow(o)
       ELSE po' = [po EXCEPT ![o] = "AMENDED"] /\ UNCHANGED workflows

\* line_updates: a line is not reduced below what it has received.
AmendLine(o, l, n) ==
    LET q == [ordered EXCEPT ![l] = n]
    IN  /\ OrderOf[l] = o /\ n >= received[l]
        /\ Amended(o, Value(q, LinesOf(o)) - total[o])
        /\ ordered' = q
        /\ open' = [open EXCEPT ![l] = Missing(n, received[l])]
        /\ total' = [total EXCEPT ![o] = Value(q, LinesOf(o))]
        /\ UNCHANGED received

\* value_change without line_updates.
AmendValue(o, v) ==
    /\ Amended(o, v)
    /\ total' = [total EXCEPT ![o] = @ + v]
    /\ UNCHANGED lineVars

ClosePO(o) ==
    /\ Moves(o, "CLOSED")
    /\ \A l \in LinesOf(o) : open[l] = 0
    /\ UNCHANGED utilized

CancelPO(o) ==
    /\ Moves(o, "CANCELLED")
    /\ IF total[o] > 0 THEN Utilize(o, -total[o]) ELSE UNCHANGED utilized

-----------------------------------------------------------------------------
(* record_grn_receipt: quantities q arrived for order o.                    *)

\* Mutant: one complete line is enough.
AnyReceived(o, r) == \E l \in LinesOf(o) : r[l] >= ordered[l]

AllReceived(o, r) == \A l \in LinesOf(o) : r[l] >= ordered[l]

RecordReceipt(o, q) ==
    LET r == [l \in Lines |-> received[l] + q[l]]
        target == IF AllReceived(o, r) THEN "FULLY_RECEIVED" ELSE "PARTIALLY_RECEIVED"
    IN  /\ received' = r
        /\ open' = [l \in Lines |-> IF q[l] > 0 THEN Missing(ordered[l], r[l]) ELSE open[l]]
        /\ po' = IF target \in PO_FSM[po[o]] THEN [po EXCEPT ![o] = target] ELSE po
        /\ UNCHANGED <<ordered, total, amendments, workflows, utilized>>

-----------------------------------------------------------------------------
Quantities(o) == [LinesOf(o) -> 1..MaxQuantity]

\* Every operation on an order except receipts.
OrderNext ==
    \E o \in Orders :
        \/ \E q \in Quantities(o) : Create(o, q) \/ ConvertRequisition(o, q)
        \/ Approve(o) \/ Reject(o) \/ WorkflowEnds(o)
        \/ SendToVendor(o) \/ RecordVendorAcknowledgement(o)
        \/ \E l \in LinesOf(o), n \in 0..MaxQuantity : AmendLine(o, l, n)
        \/ \E v \in ValueChanges : AmendValue(o, v)
        \/ ClosePO(o) \/ CancelPO(o)

-----------------------------------------------------------------------------
(* Safety, whatever receipts are recorded besides.                          *)

\* An order counts as fully received, and can be closed, only when every line
\* has all of the quantity ordered *now*: no amendment, late receipt or receipt
\* of another order takes that back (record_grn_receipt, close_po).
CompleteWhenClosed ==
    \A o \in Orders : po[o] \in {"FULLY_RECEIVED", "CLOSED"} =>
        \A l \in LinesOf(o) : received[l] >= ordered[l]
=============================================================================
