------------------------------ MODULE Receiving ------------------------------
(***************************************************************************)
(* Receiving goods: shipment notices of vendors, goods receipt notes, their *)
(* quality inspection and confirmation, on top of the orders they are for. *)
(* A receipt has at most one line per order line (two are two receipts); a  *)
(* rejected quantity is what is not accepted.  consignee_confirm_grn and    *)
(* consignee_reject_grn always fail on their audit call and are no actions. *)
(***************************************************************************)
EXTENDS PurchaseOrder

CONSTANTS
    Receipts,       \* goods receipt notes
    Shipments,      \* advance shipping notices
    MaxReceived     \* bound on the quantity received of a line

ASSUME ReceivingAssumption == IsFiniteSet(Receipts)

VARIABLES
    grn,        \* GoodsReceiptNote.status, "NONE" before it is created
    against,    \* its po_id
    arrived,    \* arrived[r][l]: received_quantity of its line for l, 0 if none
    accepted,   \* accepted[r][l]: accepted_quantity
    qc,         \* qc[r][l]: qc_status, the three results of a test as "DONE"
    again,      \* history: receipts confirmed or inspected after their confirmation
    asn,        \* AdvanceShippingNotice.status
    shipped     \* shipped[a]: its po_id and shipped quantities

grnVars == <<grn, against, arrived, accepted, qc, again>>
asnVars == <<asn, shipped>>
vars == <<orderVars, grnVars, asnVars>>

GrnStatus == {"NONE", "DRAFT", "PENDING_QC", "APPROVED", "CONFIRMED", "CANCELLED"}
QCStatus == {"NOT_REQUIRED", "PENDING", "DONE"}
Nothing == [l \in Lines |-> 0]

TypeOK ==
    /\ OrderTypeOK
    /\ grn \in [Receipts -> GrnStatus]
    /\ against \in [Receipts -> Orders]
    /\ {arrived, accepted} \subseteq [Receipts -> [Lines -> Nat]]
    /\ qc \in [Receipts -> [Lines -> QCStatus]]
    /\ again \subseteq Receipts
    /\ asn \in [Shipments -> {"NONE", "SHIPPED", "RECEIVED"}]
    /\ shipped \in [Shipments -> [order : Orders, quantity : [Lines -> Nat]]]

Init ==
    /\ OrderInit
    /\ grn = [r \in Receipts |-> "NONE"]
    /\ against = [r \in Receipts |-> CHOOSE o \in Orders : TRUE]
    /\ arrived = [r \in Receipts |-> Nothing]
    /\ accepted = [r \in Receipts |-> Nothing]
    /\ qc = [r \in Receipts |-> [l \in Lines |-> "NOT_REQUIRED"]]
    /\ again = {}
    /\ asn = [a \in Shipments |-> "NONE"]
    /\ shipped = [a \in Shipments |->
                     [order |-> CHOOSE o \in Orders : TRUE, quantity |-> Nothing]]

-----------------------------------------------------------------------------
(* Goods receipt notes.                                                     *)

\* Statuses in which create_grn and create_asn accept an order.
Receivable == {"RELEASED", "ACKNOWLEDGED", "PARTIALLY_RECEIVED"}

\* Quantities q are something, and no line gets more than its open quantity.
FitsOpen(q) == q # Nothing /\ \A l \in Lines : q[l] <= open[l]

\* The rows of receipt r for order o; the lines of S wait for inspection.
Noted(r, o, q, S, st) ==
    /\ grn[r] = "NONE" /\ po[o] \in Receivable /\ FitsOpen(q)
    /\ grn' = [grn EXCEPT ![r] = st]
    /\ against' = [against EXCEPT ![r] = o]
    /\ arrived' = [arrived EXCEPT ![r] = q]
    /\ accepted' = [accepted EXCEPT ![r] = [l \in Lines |-> IF l \in S THEN 0 ELSE q[l]]]
    /\ qc' = [qc EXCEPT ![r] = [l \in Lines |-> IF l \in S THEN "PENDING" ELSE "NOT_REQUIRED"]]
    /\ UNCHANGED again

\* create_grn.  It never asks whether the lines belong to the order.
CreateGrn(r, o, q, S) ==
    /\ \A l \in S : q[l] > 0
    /\ Noted(r, o, q, S, IF S = {} THEN "DRAFT" ELSE "PENDING_QC")
    /\ UNCHANGED <<orderVars, asnVars>>

\* A receipt that counts already is dealt with again.
Again(r) == again' = IF grn[r] = "CONFIRMED" THEN again \cup {r} ELSE again

\* quality_inspection of one line, whatever the receipt's status: n of it are
\* accepted, and the last result approves a receipt that waited for it.
QualityInspection(r, l, n) ==
    /\ grn[r] # "NONE" /\ n <= arrived[r][l] /\ arrived[r][l] > 0
    /\ accepted' = [accepted EXCEPT ![r][l] = n]
    /\ qc' = [qc EXCEPT ![r][l] = "DONE"]
    /\ grn' = IF grn[r] = "PENDING_QC" /\ \A k \in Lines : qc'[r][k] # "PENDING"
              THEN [grn EXCEPT ![r] = "APPROVED"] ELSE grn
    /\ Again(r)
    /\ UNCHANGED <<orderVars, against, arrived, asnVars>>

\* The one guard of confirm_grn: it does not look at the receipt's status.
Inspected(r) == grn[r] # "NONE" /\ \A l \in Lines : qc[r][l] # "PENDING"

\* Mutant: what has arrived is recorded, and not what was accepted of it.
ConfirmWhatArrived(r) ==
    /\ Inspected(r)
    /\ \A l \in Lines : received[l] + arrived[r][l] <= MaxReceived
    /\ grn' = [grn EXCEPT ![r] = "CONFIRMED"]
    /\ Again(r)
    /\ RecordReceipt(against[r], arrived[r])
    /\ UNCHANGED <<against, arrived, accepted, qc, asnVars>>

\* confirm_grn: what was accepted is recorded on the order, if anything was.
ConfirmGrn(r) ==
    /\ Inspected(r)
    /\ \A l \in Lines : received[l] + accepted[r][l] <= MaxReceived
    /\ grn' = [grn EXCEPT ![r] = "CONFIRMED"]
    /\ Again(r)
    /\ IF accepted[r] = Nothing THEN UNCHANGED orderVars
       ELSE RecordReceipt(against[r], accepted[r])
    /\ UNCHANGED <<against, arrived, accepted, qc, asnVars>>

\* Mutant: a confirmed receipt can be cancelled.
CancelAnyGrn(r) ==
    /\ grn[r] # "NONE"
    /\ grn' = [grn EXCEPT ![r] = "CANCELLED"]
    /\ UNCHANGED <<orderVars, against, arrived, accepted, qc, again, asnVars>>

CancelGrn(r) ==
    /\ grn[r] \notin {"NONE", "CONFIRMED"}
    /\ grn' = [grn EXCEPT ![r] = "CANCELLED"]
    /\ UNCHANGED <<orderVars, against, arrived, accepted, qc, again, asnVars>>

-----------------------------------------------------------------------------
(* Shipment notices.                                                        *)

\* create_asn, which does ask whether the lines belong to the order; sending
\* the notice again (dispatch_asn) leaves it SHIPPED.
CreateAsn(a, o, q) ==
    /\ asn[a] = "NONE" /\ po[o] \in Receivable /\ FitsOpen(q)
    /\ \A l \in Lines \ LinesOf(o) : q[l] = 0
    /\ asn' = [asn EXCEPT ![a] = "SHIPPED"]
    /\ shipped' = [shipped EXCEPT ![a] = [order |-> o, quantity |-> q]]
    /\ UNCHANGED <<orderVars, grnVars>>

\* fast_grn_intake: create_grn and confirm_grn of what was shipped, at once.
FastGrnIntake(a, r) ==
    /\ asn[a] = "SHIPPED"
    /\ Noted(r, shipped[a].order, shipped[a].quantity, {}, "CONFIRMED")
    /\ \A l \in Lines : received[l] + shipped[a].quantity[l] <= MaxReceived
    /\ RecordReceipt(shipped[a].order, shipped[a].quantity)
    /\ asn' = [asn EXCEPT ![a] = "RECEIVED"]
    /\ UNCHANGED shipped

-----------------------------------------------------------------------------
Next ==
    \/ OrderNext /\ UNCHANGED <<grnVars, asnVars>>
    \/ \E r \in Receipts :
          \/ \E o \in Orders, q \in [Lines -> 0..MaxQuantity], S \in SUBSET Lines :
                CreateGrn(r, o, q, S)
          \/ \E l \in Lines, n \in 0..MaxQuantity : QualityInspection(r, l, n)
          \/ ConfirmGrn(r) \/ CancelGrn(r)
          \/ \E a \in Shipments : FastGrnIntake(a, r)
    \/ \E a \in Shipments, o \in Orders, q \in [Lines -> 0..MaxQuantity] :
          CreateAsn(a, o, q)

Spec == Init /\ [][Next]_vars

-----------------------------------------------------------------------------
(* Safety.                                                                  *)

\* SPEC_14's SUM(grn_lines.accepted_quantity) of a line, each confirmed receipt
\* taken once.
Counting == {r \in Receipts : grn[r] = "CONFIRMED"}
AcceptedOf(l) == Value([r \in Receipts |-> accepted[r][l]], Counting)

\* The open quantity, on which receipts, shipments and closing are tested, is
\* the quantity ordered less what the confirmed receipts accepted, and nothing
\* once that is more, through creation, amendments, inspections and receipts in
\* any order (amend_po, record_grn_receipt); except for the lines of a receipt
\* that was confirmed twice or inspected after its confirmation.
OpenIsWhatIsMissing ==
    \A l \in Lines : (\A r \in again : arrived[r][l] = 0)
                        => open[l] = Missing(ordered[l], AcceptedOf(l))

\* The same without the exception, as SPEC_14_PURCHASE_ORDER.md:165 has it; the
\* code does not keep it (confirm_grn and quality_inspection have no guard).
OpenIsAsSpecified ==
    \A l \in Lines : open[l] = Missing(ordered[l], AcceptedOf(l))

\* What an order counts as received was inspected and confirmed: a confirmed
\* receipt lists the line, none of its lines waits for inspection, and it never
\* stops being confirmed (quality_inspection, confirm_grn, cancel_grn).
ReceivedIsConfirmed ==
    /\ \A l \in Lines : received[l] > 0 =>
          \E r \in Receipts : grn[r] = "CONFIRMED" /\ arrived[r][l] > 0
    /\ \A r \in Receipts, l \in Lines : grn[r] = "CONFIRMED" => qc[r][l] # "PENDING"
=============================================================================
