--------------------------- MODULE ReceivingProofs ---------------------------
(***************************************************************************)
(* Theorems about orders and receipts, for every set of orders, lines,     *)
(* receipts and shipments and every bound.  The inductive invariant IInv   *)
(* adds to the properties what makes them inductive: a line nobody ordered *)
(* has arrived nowhere, what is accepted has arrived, and what is open is  *)
(* what the order does not count as received.                              *)
(***************************************************************************)
EXTENDS Receiving, FiniteSetTheorems, WellFoundedInduction, TLAPS

\* The types the argument needs; Counted, below, has the others.
Typed ==
    /\ po \in [Orders -> POStatus]
    /\ ordered \in [Lines -> Nat]
    /\ received \in [Lines -> Nat]
    /\ open \in [Lines -> Nat]
    /\ grn \in [Receipts -> GrnStatus]
    /\ against \in [Receipts -> Orders]
    /\ arrived \in [Receipts -> [Lines -> Nat]]
    /\ accepted \in [Receipts -> [Lines -> Nat]]
    /\ qc \in [Receipts -> [Lines -> QCStatus]]
    /\ shipped \in [Shipments -> [order : Orders, quantity : [Lines -> Nat]]]

\* A line whose order does not exist is in no receipt and no shipment.
Unplaced ==
    \A l \in Lines : po[OrderOf[l]] = "NONE" =>
        /\ received[l] = 0 /\ open[l] = 0
        /\ \A r \in Receipts : arrived[r][l] = 0
        /\ \A a \in Shipments : shipped[a].quantity[l] = 0

\* What is accepted has arrived.
AcceptedArrived ==
    \A r \in Receipts, l \in Lines : accepted[r][l] > 0 => arrived[r][l] > 0

\* The open quantity against the order's own counter of what it received.
OpenComplements ==
    \A l \in Lines : \/ open[l] + received[l] = ordered[l]
                     \/ open[l] = 0 /\ received[l] > ordered[l]

IInv ==
    /\ Typed
    /\ Unplaced
    /\ AcceptedArrived
    /\ OpenComplements
    /\ CompleteWhenClosed
    /\ ReceivedIsConfirmed

-----------------------------------------------------------------------------
(* PO_FSM.                                                                  *)

LEMMA MovesTyped == \A s \in POStatus : PO_FSM[s] \subseteq POStatus \ {"NONE"}
  BY DEF PO_FSM, POStatus

LEMMA NothingFromNone == PO_FSM["NONE"] = {}
  BY DEF PO_FSM, POStatus

LEMMA OnlyCompleteCloses ==
    \A s \in POStatus : "CLOSED" \in PO_FSM[s] => s = "FULLY_RECEIVED"
  BY DEF PO_FSM, POStatus

-----------------------------------------------------------------------------
(* The initial state.                                                       *)

LEMMA InitInv == Init => IInv
<1> SUFFICES ASSUME Init PROVE IInv
  OBVIOUS
<1> USE OrderAssumption DEF Init, OrderInit, Nothing
<1>1. Typed
  <2>1. (CHOOSE o \in Orders : TRUE) \in Orders
    OBVIOUS
  <2> QED BY <2>1 DEF Typed, POStatus, GrnStatus, QCStatus
<1>2. Unplaced /\ AcceptedArrived /\ OpenComplements
  BY DEF Unplaced, AcceptedArrived, OpenComplements
<1>3. CompleteWhenClosed /\ ReceivedIsConfirmed
  BY DEF CompleteWhenClosed, ReceivedIsConfirmed, LinesOf
<1> QED BY <1>1, <1>2, <1>3 DEF IInv

-----------------------------------------------------------------------------
(* Operations on orders.                                                    *)

\* An order that exists moves to another status, its lines as they are.
LEMMA MoveStep ==
    ASSUME IInv, NEW o \in Orders, NEW st \in POStatus \ {"NONE", "FULLY_RECEIVED"},
           st = "CLOSED" => po[o] = "FULLY_RECEIVED",
           po' = [po EXCEPT ![o] = st],
           UNCHANGED <<lineVars, grnVars, asnVars>>
    PROVE  IInv'
<1> USE OrderAssumption DEF IInv, lineVars, grnVars, asnVars
<1>1. Typed' /\ AcceptedArrived' /\ OpenComplements' /\ ReceivedIsConfirmed'
  BY DEF Typed, AcceptedArrived, OpenComplements, ReceivedIsConfirmed
<1>2. Unplaced'
  BY DEF Typed, Unplaced
<1>3. CompleteWhenClosed'
  BY DEF Typed, CompleteWhenClosed, LinesOf
<1> QED BY <1>1, <1>2, <1>3

\* A new order: its lines are open, and nothing of them has arrived.
LEMMA PlacedStep ==
    ASSUME IInv, NEW o \in Orders, NEW q \in Quantities(o), Placed(o, q),
           NEW st \in POStatus \ {"NONE", "FULLY_RECEIVED", "CLOSED"},
           po' = [po EXCEPT ![o] = st], UNCHANGED <<grnVars, asnVars>>
    PROVE  IInv'
<1> USE OrderAssumption DEF IInv, Placed, grnVars, asnVars
<1>1. \A l \in LinesOf(o) : l \in Lines /\ q[l] \in Nat /\ received[l] = 0
  BY DEF Quantities, LinesOf, Unplaced
<1>2. Typed'
  BY <1>1 DEF Typed
<1>3. Unplaced'
  BY DEF Typed, Unplaced, LinesOf
<1>4. OpenComplements'
  <2> SUFFICES ASSUME NEW l \in Lines
               PROVE  \/ open'[l] + received'[l] = ordered'[l]
                      \/ open'[l] = 0 /\ received'[l] > ordered'[l]
    BY DEF OpenComplements
  <2>1. CASE l \in LinesOf(o)
    BY <2>1, <1>1
  <2>2. CASE l \notin LinesOf(o)
    BY <2>2 DEF OpenComplements
  <2> QED BY <2>1, <2>2
<1>5. CompleteWhenClosed'
  BY DEF Typed, CompleteWhenClosed, LinesOf
<1>6. AcceptedArrived' /\ ReceivedIsConfirmed'
  BY DEF AcceptedArrived, ReceivedIsConfirmed
<1> QED BY <1>2, <1>3, <1>4, <1>5, <1>6

\* The quantity of a line is amended, never below what it has received.
LEMMA AmendLineStep ==
    ASSUME IInv, NEW o \in Orders, NEW l \in LinesOf(o), NEW n \in 0..MaxQuantity,
           AmendLine(o, l, n), UNCHANGED <<grnVars, asnVars>>
    PROVE  IInv'
<1> USE OrderAssumption DEF IInv, grnVars, asnVars
<1>1. PICK st \in {"PENDING_APPROVAL", "AMENDED"} : po' = [po EXCEPT ![o] = st]
  BY DEF AmendLine, Amended
<1>2. /\ l \in Lines /\ OrderOf[l] = o /\ n \in Nat /\ n >= received[l]
      /\ po[o] # "NONE"
      /\ ordered' = [ordered EXCEPT ![l] = n]
      /\ open' = [open EXCEPT ![l] = Missing(n, received[l])]
      /\ received' = received
  BY DEF AmendLine, Amended, LinesOf
<1>3. received[l] \in Nat /\ Missing(n, received[l]) = n - received[l]
  BY <1>2 DEF Typed, Missing
<1>4. Typed'
  BY <1>1, <1>2, <1>3 DEF Typed, POStatus
<1>5. Unplaced'
  BY <1>1, <1>2 DEF Typed, Unplaced
<1>6. OpenComplements'
  BY <1>2, <1>3 DEF Typed, OpenComplements
<1>7. CompleteWhenClosed'
  BY <1>1, <1>2 DEF Typed, CompleteWhenClosed, LinesOf
<1>8. AcceptedArrived' /\ ReceivedIsConfirmed'
  BY <1>2 DEF AcceptedArrived, ReceivedIsConfirmed
<1> QED BY <1>4, <1>5, <1>6, <1>7, <1>8

LEMMA OrderStep == IInv /\ OrderNext /\ UNCHANGED <<grnVars, asnVars>> => IInv'
<1> SUFFICES ASSUME IInv, UNCHANGED <<grnVars, asnVars>>, NEW o \in Orders,
        \/ \E q \in Quantities(o) : Create(o, q) \/ ConvertRequisition(o, q)
        \/ Approve(o) \/ Reject(o) \/ WorkflowEnds(o)
        \/ SendToVendor(o) \/ RecordVendorAcknowledgement(o)
        \/ \E l \in LinesOf(o), n \in 0..MaxQuantity : AmendLine(o, l, n)
        \/ \E v \in ValueChanges : AmendValue(o, v)
        \/ ClosePO(o) \/ CancelPO(o)
             PROVE  IInv'
  BY DEF OrderNext
<1>t. po[o] \in POStatus
  BY DEF IInv, Typed
<1>1. CASE \E q \in Quantities(o) : Create(o, q) \/ ConvertRequisition(o, q)
  <2> PICK q \in Quantities(o) : Create(o, q) \/ ConvertRequisition(o, q)
    BY <1>1
  <2>1. PICK st \in {"APPROVED", "PENDING_APPROVAL", "DRAFT"} : po' = [po EXCEPT ![o] = st]
    BY DEF Create, ConvertRequisition
  <2>2. Placed(o, q)
    BY DEF Create, ConvertRequisition
  <2> QED BY <2>1, <2>2, PlacedStep DEF POStatus
<1>2. CASE \/ Approve(o) \/ Reject(o) \/ SendToVendor(o)
           \/ RecordVendorAcknowledgement(o) \/ ClosePO(o) \/ CancelPO(o)
  <2>1. PICK st \in {"APPROVED", "REJECTED", "RELEASED", "ACKNOWLEDGED",
                     "REJECTED_BY_SUPPLIER", "CLOSED", "CANCELLED"} : Moves(o, st)
    BY <1>2 DEF Approve, Reject, SendToVendor, RecordVendorAcknowledgement, ClosePO, CancelPO
  <2>2. st = "CLOSED" => po[o] = "FULLY_RECEIVED"
    BY <2>1, <1>t, OnlyCompleteCloses DEF Moves
  <2> QED BY <2>1, <2>2, MoveStep DEF Moves, POStatus
<1>3. CASE WorkflowEnds(o)
  <2>1. CASE UNCHANGED po
    <3>1. po' = [po EXCEPT ![o] = po[o]] /\ UNCHANGED lineVars
      BY <1>3, <2>1 DEF WorkflowEnds, IInv, Typed
    <3> QED BY <3>1, <2>1 DEF IInv, Typed, Unplaced, AcceptedArrived, OpenComplements,
                CompleteWhenClosed, ReceivedIsConfirmed, lineVars, grnVars, asnVars, LinesOf
  <2>2. CASE \E st \in {"APPROVED", "REJECTED", "CANCELLED"} : po' = [po EXCEPT ![o] = st]
    <3>1. PICK st \in {"APPROVED", "REJECTED", "CANCELLED"} : po' = [po EXCEPT ![o] = st]
      BY <2>2
    <3> QED BY <3>1, <1>3, MoveStep DEF WorkflowEnds, POStatus
  <2> QED BY <1>3, <2>1, <2>2 DEF WorkflowEnds
<1>4. CASE \E l \in LinesOf(o), n \in 0..MaxQuantity : AmendLine(o, l, n)
  BY <1>4, AmendLineStep
<1>5. CASE \E v \in ValueChanges : AmendValue(o, v)
  <2>1. PICK st \in {"PENDING_APPROVAL", "AMENDED"} : po' = [po EXCEPT ![o] = st]
    BY <1>5 DEF AmendValue, Amended
  <2>2. UNCHANGED lineVars
    BY <1>5 DEF AmendValue
  <2> QED BY <2>1, <2>2, MoveStep DEF POStatus
<1> QED BY <1>1, <1>2, <1>3, <1>4, <1>5

-----------------------------------------------------------------------------
(* Receipts.                                                                *)

LEMMA MissingIsMissing ==
    \A n, r \in Nat : Missing(n, r) + r = n \/ (Missing(n, r) = 0 /\ r > n)
  BY DEF Missing

\* What a receipt of existing lines does to the orders: quantities received
\* grow, what is open follows, and only a complete order becomes complete.
LEMMA RecordReceiptStep ==
    ASSUME IInv, NEW o \in Orders, NEW q \in [Lines -> Nat],
           \A l \in Lines : q[l] > 0 => po[OrderOf[l]] # "NONE",
           RecordReceipt(o, q)
    PROVE  /\ po' \in [Orders -> POStatus]
           /\ ordered' \in [Lines -> Nat]
           /\ received' \in [Lines -> Nat]
           /\ open' \in [Lines -> Nat]
           /\ \A l \in Lines : received'[l] = received[l] + q[l]
           /\ \A l \in Lines : po'[OrderOf[l]] = "NONE" =>
                 po[OrderOf[l]] = "NONE" /\ received'[l] = 0 /\ open'[l] = 0
           /\ OpenComplements'
           /\ CompleteWhenClosed'
<1> USE OrderAssumption DEF IInv, Typed
<1> DEFINE s == [l \in Lines |-> received[l] + q[l]]
           target == IF AllReceived(o, s) THEN "FULLY_RECEIVED" ELSE "PARTIALLY_RECEIVED"
<1>1. /\ received' = s /\ ordered' = ordered
      /\ open' = [l \in Lines |-> IF q[l] > 0 THEN Missing(ordered[l], s[l]) ELSE open[l]]
      /\ po' = IF target \in PO_FSM[po[o]] THEN [po EXCEPT ![o] = target] ELSE po
  BY DEF RecordReceipt
<1>2. \A l \in Lines : /\ received'[l] = received[l] + q[l]
                       /\ received'[l] \in Nat /\ received'[l] >= received[l]
  BY <1>1
<1>3. \A l \in Lines : /\ open'[l] \in Nat
                       /\ q[l] = 0 => open'[l] = open[l]
                       /\ q[l] > 0 => open'[l] = Missing(ordered[l], received'[l])
  BY <1>1, <1>2 DEF Missing
<1>4. po' \in [Orders -> POStatus]
  BY <1>1 DEF POStatus
<1>5. \A k \in Orders : po'[k] = "NONE" => po[k] = "NONE"
  BY <1>1
<1>6. \A l \in Lines : po'[OrderOf[l]] = "NONE" =>
          po[OrderOf[l]] = "NONE" /\ received'[l] = 0 /\ open'[l] = 0
  <2> SUFFICES ASSUME NEW l \in Lines, po'[OrderOf[l]] = "NONE"
               PROVE  po[OrderOf[l]] = "NONE" /\ received'[l] = 0 /\ open'[l] = 0
    OBVIOUS
  <2>1. OrderOf[l] \in Orders /\ po[OrderOf[l]] = "NONE"
    BY <1>5
  <2>2. q[l] = 0 /\ received[l] = 0 /\ open[l] = 0
    BY <2>1 DEF Unplaced
  <2> QED BY <2>1, <2>2, <1>2, <1>3
<1>7. OpenComplements'
  <2> SUFFICES ASSUME NEW l \in Lines
               PROVE  \/ open'[l] + received'[l] = ordered'[l]
                      \/ open'[l] = 0 /\ received'[l] > ordered'[l]
    BY DEF OpenComplements
  <2>1. CASE q[l] = 0
    BY <2>1, <1>1, <1>2, <1>3 DEF OpenComplements
  <2>2. CASE q[l] > 0
    <3>1. open'[l] = Missing(ordered[l], received'[l])
      BY <2>2, <1>3
    <3>2. ordered'[l] = ordered[l] /\ ordered[l] \in Nat /\ received'[l] \in Nat
      BY <1>1, <1>2
    <3> QED BY <3>1, <3>2, MissingIsMissing
  <2> QED BY <2>1, <2>2
<1>8. CompleteWhenClosed'
  <2> SUFFICES ASSUME NEW k \in Orders, po'[k] \in {"FULLY_RECEIVED", "CLOSED"},
                      NEW l \in LinesOf(k)
               PROVE  received'[l] >= ordered'[l]
    BY DEF CompleteWhenClosed, LinesOf
  <2>0. l \in Lines
    BY DEF LinesOf
  <2>1. CASE po'[k] = po[k]
    <3>1. received[l] >= ordered[l]
      BY <2>1 DEF CompleteWhenClosed
    <3> QED BY <3>1, <2>0, <1>1, <1>2
  <2>2. CASE po'[k] # po[k]
    <3>1. k = o /\ po'[k] = target
      BY <2>2, <1>1
    <3>2. AllReceived(o, s)
      BY <3>1
    <3> QED BY <3>1, <3>2, <2>0, <1>1 DEF AllReceived
  <2> QED BY <2>1, <2>2
<1>9. ordered' \in [Lines -> Nat] /\ received' \in [Lines -> Nat] /\ open' \in [Lines -> Nat]
  <2>1. DOMAIN open' = Lines /\ open' = [l \in Lines |-> open'[l]]
    BY <1>1
  <2> QED BY <2>1, <1>1, <1>3
<1> QED BY <1>2, <1>4, <1>6, <1>7, <1>8, <1>9

\* A new receipt lists nothing but existing lines, none of it over what is open.
LEMMA NotedFacts ==
    ASSUME IInv, NEW r \in Receipts, NEW o \in Orders, NEW q \in [Lines -> Nat],
           NEW S \in SUBSET Lines, NEW st \in {"DRAFT", "PENDING_QC", "CONFIRMED"},
           Noted(r, o, q, S, st)
    PROVE  /\ grn' \in [Receipts -> GrnStatus] /\ against' \in [Receipts -> Orders]
           /\ arrived' \in [Receipts -> [Lines -> Nat]]
           /\ accepted' \in [Receipts -> [Lines -> Nat]]
           /\ qc' \in [Receipts -> [Lines -> QCStatus]]
           /\ grn[r] = "NONE" /\ grn' = [grn EXCEPT ![r] = st]
           /\ arrived' = [arrived EXCEPT ![r] = q]
           /\ \A l \in Lines : q[l] > 0 => po[OrderOf[l]] # "NONE"
           /\ \A k \in Receipts, l \in Lines :
                 /\ accepted'[k][l] > 0 => arrived'[k][l] > 0
                 /\ k # r => qc'[k] = qc[k]
                 /\ S = {} => qc'[r][l] # "PENDING"
<1> USE OrderAssumption DEF IInv, Typed, Noted
<1>1. /\ grn' \in [Receipts -> GrnStatus] /\ against' \in [Receipts -> Orders]
      /\ arrived' \in [Receipts -> [Lines -> Nat]]
      /\ accepted' \in [Receipts -> [Lines -> Nat]]
  BY DEF GrnStatus
<1>2. qc' \in [Receipts -> [Lines -> QCStatus]]
  BY DEF QCStatus
<1>3. \A l \in Lines : q[l] > 0 => po[OrderOf[l]] # "NONE"
  BY DEF FitsOpen, Unplaced
<1>4. \A k \in Receipts, l \in Lines : accepted'[k][l] > 0 => arrived'[k][l] > 0
  <2> SUFFICES ASSUME NEW k \in Receipts, NEW l \in Lines, accepted'[k][l] > 0
               PROVE  arrived'[k][l] > 0
    OBVIOUS
  <2>1. CASE k = r
    BY <2>1
  <2>2. CASE k # r
    BY <2>2 DEF AcceptedArrived
  <2> QED BY <2>1, <2>2
<1>5. \A k \in Receipts, l \in Lines : /\ k # r => qc'[k] = qc[k]
                                       /\ S = {} => qc'[r][l] # "PENDING"
  OBVIOUS
<1> QED BY <1>1, <1>2, <1>3, <1>4, <1>5

\* create_grn; the lines it lists may be another order's.
LEMMA CreateGrnStep ==
    ASSUME IInv, NEW r \in Receipts, NEW o \in Orders,
           NEW q \in [Lines -> 0..MaxQuantity], NEW S \in SUBSET Lines,
           CreateGrn(r, o, q, S)
    PROVE  IInv'
<1> USE OrderAssumption DEF IInv, orderVars, lineVars, asnVars
<1>1. q \in [Lines -> Nat] /\ UNCHANGED <<orderVars, asnVars>>
  BY DEF CreateGrn
<1>2. PICK st \in {"DRAFT", "PENDING_QC"} : Noted(r, o, q, S, st)
  BY DEF CreateGrn
<1>3. /\ grn' \in [Receipts -> GrnStatus] /\ against' \in [Receipts -> Orders]
      /\ arrived' \in [Receipts -> [Lines -> Nat]]
      /\ accepted' \in [Receipts -> [Lines -> Nat]]
      /\ qc' \in [Receipts -> [Lines -> QCStatus]]
      /\ grn[r] = "NONE" /\ grn' = [grn EXCEPT ![r] = st]
      /\ arrived' = [arrived EXCEPT ![r] = q]
      /\ \A l \in Lines : q[l] > 0 => po[OrderOf[l]] # "NONE"
      /\ \A k \in Receipts, l \in Lines : accepted'[k][l] > 0 => arrived'[k][l] > 0
      /\ \A k \in Receipts : k # r /\ Lines # {} => qc'[k] = qc[k]
  BY <1>1, <1>2, NotedFacts
<1>4. Typed'
  BY <1>1, <1>3 DEF Typed
<1>5. Unplaced'
  <2> SUFFICES ASSUME NEW l \in Lines, po[OrderOf[l]] = "NONE", NEW k \in Receipts
               PROVE  arrived'[k][l] = 0
    BY <1>1 DEF Unplaced
  <2> QED BY <1>1, <1>3 DEF Typed, Unplaced
<1>6. AcceptedArrived' /\ OpenComplements' /\ CompleteWhenClosed'
  BY <1>1, <1>3 DEF AcceptedArrived, OpenComplements, CompleteWhenClosed, LinesOf
<1>7. ReceivedIsConfirmed'
  <2>1. \A k \in Receipts : grn[k] = "CONFIRMED" => k # r
    BY <1>3
  <2>2. \A k \in Receipts : (grn'[k] = "CONFIRMED") <=> (grn[k] = "CONFIRMED")
    BY <1>3 DEF Typed
  <2>3. \A l \in Lines : received[l] > 0 =>
            \E k \in Receipts : grn'[k] = "CONFIRMED" /\ arrived'[k][l] > 0
    BY <2>1, <2>2, <1>3 DEF Typed, ReceivedIsConfirmed
  <2>4. \A k \in Receipts, l \in Lines : grn'[k] = "CONFIRMED" => qc'[k][l] # "PENDING"
    <3> SUFFICES ASSUME NEW k \in Receipts, NEW l \in Lines, grn'[k] = "CONFIRMED"
                 PROVE  qc'[k][l] # "PENDING"
      OBVIOUS
    <3>1. grn[k] = "CONFIRMED" /\ k # r
      BY <2>1, <2>2
    <3>2. qc'[k] = qc[k]
      BY <3>1, <1>3
    <3> QED BY <3>1, <3>2 DEF ReceivedIsConfirmed
  <2> QED BY <2>3, <2>4, <1>1 DEF ReceivedIsConfirmed
<1> QED BY <1>4, <1>5, <1>6, <1>7

\* quality_inspection; it may reach a receipt that is confirmed already.
LEMMA QualityInspectionStep ==
    ASSUME IInv, NEW r \in Receipts, NEW l \in Lines, NEW n \in 0..MaxQuantity,
           QualityInspection(r, l, n)
    PROVE  IInv'
<1> USE OrderAssumption DEF IInv, orderVars, lineVars, asnVars
<1>1. /\ UNCHANGED <<orderVars, against, arrived, asnVars>>
      /\ accepted' = [accepted EXCEPT ![r][l] = n]
      /\ qc' = [qc EXCEPT ![r][l] = "DONE"]
      /\ arrived[r][l] > 0
  BY DEF QualityInspection
<1>2. /\ grn' \in [Receipts -> GrnStatus]
      /\ \A k \in Receipts : (grn'[k] = "CONFIRMED") <=> (grn[k] = "CONFIRMED")
  BY DEF QualityInspection, Typed, GrnStatus
<1>3. Typed'
  <2>1. accepted' \in [Receipts -> [Lines -> Nat]]
    <3>1. n \in Nat
      BY DEF QualityInspection
    <3> QED BY <3>1, <1>1 DEF Typed
  <2>2. qc' \in [Receipts -> [Lines -> QCStatus]]
    BY <1>1 DEF Typed, QCStatus
  <2> QED BY <2>1, <2>2, <1>1, <1>2 DEF Typed
<1>4. Unplaced' /\ OpenComplements' /\ CompleteWhenClosed'
  BY <1>1 DEF Unplaced, OpenComplements, CompleteWhenClosed, LinesOf
<1>5. AcceptedArrived'
  BY <1>1 DEF Typed, AcceptedArrived
<1>6. ReceivedIsConfirmed'
  BY <1>1, <1>2 DEF Typed, ReceivedIsConfirmed, QCStatus
<1> QED BY <1>3, <1>4, <1>5, <1>6

\* confirm_grn, of a receipt in any status.
LEMMA ConfirmGrnStep ==
    ASSUME IInv, NEW r \in Receipts, ConfirmGrn(r)
    PROVE  IInv'
<1> USE OrderAssumption DEF IInv
<1>1. /\ UNCHANGED <<against, arrived, accepted, qc, asnVars>>
      /\ grn' = [grn EXCEPT ![r] = "CONFIRMED"]
      /\ \A l \in Lines : qc[r][l] # "PENDING"
  BY DEF ConfirmGrn, Inspected
<1>2. /\ grn'[r] = "CONFIRMED" /\ grn' \in [Receipts -> GrnStatus]
      /\ \A k \in Receipts : grn[k] = "CONFIRMED" => grn'[k] = "CONFIRMED"
      /\ \A k \in Receipts : grn'[k] = "CONFIRMED" => k = r \/ grn[k] = "CONFIRMED"
  BY <1>1 DEF Typed, GrnStatus
<1>3. \A k \in Receipts, l \in Lines : grn'[k] = "CONFIRMED" => qc'[k][l] # "PENDING"
  BY <1>1, <1>2 DEF ReceivedIsConfirmed
<1>4. AcceptedArrived'
  BY <1>1 DEF AcceptedArrived
<1>5. CASE UNCHANGED orderVars
  BY <1>1, <1>2, <1>3, <1>4, <1>5 DEF orderVars, lineVars, asnVars, Typed, Unplaced,
     OpenComplements, CompleteWhenClosed, ReceivedIsConfirmed, LinesOf
<1>6. CASE RecordReceipt(against[r], accepted[r])
  <2>1. \A l \in Lines : accepted[r][l] > 0 => po[OrderOf[l]] # "NONE" /\ arrived[r][l] > 0
    BY DEF Typed, Unplaced, AcceptedArrived
  <2>2. /\ po' \in [Orders -> POStatus]
        /\ ordered' \in [Lines -> Nat]
        /\ received' \in [Lines -> Nat]
        /\ open' \in [Lines -> Nat]
        /\ \A l \in Lines : received'[l] = received[l] + accepted[r][l]
        /\ \A l \in Lines : po'[OrderOf[l]] = "NONE" =>
              po[OrderOf[l]] = "NONE" /\ received'[l] = 0 /\ open'[l] = 0
        /\ OpenComplements'
        /\ CompleteWhenClosed'
    BY <1>6, <2>1, RecordReceiptStep DEF Typed
  <2>3. Typed' /\ Unplaced'
    BY <1>1, <1>2, <2>2 DEF Typed, Unplaced, asnVars
  <2>4. ReceivedIsConfirmed'
    <3> SUFFICES ASSUME NEW l \in Lines, received'[l] > 0
                 PROVE  \E k \in Receipts : grn'[k] = "CONFIRMED" /\ arrived'[k][l] > 0
      BY <1>3 DEF ReceivedIsConfirmed
    <3>1. CASE accepted[r][l] > 0
      BY <3>1, <2>1, <1>1, <1>2
    <3>2. CASE accepted[r][l] = 0
      BY <3>2, <2>2, <1>1, <1>2 DEF Typed, ReceivedIsConfirmed
    <3> QED BY <3>1, <3>2 DEF Typed
  <2> QED BY <2>2, <2>3, <2>4, <1>4
<1> QED BY <1>5, <1>6 DEF ConfirmGrn

\* cancel_grn.
LEMMA CancelGrnStep ==
    ASSUME IInv, NEW r \in Receipts, CancelGrn(r)
    PROVE  IInv'
<1> USE DEF IInv, CancelGrn, orderVars, lineVars, asnVars
<1>1. Typed' /\ Unplaced' /\ AcceptedArrived'
  BY DEF Typed, Unplaced, AcceptedArrived, GrnStatus
<1>2. OpenComplements' /\ CompleteWhenClosed'
  BY DEF OpenComplements, CompleteWhenClosed, LinesOf
<1>3. ReceivedIsConfirmed'
  BY DEF Typed, ReceivedIsConfirmed
<1> QED BY <1>1, <1>2, <1>3

\* create_asn.
LEMMA CreateAsnStep ==
    ASSUME IInv, NEW a \in Shipments, NEW o \in Orders,
           NEW q \in [Lines -> 0..MaxQuantity], CreateAsn(a, o, q)
    PROVE  IInv'
<1> USE OrderAssumption DEF IInv, CreateAsn, orderVars, lineVars, grnVars
<1>1. Typed'
  <2>1. [order |-> o, quantity |-> q] \in [order : Orders, quantity : [Lines -> Nat]]
    OBVIOUS
  <2> QED BY <2>1 DEF Typed
<1>2. Unplaced'
  <2> SUFFICES ASSUME NEW l \in Lines, po[OrderOf[l]] = "NONE", NEW b \in Shipments
               PROVE  shipped'[b].quantity[l] = 0
    BY DEF Unplaced
  <2>1. CASE b = a
    BY <2>1 DEF Typed, Unplaced, FitsOpen
  <2>2. CASE b # a
    BY <2>2 DEF Typed, Unplaced
  <2> QED BY <2>1, <2>2
<1>3. AcceptedArrived' /\ OpenComplements' /\ CompleteWhenClosed' /\ ReceivedIsConfirmed'
  BY DEF AcceptedArrived, OpenComplements, CompleteWhenClosed, ReceivedIsConfirmed, LinesOf
<1> QED BY <1>1, <1>2, <1>3

\* fast_grn_intake: a receipt of what was shipped, confirmed as it is made.
LEMMA FastGrnIntakeStep ==
    ASSUME IInv, NEW a \in Shipments, NEW r \in Receipts, FastGrnIntake(a, r)
    PROVE  IInv'
<1> USE OrderAssumption DEF IInv
<1> DEFINE o == shipped[a].order
           q == shipped[a].quantity
<1>1. /\ o \in Orders /\ q \in [Lines -> Nat]
      /\ Noted(r, o, q, {}, "CONFIRMED") /\ RecordReceipt(o, q) /\ shipped' = shipped
  BY DEF FastGrnIntake, Typed
<1> HIDE DEF o, q
<1>2. /\ grn' \in [Receipts -> GrnStatus] /\ against' \in [Receipts -> Orders]
      /\ arrived' \in [Receipts -> [Lines -> Nat]]
      /\ accepted' \in [Receipts -> [Lines -> Nat]]
      /\ qc' \in [Receipts -> [Lines -> QCStatus]]
      /\ grn[r] = "NONE" /\ grn' = [grn EXCEPT ![r] = "CONFIRMED"]
      /\ arrived' = [arrived EXCEPT ![r] = q]
      /\ \A l \in Lines : q[l] > 0 => po[OrderOf[l]] # "NONE"
      /\ \A k \in Receipts, l \in Lines :
            /\ accepted'[k][l] > 0 => arrived'[k][l] > 0
            /\ k # r => qc'[k] = qc[k]
            /\ qc'[r][l] # "PENDING"
  BY <1>1, NotedFacts
<1>3. /\ po' \in [Orders -> POStatus]
      /\ ordered' \in [Lines -> Nat]
      /\ received' \in [Lines -> Nat]
      /\ open' \in [Lines -> Nat]
      /\ \A l \in Lines : received'[l] = received[l] + q[l]
      /\ \A l \in Lines : po'[OrderOf[l]] = "NONE" =>
            po[OrderOf[l]] = "NONE" /\ received'[l] = 0 /\ open'[l] = 0
      /\ OpenComplements'
      /\ CompleteWhenClosed'
  BY <1>1, <1>2, RecordReceiptStep
<1>4. Typed'
  BY <1>1, <1>2, <1>3 DEF Typed
<1>5. Unplaced'
  <2> SUFFICES ASSUME NEW l \in Lines, po'[OrderOf[l]] = "NONE"
               PROVE  /\ \A k \in Receipts : arrived'[k][l] = 0
                      /\ \A b \in Shipments : shipped'[b].quantity[l] = 0
    BY <1>3 DEF Unplaced
  <2>1. po[OrderOf[l]] = "NONE" /\ q[l] = 0
    BY <1>1, <1>2, <1>3
  <2> QED BY <2>1, <1>1, <1>2 DEF Typed, Unplaced
<1>6. AcceptedArrived'
  BY <1>2 DEF AcceptedArrived
<1>7. ReceivedIsConfirmed'
  <2>1. ASSUME NEW l \in Lines, received'[l] > 0
        PROVE  \E k \in Receipts : grn'[k] = "CONFIRMED" /\ arrived'[k][l] > 0
    <3>1. CASE q[l] > 0
      BY <3>1, <1>2 DEF Typed
    <3>2. CASE q[l] = 0
      <4>1. received[l] > 0
        BY <3>2, <2>1, <1>3 DEF Typed
      <4>2. PICK k \in Receipts : grn[k] = "CONFIRMED" /\ arrived[k][l] > 0
        BY <4>1 DEF ReceivedIsConfirmed
      <4> QED BY <4>2, <1>2 DEF Typed
    <3> QED BY <3>1, <3>2, <1>1
  <2>2. ASSUME NEW k \in Receipts, NEW l \in Lines, grn'[k] = "CONFIRMED"
        PROVE  qc'[k][l] # "PENDING"
    BY <2>2, <1>2 DEF Typed, ReceivedIsConfirmed
  <2> QED BY <2>1, <2>2 DEF ReceivedIsConfirmed
<1> QED BY <1>3, <1>4, <1>5, <1>6, <1>7

-----------------------------------------------------------------------------
(* The invariant is inductive.                                              *)

LEMMA NextInv == IInv /\ [Next]_vars => IInv'
<1> SUFFICES ASSUME IInv, [Next]_vars PROVE IInv'
  OBVIOUS
<1>1. CASE OrderNext /\ UNCHANGED <<grnVars, asnVars>>
  BY <1>1, OrderStep
<1>2. CASE \E r \in Receipts, o \in Orders, q \in [Lines -> 0..MaxQuantity],
              S \in SUBSET Lines : CreateGrn(r, o, q, S)
  BY <1>2, CreateGrnStep
<1>3. CASE \E r \in Receipts, l \in Lines, n \in 0..MaxQuantity : QualityInspection(r, l, n)
  BY <1>3, QualityInspectionStep
<1>4. CASE \E r \in Receipts : ConfirmGrn(r)
  BY <1>4, ConfirmGrnStep
<1>5. CASE \E r \in Receipts : CancelGrn(r)
  BY <1>5, CancelGrnStep
<1>6. CASE \E r \in Receipts, a \in Shipments : FastGrnIntake(a, r)
  BY <1>6, FastGrnIntakeStep
<1>7. CASE \E a \in Shipments, o \in Orders, q \in [Lines -> 0..MaxQuantity] :
              CreateAsn(a, o, q)
  BY <1>7, CreateAsnStep
<1>8. CASE UNCHANGED vars
  BY <1>8 DEF vars, orderVars, lineVars, grnVars, asnVars, IInv, Typed, Unplaced,
     AcceptedArrived, OpenComplements, CompleteWhenClosed, ReceivedIsConfirmed, LinesOf
<1> QED BY <1>1, <1>2, <1>3, <1>4, <1>5, <1>6, <1>7, <1>8 DEF Next

LEMMA SpecInv == Spec => []IInv
<1>1. Init => IInv
  BY InitInv
<1>2. IInv /\ [Next]_vars => IInv'
  BY NextInv
<1> QED BY <1>1, <1>2, PTL DEF Spec

-----------------------------------------------------------------------------
(* The value of an order: a sum over its lines.  A finite set has a smallest *)
(* subset among any of its subsets, which is the induction the sum needs.    *)

\* f sums q over every subset of S, as Value does it.
OneOf(s) == CHOOSE x \in s : TRUE
Sums(f, q, S) ==
    f = [s \in SUBSET S |-> IF s = {} THEN 0 ELSE q[OneOf(s)] + f[s \ {OneOf(s)}]]

\* Value is what such a function gives for the whole set.
LEMMA ValueIs ==
    ASSUME NEW q, NEW S
    PROVE  Value(q, S) = (CHOOSE f : Sums(f, q, S))[S]
BY DEF Value, MapThenSumSet, MapThenFoldSet, Sums, OneOf

\* One step of it.
Unrolled(f, q, S, s) ==
    /\ s = {} => f[s] = 0
    /\ s # {} => /\ OneOf(s) \in s /\ s \ {OneOf(s)} \in SUBSET S
                 /\ f[s] = q[OneOf(s)] + f[s \ {OneOf(s)}]

LEMMA SumStep ==
    ASSUME NEW f, NEW q, NEW S, Sums(f, q, S), NEW s \in SUBSET S
    PROVE  Unrolled(f, q, S, s)
<1>1. s # {} => OneOf(s) \in s BY DEF OneOf
<1>2. f[s] = IF s = {} THEN 0 ELSE q[OneOf(s)] + f[s \ {OneOf(s)}]
  <2> DEFINE F == [x \in SUBSET S |-> IF x = {} THEN 0 ELSE q[OneOf(x)] + f[x \ {OneOf(x)}]]
  <2>1. F[s] = IF s = {} THEN 0 ELSE q[OneOf(s)] + f[s \ {OneOf(s)}] OBVIOUS
  <2>2. f = F BY DEF Sums
  <2> HIDE DEF F
  <2> QED BY <2>1, <2>2
<1> QED BY <1>1, <1>2 DEF Unrolled

\* Among subsets of a finite set there is a smallest one.
LEMMA SmallestSubset ==
    ASSUME NEW S, IsFiniteSet(S), NEW B \in SUBSET SUBSET S, B # {}
    PROVE  \E A \in B : \A s \in SUBSET A : s # A => s \notin B
<1> DEFINE R == StrictSubsetOrdering(S)
<1>1. IsWellFoundedOn(R, SUBSET S)
  BY FS_StrictSubsetOrderingWellFounded, FS_FiniteSubsetsOfFinite
<1> HIDE DEF R
<1>2. PICK A \in B : \A s \in B : ~(<<s, A>> \in R) BY <1>1, WFMin
<1>3. \A s \in B : s \subseteq A => s = A BY <1>2 DEF R, StrictSubsetOrdering
<1> QED BY <1>3

\* Two sums agree where both are defined.
LEMMA SumsAgree ==
    ASSUME NEW q, NEW S, IsFiniteSet(S), NEW f, NEW g, NEW A \in SUBSET S, NEW B \in SUBSET S,
           Sums(f, q, A), Sums(g, q, B), NEW s \in SUBSET (A \cap B)
    PROVE  f[s] = g[s]
<1> DEFINE Bad == {x \in SUBSET (A \cap B) : f[x] # g[x]}
<1>1. SUFFICES ASSUME Bad # {} PROVE FALSE OBVIOUS
<1>2. Bad \in SUBSET SUBSET S OBVIOUS
<1>3. PICK x \in Bad : \A y \in SUBSET x : y # x => y \notin Bad
  <2> HIDE DEF Bad
  <2> QED BY <1>1, <1>2, SmallestSubset
<1>4. x \in SUBSET A /\ x \in SUBSET B /\ f[x] # g[x] OBVIOUS
<1>5. x # {} BY <1>4, SumStep DEF Unrolled
<1> DEFINE y == x \ {OneOf(x)}
<1>6. /\ OneOf(x) \in x /\ f[x] = q[OneOf(x)] + f[y] /\ g[x] = q[OneOf(x)] + g[y]
  BY <1>4, <1>5, SumStep DEF Unrolled
<1>7. y \in SUBSET x /\ y # x BY <1>6
<1>8. f[y] = g[y] BY <1>3, <1>4, <1>7
<1> QED BY <1>4, <1>6, <1>8

\* Over a finite set there is a sum.
LEMMA SumExists ==
    ASSUME NEW q, NEW S, IsFiniteSet(S)
    PROVE  \E f : Sums(f, q, S)
<1> DEFINE Bad == {A \in SUBSET S : ~ \E f : Sums(f, q, A)}
<1>1. SUFFICES ASSUME Bad # {} PROVE FALSE OBVIOUS
<1>2. Bad \in SUBSET SUBSET S OBVIOUS
<1>3. PICK A \in Bad : \A s \in SUBSET A : s # A => s \notin Bad
  <2> HIDE DEF Bad
  <2> QED BY <1>1, <1>2, SmallestSubset
<1> DEFINE F(s) == CHOOSE f : Sums(f, q, s)
           Smaller == {s \in SUBSET A : s # A}
           g == [s \in SUBSET A |-> IF s = {} THEN 0
                                    ELSE q[OneOf(s)] + F(s \ {OneOf(s)})[s \ {OneOf(s)}]]
<1>4. A \in SUBSET S /\ ~ \E f : Sums(f, q, A) OBVIOUS
<1>5. \A s \in Smaller : Sums(F(s), q, s)
  <2>1. \A s \in Smaller : \E f : Sums(f, q, s) BY <1>3, <1>4
  <2> QED BY <2>1
<1>6. \A s \in SUBSET A : g[s] = IF s = {} THEN 0
                                 ELSE q[OneOf(s)] + F(s \ {OneOf(s)})[s \ {OneOf(s)}]
  OBVIOUS
<1>7. \A s \in SUBSET A : s # {} => OneOf(s) \in s /\ s \ {OneOf(s)} \in Smaller
  BY DEF OneOf
<1> HIDE DEF F, Bad
<1>8. \A u \in Smaller : u \in SUBSET A /\ u \in SUBSET S BY <1>4
<1> HIDE DEF Smaller, g
<1>9. ASSUME NEW u \in Smaller PROVE g[u] = F(u)[u]
  <2>1. Sums(F(u), q, u) /\ u \in SUBSET A /\ u \in SUBSET u BY <1>5, <1>8
  <2>2. CASE u = {}
    BY <1>6, <2>1, <2>2, SumStep DEF Unrolled
  <2>3. CASE u # {}
    <3> DEFINE y == u \ {OneOf(u)}
    <3>1. y \in Smaller /\ y \in SUBSET (u \cap y) BY <1>7, <2>1, <2>3
    <3>2. F(u)[u] = q[OneOf(u)] + F(u)[y] BY <2>1, <2>3, SumStep DEF Unrolled
    <3>3. g[u] = q[OneOf(u)] + F(y)[y] BY <1>6, <2>1, <2>3
    <3> HIDE DEF y
    <3>4. F(u)[y] = F(y)[y]
      <4>1. Sums(F(y), q, y) /\ y \in SUBSET S /\ u \in SUBSET S BY <1>5, <1>8, <3>1
      <4> QED BY <2>1, <3>1, <4>1, SumsAgree
    <3> QED BY <3>2, <3>3, <3>4
  <2> QED BY <2>2, <2>3
<1>10. \A s \in SUBSET A : g[s] = IF s = {} THEN 0 ELSE q[OneOf(s)] + g[s \ {OneOf(s)}]
  BY <1>6, <1>7, <1>9
<1>11. g = [s \in SUBSET A |-> g[s]] BY DEF g
<1>12. Sums(g, q, A) BY <1>10, <1>11 DEF Sums
<1> QED BY <1>4, <1>12

\* A sum of whole quantities is a whole number.
LEMMA SumsType ==
    ASSUME NEW f, NEW q, NEW S, IsFiniteSet(S), Sums(f, q, S), \A l \in S : q[l] \in Int,
           NEW t \in SUBSET S
    PROVE  f[t] \in Int
<1> DEFINE Bad == {s \in SUBSET S : f[s] \notin Int}
<1>1. SUFFICES ASSUME Bad # {} PROVE FALSE OBVIOUS
<1>2. Bad \in SUBSET SUBSET S OBVIOUS
<1>3. PICK s \in Bad : \A y \in SUBSET s : y # s => y \notin Bad
  <2> HIDE DEF Bad
  <2> QED BY <1>1, <1>2, SmallestSubset
<1>4. s \in SUBSET S /\ f[s] \notin Int OBVIOUS
<1>5. s # {}
  <2>1. s = {} => f[s] = 0 BY <1>4, SumStep DEF Unrolled
  <2> QED BY <1>4, <2>1
<1>6. OneOf(s) \in s /\ f[s] = q[OneOf(s)] + f[s \ {OneOf(s)}]
  <2>1. Sums(f, q, S) /\ s \in SUBSET S /\ s # {} BY <1>4, <1>5
  <2> HIDE DEF Bad
  <2>2. Unrolled(f, q, S, s) BY <2>1, SumStep
  <2> QED BY <2>1, <2>2 DEF Unrolled
<1>7. f[s \ {OneOf(s)}] \in Int
  <2> DEFINE y == s \ {OneOf(s)}
  <2>1. y \in SUBSET s /\ y # s /\ y \in SUBSET S BY <1>4, <1>6
  <2> HIDE DEF y
  <2>2. y \notin Bad BY <1>3, <2>1
  <2>3. f[y] \in Int BY <2>1, <2>2
  <2> QED BY <2>3 DEF y
<1>8. q[OneOf(s)] \in Int BY <1>4, <1>6
<1> QED BY <1>4, <1>6, <1>7, <1>8

LEMMA ValueType ==
    ASSUME NEW q, NEW S, IsFiniteSet(S), \A l \in S : q[l] \in Int
    PROVE  Value(q, S) \in Int
<1> DEFINE f == CHOOSE h : Sums(h, q, S)
<1>1. Sums(f, q, S) BY SumExists
<1>2. Value(q, S) = f[S] BY ValueIs
<1> HIDE DEF f
<1> QED BY <1>1, <1>2, SumsType

\* The sum depends on the members of the set only.
LEMMA ValueSame ==
    ASSUME NEW q, NEW p, NEW S, IsFiniteSet(S), \A l \in S : q[l] = p[l]
    PROVE  Value(q, S) = Value(p, S)
<1> DEFINE f == CHOOSE h : Sums(h, q, S)
           g == CHOOSE h : Sums(h, p, S)
<1>1. Sums(f, q, S) /\ Sums(g, p, S) BY SumExists
<1>2. Value(q, S) = f[S] /\ Value(p, S) = g[S] BY ValueIs
<1> HIDE DEF f, g
<1>3. \A s \in SUBSET S : s # {} => q[OneOf(s)] = p[OneOf(s)] BY DEF OneOf
<1>4. Sums(f, p, S) BY <1>1, <1>3 DEF Sums
<1>5. f[S] = g[S] BY <1>1, <1>4, SumsAgree
<1> QED BY <1>2, <1>5

\* Any member can be taken out of a sum first.
LEMMA TakeOut ==
    ASSUME NEW f, NEW q, NEW S, IsFiniteSet(S), Sums(f, q, S), \A l \in S : q[l] \in Int,
           NEW t \in SUBSET S, NEW r \in t
    PROVE  f[t] = q[r] + f[t \ {r}]
<1> DEFINE Bad == {s \in SUBSET S : \E x \in s : f[s] # q[x] + f[s \ {x}]}
<1>1. SUFFICES ASSUME Bad # {} PROVE FALSE OBVIOUS
<1>2. Bad \in SUBSET SUBSET S OBVIOUS
<1>3. PICK s \in Bad : \A y \in SUBSET s : y # s => y \notin Bad
  <2> HIDE DEF Bad
  <2> QED BY <1>1, <1>2, SmallestSubset
<1>4. PICK x \in s : f[s] # q[x] + f[s \ {x}] OBVIOUS
<1>5. s \in SUBSET S /\ s # {} OBVIOUS
<1>6. \A y \in SUBSET s : y # s => \A z \in y : f[y] = q[z] + f[y \ {z}] BY <1>3
<1> HIDE DEF Bad
<1> DEFINE w == OneOf(s)
           rest == s \ {w, x}
<1>7. w \in s /\ f[s] = q[w] + f[s \ {w}] BY <1>5, SumStep DEF Unrolled
<1>8. x \in S /\ w \in S /\ rest \in SUBSET S BY <1>5, <1>7
<1>9. (s \ {w}) \ {x} = rest /\ (s \ {x}) \ {w} = rest OBVIOUS
<1> HIDE DEF w
<1>10. w # x BY <1>4, <1>7
<1>11. f[s \ {w}] = q[x] + f[rest]
  <2>1. s \ {w} \in SUBSET s /\ s \ {w} # s /\ x \in s \ {w} BY <1>7, <1>10
  <2>2. f[s \ {w}] = q[x] + f[(s \ {w}) \ {x}] BY <1>6, <2>1
  <2> QED BY <1>9, <2>2
<1>12. f[s \ {x}] = q[w] + f[rest]
  <2>1. s \ {x} \in SUBSET s /\ s \ {x} # s /\ w \in s \ {x} BY <1>4, <1>7, <1>10
  <2>2. f[s \ {x}] = q[w] + f[(s \ {x}) \ {w}] BY <1>6, <2>1
  <2> QED BY <1>9, <2>2
<1> HIDE DEF rest
<1>13. f[rest] \in Int /\ q[x] \in Int /\ q[w] \in Int BY <1>8, SumsType
<1> QED BY <1>4, <1>7, <1>11, <1>12, <1>13

\* One more member adds what it has.
LEMMA ValueMore ==
    ASSUME NEW q, NEW S, IsFiniteSet(S), NEW r, r \notin S, \A l \in S \cup {r} : q[l] \in Int
    PROVE  Value(q, S \cup {r}) = Value(q, S) + q[r]
<1> DEFINE T == S \cup {r}
           f == CHOOSE h : Sums(h, q, T)
           g == CHOOSE h : Sums(h, q, S)
<1>1. IsFiniteSet(T) BY FS_AddElement
<1>2. Sums(f, q, T) /\ Sums(g, q, S) BY <1>1, SumExists
<1>3. Value(q, T) = f[T] /\ Value(q, S) = g[S] BY ValueIs
<1>4. T \in SUBSET T /\ S \in SUBSET T /\ r \in T /\ T \ {r} = S /\ S \in SUBSET (T \cap S)
  OBVIOUS
<1>5. \A l \in T : q[l] \in Int OBVIOUS
<1> HIDE DEF f, g, T
<1>6. f[T] = q[r] + f[S] BY <1>1, <1>2, <1>4, <1>5, TakeOut
<1>7. f[S] = g[S] BY <1>1, <1>2, <1>4, SumsAgree
<1>8. f[S] \in Int /\ q[r] \in Int BY <1>1, <1>2, <1>4, <1>5, SumsType
<1> QED BY <1>3, <1>6, <1>7, <1>8 DEF T

-----------------------------------------------------------------------------
(* What an order counts: its value, what it takes from the contract, its     *)
(* amendments and its running workflows.                                     *)

Counted ==
    /\ total \in [Orders -> Int]
    /\ utilized \in Int
    /\ amendments \in [Orders -> 0..MaxAmendments]
    /\ workflows \in [Orders -> Nat]
    /\ asn \in [Shipments -> {"NONE", "SHIPPED", "RECEIVED"}]

\* A workflow is started by the creation of an order or by an amendment of it.
WorkflowsStarted ==
    \A o \in Orders : IF po[o] = "NONE" THEN workflows[o] = 0
                      ELSE workflows[o] <= amendments[o] + 1

LEMMA InitCounted == Init => Counted /\ WorkflowsStarted
BY OrderAssumption DEF Init, OrderInit, Counted, WorkflowsStarted

\* The value of the lines of an order.
LEMMA OrderValue ==
    ASSUME NEW o, NEW q, \A l \in LinesOf(o) : q[l] \in Int
    PROVE  Value(q, LinesOf(o)) \in Int
<1>1. IsFiniteSet(LinesOf(o))
  <2>1. LinesOf(o) \subseteq Lines BY DEF LinesOf
  <2> QED BY <2>1, FS_Subset, OrderAssumption
<1> QED BY <1>1, ValueType

\* What the contract's utilised value and the running workflows become.
LEMMA UtilizeType ==
    ASSUME Counted, NEW o, NEW v \in Int, Utilize(o, v)
    PROVE  utilized' \in Int
BY DEF Counted, Utilize

LEMMA StartType ==
    ASSUME Counted, NEW o \in Orders, MayStartWorkflow(o)
    PROVE  /\ workflows' \in [Orders -> Nat]
           /\ workflows'[o] \in {workflows[o], workflows[o] + 1}
           /\ \A x \in Orders \ {o} : workflows'[x] = workflows[x]
BY DEF Counted, MayStartWorkflow

\* An order comes to exist, with at most one workflow.
LEMMA PlacedCounted ==
    ASSUME IInv, Counted, WorkflowsStarted, NEW o \in Orders, NEW q \in Quantities(o),
           Create(o, q) \/ ConvertRequisition(o, q), UNCHANGED asnVars
    PROVE  Counted' /\ WorkflowsStarted'
<1>1. Placed(o, q) BY DEF Create, ConvertRequisition
<1>2. Value(q, LinesOf(o)) \in Int
  <2>1. \A l \in LinesOf(o) : q[l] \in Int BY OrderAssumption DEF Quantities
  <2> QED BY <2>1, OrderValue
<1>3. /\ total' = [total EXCEPT ![o] = Value(q, LinesOf(o))] /\ amendments' = amendments
      /\ po[o] = "NONE" /\ workflows[o] = 0
  BY <1>1 DEF Placed, WorkflowsStarted
<1>4. total' \in [Orders -> Int] /\ total'[o] \in Int BY <1>2, <1>3 DEF Counted
<1>5. utilized' \in Int
  <2>1. CASE Create(o, q) BY <1>4, <2>1, UtilizeType DEF Create
  <2>2. CASE ConvertRequisition(o, q) BY <2>2 DEF ConvertRequisition, Counted
  <2> QED BY <2>1, <2>2
<1>6. /\ workflows' \in [Orders -> Nat] /\ workflows'[o] \in {0, 1}
      /\ \A x \in Orders \ {o} : workflows'[x] = workflows[x]
  <2>1. workflows' = workflows \/ MayStartWorkflow(o) BY DEF Create, ConvertRequisition
  <2>2. CASE workflows' = workflows BY <1>3, <2>2 DEF Counted
  <2>3. CASE MayStartWorkflow(o)
    <3>1. workflows[o] + 1 = 1 BY <1>3
    <3> QED BY <1>3, <2>3, <3>1, StartType
  <2> QED BY <2>1, <2>2, <2>3
<1>7. po'[o] # "NONE" /\ \A x \in Orders \ {o} : po'[x] = po[x]
  BY DEF Create, ConvertRequisition, IInv, Typed
<1>8. Counted' BY <1>3, <1>4, <1>5, <1>6 DEF Counted, asnVars
<1>9. amendments[o] \in Nat BY OrderAssumption DEF Counted
<1>10. WorkflowsStarted' BY <1>3, <1>6, <1>7, <1>9 DEF WorkflowsStarted
<1> QED BY <1>8, <1>10

\* An amendment counts, and starts at most one workflow.
LEMMA AmendedCounted ==
    ASSUME IInv, Counted, WorkflowsStarted, NEW o \in Orders, NEW v \in Int, Amended(o, v),
           total' \in [Orders -> Int], UNCHANGED asnVars
    PROVE  Counted' /\ WorkflowsStarted'
<1>1. /\ po[o] # "NONE" /\ amendments[o] < MaxAmendments
      /\ amendments' = [amendments EXCEPT ![o] = amendments[o] + 1]
      /\ workflows' = workflows \/ MayStartWorkflow(o)
  BY DEF Amended
<1>2. amendments[o] \in Nat /\ MaxAmendments \in Nat /\ amendments[o] \in 0..MaxAmendments
  BY OrderAssumption DEF Counted
<1>3. /\ amendments' \in [Orders -> 0..MaxAmendments] /\ amendments'[o] = amendments[o] + 1
      /\ \A x \in Orders \ {o} : amendments'[x] = amendments[x]
  BY <1>1, <1>2 DEF Counted
<1>4. utilized' \in Int
  <2>1. Utilize(o, v) \/ utilized' = utilized BY DEF Amended
  <2> QED BY <2>1, UtilizeType DEF Counted
<1>5. /\ workflows' \in [Orders -> Nat] /\ workflows'[o] \in {workflows[o], workflows[o] + 1}
      /\ \A x \in Orders \ {o} : workflows'[x] = workflows[x]
  <2>1. CASE workflows' = workflows BY <2>1 DEF Counted
  <2> QED BY <1>1, <2>1, StartType
<1>6. po'[o] # "NONE" /\ \A x \in Orders \ {o} : po'[x] = po[x]
  <2>1. po \in [Orders -> POStatus] BY DEF IInv, Typed
  <2>2. po' = [po EXCEPT ![o] = "PENDING_APPROVAL"] \/ po' = [po EXCEPT ![o] = "AMENDED"]
    BY DEF Amended
  <2> QED BY <2>1, <2>2
<1>7. Counted' BY <1>3, <1>4, <1>5 DEF Counted, asnVars
<1>8. workflows[o] \in Nat /\ workflows[o] <= amendments[o] + 1
  BY <1>1 DEF Counted, WorkflowsStarted
<1>9. workflows'[o] <= amendments'[o] + 1 BY <1>2, <1>3, <1>5, <1>8
<1>10. WorkflowsStarted' BY <1>3, <1>5, <1>6, <1>9 DEF WorkflowsStarted
<1> QED BY <1>7, <1>10

\* Whatever neither creates nor amends an order leaves its counts alone or ends
\* a workflow.
LEMMA KeptCounted ==
    ASSUME IInv, Counted, WorkflowsStarted, UNCHANGED <<total, amendments>>,
           utilized' \in Int, workflows' \in [Orders -> Nat],
           asn' \in [Shipments -> {"NONE", "SHIPPED", "RECEIVED"}],
           \A o \in Orders : workflows'[o] <= workflows[o] /\ (po'[o] = "NONE" <=> po[o] = "NONE")
    PROVE  Counted' /\ WorkflowsStarted'
<1>1. Counted' BY DEF Counted
<1>2. \A o \in Orders : workflows[o] \in Nat /\ workflows'[o] \in Nat /\ amendments[o] \in Nat
  BY OrderAssumption DEF Counted
<1>3. WorkflowsStarted' BY <1>2 DEF WorkflowsStarted
<1> QED BY <1>1, <1>3

\* Every operation, on orders and on receipts.
LEMMA OrderCounted ==
    ASSUME IInv, Counted, WorkflowsStarted, OrderNext, UNCHANGED <<grnVars, asnVars>>
    PROVE  Counted' /\ WorkflowsStarted'
<1> PICK o \in Orders :
        \/ \E q \in Quantities(o) : Create(o, q) \/ ConvertRequisition(o, q)
        \/ Approve(o) \/ Reject(o) \/ WorkflowEnds(o)
        \/ SendToVendor(o) \/ RecordVendorAcknowledgement(o)
        \/ \E l \in LinesOf(o), n \in 0..MaxQuantity : AmendLine(o, l, n)
        \/ \E v \in ValueChanges : AmendValue(o, v)
        \/ ClosePO(o) \/ CancelPO(o)
  BY DEF OrderNext
<1>t. /\ po \in [Orders -> POStatus] /\ total[o] \in Int /\ asnVars' = asnVars
      /\ workflows \in [Orders -> Nat] /\ asn' \in [Shipments -> {"NONE", "SHIPPED", "RECEIVED"}]
  BY DEF IInv, Typed, Counted, asnVars
<1>1. CASE \E q \in Quantities(o) : Create(o, q) \/ ConvertRequisition(o, q)
  BY <1>1, <1>t, PlacedCounted
<1>2. CASE \/ Approve(o) \/ Reject(o) \/ SendToVendor(o)
           \/ RecordVendorAcknowledgement(o) \/ ClosePO(o) \/ CancelPO(o)
  <2>1. PICK st : Moves(o, st)
    BY <1>2 DEF Approve, Reject, SendToVendor, RecordVendorAcknowledgement, ClosePO, CancelPO
  <2>2. utilized' \in Int
    <3>1. Utilize(o, -total[o]) \/ utilized' = utilized
      BY <1>2 DEF Approve, Reject, SendToVendor, RecordVendorAcknowledgement, ClosePO, CancelPO
    <3>2. -total[o] \in Int BY <1>t
    <3> QED BY <3>1, <3>2, UtilizeType DEF Counted
  <2>3. st # "NONE" /\ po[o] # "NONE"
    BY <1>t, <2>1, MovesTyped, NothingFromNone DEF Moves
  <2>4. \A x \in Orders : po'[x] = "NONE" <=> po[x] = "NONE" BY <1>t, <2>1, <2>3 DEF Moves
  <2>5. UNCHANGED <<total, amendments, workflows>> BY <2>1 DEF Moves
  <2> QED BY <1>t, <2>2, <2>4, <2>5, KeptCounted
<1>3. CASE WorkflowEnds(o)
  <2>1. /\ workflows' = [workflows EXCEPT ![o] = workflows[o] - 1] /\ workflows[o] > 0
        /\ UNCHANGED <<total, amendments, utilized>>
    BY <1>3 DEF WorkflowEnds
  <2>2. workflows[o] - 1 \in Nat /\ workflows[o] - 1 <= workflows[o] BY <1>t, <2>1
  <2>3. workflows' \in [Orders -> Nat] /\ \A x \in Orders : workflows'[x] <= workflows[x]
    BY <1>t, <2>1, <2>2
  <2>4. \A x \in Orders : po'[x] = "NONE" <=> po[x] = "NONE"
    BY <1>3, <1>t, <2>1 DEF WorkflowEnds
  <2> QED BY <1>t, <2>1, <2>3, <2>4, KeptCounted DEF Counted
<1>4. CASE \E l \in LinesOf(o), n \in 0..MaxQuantity : AmendLine(o, l, n)
  <2> PICK l \in LinesOf(o), n \in 0..MaxQuantity : AmendLine(o, l, n) BY <1>4
  <2> DEFINE q == [ordered EXCEPT ![l] = n]
  <2>1. Value(q, LinesOf(o)) \in Int
    <3>1. \A k \in LinesOf(o) : q[k] \in Int
      BY OrderAssumption DEF IInv, Typed, LinesOf
    <3> HIDE DEF q
    <3> QED BY <3>1, OrderValue
  <2>2. /\ Amended(o, Value(q, LinesOf(o)) - total[o])
        /\ total' = [total EXCEPT ![o] = Value(q, LinesOf(o))]
    BY DEF AmendLine
  <2> HIDE DEF q
  <2>3. Value(q, LinesOf(o)) - total[o] \in Int BY <1>t, <2>1
  <2>4. total' \in [Orders -> Int] BY <2>1, <2>2 DEF Counted
  <2> QED BY <1>t, <2>2, <2>3, <2>4, AmendedCounted
<1>5. CASE \E v \in ValueChanges : AmendValue(o, v)
  <2> PICK v \in ValueChanges : AmendValue(o, v) BY <1>5
  <2>1. v \in Int BY OrderAssumption
  <2>2. Amended(o, v) /\ total' = [total EXCEPT ![o] = total[o] + v] BY DEF AmendValue
  <2>3. total' \in [Orders -> Int] BY <1>t, <2>1, <2>2 DEF Counted
  <2> QED BY <1>t, <2>1, <2>2, <2>3, AmendedCounted
<1> QED BY <1>1, <1>2, <1>3, <1>4, <1>5

LEMMA NextCounted ==
    ASSUME IInv, Counted, WorkflowsStarted, [Next]_vars
    PROVE  Counted' /\ WorkflowsStarted'
<1>1. CASE OrderNext /\ UNCHANGED <<grnVars, asnVars>> BY <1>1, OrderCounted
<1>2. ASSUME /\ UNCHANGED <<total, amendments, workflows, utilized>>
             /\ asn' \in [Shipments -> {"NONE", "SHIPPED", "RECEIVED"}]
             /\ \/ UNCHANGED po
                \/ \E o \in Orders, st \in {"FULLY_RECEIVED", "PARTIALLY_RECEIVED"} :
                      st \in PO_FSM[po[o]] /\ po' = [po EXCEPT ![o] = st]
      PROVE  Counted' /\ WorkflowsStarted'
  <2>1. \A o \in Orders : po'[o] = "NONE" <=> po[o] = "NONE"
    BY <1>2, NothingFromNone DEF IInv, Typed
  <2>2. /\ utilized' \in Int /\ workflows' \in [Orders -> Nat]
        /\ \A o \in Orders : workflows'[o] <= workflows[o]
    BY <1>2 DEF Counted
  <2> QED BY <1>2, <2>1, <2>2, KeptCounted
<1>3. ASSUME NEW o \in Orders, NEW q, RecordReceipt(o, q)
      PROVE  /\ UNCHANGED <<total, amendments, workflows, utilized>>
             /\ \/ UNCHANGED po
                \/ \E st \in {"FULLY_RECEIVED", "PARTIALLY_RECEIVED"} :
                      st \in PO_FSM[po[o]] /\ po' = [po EXCEPT ![o] = st]
  BY <1>3 DEF RecordReceipt
<1>4. UNCHANGED asn => asn' \in [Shipments -> {"NONE", "SHIPPED", "RECEIVED"}]
  BY DEF Counted
<1>5. CASE \E r \in Receipts, o \in Orders, q \in [Lines -> 0..MaxQuantity],
              S \in SUBSET Lines : CreateGrn(r, o, q, S)
  BY <1>2, <1>4, <1>5 DEF CreateGrn, orderVars, asnVars
<1>6. CASE \E r \in Receipts, l \in Lines, n \in 0..MaxQuantity : QualityInspection(r, l, n)
  BY <1>2, <1>4, <1>6 DEF QualityInspection, orderVars, asnVars
<1>7. CASE \E r \in Receipts : ConfirmGrn(r)
  <2> PICK r \in Receipts : ConfirmGrn(r) BY <1>7
  <2>1. against[r] \in Orders /\ UNCHANGED asn BY DEF IInv, Typed, ConfirmGrn, asnVars
  <2>2. UNCHANGED orderVars \/ RecordReceipt(against[r], accepted[r]) BY DEF ConfirmGrn
  <2>3. CASE UNCHANGED orderVars BY <1>2, <1>4, <2>1, <2>3 DEF orderVars
  <2>4. CASE RecordReceipt(against[r], accepted[r]) BY <1>2, <1>3, <1>4, <2>1, <2>4
  <2> QED BY <2>2, <2>3, <2>4
<1>8. CASE \E r \in Receipts : CancelGrn(r)
  BY <1>2, <1>4, <1>8 DEF CancelGrn, orderVars, asnVars
<1>9. CASE \E r \in Receipts, a \in Shipments : FastGrnIntake(a, r)
  <2> PICK r \in Receipts, a \in Shipments : FastGrnIntake(a, r) BY <1>9
  <2>1. shipped[a].order \in Orders BY DEF IInv, Typed
  <2>2. RecordReceipt(shipped[a].order, shipped[a].quantity) BY DEF FastGrnIntake
  <2>3. asn' \in [Shipments -> {"NONE", "SHIPPED", "RECEIVED"}]
    BY DEF FastGrnIntake, Counted
  <2> QED BY <1>2, <1>3, <2>1, <2>2, <2>3
<1>10. CASE \E a \in Shipments, o \in Orders, q \in [Lines -> 0..MaxQuantity] :
               CreateAsn(a, o, q)
  <2>1. asn' \in [Shipments -> {"NONE", "SHIPPED", "RECEIVED"}] /\ UNCHANGED orderVars
    BY <1>10 DEF CreateAsn, Counted
  <2> QED BY <1>2, <2>1 DEF orderVars
<1>11. CASE UNCHANGED vars
  BY <1>2, <1>4, <1>11 DEF vars, orderVars, asnVars
<1> QED BY <1>1, <1>5, <1>6, <1>7, <1>8, <1>9, <1>10, <1>11 DEF Next

-----------------------------------------------------------------------------
(* What the confirmed receipts accepted.                                    *)

\* No receipt of the line was confirmed twice or inspected once confirmed.
Untouched(l) == \A r \in again : arrived[r][l] = 0

Accounted ==
    /\ again \subseteq Counting
    /\ \A l \in Lines : Untouched(l) => received[l] = AcceptedOf(l)

LEMMA InitAccounted == Init => Accounted
<1> SUFFICES ASSUME Init PROVE Accounted OBVIOUS
<1>1. Counting = {} /\ again = {} BY DEF Init, Counting
<1>2. ASSUME NEW l \in Lines PROVE received[l] = AcceptedOf(l)
  <2> DEFINE q == [r \in Receipts |-> accepted[r][l]]
             f == CHOOSE h : Sums(h, q, {})
  <2>1. Sums(f, q, {})
    <3>1. IsFiniteSet({}) BY FS_EmptySet
    <3> HIDE DEF q
    <3> QED BY <3>1, SumExists
  <2>2. AcceptedOf(l) = f[{}]
    <3>1. AcceptedOf(l) = Value(q, {}) BY <1>1 DEF AcceptedOf
    <3> HIDE DEF q
    <3> QED BY <3>1, ValueIs
  <2> HIDE DEF f, q
  <2>3. f[{}] = 0 BY <2>1, SumStep DEF Unrolled
  <2> QED BY <2>2, <2>3 DEF Init, OrderInit
<1> QED BY <1>1, <1>2 DEF Accounted

\* The same receipts count, for as much.
LEMMA SameAccount ==
    ASSUME NEW l, Counting' = Counting, \A k \in Counting : accepted'[k][l] = accepted[k][l]
    PROVE  AcceptedOf(l)' = AcceptedOf(l)
<1> DEFINE q == [k \in Receipts |-> accepted[k][l]]
           p == [k \in Receipts |-> accepted'[k][l]]
<1>1. AcceptedOf(l) = Value(q, Counting) /\ AcceptedOf(l)' = Value(p, Counting)
  BY DEF AcceptedOf
<1>2. IsFiniteSet(Counting) /\ \A k \in Counting : p[k] = q[k]
  BY FS_Subset, ReceivingAssumption DEF Counting
<1> HIDE DEF p, q
<1>3. Value(p, Counting) = Value(q, Counting) BY <1>2, ValueSame
<1> QED BY <1>1, <1>3

\* Receipt r counts from now on.
LEMMA MoreAccount ==
    ASSUME NEW l, NEW r \in Receipts \ Counting, Counting' = Counting \cup {r},
           \A k \in Counting : accepted'[k][l] = accepted[k][l],
           \A k \in Receipts : accepted'[k][l] \in Nat
    PROVE  AcceptedOf(l)' = AcceptedOf(l) + accepted'[r][l]
<1> DEFINE q == [k \in Receipts |-> accepted[k][l]]
           p == [k \in Receipts |-> accepted'[k][l]]
           S == Counting
<1>1. AcceptedOf(l) = Value(q, S) /\ AcceptedOf(l)' = Value(p, S \cup {r})
  BY DEF AcceptedOf
<1>2. /\ IsFiniteSet(S) /\ r \notin S /\ p[r] = accepted'[r][l]
      /\ \A k \in S : p[k] = q[k]
      /\ \A k \in S \cup {r} : p[k] \in Int
  BY FS_Subset, ReceivingAssumption DEF Counting
<1> HIDE DEF p, q, S
<1>3. Value(p, S \cup {r}) = Value(p, S) + p[r] BY <1>2, ValueMore
<1>4. Value(p, S) = Value(q, S) BY <1>2, ValueSame
<1> QED BY <1>1, <1>2, <1>3, <1>4

\* Nothing that counts changes.
LEMMA KeptAccounted ==
    ASSUME IInv, Accounted, UNCHANGED <<received, again>>, Counting' = Counting,
           \A k \in Counting : arrived'[k] = arrived[k] /\ accepted'[k] = accepted[k]
    PROVE  Accounted'
<1>1. again' \subseteq Counting' BY DEF Accounted
<1>2. ASSUME NEW l \in Lines, Untouched(l)' PROVE received'[l] = AcceptedOf(l)'
  <2>1. Untouched(l) BY <1>2 DEF Untouched, Accounted
  <2>2. AcceptedOf(l)' = AcceptedOf(l) BY SameAccount
  <2> QED BY <2>1, <2>2 DEF Accounted
<1> QED BY <1>1, <1>2 DEF Accounted

LEMMA OrderAccounted ==
    ASSUME IInv, Accounted, OrderNext, UNCHANGED <<grnVars, asnVars>>
    PROVE  Accounted'
<1>1. UNCHANGED received
  <2>1. ASSUME NEW o, NEW st, Moves(o, st) PROVE UNCHANGED received BY <2>1 DEF Moves, lineVars
  <2>2. ASSUME NEW o, NEW q, Create(o, q) \/ ConvertRequisition(o, q) PROVE UNCHANGED received
    BY <2>2 DEF Create, ConvertRequisition, Placed
  <2>3. ASSUME NEW o, WorkflowEnds(o) PROVE UNCHANGED received BY <2>3 DEF WorkflowEnds, lineVars
  <2>4. ASSUME NEW o, NEW l, NEW n, AmendLine(o, l, n) PROVE UNCHANGED received
    BY <2>4 DEF AmendLine
  <2>5. ASSUME NEW o, NEW v, AmendValue(o, v) PROVE UNCHANGED received
    BY <2>5 DEF AmendValue, lineVars
  <2>6. ASSUME NEW o, \/ Approve(o) \/ Reject(o) \/ SendToVendor(o)
                     \/ RecordVendorAcknowledgement(o) \/ ClosePO(o) \/ CancelPO(o)
        PROVE  \E st : Moves(o, st)
    BY <2>6 DEF Approve, Reject, SendToVendor, RecordVendorAcknowledgement, ClosePO, CancelPO
  <2> QED BY <2>1, <2>2, <2>3, <2>4, <2>5, <2>6 DEF OrderNext
<1>2. Counting' = Counting BY DEF Counting, grnVars
<1> QED BY <1>1, <1>2, KeptAccounted DEF grnVars

LEMMA NextAccounted ==
    ASSUME IInv, Accounted, [Next]_vars
    PROVE  Accounted'
<1>t. Typed BY DEF IInv
<1>1. CASE OrderNext /\ UNCHANGED <<grnVars, asnVars>> BY <1>1, OrderAccounted
<1>2. ASSUME NEW r \in Receipts, NEW o \in Orders, NEW q \in [Lines -> 0..MaxQuantity],
             NEW S \in SUBSET Lines, CreateGrn(r, o, q, S)
      PROVE  Accounted'
  <2>1. PICK st \in {"DRAFT", "PENDING_QC"} : Noted(r, o, q, S, st) BY <1>2 DEF CreateGrn
  <2>2. /\ UNCHANGED <<received, again>> /\ grn[r] = "NONE"
        /\ grn' = [grn EXCEPT ![r] = st]
        /\ \A k \in Receipts \ {r} : arrived'[k] = arrived[k] /\ accepted'[k] = accepted[k]
    BY <1>2, <1>t, <2>1 DEF CreateGrn, Noted, orderVars, lineVars, Typed
  <2>3. Counting' = Counting /\ r \notin Counting BY <1>t, <2>2 DEF Counting, Typed
  <2>4. Counting \subseteq Receipts BY DEF Counting
  <2> QED BY <2>2, <2>3, <2>4, KeptAccounted
<1>3. ASSUME NEW r \in Receipts, NEW k \in Lines, NEW n \in 0..MaxQuantity,
             QualityInspection(r, k, n)
      PROVE  Accounted'
  <2>1. /\ UNCHANGED <<received, arrived>> /\ arrived[r][k] > 0
        /\ accepted' = [accepted EXCEPT ![r][k] = n] /\ Again(r)
    BY <1>3 DEF QualityInspection, orderVars, lineVars
  <2>2. Counting' = Counting BY <1>3, <1>t DEF QualityInspection, Counting, Typed, GrnStatus
  <2>3. again \subseteq again' /\ again' \subseteq again \cup {r} /\ (r \in Counting => r \in again')
    BY <2>1 DEF Again, Counting
  <2>4. again' \subseteq Counting'
    BY <2>1, <2>2 DEF Again, Counting, Accounted
  <2>5. ASSUME NEW l \in Lines, Untouched(l)' PROVE received'[l] = AcceptedOf(l)'
    <3>1. Untouched(l) BY <2>1, <2>3, <2>5 DEF Untouched
    <3>2. r \in Counting => arrived[r][l] = 0 BY <2>1, <2>3, <2>5 DEF Untouched
    <3>3. \A j \in Counting : accepted'[j][l] = accepted[j][l]
      <4> SUFFICES ASSUME NEW j \in Counting PROVE accepted'[j][l] = accepted[j][l] OBVIOUS
      <4>1. j = r => l # k BY <2>1, <3>2
      <4>2. j \in Receipts BY DEF Counting
      <4> QED BY <1>t, <2>1, <4>1, <4>2 DEF Typed
    <3>4. AcceptedOf(l)' = AcceptedOf(l) BY <2>2, <3>3, SameAccount
    <3> QED BY <2>1, <3>1, <3>4 DEF Accounted
  <2> QED BY <2>4, <2>5 DEF Accounted
<1>4. ASSUME NEW r \in Receipts, ConfirmGrn(r) PROVE Accounted'
  <2>1. /\ UNCHANGED <<arrived, accepted>> /\ grn' = [grn EXCEPT ![r] = "CONFIRMED"] /\ Again(r)
    BY <1>4 DEF ConfirmGrn
  <2>2. Counting' = Counting \cup {r} BY <1>t, <2>1 DEF Counting, Typed
  <2>3. \A l \in Lines : received'[l] = received[l] + accepted[r][l]
    <3>1. CASE accepted[r] = Nothing
      <4>1. received' = received BY <1>4, <3>1 DEF ConfirmGrn, orderVars, lineVars
      <4> QED BY <1>t, <3>1, <4>1 DEF Typed, Nothing
    <3>2. CASE accepted[r] # Nothing
      <4>1. RecordReceipt(against[r], accepted[r]) BY <1>4, <3>2 DEF ConfirmGrn
      <4>2. received' = [l \in Lines |-> received[l] + accepted[r][l]] BY <4>1 DEF RecordReceipt
      <4> QED BY <4>2
    <3> QED BY <3>1, <3>2
  <2>4. again \subseteq again' /\ again' \subseteq Counting' /\ (r \in Counting => r \in again')
    BY <2>1, <2>2 DEF Again, Counting, Accounted
  <2>5. ASSUME NEW l \in Lines, Untouched(l)' PROVE received'[l] = AcceptedOf(l)'
    <3>1. Untouched(l) BY <2>1, <2>4, <2>5 DEF Untouched
    <3>2. received[l] = AcceptedOf(l) BY <3>1 DEF Accounted
    <3>3. CASE r \in Counting
      <4>1. arrived[r][l] = 0 BY <2>1, <2>4, <2>5, <3>3 DEF Untouched
      <4>2. accepted[r][l] = 0
        <5>1. ~(accepted[r][l] > 0) BY <4>1 DEF IInv, AcceptedArrived
        <5>2. accepted[r][l] \in Nat BY <1>t DEF Typed
        <5> QED BY <5>1, <5>2
      <4>3. received'[l] = received[l] BY <1>t, <2>3, <4>2 DEF Typed
      <4>4. AcceptedOf(l)' = AcceptedOf(l) BY <2>1, <2>2, <3>3, SameAccount
      <4> QED BY <3>2, <4>3, <4>4
    <3>4. CASE r \notin Counting
      <4>1. \A j \in Receipts : accepted'[j][l] \in Nat BY <1>t, <2>1 DEF Typed
      <4>2. AcceptedOf(l)' = AcceptedOf(l) + accepted'[r][l] BY <2>1, <2>2, <3>4, <4>1, MoreAccount
      <4> QED BY <2>1, <2>3, <3>2, <4>2
    <3> QED BY <3>3, <3>4
  <2> QED BY <2>4, <2>5 DEF Accounted
<1>5. ASSUME NEW r \in Receipts, CancelGrn(r) PROVE Accounted'
  <2>1. Counting' = Counting BY <1>5, <1>t DEF CancelGrn, Counting, Typed
  <2> QED BY <1>5, <2>1, KeptAccounted DEF CancelGrn, orderVars, lineVars
<1>6. ASSUME NEW r \in Receipts, NEW a \in Shipments, FastGrnIntake(a, r) PROVE Accounted'
  <2> DEFINE q == shipped[a].quantity
             o == shipped[a].order
  <2>1. q \in [Lines -> Nat] /\ Noted(r, o, q, {}, "CONFIRMED") /\ RecordReceipt(o, q)
    BY <1>6, <1>t DEF FastGrnIntake, Typed
  <2> HIDE DEF q, o
  <2>2. /\ UNCHANGED again /\ grn[r] = "NONE" /\ grn' = [grn EXCEPT ![r] = "CONFIRMED"]
        /\ arrived' = [arrived EXCEPT ![r] = q]
        /\ accepted' = [accepted EXCEPT ![r] = [l \in Lines |-> q[l]]]
    BY <2>1 DEF Noted
  <2>3. received' = [l \in Lines |-> received[l] + q[l]] BY <2>1 DEF RecordReceipt
  <2>4. Counting' = Counting \cup {r} /\ r \in Receipts \ Counting BY <1>t, <2>2 DEF Counting, Typed
  <2>5. again' \subseteq Counting' BY <2>2, <2>4 DEF Accounted
  <2>6. ASSUME NEW l \in Lines, Untouched(l)' PROVE received'[l] = AcceptedOf(l)'
    <3>1. \A j \in again : j # r /\ arrived'[j] = arrived[j] BY <1>t, <2>2, <2>4 DEF Accounted, Typed
    <3>2. Untouched(l) BY <2>2, <2>6, <3>1 DEF Untouched
    <3>3. \A j \in Receipts : accepted'[j][l] \in Nat BY <1>t, <2>1, <2>2 DEF Typed
    <3>4. \A j \in Counting : accepted'[j][l] = accepted[j][l] BY <1>t, <2>2, <2>4 DEF Typed
    <3>5. accepted'[r][l] = q[l] BY <1>t, <2>2 DEF Typed
    <3>6. AcceptedOf(l)' = AcceptedOf(l) + accepted'[r][l] BY <2>4, <3>3, <3>4, MoreAccount
    <3> QED BY <2>3, <3>2, <3>5, <3>6 DEF Accounted
  <2> QED BY <2>5, <2>6 DEF Accounted
<1>7. CASE \E a \in Shipments, o \in Orders, q \in [Lines -> 0..MaxQuantity] :
              CreateAsn(a, o, q)
  <2>1. UNCHANGED <<orderVars, grnVars>> BY <1>7 DEF CreateAsn
  <2>2. Counting' = Counting BY <2>1 DEF Counting, grnVars
  <2> QED BY <2>1, <2>2, KeptAccounted DEF orderVars, lineVars, grnVars
<1>8. CASE UNCHANGED vars
  <2>1. Counting' = Counting BY <1>8 DEF Counting, vars, grnVars
  <2> QED BY <1>8, <2>1, KeptAccounted DEF vars, orderVars, lineVars, grnVars
<1> QED BY <1>1, <1>2, <1>3, <1>4, <1>5, <1>6, <1>7, <1>8 DEF Next

-----------------------------------------------------------------------------
(* The theorems.                                                            *)

\* Every variable keeps its type.  An order never has more approval workflows
\* running than it was amended and created, and values stay whole numbers
\* through amendments and cancellations (amend_po, cancel_po).
THEOREM ReceivingTypeCorrect == Spec => []TypeOK
<1>1. Init => Counted /\ WorkflowsStarted BY InitCounted
<1>2. IInv /\ (Counted /\ WorkflowsStarted) /\ [Next]_vars => (Counted /\ WorkflowsStarted)'
  BY NextCounted
<1>3. IInv /\ Accounted /\ Counted /\ WorkflowsStarted => TypeOK
  <2> SUFFICES ASSUME IInv, Accounted, Counted, WorkflowsStarted PROVE TypeOK OBVIOUS
  <2>1. ASSUME NEW o \in Orders PROVE workflows[o] \in 0..MaxAmendments + 1
    <3>1. /\ workflows[o] \in Nat /\ amendments[o] \in 0..MaxAmendments /\ MaxAmendments \in Nat
          /\ workflows[o] = 0 \/ workflows[o] <= amendments[o] + 1
      BY OrderAssumption DEF Counted, WorkflowsStarted
    <3> QED BY <3>1
  <2>2. workflows \in [Orders -> 0..MaxAmendments + 1] BY <2>1 DEF Counted
  <2>3. again \subseteq Receipts BY DEF Accounted, Counting
  <2> QED BY <2>2, <2>3 DEF TypeOK, OrderTypeOK, IInv, Typed, Counted
<1>4. Init => Accounted BY InitAccounted
<1>5. IInv /\ Accounted /\ [Next]_vars => Accounted' BY NextAccounted
<1> QED BY <1>1, <1>2, <1>3, <1>4, <1>5, SpecInv, PTL DEF Spec

\* However orders are amended, inspected and received, the open quantity that
\* create_grn and create_asn test against is what was ordered less what the
\* confirmed receipts accepted, for every line whose receipts were confirmed once
\* and not inspected afterwards.
THEOREM OpenIsWhatIsMissingHolds == Spec => []OpenIsWhatIsMissing
<1>1. Init => Accounted BY InitAccounted
<1>2. IInv /\ Accounted /\ [Next]_vars => Accounted' BY NextAccounted
<1>3. IInv /\ Accounted => OpenIsWhatIsMissing
  <2> SUFFICES ASSUME IInv, Accounted, NEW l \in Lines, Untouched(l)
               PROVE  open[l] = Missing(ordered[l], AcceptedOf(l))
    BY DEF OpenIsWhatIsMissing, Untouched
  <2>1. received[l] = AcceptedOf(l) BY DEF Accounted
  <2>2. open[l] \in Nat /\ ordered[l] \in Nat /\ received[l] \in Nat BY DEF IInv, Typed
  <2>3. open[l] = Missing(ordered[l], received[l])
    BY <2>2 DEF IInv, OpenComplements, Missing
  <2> QED BY <2>1, <2>3
<1> QED BY <1>1, <1>2, <1>3, SpecInv, PTL DEF Spec

\* No amendment, no receipt of another order and no late inspection leaves an
\* order fully received or closed (close_po) while something is missing.
THEOREM CompleteWhenClosedHolds == Spec => []CompleteWhenClosed
<1>1. IInv => CompleteWhenClosed
  BY DEF IInv
<1> QED BY <1>1, SpecInv, PTL

\* Whatever an order counts as received is on a receipt that is confirmed and
\* stays so, with no line waiting for inspection (confirm_grn, cancel_grn).
THEOREM ReceivedIsConfirmedHolds == Spec => []ReceivedIsConfirmed
<1>1. IInv => ReceivedIsConfirmed
  BY DEF IInv
<1> QED BY <1>1, SpecInv, PTL
=============================================================================
