SPECIFICATION Spec
CONSTANTS
  o1 = o1
  l1 = l1
  l2 = l2
  r1 = r1
  r2 = r2
  a1 = a1
  Orders = {o1}
  Lines = {l1, l2}
  OrderOf <- TwoLines
  Contracted = {}
  ContractValue = 2
  AutoApprove = 1
  ReapprovalPct = 10
  MaxQuantity = 1
  ValueChanges = {0}
  MaxAmendments = 1
  Receipts = {r1, r2}
  Shipments = {a1}
  MaxReceived = 2
INVARIANTS
  OpenIsAsSpecified
CHECK_DEADLOCK FALSE
SYMMETRY ReceiptSymmetry
