SPECIFICATION Spec
CONSTANTS
  ann = ann
  bob = bob
  cat = cat
  s1 = s1
  s2 = s2
  NoUser = NoUser
  Sessions <- TwoSessions
  Requests <- Approvals
  Users <- People
  Makers <- NoMakers
  NumSteps = 2
  Timed <- NoSteps
  StepType <- AllThenOne
  Convergence <- AllOf
  Quorum <- Ones
  Condition <- AlwaysMet
  Resolved <- TwoThenOne
  Escalation <- NoEscalation
  Delegation <- Himself
  EscalationAdmin = NoUser
INVARIANTS
  LastApprovalConverges
CHECK_DEADLOCK FALSE
