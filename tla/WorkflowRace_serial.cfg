SPECIFICATION Spec
CONSTANTS
  ann = ann
  bob = bob
  cat = cat
  s1 = s1
  s2 = s2
  NoUser = NoUser
  Sessions <- OneSession
  Requests <- Operations
  Users <- People
  Makers <- NoMakers
  NumSteps = 3
  Timed <- NoSteps
  StepType <- AllThenOneThenNobody
  Convergence <- AllOfThree
  Quorum <- Ones
  Condition <- AlwaysMet
  Resolved <- TwoThenOneThenNobody
  Escalation <- NoEscalation
  Delegation <- Himself
  EscalationAdmin = NoUser
PROPERTIES
  SerialIsAtomic
CHECK_DEADLOCK FALSE
