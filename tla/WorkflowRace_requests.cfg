SPECIFICATION FairSpec
CONSTANTS
  ann = ann
  bob = bob
  cat = cat
  s1 = s1
  s2 = s2
  NoUser = NoUser
  Sessions <- TwoSessions
  Requests <- Operations
  Users <- People
  Makers <- NoMakers
  NumSteps = 2
  Timed <- NoSteps
  StepType <- QuorumThenOne
  Convergence <- QuorumOf
  Quorum <- TwoOfThree
  Condition <- AlwaysMet
  Resolved <- ThreeThenOne
  Escalation <- NoEscalation
  Delegation <- Himself
  EscalationAdmin = NoUser
INVARIANTS
  TypeOK
  NoLockCycle
PROPERTIES
  DecidedOnce
  EveryRequestEnds
CHECK_DEADLOCK FALSE
