SPECIFICATION FairSpec
CONSTANTS
  maker = maker
  ann = ann
  bob = bob
  cat = cat
  NoUser = NoUser
  Users <- People
  Makers <- MakerOnly
  NumSteps = 4
  StepType <- Types
  Convergence <- ConvergenceOf
  Quorum <- QuorumOf
  Condition <- Applies
  Timed <- LateStep
  Resolved <- ResolvedFor
  Escalation <- EscalationOf
  Delegation <- Delegates
  EscalationAdmin = maker
INVARIANTS
  TypeOK
  NoStepBypassed
  EntityFollowsInstance
  OpenTasksAtCurrentStep
  SomebodyToAct
  RejectedBySomebody
  MakerNeverApproves
PROPERTIES
  KeepsPromise
  NeglectedTaskTurnsCritical
CHECK_DEADLOCK FALSE
