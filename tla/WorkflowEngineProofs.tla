------------------------- MODULE WorkflowEngineProofs -------------------------
(***************************************************************************)
(* Proofs about the workflow engine, for every template, directory and     *)
(* document that TemplateAssumption allows.                                *)
(***************************************************************************)
EXTENDS WorkflowEngine, FiniteSetTheorems, WellFoundedInduction, TLAPS

-----------------------------------------------------------------------------
(* The operators the engine is built from.                                  *)

\* A non-empty set of naturals has a least element, the one Min chooses.
LEMMA MinIsLeast ==
    ASSUME NEW S, S \subseteq Nat, S # {}
    PROVE  Min(S) \in S /\ \A x \in S : Min(S) <= x
<1> DEFINE Upto == {1..x : x \in S}
           R == StrictSubsetOrdering(Nat)
<1>1. \A x \in S : 1..x \in SUBSET Nat /\ IsFiniteSet(1..x)
  <2>1. ASSUME NEW x \in S PROVE IsFiniteSet(1..x)
    BY FS_Interval, x \in Int, 1 \in Int
  <2> QED BY <2>1
<1>2. \E T \in Upto : \A U \in Upto : ~(<<U, T>> \in R)
  <2>1. IsWellFoundedOn(R, FiniteSubsetsOf(Nat)) BY FS_StrictSubsetOrderingWellFounded
  <2>2. Upto \subseteq FiniteSubsetsOf(Nat) BY <1>1 DEF FiniteSubsetsOf
  <2>3. Upto # {} OBVIOUS
  <2> HIDE DEF R, Upto
  <2> QED BY <2>1, <2>2, <2>3, WFMin
<1>3. PICK m \in S : \A y \in S : ~(<<1..y, 1..m>> \in R)
  BY <1>2
<1>4. ASSUME NEW y \in S PROVE m <= y
  <2>1. y \in Nat /\ m \in Nat OBVIOUS
  <2>2. SUFFICES ASSUME y < m PROVE FALSE BY <2>1
  <2>3. 1..y \subseteq 1..m /\ m \in 1..m /\ m \notin 1..y BY <2>1, <2>2
  <2>4. 1..y \in SUBSET Nat /\ 1..m \in SUBSET Nat OBVIOUS
  <2> QED BY <1>3, <2>3, <2>4 DEF StrictSubsetOrdering
<1> QED BY <1>4 DEF Min

\* The step entered from c is the next one that applies, with none in between.
LEMMA StepAfterIsNext ==
    ASSUME NEW c \in 0..NumSteps, Remaining(c) # {}
    PROVE  /\ StepAfter(c) \in Steps /\ StepAfter(c) > c /\ Condition[StepAfter(c)]
           /\ \A s \in Steps : c < s /\ s < StepAfter(c) => ~Condition[s]
<1> USE TemplateAssumption DEF TemplateAssumption
<1>1. Remaining(c) \subseteq Nat BY DEF Remaining, Steps
<1>2. /\ Min(Remaining(c)) \in Remaining(c)
      /\ \A x \in Remaining(c) : Min(Remaining(c)) <= x
  BY <1>1, MinIsLeast
<1> DEFINE m == Min(Remaining(c))
<1>3. m \in Steps /\ m > c /\ Condition[m] BY <1>2 DEF Remaining
<1>4. ASSUME NEW s \in Steps, c < s, s < m PROVE ~Condition[s]
  <2>1. s \in Int /\ m \in Int /\ c \in Int BY <1>3 DEF Steps
  <2>2. s \notin Remaining(c) BY <1>2, <1>4, <2>1
  <2> QED BY <1>4, <2>1, <2>2 DEF Remaining
<1>5. StepAfter(c) = m BY DEF StepAfter
<1> HIDE DEF m
<1> QED BY <1>3, <1>4, <1>5

\* A delegation never changes an assignee into a maker.
LEMMA AssigneeIsNoMaker ==
    ASSUME NEW s \in Steps, NEW D \in SUBSET Users, NEW u \in Eligible(s, D)
    PROVE  AssigneeOf(s, u, D) \in Users /\ AssigneeOf(s, u, D) \notin Makers
<1> USE TemplateAssumption DEF TemplateAssumption
<1>1. CASE FirstChoice(s, D) # {}
  <2>1. u \in Resolved[s] /\ DelegateOf(u, D) \notin Makers
    BY <1>1 DEF Eligible, FirstChoice
  <2>2. u \in Users BY <2>1
  <2>3. DelegateOf(u, D) \in Users BY <2>2 DEF DelegateOf
  <2> QED BY <1>1, <2>1, <2>3 DEF AssigneeOf
<1>2. CASE FirstChoice(s, D) = {}
  <2>1. u \in Escalation[s] \ Makers BY <1>2 DEF Eligible
  <2> QED BY <1>2, <2>1 DEF AssigneeOf
<1> QED BY <1>1, <1>2

\* A maker may act on no task but his own: nobody's delegate.
LEMMA MakerActsForNobody ==
    ASSUME NEW a \in Makers, NEW x, NEW D, MayAct(a, x, D)
    PROVE  a = x
BY DEF MayAct

\* Cancelling the siblings leaves a table of task statuses.
LEMMA SiblingsType ==
    ASSUME NEW s \in Steps, NEW ts \in [Users -> TaskStatus]
    PROVE  SiblingsCancelled(s, ts) \in [Users -> TaskStatus]
BY DEF SiblingsCancelled, TaskStatus

\* Synchronising the requisition leaves one of its statuses.
LEMMA SyncedType ==
    ASSUME NEW st \in InstanceStatus, NEW e \in EntityStatus
    PROVE  Synced(st, e) \in EntityStatus
BY DEF Synced, EntityStatus, InstanceStatus

-----------------------------------------------------------------------------
(* Type correctness.                                                        *)

LEMMA EnterNextType ==
    ASSUME TypeOK, NEW c \in 0..NumSteps, NEW e \in EntityStatus,
           NEW ts \in [Steps -> [Users -> TaskStatus]], EnterNext(c, ts, e)
    PROVE  /\ status' \in InstanceStatus /\ current' \in 0..NumSteps
           /\ task' \in [Steps -> [Users -> TaskStatus]]
           /\ assigned' \in [Steps -> [Users -> Users]]
           /\ entity' \in EntityStatus
           /\ age' \in [Steps -> Rungs] /\ sla' \in [Steps -> Rungs]
<1> USE TemplateAssumption DEF TemplateAssumption
<1> DEFINE s == StepAfter(c)
<1>1. StatusAfter(c) \in InstanceStatus BY DEF StatusAfter, InstanceStatus
<1>2. status' \in InstanceStatus /\ entity' \in EntityStatus
  BY <1>1, SyncedType DEF EnterNext
<1>3. CASE Remaining(c) = {}
  <2>1. StepAfter(c) = c BY <1>3 DEF StepAfter
  <2> QED BY <1>2, <1>3, <2>1 DEF EnterNext, TypeOK, slaVars
<1>4. CASE Remaining(c) # {}
  <2>1. s \in Steps BY <1>4, StepAfterIsNext
  <2>2. current' \in 0..NumSteps BY <2>1 DEF EnterNext, Steps
  <2> DEFINE opened == Eligible(s, delegating)
             row == [u \in Users |-> IF u \in opened THEN "PENDING" ELSE "NONE"]
             who == [u \in Users |-> IF u \in opened THEN AssigneeOf(s, u, delegating) ELSE u]
  <2>3. task' \in [Steps -> [Users -> TaskStatus]]
    <3>1. row \in [Users -> TaskStatus] BY DEF TaskStatus
    <3>2. task' = [ts EXCEPT ![s] = row] BY <1>4 DEF EnterNext
    <3> HIDE DEF row, s
    <3> QED BY <2>1, <3>1, <3>2
  <2>4. \A u \in Eligible(s, delegating) : AssigneeOf(s, u, delegating) \in Users
    BY <2>1, AssigneeIsNoMaker DEF TypeOK
  <2>5. assigned' \in [Steps -> [Users -> Users]]
    <3>1. who \in [Users -> Users] BY <2>4
    <3>2. assigned' = [assigned EXCEPT ![s] = who] BY <1>4 DEF EnterNext
    <3> HIDE DEF who, s
    <3> QED BY <2>1, <3>1, <3>2 DEF TypeOK
  <2>6. age' \in [Steps -> Rungs] /\ sla' \in [Steps -> Rungs]
    <3>1. age' = [age EXCEPT ![s] = 0] /\ sla' = [sla EXCEPT ![s] = 0]
      BY <1>4 DEF EnterNext
    <3> HIDE DEF s
    <3> QED BY <2>1, <3>1 DEF TypeOK, Rungs
  <2> QED BY <1>2, <2>2, <2>3, <2>5, <2>6
<1> QED BY <1>3, <1>4

\* What the requisition's own service writes: the document alone.
DecidedAside == Withdraw \/ RejectDirectly \/ \E a \in Users : ApproveDirectly(a)

LEMMA AsideTouchesNothing ==
    ASSUME DecidedAside
    PROVE  /\ outside' = TRUE /\ entity' \in {"WITHDRAWN", "APPROVED", "REJECTED"}
           /\ entity \in {"DRAFT", "PENDING_APPROVAL"}
           /\ entity' # "WITHDRAWN" => entity = "PENDING_APPROVAL"
           /\ UNCHANGED <<status, current, task, assigned, actedBy, forced, delegating>>
           /\ UNCHANGED <<age, sla>>
BY DEF DecidedAside, Withdraw, RejectDirectly, ApproveDirectly, DecidesItself, slaVars

LEMMA TypeInit == Init => TypeOK
<1> SUFFICES ASSUME Init PROVE TypeOK
  OBVIOUS
<1>1. /\ status \in InstanceStatus /\ entity \in EntityStatus /\ outside \in BOOLEAN
      /\ task \in [Steps -> [Users -> TaskStatus]]
  BY DEF Init, NoTasks, InstanceStatus, TaskStatus, EntityStatus
<1>2. /\ assigned \in [Steps -> [Users -> Users]]
      /\ actedBy \in [Steps -> [Users -> Users \cup {NoUser}]]
  BY DEF Init
<1>3. current \in 0..NumSteps /\ forced \subseteq 0..NumSteps
  BY TemplateAssumption DEF Init, TemplateAssumption
<1>4. /\ delegating \subseteq Users
      /\ age \in [Steps -> Rungs] /\ sla \in [Steps -> Rungs]
  BY DEF Init, Rungs
<1> QED BY <1>1, <1>2, <1>3, <1>4 DEF TypeOK

LEMMA TypeStep == TypeOK /\ [Next]_vars => TypeOK'
<1> USE TemplateAssumption DEF TemplateAssumption
<1> SUFFICES ASSUME TypeOK, [Next]_vars PROVE TypeOK'
  OBVIOUS
<1>1. CASE Instantiate
  <2>1. (IF Condition[1] THEN 0 ELSE 1) \in 0..NumSteps OBVIOUS
  <2>2. "PENDING_APPROVAL" \in EntityStatus BY DEF EntityStatus
  <2>3. outside' \in BOOLEAN BY <1>1 DEF Instantiate, TypeOK
  <2> QED BY <1>1, <2>1, <2>2, <2>3, EnterNextType DEF Instantiate, TypeOK
<1>2. ASSUME NEW s \in Steps, NEW u \in Users, NEW a \in Users, Approve(s, u, a)
      PROVE  TypeOK'
  <2> DEFINE ts == [task[s] EXCEPT ![u] = "APPROVED"]
             tasks == [task EXCEPT ![s] = SiblingsCancelled(s, ts)]
             after == IF Refused(s, ts) THEN "FAILED" ELSE status
  <2>1. ts \in [Users -> TaskStatus] BY DEF TypeOK, TaskStatus
  <2>2. tasks \in [Steps -> [Users -> TaskStatus]] BY <2>1, SiblingsType DEF TypeOK
  <2>3. /\ actedBy' \in [Steps -> [Users -> Users \cup {NoUser}]]
        /\ forced' \subseteq 0..NumSteps /\ delegating' \subseteq Users
        /\ outside' \in BOOLEAN
    BY <1>2 DEF Approve, ActsOn, TypeOK
  <2>4. CASE Converged(s, ts)
    <3>1. EnterNext(current, tasks, entity) BY <1>2, <2>4 DEF Approve
    <3> HIDE DEF tasks
    <3> QED BY <2>2, <2>3, <3>1, EnterNextType DEF TypeOK
  <2>5. CASE ~Converged(s, ts)
    <3>1. /\ task' = tasks /\ status' = after /\ entity' = Synced(after, entity)
          /\ UNCHANGED <<current, assigned, slaVars>>
      BY <1>2, <2>5 DEF Approve
    <3>2. after \in InstanceStatus BY DEF TypeOK, InstanceStatus
    <3> HIDE DEF tasks, after
    <3> QED BY <2>2, <2>3, <3>1, <3>2, SyncedType DEF TypeOK, slaVars
  <2> QED BY <2>4, <2>5
<1>3. ASSUME NEW s \in Steps, NEW u \in Users, NEW a \in Users, Reject(s, u, a)
      PROVE  TypeOK'
  <2>1. "FAILED" \in InstanceStatus /\ "REJECTED" \in TaskStatus
    BY DEF InstanceStatus, TaskStatus
  <2> QED BY <1>3, <2>1, SyncedType DEF Reject, ActsOn, TypeOK, slaVars
<1>4. AllCancelled \in [Steps -> [Users -> TaskStatus]]
  BY DEF TypeOK, AllCancelled, TaskStatus
<1>5. CASE Cancel
  <2>1. "CANCELLED" \in InstanceStatus BY DEF InstanceStatus
  <2> QED BY <1>4, <1>5, <2>1, SyncedType DEF Cancel, TypeOK, slaVars
<1>6. CASE Pause
  BY <1>6 DEF Pause, TypeOK, slaVars, InstanceStatus
<1>7. CASE Resume
  BY <1>7 DEF Resume, TypeOK, slaVars, InstanceStatus
<1>8. CASE ForceAdvance
  <2>1. current \in 0..NumSteps /\ entity \in EntityStatus BY DEF TypeOK
  <2>2. EnterNext(current, AllCancelled, entity) BY <1>8 DEF ForceAdvance
  <2>3. /\ actedBy' = actedBy /\ delegating' = delegating
        /\ forced' \subseteq 0..NumSteps /\ outside' \in BOOLEAN
    BY <1>8 DEF ForceAdvance, TypeOK
  <2> QED BY <1>4, <2>1, <2>2, <2>3, EnterNextType DEF TypeOK
<1>9. CASE SlaScan
  <2>1. \A s \in Steps : RungAfter(s) \in Rungs BY DEF RungAfter, TypeOK
  <2>2. sla' \in [Steps -> Rungs] BY <1>9, <2>1 DEF SlaScan
  <2>3. ASSUME NEW s \in Steps, NEW u \in Users PROVE assigned'[s][u] \in Users
    BY <1>9 DEF SlaScan, TypeOK
  <2>4. assigned' \in [Steps -> [Users -> Users]]
    <3>1. assigned' = [s \in Steps |-> [u \in Users |-> assigned'[s][u]]]
      BY <1>9 DEF SlaScan
    <3> QED BY <2>3, <3>1
  <2> QED BY <1>9, <2>2, <2>4 DEF SlaScan, TypeOK
<1>10. ASSUME NEW s \in Steps, TimePasses(s) PROVE TypeOK'
  <2>1. age[s] \in 0..4 /\ age[s] < 4
    BY <1>10 DEF TimePasses, TypeOK, Rungs, Critical
  <2>2. age[s] + 1 \in Rungs BY <2>1 DEF Rungs
  <2> QED BY <1>10, <2>2 DEF TimePasses, TypeOK, flowVars
<1>11. ASSUME NEW u \in Users, DelegationChanges(u) PROVE TypeOK'
  BY <1>11 DEF DelegationChanges, TypeOK, flowVars, slaVars
<1>12. CASE DecidedAside
  <2>1. entity' \in EntityStatus /\ outside' \in BOOLEAN
    BY <1>12, AsideTouchesNothing DEF EntityStatus
  <2> QED BY <1>12, <2>1, AsideTouchesNothing DEF TypeOK
<1>13. CASE UNCHANGED vars
  BY <1>13 DEF vars, flowVars, slaVars, TypeOK
<1> QED
  BY <1>1, <1>2, <1>3, <1>5, <1>6, <1>7, <1>8, <1>9, <1>10, <1>11, <1>12, <1>13
     DEF Next, Act, DecidedAside

\* Every reachable state of the engine is well typed.
THEOREM TypeCorrect == Spec => []TypeOK
BY TypeInit, TypeStep, PTL DEF Spec

-----------------------------------------------------------------------------
(* Maker-checker.  Inductive: besides the actors of the approved tasks, the  *)
(* assignees of the pending ones are no makers, for they are the ones who    *)
(* may act next, themselves or through a delegate; the SLA timer alone makes *)
(* an exception, and only from the Reassign rung on.                         *)

NoMakerInvolved ==
    /\ MakerNeverApproves
    /\ \A s \in Steps, u \in Users :
          task[s][u] = "PENDING" /\ assigned[s][u] \in Makers =>
              assigned[s][u] = EscalationAdmin /\ sla[s] >= Reassign

LEMMA MakerInit == Init => NoMakerInvolved
BY DEF Init, NoTasks, NoMakerInvolved, MakerNeverApproves

\* Entering a step keeps the tasks of the others, and gives the new ones to
\* users who are no makers.
LEMMA MakerEnterNext ==
    ASSUME TypeOK, NEW c \in 0..NumSteps, NEW e,
           NEW ts \in [Steps -> [Users -> TaskStatus]], EnterNext(c, ts, e),
           \A s \in Steps, u \in Users :
               ts[s][u] = "APPROVED" /\ actedBy'[s][u] \in Makers =>
                   actedBy'[s][u] = EscalationAdmin /\ sla[s] >= Reassign,
           \A s \in Steps, u \in Users :
               ts[s][u] = "PENDING" /\ assigned[s][u] \in Makers =>
                   assigned[s][u] = EscalationAdmin /\ sla[s] >= Reassign
    PROVE  NoMakerInvolved'
<1> USE TemplateAssumption DEF TemplateAssumption
<1>1. CASE Remaining(c) = {}
  <2>1. task' = ts /\ assigned' = assigned /\ sla' = sla BY <1>1 DEF EnterNext, slaVars
  <2> QED BY <2>1 DEF NoMakerInvolved, MakerNeverApproves
<1>2. CASE Remaining(c) # {}
  <2> DEFINE n == StepAfter(c)
             opened == Eligible(n, delegating)
             row == [u \in Users |-> IF u \in opened THEN "PENDING" ELSE "NONE"]
             who == [u \in Users |-> IF u \in opened THEN AssigneeOf(n, u, delegating) ELSE u]
  <2>1. n \in Steps BY <1>2, StepAfterIsNext
  <2>2. /\ task' = [ts EXCEPT ![n] = row] /\ assigned' = [assigned EXCEPT ![n] = who]
        /\ sla' = [sla EXCEPT ![n] = 0]
    BY <1>2 DEF EnterNext
  <2>3. \A u \in Users : row[u] # "APPROVED" /\ (row[u] = "PENDING" => u \in opened)
    OBVIOUS
  <2>4. \A u \in Users : u \in opened => who[u] \notin Makers
    BY <2>1, AssigneeIsNoMaker DEF TypeOK
  <2> HIDE DEF n, opened, row, who
  <2>5. ASSUME NEW s \in Steps, NEW u \in Users
        PROVE  /\ task'[s][u] = "APPROVED" /\ actedBy'[s][u] \in Makers =>
                      actedBy'[s][u] = EscalationAdmin /\ sla'[s] >= Reassign
               /\ task'[s][u] = "PENDING" /\ assigned'[s][u] \in Makers =>
                      assigned'[s][u] = EscalationAdmin /\ sla'[s] >= Reassign
    <3>1. CASE s = n
      <4>1. task'[s] = row /\ assigned'[s] = who BY <2>1, <2>2, <3>1 DEF TypeOK
      <4> QED BY <2>3, <2>4, <4>1
    <3>2. CASE s # n
      <4>1. task'[s] = ts[s] /\ assigned'[s] = assigned[s] /\ sla'[s] = sla[s]
        BY <2>1, <2>2, <3>2 DEF TypeOK
      <4> QED BY <4>1
    <3> QED BY <3>1, <3>2
  <2> QED BY <2>5 DEF NoMakerInvolved, MakerNeverApproves
<1> QED BY <1>1, <1>2

LEMMA MakerStep ==
    ASSUME TypeOK, NoMakerInvolved, [Next]_vars
    PROVE  NoMakerInvolved'
<1> USE TemplateAssumption DEF TemplateAssumption
<1>1. CASE Instantiate
  <2>1. (IF Condition[1] THEN 0 ELSE 1) \in 0..NumSteps OBVIOUS
  <2>2. actedBy' = actedBy BY <1>1 DEF Instantiate
  <2>3. EnterNext(IF Condition[1] THEN 0 ELSE 1, task, "PENDING_APPROVAL")
    BY <1>1 DEF Instantiate
  <2>4. task \in [Steps -> [Users -> TaskStatus]] BY DEF TypeOK
  <2>5. \A s \in Steps, u \in Users :
          /\ task[s][u] = "APPROVED" /\ actedBy'[s][u] \in Makers =>
                actedBy'[s][u] = EscalationAdmin /\ sla[s] >= Reassign
          /\ task[s][u] = "PENDING" /\ assigned[s][u] \in Makers =>
                assigned[s][u] = EscalationAdmin /\ sla[s] >= Reassign
    BY <2>2 DEF NoMakerInvolved, MakerNeverApproves
  <2> QED BY <2>1, <2>3, <2>4, <2>5, MakerEnterNext
<1>2. ASSUME NEW s \in Steps, NEW u \in Users, NEW a \in Users, Approve(s, u, a)
      PROVE  NoMakerInvolved'
  <2> DEFINE ts == [task[s] EXCEPT ![u] = "APPROVED"]
             tasks == [task EXCEPT ![s] = SiblingsCancelled(s, ts)]
  <2>1. a \in Makers => a = EscalationAdmin /\ sla[s] >= Reassign
    BY <1>2, MakerActsForNobody DEF Approve, ActsOn, NoMakerInvolved
  <2>2. actedBy' = [actedBy EXCEPT ![s][u] = a] BY <1>2 DEF Approve, ActsOn
  <2>3. ts \in [Users -> TaskStatus] BY DEF TypeOK, TaskStatus
  <2>4. tasks \in [Steps -> [Users -> TaskStatus]] BY <2>3, SiblingsType DEF TypeOK
  <2>5. ASSUME NEW r \in Steps, NEW v \in Users
        PROVE  /\ tasks[r][v] = "APPROVED" /\ actedBy'[r][v] \in Makers =>
                      actedBy'[r][v] = EscalationAdmin /\ sla[r] >= Reassign
               /\ tasks[r][v] = "PENDING" /\ assigned[r][v] \in Makers =>
                      assigned[r][v] = EscalationAdmin /\ sla[r] >= Reassign
    <3>1. CASE r = s /\ v = u
      <4>1. tasks[r][v] = "APPROVED"
        BY <2>3, <3>1 DEF SiblingsCancelled, TypeOK
      <4>2. actedBy'[r][v] = a BY <2>2, <3>1 DEF TypeOK
      <4> QED BY <2>1, <3>1, <4>1, <4>2
    <3>2. CASE ~(r = s /\ v = u)
      <4>1. tasks[r][v] = task[r][v] \/ tasks[r][v] = "CANCELLED"
        BY <2>3, <3>2 DEF SiblingsCancelled, TypeOK
      <4>2. actedBy'[r][v] = actedBy[r][v] BY <2>2, <3>2 DEF TypeOK
      <4> QED BY <4>1, <4>2 DEF NoMakerInvolved, MakerNeverApproves
    <3> QED BY <3>1, <3>2
  <2>6. CASE Converged(s, ts)
    <3>1. EnterNext(current, tasks, entity) BY <1>2, <2>6 DEF Approve
    <3> HIDE DEF tasks
    <3> QED BY <2>4, <2>5, <3>1, MakerEnterNext DEF TypeOK
  <2>7. CASE ~Converged(s, ts)
    <3>1. task' = tasks /\ assigned' = assigned /\ sla' = sla
      BY <1>2, <2>7 DEF Approve, slaVars
    <3> HIDE DEF tasks
    <3> QED BY <2>5, <3>1 DEF NoMakerInvolved, MakerNeverApproves
  <2> QED BY <2>6, <2>7
<1>3. ASSUME NEW s \in Steps, NEW u \in Users, NEW a \in Users, Reject(s, u, a)
      PROVE  NoMakerInvolved'
  <2>1. /\ task' = [task EXCEPT ![s][u] = "REJECTED"]
        /\ actedBy' = [actedBy EXCEPT ![s][u] = a]
        /\ assigned' = assigned /\ sla' = sla
    BY <1>3 DEF Reject, ActsOn, slaVars
  <2> QED BY <2>1 DEF TypeOK, NoMakerInvolved, MakerNeverApproves
<1>4. /\ AllCancelled \in [Steps -> [Users -> TaskStatus]]
      /\ \A s \in Steps, u \in Users :
            AllCancelled[s][u] # "PENDING"
            /\ (AllCancelled[s][u] = "APPROVED" => task[s][u] = "APPROVED")
  BY DEF TypeOK, AllCancelled, TaskStatus
<1>5. CASE Cancel
  <2>1. task' = AllCancelled /\ UNCHANGED <<assigned, actedBy, sla>>
    BY <1>5 DEF Cancel, slaVars
  <2> QED BY <1>4, <2>1 DEF NoMakerInvolved, MakerNeverApproves
<1>6. CASE ForceAdvance
  <2>1. current \in 0..NumSteps BY DEF TypeOK
  <2>2. EnterNext(current, AllCancelled, entity) /\ actedBy' = actedBy
    BY <1>6 DEF ForceAdvance
  <2>3. ASSUME NEW s \in Steps, NEW u \in Users
        PROVE  /\ AllCancelled[s][u] = "APPROVED" /\ actedBy'[s][u] \in Makers =>
                      actedBy'[s][u] = EscalationAdmin /\ sla[s] >= Reassign
               /\ AllCancelled[s][u] # "PENDING"
    BY <1>4, <2>2 DEF NoMakerInvolved, MakerNeverApproves
  <2> HIDE DEF AllCancelled
  <2> QED BY <1>4, <2>1, <2>2, <2>3, MakerEnterNext
<1>7. CASE SlaScan
  <2>1. \A s \in Steps : sla'[s] = RungAfter(s) BY <1>7 DEF SlaScan
  <2>2. ASSUME NEW s \in Steps, NEW u \in Users
        PROVE  \/ assigned'[s][u] = assigned[s][u]
               \/ assigned'[s][u] = EscalationAdmin /\ sla'[s] = Reassign
    BY <1>7, <2>1 DEF SlaScan
  <2>3. UNCHANGED <<task, actedBy>> BY <1>7 DEF SlaScan
  <2>4. ASSUME NEW s \in Steps
        PROVE  sla[s] >= Reassign => sla'[s] >= Reassign
    <3>1. sla[s] \in 0..4 /\ age[s] \in 0..4 BY DEF TypeOK, Rungs
    <3>2. RungAfter(s) = sla[s] \/ (RungAfter(s) = age[s] /\ age[s] > sla[s])
      BY DEF RungAfter
    <3> QED BY <2>1, <3>1, <3>2 DEF Reassign
  <2>5. Reassign >= Reassign BY DEF Reassign
  <2> QED BY <2>2, <2>3, <2>4, <2>5 DEF NoMakerInvolved, MakerNeverApproves
<1>8. CASE \/ Pause \/ Resume \/ \E s \in Steps : TimePasses(s)
           \/ \E u \in Users : DelegationChanges(u)
           \/ DecidedAside \/ UNCHANGED vars
  <2>1. UNCHANGED <<task, assigned, actedBy, sla>>
    BY <1>8, AsideTouchesNothing
       DEF Pause, Resume, TimePasses, DelegationChanges, vars, flowVars, slaVars
  <2> QED BY <2>1 DEF NoMakerInvolved, MakerNeverApproves
<1> QED
  BY <1>1, <1>2, <1>3, <1>5, <1>6, <1>7, <1>8 DEF Next, Act, DecidedAside

\* Maker-checker for every template, directory and delegation: no maker ever
\* approves, but one the SLA timer itself has made the assignee.
THEOREM MakerNeverApprovesHolds == Spec => []MakerNeverApproves
<1>1. Init => TypeOK /\ NoMakerInvolved BY TypeInit, MakerInit
<1>2. TypeOK /\ NoMakerInvolved /\ [Next]_vars => (TypeOK /\ NoMakerInvolved)'
  BY TypeStep, MakerStep
<1>3. TypeOK /\ NoMakerInvolved => MakerNeverApproves BY DEF NoMakerInvolved
<1> QED BY <1>1, <1>2, <1>3, PTL DEF Spec

-----------------------------------------------------------------------------
(* The requisition's status.                                                *)

\* The statuses a document decided outside its workflow can have, and the one
\* of a document its workflow has yet to decide.
WaitsOrDecidedAside(e) ==
    IF outside THEN e \in {"WITHDRAWN", "APPROVED", "REJECTED"} ELSE e = "PENDING_APPROVAL"

LEMMA EntityEnterNext ==
    ASSUME NEW c, NEW ts, NEW e, WaitsOrDecidedAside(e), outside' = outside,
           EnterNext(c, ts, e)
    PROVE  EntityFollowsInstance'
<1>1. entity' = Synced(status', e) /\ status' \in {"ACTIVE", "COMPLETED"}
  BY DEF EnterNext, StatusAfter
<1>2. CASE outside
  <2>1. e \in {"WITHDRAWN", "APPROVED", "REJECTED"} BY <1>2 DEF WaitsOrDecidedAside
  <2>2. entity' = e BY <1>1, <2>1 DEF Synced
  <2> QED BY <1>2, <2>1, <2>2 DEF EntityFollowsInstance
<1>3. CASE ~outside
  <2>1. e = "PENDING_APPROVAL" BY <1>3 DEF WaitsOrDecidedAside
  <2> QED BY <1>1, <1>3, <2>1 DEF Synced, EntityFollowsInstance, OpenStatus
<1> QED BY <1>2, <1>3

\* An open instance's document waits, or was decided aside.
LEMMA OpenWaits ==
    ASSUME EntityFollowsInstance, status \in OpenStatus
    PROVE  WaitsOrDecidedAside(entity)
BY DEF EntityFollowsInstance, OpenStatus, WaitsOrDecidedAside

\* What the workflow's end does to such a document.
LEMMA EntityEnds ==
    ASSUME EntityFollowsInstance, status \in OpenStatus, outside' = outside,
           status' \in {"FAILED", "CANCELLED", "ACTIVE"}, entity' = Synced(status', entity)
    PROVE  EntityFollowsInstance'
<1>1. CASE outside
  BY <1>1, OpenWaits DEF Synced, EntityFollowsInstance, WaitsOrDecidedAside
<1>2. CASE ~outside
  BY <1>2, OpenWaits DEF Synced, EntityFollowsInstance, WaitsOrDecidedAside, OpenStatus
<1> QED BY <1>1, <1>2

LEMMA EntityStep == TypeOK /\ EntityFollowsInstance /\ [Next]_vars => EntityFollowsInstance'
<1> SUFFICES ASSUME TypeOK, EntityFollowsInstance, [Next]_vars
             PROVE  EntityFollowsInstance'
  OBVIOUS
<1>1. CASE Instantiate
  <2>1. entity = "DRAFT" /\ outside' = outside BY <1>1 DEF Instantiate
  <2>2. ~outside BY <2>1 DEF EntityFollowsInstance
  <2>3. WaitsOrDecidedAside("PENDING_APPROVAL") BY <2>2 DEF WaitsOrDecidedAside
  <2> QED BY <1>1, <2>1, <2>3, EntityEnterNext DEF Instantiate
<1>2. ASSUME NEW s \in Steps, NEW u \in Users, NEW a \in Users, Approve(s, u, a)
      PROVE  EntityFollowsInstance'
  <2> DEFINE ts == [task[s] EXCEPT ![u] = "APPROVED"]
  <2>1. status = "ACTIVE" /\ outside' = outside BY <1>2 DEF Approve, ActsOn
  <2>2. CASE Converged(s, ts)
    BY <1>2, <2>1, <2>2, OpenWaits, EntityEnterNext DEF Approve, OpenStatus
  <2>3. CASE ~Converged(s, ts)
    <3>1. status' \in {"FAILED", "ACTIVE"} /\ entity' = Synced(status', entity)
      BY <1>2, <2>1, <2>3 DEF Approve
    <3> QED BY <2>1, <3>1, EntityEnds DEF OpenStatus
  <2> QED BY <2>2, <2>3
<1>3. ASSUME NEW s \in Steps, NEW u \in Users, NEW a \in Users, Reject(s, u, a)
      PROVE  EntityFollowsInstance'
  BY <1>3, EntityEnds DEF Reject, ActsOn, OpenStatus
<1>4. CASE Cancel
  BY <1>4, EntityEnds DEF Cancel
<1>5. CASE Pause \/ Resume
  BY <1>5 DEF Pause, Resume, EntityFollowsInstance, OpenStatus
<1>6. CASE ForceAdvance
  BY <1>6, OpenWaits, EntityEnterNext DEF ForceAdvance, OpenStatus
<1>7. CASE DecidedAside
  BY <1>7, AsideTouchesNothing DEF EntityFollowsInstance
<1>8. CASE \/ SlaScan \/ \E s \in Steps : TimePasses(s)
           \/ \E u \in Users : DelegationChanges(u)
           \/ UNCHANGED vars
  <2>1. UNCHANGED <<status, entity, outside>>
    BY <1>8 DEF SlaScan, TimePasses, DelegationChanges, vars, flowVars
  <2> QED BY <2>1 DEF EntityFollowsInstance
<1> QED BY <1>1, <1>2, <1>3, <1>4, <1>5, <1>6, <1>7, <1>8 DEF Next, Act, DecidedAside

\* The requisition has the status its workflow calls for, whatever the template,
\* until its own service decides it, and the workflow never undoes that.
THEOREM EntityFollowsInstanceHolds == Spec => []EntityFollowsInstance
<1>1. Init => EntityFollowsInstance BY DEF Init, EntityFollowsInstance, OpenStatus
<1> QED BY <1>1, TypeInit, TypeStep, EntityStep, PTL DEF Spec

-----------------------------------------------------------------------------
(* Steps are taken in order.  Inductive: while the instance is open, the     *)
(* current step is not cleared and those after it are untouched; a task      *)
(* still open, of whatever step, belongs to a step its approvals have not    *)
(* settled, or to a SEQUENTIAL one; so that an approval which moves the      *)
(* instance on from an uncleared step comes after a surplus approval, or is  *)
(* one.                                                                      *)

\* A step's tasks allow a decision that its approvals alone make.
VotedFor(s, ts) == HavingStatus(ts, "APPROVED") # {} /\ Converged(s, ts)

\* One approval was enough and there are several.
SurplusIn(s, ts) ==
    /\ StepType[s] = "SEQUENTIAL"
    /\ \E u, v \in HavingStatus(ts, "APPROVED") : u # v

\* Some step before s was approved more often than it asks for.
AfterSurplus(s) == \E r \in 1..s-1 : Surplus(r)

\* What holds of a step whose task table is ts while somebody can act on it.
Undecided(s, ts) ==
    (\E u \in Users : ts[u] = "PENDING") =>
        /\ Condition[s]
        /\ StepType[s] = "PARALLEL" => ~VotedFor(s, ts)

OpenInOrder ==
    /\ current \in Steps /\ Condition[current] /\ ~Cleared(current)
    /\ \A s \in Steps : s < current /\ Condition[s] => Cleared(s) \/ AfterSurplus(s)
    /\ \A s \in Steps : s > current => task[s] = NoTasks /\ s \notin forced
    /\ \A s \in Steps : Undecided(s, task[s])
    /\ \A s \in Steps : Pending(s) # {} => s \notin forced

InOrder ==
    /\ status = "NONE" => forced = {} /\ \A s \in Steps : task[s] = NoTasks
    /\ status \in OpenStatus => OpenInOrder
    /\ status = "COMPLETED" =>
          \A s \in Steps : Condition[s] => Cleared(s) \/ AfterSurplus(s)

\* Convergence looks at the approvals, the rejections and the group alone.
LEMMA SameVotes ==
    ASSUME NEW s \in Steps, NEW ts, NEW us,
           HavingStatus(us, "APPROVED") = HavingStatus(ts, "APPROVED"),
           HavingStatus(us, "REJECTED") = HavingStatus(ts, "REJECTED"),
           Group(us) = Group(ts)
    PROVE  /\ Converged(s, us) <=> Converged(s, ts)
           /\ VotedFor(s, us) <=> VotedFor(s, ts)
           /\ SurplusIn(s, us) <=> SurplusIn(s, ts)
BY DEF Converged, VotedFor, SurplusIn

\* So it does not notice that open tasks are cancelled.
LEMMA CancellingKeepsVotes ==
    ASSUME NEW s \in Steps, NEW ts \in [Users -> TaskStatus],
           NEW us \in [Users -> TaskStatus],
           \A u \in Users : us[u] = ts[u] \/ (ts[u] = "PENDING" /\ us[u] = "CANCELLED")
    PROVE  /\ Converged(s, us) <=> Converged(s, ts)
           /\ VotedFor(s, us) <=> VotedFor(s, ts)
           /\ SurplusIn(s, us) <=> SurplusIn(s, ts)
<1>1. /\ HavingStatus(us, "APPROVED") = HavingStatus(ts, "APPROVED")
      /\ HavingStatus(us, "REJECTED") = HavingStatus(ts, "REJECTED")
      /\ Group(us) = Group(ts)
  BY DEF HavingStatus, Group
<1> QED BY <1>1, SameVotes

\* The siblings of a vote are kept or cancelled, and none of a PARALLEL step
\* that has converged stays open.
LEMMA SiblingsKept ==
    ASSUME NEW s \in Steps, NEW ts \in [Users -> TaskStatus]
    PROVE  /\ \A u \in Users : \/ SiblingsCancelled(s, ts)[u] = ts[u]
                               \/ /\ ts[u] = "PENDING"
                                  /\ SiblingsCancelled(s, ts)[u] = "CANCELLED"
           /\ StepType[s] = "PARALLEL" /\ Converged(s, ts) =>
                 \A u \in Users : SiblingsCancelled(s, ts)[u] # "PENDING"
BY DEF SiblingsCancelled

\* Entering the step after c keeps the order, if the steps up to c are cleared
\* or come after a surplus approval, and nothing beyond c was touched.
LEMMA OrderEnterNext ==
    ASSUME TypeOK, NEW c \in 0..NumSteps, NEW e,
           NEW ts \in [Steps -> [Users -> TaskStatus]], EnterNext(c, ts, e),
           \A s \in Steps : s <= c /\ Condition[s] =>
               s \in forced' \/ VotedFor(s, ts[s]) \/ \E r \in 1..s-1 : SurplusIn(r, ts[r]),
           \A s \in Steps : Undecided(s, ts[s]),
           \A s \in Steps : s \in forced' => \A u \in Users : ts[s][u] # "PENDING",
           \A s \in Steps : s > c => ts[s] = NoTasks /\ s \notin forced'
    PROVE  InOrder'
<1> USE TemplateAssumption DEF TemplateAssumption
<1>1. CASE Remaining(c) = {}
  <2>1. status' = "COMPLETED" /\ task' = ts BY <1>1 DEF EnterNext, StatusAfter
  <2>2. \A s \in Steps : Condition[s] => s <= c
    <3>1. \A s \in Steps : s \in Int /\ c \in Int BY DEF Steps
    <3> QED BY <1>1, <3>1 DEF Remaining
  <2>3. ASSUME NEW s \in Steps, Condition[s] PROVE Cleared(s)' \/ AfterSurplus(s)'
    <3>1. CASE s \in forced' \/ VotedFor(s, ts[s])
      BY <2>1, <3>1 DEF Cleared, VotedFor
    <3>2. CASE \E r \in 1..s-1 : SurplusIn(r, ts[r])
      BY <2>1, <3>2 DEF AfterSurplus, Surplus, SurplusIn
    <3> QED BY <2>2, <2>3, <3>1, <3>2
  <2> QED BY <2>1, <2>3 DEF InOrder, OpenStatus
<1>2. CASE Remaining(c) # {}
  <2> DEFINE n == StepAfter(c)
             opened == Eligible(n, delegating)
             row == [u \in Users |-> IF u \in opened THEN "PENDING" ELSE "NONE"]
  <2>1. /\ n \in Steps /\ n > c /\ Condition[n]
        /\ \A s \in Steps : c < s /\ s < n => ~Condition[s]
    BY <1>2, StepAfterIsNext
  <2>2. /\ task' = [ts EXCEPT ![n] = row] /\ current' = n /\ status' = "ACTIVE"
    BY <1>2 DEF EnterNext, StatusAfter
  <2>3. row \in [Users -> TaskStatus] /\ HavingStatus(row, "APPROVED") = {}
    BY DEF TaskStatus, HavingStatus
  <2> HIDE DEF n, row
  <2>4. n \in Int /\ c \in Int /\ \A s \in Steps : s \in Int BY <2>1 DEF Steps
  <2>5. task'[n] = row /\ \A s \in Steps \ {n} : task'[s] = ts[s]
    BY <2>1, <2>2
  <2>6. n \notin forced' BY <2>1
  <2>7. ~Cleared(n)' BY <2>3, <2>5, <2>6 DEF Cleared
  <2>8. ASSUME NEW s \in Steps, s < n, Condition[s] PROVE Cleared(s)' \/ AfterSurplus(s)'
    <3>1. s <= c /\ s # n BY <2>1, <2>4, <2>8
    <3>2. CASE s \in forced' \/ VotedFor(s, ts[s])
      BY <2>5, <3>1, <3>2 DEF Cleared, VotedFor
    <3>3. CASE \E r \in 1..s-1 : SurplusIn(r, ts[r])
      <4>1. PICK r \in 1..s-1 : SurplusIn(r, ts[r]) BY <3>3
      <4>2. r \in Steps \ {n} BY <2>4, <2>8 DEF Steps
      <4>3. Surplus(r)' BY <2>5, <4>1, <4>2 DEF Surplus, SurplusIn
      <4> QED BY <4>1, <4>3 DEF AfterSurplus
    <3> QED BY <2>8, <3>1, <3>2, <3>3
  <2>9. Undecided(n, row) BY <2>1, <2>3 DEF Undecided, VotedFor
  <2>10. \A s \in Steps : Undecided(s, task'[s]) BY <2>5, <2>9
  <2>11. \A s \in Steps : Pending(s)' # {} => s \notin forced'
    BY <2>5, <2>6 DEF Pending
  <2>12. \A s \in Steps : s > n => task'[s] = NoTasks /\ s \notin forced'
    <3>1. ASSUME NEW s \in Steps, s > n PROVE s > c /\ s # n
      BY <2>1, <2>4, <3>1
    <3> QED BY <2>5, <3>1
  <2>13. OpenInOrder'
    BY <2>1, <2>2, <2>7, <2>8, <2>10, <2>11, <2>12
       DEF OpenInOrder, Undecided, VotedFor
  <2> QED BY <2>2, <2>13 DEF InOrder
<1> QED BY <1>1, <1>2

LEMMA OrderInit == Init => InOrder
BY DEF Init, InOrder, NoTasks, OpenStatus

\* A stray approval, of a step the instance has left, is a surplus one or comes
\* after one.
LEMMA StrayApproval ==
    ASSUME TypeOK, OpenInOrder, NEW s \in Steps, NEW u \in Users,
           task[s][u] = "PENDING", s # current
    PROVE  \/ AfterSurplus(s)
           \/ SurplusIn(s, [task[s] EXCEPT ![u] = "APPROVED"])
<1>1. Pending(s) # {} BY DEF Pending
<1>2. Condition[s] /\ s \notin forced /\ (StepType[s] = "PARALLEL" => ~VotedFor(s, task[s]))
  BY <1>1 DEF OpenInOrder, Undecided
<1>3. s < current
  <2>1. s \in Int /\ current \in Int BY DEF OpenInOrder, Steps
  <2>2. ~(s > current) BY DEF OpenInOrder, NoTasks
  <2> QED BY <2>1, <2>2
<1>4. Cleared(s) \/ AfterSurplus(s) BY <1>2, <1>3 DEF OpenInOrder
<1> SUFFICES ASSUME Cleared(s) PROVE SurplusIn(s, [task[s] EXCEPT ![u] = "APPROVED"])
  BY <1>4
<1>5. VotedFor(s, task[s]) BY <1>2 DEF Cleared, VotedFor
<1>6. StepType[s] = "SEQUENTIAL"
  BY <1>2, <1>5, TemplateAssumption DEF TemplateAssumption, StepTypes
<1>7. PICK v \in Users : task[s][v] = "APPROVED" BY <1>5 DEF VotedFor, HavingStatus
<1> DEFINE ts == [task[s] EXCEPT ![u] = "APPROVED"]
<1>8. ts[u] = "APPROVED" /\ ts[v] = "APPROVED" /\ u # v BY <1>7 DEF TypeOK
<1> HIDE DEF ts
<1>9. SurplusIn(s, ts) BY <1>6, <1>8 DEF SurplusIn, HavingStatus
<1> QED BY <1>9 DEF ts

\* A SEQUENTIAL step converges with its first approval.
LEMMA OneIsEnough ==
    ASSUME NEW s \in Steps, NEW ts \in [Users -> TaskStatus], NEW u \in Users,
           ts[u] = "APPROVED", ~Converged(s, ts)
    PROVE  StepType[s] = "PARALLEL"
BY TemplateAssumption DEF TemplateAssumption, StepTypes, Converged, HavingStatus

\* The approvals of a step are not lost by a further one, nor by cancelling.
LEMMA SurplusStays ==
    ASSUME NEW s \in Steps, NEW ts \in [Users -> TaskStatus], NEW us \in [Users -> TaskStatus],
           \A u \in Users : ts[u] = "APPROVED" => us[u] = "APPROVED", SurplusIn(s, ts)
    PROVE  SurplusIn(s, us)
BY DEF SurplusIn, HavingStatus

\* The order is one of the current step, the tasks and the forced steps.
LEMMA OrderKept ==
    ASSUME UNCHANGED <<current, task, forced>>
    PROVE  /\ OpenInOrder => OpenInOrder'
           /\ \A s \in Steps : Cleared(s) \/ AfterSurplus(s) => Cleared(s)' \/ AfterSurplus(s)'
<1>1. ASSUME NEW s \in Steps PROVE Cleared(s)' <=> Cleared(s)
  BY DEF Cleared
<1>2. ASSUME NEW s \in Steps PROVE AfterSurplus(s)' <=> AfterSurplus(s)
  <2>1. ASSUME NEW r \in 1..s-1 PROVE Surplus(r)' <=> Surplus(r)
    BY DEF Surplus
  <2> QED BY <2>1 DEF AfterSurplus
<1>3. ASSUME NEW s \in Steps
      PROVE  Pending(s)' = Pending(s) /\ (Undecided(s, task[s])' <=> Undecided(s, task[s]))
  BY DEF Pending, Undecided, VotedFor
<1>4. ASSUME OpenInOrder PROVE OpenInOrder'
  <2>1. current' = current /\ task' = task /\ forced' = forced OBVIOUS
  <2>2. current' \in Steps /\ Condition[current'] /\ ~Cleared(current)'
    BY <1>4, <2>1 DEF OpenInOrder, Cleared
  <2>3. \A s \in Steps : s < current' /\ Condition[s] => Cleared(s)' \/ AfterSurplus(s)'
    BY <1>1, <1>2, <1>4, <2>1 DEF OpenInOrder
  <2>4. \A s \in Steps : s > current' => task'[s] = NoTasks /\ s \notin forced'
    BY <1>4, <2>1 DEF OpenInOrder
  <2>5. \A s \in Steps : /\ Undecided(s, task[s])'
                         /\ Pending(s)' # {} => s \notin forced'
    BY <1>3, <1>4, <2>1 DEF OpenInOrder
  <2> QED BY <2>2, <2>3, <2>4, <2>5 DEF OpenInOrder
<1> QED BY <1>1, <1>2, <1>4

LEMMA OrderStep ==
    ASSUME TypeOK, InOrder, [Next]_vars
    PROVE  InOrder'
<1> USE TemplateAssumption DEF TemplateAssumption
<1>0. \A r \in Steps : r \in Int /\ current \in Int /\ r \in Nat BY DEF TypeOK, Steps
<1>1. CASE Instantiate
  <2> DEFINE c == IF Condition[1] THEN 0 ELSE 1
  <2>1. c \in 0..NumSteps /\ EnterNext(c, task, "PENDING_APPROVAL") /\ forced' = forced
    BY <1>1 DEF Instantiate
  <2>2. forced = {} /\ \A s \in Steps : task[s] = NoTasks
    BY <1>1 DEF Instantiate, InOrder
  <2>3. \A s \in Steps : s <= c => ~Condition[s]
    BY DEF Steps
  <2>4. \A s \in Steps, u \in Users : task[s][u] = "NONE" BY <2>2 DEF NoTasks
  <2>5. \A s \in Steps : Undecided(s, task[s]) BY <2>4 DEF Undecided
  <2> HIDE DEF c
  <2> QED BY <2>1, <2>2, <2>3, <2>4, <2>5, OrderEnterNext DEF TypeOK
<1>2. ASSUME NEW s \in Steps, NEW u \in Users, NEW a \in Users, Approve(s, u, a)
      PROVE  InOrder'
  <2> DEFINE ts == [task[s] EXCEPT ![u] = "APPROVED"]
             settled == SiblingsCancelled(s, ts)
             tasks == [task EXCEPT ![s] = settled]
  <2>1. status = "ACTIVE" /\ task[s][u] = "PENDING" /\ forced' = forced
    BY <1>2 DEF Approve, ActsOn
  <2>2. OpenInOrder BY <2>1 DEF InOrder, OpenStatus
  <2>3. s \notin forced /\ Condition[s] BY <2>1, <2>2 DEF OpenInOrder, Undecided, Pending
  <2>4. /\ ts \in [Users -> TaskStatus] /\ ts[u] = "APPROVED"
        /\ task[s] \in [Users -> TaskStatus]
        /\ \A v \in Users : v # u => ts[v] = task[s][v]
    BY DEF TypeOK, TaskStatus
  <2>5. settled \in [Users -> TaskStatus] BY <2>4, SiblingsType
  <2>6. tasks \in [Steps -> [Users -> TaskStatus]] /\ tasks[s] = settled
        /\ \A r \in Steps \ {s} : tasks[r] = task[r]
    BY <2>5 DEF TypeOK
  <2>7. s # current => AfterSurplus(s) \/ SurplusIn(s, ts)
    BY <2>1, <2>2, StrayApproval
  <2>8. s <= current
    <3>1. ~(s > current) BY <2>1, <2>2 DEF OpenInOrder, NoTasks
    <3> QED BY <1>0, <3>1
  <2>9. \A v \in Users : settled[v] = ts[v] \/ (ts[v] = "PENDING" /\ settled[v] = "CANCELLED")
    BY <2>4, SiblingsKept
  <2>10. /\ StepType[s] = "PARALLEL" /\ Converged(s, ts) =>
               \A v \in Users : settled[v] # "PENDING"
    BY <2>4, SiblingsKept
  <2> HIDE DEF ts, settled, tasks
  <2>11. /\ Converged(s, settled) <=> Converged(s, ts)
         /\ VotedFor(s, settled) <=> VotedFor(s, ts)
         /\ SurplusIn(s, settled) <=> SurplusIn(s, ts)
    BY <2>4, <2>5, <2>9, CancellingKeepsVotes
  <2>12. VotedFor(s, ts) <=> Converged(s, ts) BY <2>4 DEF VotedFor, HavingStatus
  <2>13. ASSUME NEW r \in Steps, Surplus(r) PROVE SurplusIn(r, tasks[r])
    <3>1. CASE r = s
      <4>1. SurplusIn(s, task[s]) BY <2>13, <3>1 DEF Surplus, SurplusIn
      <4>2. \A v \in Users : task[s][v] = "APPROVED" => ts[v] = "APPROVED" BY <2>4
      <4> QED BY <2>4, <2>6, <2>11, <3>1, <4>1, <4>2, SurplusStays
    <3>2. CASE r # s BY <2>6, <2>13, <3>2 DEF Surplus, SurplusIn
    <3> QED BY <3>1, <3>2
  <2>14. ASSUME NEW r \in Steps, AfterSurplus(r)
         PROVE  \E q \in 1..r-1 : SurplusIn(q, tasks[q])
    <3>1. PICK q \in 1..r-1 : Surplus(q) BY <2>14 DEF AfterSurplus
    <3>2. q \in Steps BY <1>0, <3>1 DEF Steps
    <3> QED BY <2>13, <3>1, <3>2
  <2>15. \A r \in Steps : r > current => tasks[r] = NoTasks /\ r \notin forced'
    <3>1. \A r \in Steps : r > current => r # s BY <1>0, <2>8
    <3> QED BY <2>1, <2>2, <2>6, <3>1 DEF OpenInOrder
  <2>16. \A r \in Steps : r \in forced' => \A v \in Users : tasks[r][v] # "PENDING"
    BY <2>1, <2>2, <2>3, <2>6 DEF OpenInOrder, Pending
  <2>17. ASSUME StepType[s] = "PARALLEL" => \A v \in Users : settled[v] # "PENDING"
                                            \/ ~VotedFor(s, settled)
         PROVE  \A r \in Steps : Undecided(r, tasks[r])
    <3>1. Undecided(s, settled) BY <2>3, <2>17 DEF Undecided
    <3> QED BY <2>2, <2>6, <3>1 DEF OpenInOrder
  <2>18. CASE Converged(s, ts)
    <3>1. EnterNext(current, tasks, entity) BY <1>2, <2>18 DEF Approve, ts, settled, tasks
    <3>2. ASSUME NEW r \in Steps, r <= current, Condition[r]
          PROVE  r \in forced' \/ VotedFor(r, tasks[r])
                 \/ \E q \in 1..r-1 : SurplusIn(q, tasks[q])
      <4>1. CASE r = s BY <2>6, <2>11, <2>12, <2>18, <4>1
      <4>2. CASE r # s /\ r = current
        <5>1. CASE AfterSurplus(s)
          <6>1. AfterSurplus(r)
            <7>1. PICK q \in 1..s-1 : Surplus(q) BY <5>1 DEF AfterSurplus
            <7>2. q \in 1..r-1 BY <1>0, <2>8, <4>2, <7>1
            <7> QED BY <7>1, <7>2 DEF AfterSurplus
          <6> QED BY <2>14, <6>1
        <5>2. CASE SurplusIn(s, ts)
          <6>1. s \in 1..r-1 BY <1>0, <2>8, <4>2 DEF Steps
          <6> QED BY <2>6, <2>11, <5>2, <6>1
        <5> QED BY <2>7, <4>2, <5>1, <5>2
      <4>3. CASE r # s /\ r # current
        <5>1. r < current BY <1>0, <3>2, <4>3
        <5>2. Cleared(r) \/ AfterSurplus(r) BY <2>2, <3>2, <5>1 DEF OpenInOrder
        <5>3. CASE Cleared(r)
          BY <2>1, <2>6, <4>3, <5>3 DEF Cleared, VotedFor
        <5> QED BY <2>14, <5>2, <5>3
      <4> QED BY <4>1, <4>2, <4>3
    <3>3. \A r \in Steps : Undecided(r, tasks[r]) BY <2>10, <2>17, <2>18
    <3>4. current \in 0..NumSteps BY DEF TypeOK
    <3> QED BY <2>6, <2>15, <2>16, <3>1, <3>2, <3>3, <3>4, OrderEnterNext
  <2>19. CASE ~Converged(s, ts)
    <3>1. task' = tasks /\ current' = current /\ status' \in {"FAILED", "ACTIVE"}
      BY <1>2, <2>1, <2>19 DEF Approve, ts, settled, tasks
    <3>2. \A r \in Steps : Undecided(r, tasks[r]) BY <2>11, <2>12, <2>17, <2>19
    <3>3. ASSUME NEW r \in Steps, Cleared(r) PROVE Cleared(r)'
      <4>1. CASE r = s
        <5>1. VotedFor(s, task[s]) BY <2>3, <3>3, <4>1 DEF Cleared, VotedFor
        <5>2. StepType[s] = "PARALLEL" BY <2>4, <2>19, OneIsEnough
        <5> QED BY <2>1, <2>2, <5>1, <5>2 DEF OpenInOrder, Undecided
      <4>2. CASE r # s BY <2>1, <2>6, <3>1, <3>3, <4>2 DEF Cleared
      <4> QED BY <4>1, <4>2
    <3>4. ASSUME NEW r \in Steps, AfterSurplus(r) PROVE AfterSurplus(r)'
      <4>1. PICK q \in 1..r-1 : SurplusIn(q, tasks[q]) BY <2>14, <3>4
      <4>2. Surplus(q)' BY <3>1, <4>1 DEF Surplus, SurplusIn
      <4> QED BY <4>1, <4>2 DEF AfterSurplus
    <3>5. ~Cleared(current)'
      <4>1. CASE s = current
        BY <2>1, <2>3, <2>6, <2>11, <2>12, <2>19, <3>1, <4>1 DEF Cleared, VotedFor
      <4>2. CASE s # current
        <5>1. current \in Steps \ {s} /\ ~Cleared(current) BY <2>2, <4>2 DEF OpenInOrder
        <5> QED BY <2>1, <2>6, <3>1, <5>1 DEF Cleared
      <4> QED BY <4>1, <4>2
    <3>6. OpenInOrder'
      <4>1. current' \in Steps /\ Condition[current'] BY <2>2, <3>1 DEF OpenInOrder
      <4>2. \A r \in Steps : r < current' /\ Condition[r] => Cleared(r)' \/ AfterSurplus(r)'
        BY <2>2, <3>1, <3>3, <3>4 DEF OpenInOrder
      <4>3. \A r \in Steps : Undecided(r, task'[r]) BY <3>1, <3>2
      <4>4. \A r \in Steps : Pending(r)' # {} => r \notin forced'
        BY <2>16, <3>1 DEF Pending
      <4> QED BY <2>15, <3>1, <3>5, <4>1, <4>2, <4>3, <4>4
              DEF OpenInOrder, Undecided, VotedFor
    <3> QED BY <3>1, <3>6 DEF InOrder, OpenStatus
  <2> QED BY <2>18, <2>19
<1>3. ASSUME NEW s \in Steps, NEW u \in Users, NEW a \in Users, Reject(s, u, a)
      PROVE  InOrder'
  <2>1. status' = "FAILED" BY <1>3 DEF Reject
  <2> QED BY <2>1 DEF InOrder, OpenStatus
<1>4. CASE Cancel
  <2>1. status' = "CANCELLED" BY <1>4 DEF Cancel
  <2> QED BY <2>1 DEF InOrder, OpenStatus
<1>5. CASE ForceAdvance
  <2> DEFINE ts == AllCancelled
  <2>1. EnterNext(current, ts, entity) /\ status = "ACTIVE"
        /\ forced' = forced \cup {current}
    BY <1>5 DEF ForceAdvance
  <2>2. OpenInOrder BY <2>1 DEF InOrder, OpenStatus
  <2>3. ts \in [Steps -> [Users -> TaskStatus]] BY DEF AllCancelled, TypeOK, TaskStatus
  <2>4. \A r \in Steps, v \in Users :
          /\ ts[r][v] # "PENDING"
          /\ ts[r][v] = task[r][v] \/ (task[r][v] = "PENDING" /\ ts[r][v] = "CANCELLED")
    BY DEF AllCancelled
  <2> HIDE DEF ts
  <2>5. ASSUME NEW r \in Steps
        PROVE  /\ VotedFor(r, ts[r]) <=> VotedFor(r, task[r])
               /\ SurplusIn(r, ts[r]) <=> SurplusIn(r, task[r])
    <3>1. ts[r] \in [Users -> TaskStatus] /\ task[r] \in [Users -> TaskStatus]
      BY <2>3 DEF TypeOK
    <3> QED BY <2>4, <3>1, CancellingKeepsVotes
  <2>6. ASSUME NEW r \in Steps, r <= current, Condition[r]
        PROVE  r \in forced' \/ VotedFor(r, ts[r]) \/ \E q \in 1..r-1 : SurplusIn(q, ts[q])
    <3>1. CASE r = current BY <2>1, <3>1
    <3>2. CASE r # current
      <4>1. r < current BY <1>0, <2>6, <3>2
      <4>2. Cleared(r) \/ AfterSurplus(r) BY <2>2, <2>6, <4>1 DEF OpenInOrder
      <4>3. CASE Cleared(r) BY <2>1, <2>5, <4>3 DEF Cleared, VotedFor
      <4>4. CASE AfterSurplus(r)
        <5>1. PICK q \in 1..r-1 : Surplus(q) BY <4>4 DEF AfterSurplus
        <5>2. q \in Steps BY <1>0, <5>1 DEF Steps
        <5>3. SurplusIn(q, ts[q]) BY <2>5, <5>1, <5>2 DEF Surplus, SurplusIn
        <5> QED BY <5>1, <5>3
      <4> QED BY <4>2, <4>3, <4>4
    <3> QED BY <3>1, <3>2
  <2>7. ASSUME NEW r \in Steps, r > current PROVE ts[r] = NoTasks /\ r \notin forced'
    <3>1. r # current BY <1>0, <2>7
    <3>2. task[r] = NoTasks /\ r \notin forced BY <2>2, <2>7 DEF OpenInOrder
    <3>3. \A v \in Users : ts[r][v] = "NONE" BY <2>4, <3>2 DEF NoTasks
    <3>4. ts[r] = NoTasks
      <4> DEFINE row == ts[r]
      <4>1. row \in [Users -> TaskStatus] BY <2>3
      <4>2. \A v \in Users : row[v] = "NONE" BY <3>3
      <4>3. row = [v \in Users |-> "NONE"]
        <5> HIDE DEF row
        <5>1. row = [v \in Users |-> row[v]] BY <4>1
        <5> QED BY <4>2, <5>1
      <4> QED BY <4>3 DEF NoTasks
    <3> QED BY <2>1, <3>1, <3>2, <3>4
  <2>8. \A r \in Steps : Undecided(r, ts[r]) BY <2>4 DEF Undecided
  <2>9. current \in 0..NumSteps BY DEF TypeOK
  <2>10. \A r \in Steps : r <= current /\ Condition[r] =>
            r \in forced' \/ VotedFor(r, ts[r]) \/ \E q \in 1..r-1 : SurplusIn(q, ts[q])
    BY <2>6
  <2>11. \A r \in Steps : r \in forced' => \A v \in Users : ts[r][v] # "PENDING"
    BY <2>4
  <2>12. \A r \in Steps : r > current => ts[r] = NoTasks /\ r \notin forced'
    BY <2>7
  <2>13. EnterNext(current, ts, entity) BY <2>1
  <2> QED BY <2>3, <2>8, <2>9, <2>10, <2>11, <2>12, <2>13, OrderEnterNext
<1>6. CASE Pause \/ Resume
  <2>1. UNCHANGED <<current, task, forced>>
        /\ status \in OpenStatus /\ status' \in OpenStatus
    BY <1>6 DEF Pause, Resume, OpenStatus
  <2>2. OpenInOrder' BY <2>1, OrderKept DEF InOrder
  <2> QED BY <2>1, <2>2 DEF InOrder, OpenStatus
<1>7. CASE \/ SlaScan \/ \E s \in Steps : TimePasses(s)
           \/ \E u \in Users : DelegationChanges(u)
           \/ DecidedAside \/ UNCHANGED vars
  <2>1. UNCHANGED <<status, current, task, forced>>
    BY <1>7, AsideTouchesNothing DEF SlaScan, TimePasses, DelegationChanges, vars, flowVars
  <2> QED BY <2>1, OrderKept DEF InOrder
<1> QED BY <1>1, <1>2, <1>3, <1>4, <1>5, <1>6, <1>7 DEF Next, Act, DecidedAside

\* What the order gives: no step is bypassed, and only tasks of the current
\* step are open to action, but for surplus approvals.
LEMMA OrderSuffices ==
    ASSUME TypeOK, InOrder
    PROVE  NoStepBypassed /\ OpenTasksAtCurrentStep
<1>1. NoStepBypassed
  BY DEF InOrder, OpenInOrder, NoStepBypassed, OpenStatus, AfterSurplus
<1>2. ASSUME status \in OpenStatus, NEW s \in Steps \ {current}, Pending(s) # {}
      PROVE  /\ s < current
             /\ \/ StepType[s] = "SEQUENTIAL" /\ HavingStatus(task[s], "APPROVED") # {}
                \/ AfterSurplus(s)
  <2>1. OpenInOrder BY <1>2 DEF InOrder
  <2>2. PICK u \in Users : task[s][u] = "PENDING" BY <1>2 DEF Pending
  <2>3. Condition[s] /\ s \notin forced /\ (StepType[s] = "PARALLEL" => ~VotedFor(s, task[s]))
    BY <1>2, <2>1, <2>2 DEF OpenInOrder, Undecided
  <2>4. s < current
    <3>1. s \in Int /\ current \in Int BY <2>1 DEF OpenInOrder, Steps
    <3>2. ~(s > current) BY <2>1, <2>2 DEF OpenInOrder, NoTasks
    <3> QED BY <3>1, <3>2
  <2>5. Cleared(s) \/ AfterSurplus(s) BY <2>1, <2>3, <2>4 DEF OpenInOrder
  <2>6. CASE Cleared(s)
    <3>1. VotedFor(s, task[s]) BY <2>3, <2>6 DEF Cleared, VotedFor
    <3>2. StepType[s] = "SEQUENTIAL"
      BY <2>3, <3>1, TemplateAssumption DEF TemplateAssumption, StepTypes
    <3> QED BY <2>4, <3>1, <3>2 DEF VotedFor
  <2> QED BY <2>4, <2>5, <2>6
<1> QED BY <1>1, <1>2 DEF OpenTasksAtCurrentStep, AfterSurplus

\* Whatever the conditions, convergences and delegations, and however often an
\* administrator intervenes, no approval step is bypassed before a SEQUENTIAL
\* one has been approved twice.
THEOREM NoStepBypassedHolds == Spec => []NoStepBypassed
<1>1. Init => TypeOK /\ InOrder BY TypeInit, OrderInit
<1>2. TypeOK /\ InOrder /\ [Next]_vars => (TypeOK /\ InOrder)' BY TypeStep, OrderStep
<1>3. TypeOK /\ InOrder => NoStepBypassed BY OrderSuffices
<1> QED BY <1>1, <1>2, <1>3, PTL DEF Spec

\* A task that can be acted on is of the step the instance is at, so that
\* advance() leaves the step it has decided; the exceptions are what one of
\* several SEQUENTIAL approvers left, and what its surplus approval leaves.
THEOREM OpenTasksAtCurrentStepHolds == Spec => []OpenTasksAtCurrentStep
<1>1. Init => TypeOK /\ InOrder BY TypeInit, OrderInit
<1>2. TypeOK /\ InOrder /\ [Next]_vars => (TypeOK /\ InOrder)' BY TypeStep, OrderStep
<1>3. TypeOK /\ InOrder => OpenTasksAtCurrentStep BY OrderSuffices
<1> QED BY <1>1, <1>2, <1>3, PTL DEF Spec

-----------------------------------------------------------------------------
(* The engine implements DocumentApproval.                                  *)

Applicable == {s \in Steps : Condition[s]}
ClearedSteps == {s \in Steps : Condition[s] /\ Cleared(s)}
SomeSurplus == \E s \in Steps : Surplus(s)

LEMMA AfterSurplusIsOne == \A s \in Steps : AfterSurplus(s) => SomeSurplus
<1> SUFFICES ASSUME NEW s \in Steps, NEW r \in 1..s-1, Surplus(r) PROVE r \in Steps
  BY DEF AfterSurplus, SomeSurplus
<1> QED BY TemplateAssumption DEF TemplateAssumption, Steps

\* Before any surplus approval, the cleared steps of an open instance are those
\* before the current one, which is therefore the next to clear.
LEMMA ClearedSoFar ==
    TypeOK /\ InOrder /\ status \in OpenStatus /\ ~SomeSurplus =>
        ClearedSteps = {s \in Applicable : s < current}
<1> SUFFICES ASSUME TypeOK, InOrder, status \in OpenStatus, ~SomeSurplus,
                    NEW s \in Steps, Condition[s]
             PROVE  Cleared(s) <=> s < current
  BY DEF ClearedSteps, Applicable
<1>1. OpenInOrder BY DEF InOrder
<1>2. CASE s < current
  <2>1. Cleared(s) \/ AfterSurplus(s) BY <1>1, <1>2 DEF OpenInOrder
  <2>2. ~AfterSurplus(s) BY AfterSurplusIsOne
  <2> QED BY <1>2, <2>1, <2>2
<1>3. CASE s = current BY <1>1, <1>3 DEF OpenInOrder, Steps
<1>4. CASE s > current
  <2>1. task[s] = NoTasks /\ s \notin forced BY <1>1, <1>4 DEF OpenInOrder
  <2>2. ~Cleared(s) BY <2>1 DEF Cleared, HavingStatus, NoTasks
  <2> QED BY <1>1, <1>4, <2>2 DEF OpenInOrder, Steps
<1> QED BY <1>1, <1>2, <1>3, <1>4, TemplateAssumption DEF OpenInOrder, Steps

LEMMA NextToClear ==
    ASSUME TypeOK, InOrder, status \in OpenStatus, ~SomeSurplus
    PROVE  /\ current \in Applicable \ ClearedSteps
           /\ Min(Applicable \ ClearedSteps) = current
<1> DEFINE left == Applicable \ ClearedSteps
<1>1. OpenInOrder BY DEF InOrder
<1>2. current \in left BY <1>1 DEF OpenInOrder, Applicable, ClearedSteps
<1>3. left \subseteq Nat BY DEF Applicable, Steps
<1>4. Min(left) \in left /\ \A x \in left : Min(left) <= x BY <1>2, <1>3, MinIsLeast
<1>5. \A x \in left : ~(x < current) BY ClearedSoFar
<1> HIDE DEF left
<1>6. Min(left) \in Nat /\ current \in Nat BY <1>2, <1>3, <1>4
<1>7. Min(left) <= current /\ ~(Min(left) < current) BY <1>2, <1>4, <1>5
<1> QED BY <1>2, <1>6, <1>7 DEF left

\* Before any surplus approval, leaving the current step is the promise's
\* ClearNext.
LEMMA AdvanceClears ==
    ASSUME TypeOK, InOrder, WaitsOrDecidedAside(entity), TypeOK', InOrder', NEW ts,
           status = "ACTIVE", EnterNext(current, ts, entity),
           outside' = outside, ~SomeSurplus, ~SomeSurplus'
    PROVE  Promise!ClearNext
<1>1. /\ current \in Applicable \ ClearedSteps
      /\ Min(Applicable \ ClearedSteps) = current
      /\ ClearedSteps = {s \in Applicable : s < current}
  BY NextToClear, ClearedSoFar DEF OpenStatus
<1>2. entity = "PENDING_APPROVAL" \/ (outside /\ entity \in {"WITHDRAWN", "APPROVED", "REJECTED"})
  BY DEF WaitsOrDecidedAside
<1>3. current \in 0..NumSteps /\ current \in Int
  BY TemplateAssumption DEF TemplateAssumption, TypeOK
<1>6. ASSUME ClearedSteps' = ClearedSteps \cup {current},
             entity' = IF ClearedSteps' = Applicable /\ entity = "PENDING_APPROVAL"
                       THEN "APPROVED" ELSE entity
      PROVE  Promise!ClearNext
  <2>1. Promise!Min(Applicable \ ClearedSteps) = current BY <1>1 DEF Promise!Min, Min
  <2>2. Promise!GoesOn BY <1>2 DEF Promise!GoesOn
  <2>3. SomeSurplus' <=> SomeSurplus OBVIOUS
  <2> QED BY <1>1, <1>6, <2>1, <2>2, <2>3
          DEF Promise!ClearNext, Promise!DecisionAfter, Applicable, ClearedSteps, SomeSurplus
<1>4. CASE Remaining(current) = {}
  <2>1. status' = "COMPLETED" /\ entity' = Synced("COMPLETED", entity)
    BY <1>4 DEF EnterNext, StatusAfter
  <2>2. ClearedSteps' = Applicable
    <3>1. (\A s \in Steps : AfterSurplus(s) => SomeSurplus)' BY AfterSurplusIsOne, PTL
    <3>2. \A s \in Steps : Condition[s] => Cleared(s)' BY <2>1, <3>1 DEF InOrder, Steps
    <3> QED BY <3>2 DEF ClearedSteps, Applicable
  <2>3. \A s \in Applicable : s \in Int /\ ~(s > current)
    BY <1>4 DEF Remaining, Applicable, Steps
  <2>4. \A s \in Applicable : s < current \/ s = current BY <1>3, <2>3
  <2>5. Applicable = ClearedSteps \cup {current} BY <1>1, <2>4
  <2> QED BY <1>6, <2>1, <2>2, <2>5, <1>2 DEF Synced
<1>5. CASE Remaining(current) # {}
  <2> DEFINE n == StepAfter(current)
  <2>1. /\ n \in Steps /\ n > current /\ Condition[n]
        /\ \A s \in Steps : current < s /\ s < n => ~Condition[s]
    BY <1>3, <1>5, StepAfterIsNext
  <2>2. status' = "ACTIVE" /\ current' = n /\ entity' = entity
    BY <1>5 DEF EnterNext, StatusAfter, Synced
  <2> HIDE DEF n
  <2>3. ClearedSteps' = {s \in Applicable : s < n}
    <3>1. (TypeOK /\ InOrder /\ status \in OpenStatus /\ ~SomeSurplus =>
             ClearedSteps = {s \in Applicable : s < current})'
      BY ClearedSoFar, PTL
    <3> QED BY <2>2, <3>1 DEF OpenStatus, Applicable, Steps
  <2>4. ASSUME NEW s \in Applicable PROVE s < n <=> s < current \/ s = current
    <3>1. s \in Int /\ n \in Int /\ s \in Steps /\ Condition[s]
      BY <2>1, <2>4 DEF Applicable, Steps
    <3> QED BY <1>3, <2>1, <3>1
  <2>5. ClearedSteps' = ClearedSteps \cup {current} BY <1>1, <2>3, <2>4
  <2>6. n \in Applicable /\ n \notin ClearedSteps'
    BY <2>1, <2>3 DEF Applicable, Steps
  <2> QED BY <1>6, <2>2, <2>5, <2>6
<1> QED BY <1>4, <1>5

\* Leaving the current step with a task table ts that keeps every approval, the
\* promise's ClearNext or, with a surplus approval, its GoOnRegardless.
LEMMA AdvanceKeeps ==
    ASSUME TypeOK, InOrder, EntityFollowsInstance, TypeOK', InOrder',
           NEW ts \in [Steps -> [Users -> TaskStatus]],
           status = "ACTIVE", EnterNext(current, ts, entity),
           outside' = outside, forced \subseteq forced',
           \A s \in Steps : /\ VotedFor(s, task[s]) => s \in forced' \/ VotedFor(s, ts[s])
                            /\ SurplusIn(s, task[s]) => SurplusIn(s, ts[s])
    PROVE  Promise!Next
<1>1. OpenInOrder /\ WaitsOrDecidedAside(entity) BY OpenWaits DEF InOrder, OpenStatus
<1>2. ASSUME NEW s \in Steps, task[s] # NoTasks PROVE task'[s] = ts[s]
  <2>1. CASE Remaining(current) = {} BY <2>1 DEF EnterNext
  <2>2. CASE Remaining(current) # {}
    <3>1. current \in 0..NumSteps BY DEF TypeOK
    <3>2. StepAfter(current) \in Steps /\ StepAfter(current) > current
      BY <2>2, <3>1, StepAfterIsNext
    <3>3. s # StepAfter(current) BY <1>1, <1>2, <3>2 DEF OpenInOrder
    <3> QED BY <2>2, <3>2, <3>3 DEF EnterNext
  <2> QED BY <2>1, <2>2
<1>3. \A s \in Steps : HavingStatus(task[s], "APPROVED") # {} => task[s] # NoTasks
  BY DEF HavingStatus, NoTasks
<1>4. ClearedSteps \subseteq ClearedSteps'
  <2>1. ASSUME NEW s \in Steps, Cleared(s) PROVE Cleared(s)'
    <3>1. CASE s \in forced BY <3>1 DEF Cleared
    <3>2. CASE VotedFor(s, task[s])
      <4>1. task'[s] = ts[s] BY <1>2, <1>3, <3>2 DEF VotedFor
      <4>2. s \in forced' \/ VotedFor(s, ts[s]) BY <3>2
      <4> QED BY <4>1, <4>2 DEF Cleared, VotedFor
    <3> QED BY <2>1, <3>1, <3>2 DEF Cleared, VotedFor
  <2> QED BY <2>1 DEF ClearedSteps
<1>5. SomeSurplus => SomeSurplus'
  <2>1. ASSUME NEW s \in Steps, Surplus(s) PROVE Surplus(s)'
    <3>1. SurplusIn(s, task[s]) BY <2>1 DEF Surplus, SurplusIn
    <3>2. task'[s] = ts[s] BY <1>2, <1>3, <3>1 DEF SurplusIn
    <3>3. SurplusIn(s, ts[s]) BY <3>1
    <3> QED BY <3>2, <3>3 DEF Surplus, SurplusIn
  <2> QED BY <2>1 DEF SomeSurplus
<1>6. CASE SomeSurplus'
  <2>1. entity' = Synced(status', entity) /\ status' \in {"ACTIVE", "COMPLETED"}
    BY DEF EnterNext, StatusAfter
  <2>2. \/ entity' = entity
        \/ entity = "PENDING_APPROVAL" /\ entity' = "APPROVED"
    BY <2>1 DEF Synced
  <2>3. Promise!GoesOn BY <1>1 DEF Promise!GoesOn, WaitsOrDecidedAside
  <2>4. ClearedSteps' \subseteq Applicable BY DEF ClearedSteps, Applicable
  <2>5. Promise!GoOnRegardless
    BY <1>4, <1>6, <2>2, <2>3, <2>4
       DEF Promise!GoOnRegardless, ClearedSteps, SomeSurplus, Applicable
  <2> QED BY <2>5 DEF Promise!Next
<1>7. CASE ~SomeSurplus'
  <2>1. Promise!ClearNext BY <1>1, <1>5, <1>7, AdvanceClears
  <2> QED BY <2>1 DEF Promise!Next
<1> QED BY <1>6, <1>7

\* Closing open tasks of a step without an approval decides nothing.
LEMMA ClosingDecidesNothing ==
    ASSUME NEW s \in Steps, NEW ts \in [Users -> TaskStatus],
           NEW us \in [Users -> TaskStatus], Undecided(s, ts),
           \A u \in Users : \/ us[u] = ts[u]
                            \/ ts[u] = "PENDING" /\ us[u] \in {"CANCELLED", "REJECTED"}
    PROVE  /\ VotedFor(s, us) <=> VotedFor(s, ts)
           /\ SurplusIn(s, us) <=> SurplusIn(s, ts)
<1>1. HavingStatus(us, "APPROVED") = HavingStatus(ts, "APPROVED") /\ Group(us) = Group(ts)
  BY DEF HavingStatus, Group
<1>2. HavingStatus(ts, "REJECTED") \subseteq HavingStatus(us, "REJECTED")
  BY DEF HavingStatus
<1>3. SurplusIn(s, us) <=> SurplusIn(s, ts) BY <1>1 DEF SurplusIn
<1>4. VotedFor(s, us) => VotedFor(s, ts) BY <1>1, <1>2 DEF VotedFor, Converged
<1>5. ASSUME VotedFor(s, ts) PROVE VotedFor(s, us)
  <2>1. CASE StepType[s] = "SEQUENTIAL" BY <1>1, <1>5, <2>1 DEF VotedFor, Converged
  <2>2. CASE StepType[s] = "PARALLEL"
    <3>1. \A u \in Users : ts[u] # "PENDING" BY <1>5, <2>2 DEF Undecided
    <3>2. us = ts BY <3>1
    <3> QED BY <1>5, <3>2
  <2> QED BY <2>1, <2>2, TemplateAssumption DEF TemplateAssumption, StepTypes
<1> QED BY <1>3, <1>4, <1>5

\* A task table in which every step has the same votes clears nothing.
LEMMA NothingCleared ==
    ASSUME forced' = forced,
           \A s \in Steps : /\ VotedFor(s, task'[s]) <=> VotedFor(s, task[s])
                            /\ SurplusIn(s, task'[s]) <=> SurplusIn(s, task[s])
    PROVE  ClearedSteps' = ClearedSteps /\ (SomeSurplus' <=> SomeSurplus)
<1>1. \A s \in Steps : Cleared(s)' <=> Cleared(s) BY DEF Cleared, VotedFor
<1>2. \A s \in Steps : Surplus(s)' <=> Surplus(s) BY DEF Surplus, SurplusIn
<1> QED BY <1>1, <1>2 DEF ClearedSteps, SomeSurplus

\* A change of the document's status alone that the promise allows.
LEMMA RefuseOrStutter ==
    ASSUME ClearedSteps' = ClearedSteps, SomeSurplus' <=> SomeSurplus, outside' = outside,
           \/ entity' \in {"REJECTED", "CANCELLED"} /\ entity = "PENDING_APPROVAL"
           \/ entity' = entity
    PROVE  [Promise!Next]_(Promise!vars)
BY DEF Promise!Next, Promise!Refuse, Promise!vars, ClearedSteps, SomeSurplus

LEMMA PromiseInit == Init => Promise!Init
BY DEF Init, Promise!Init, Cleared, Surplus, HavingStatus, NoTasks

LEMMA PromiseStep ==
    ASSUME TypeOK, InOrder, EntityFollowsInstance, TypeOK', InOrder', [Next]_vars
    PROVE  [Promise!Next]_(Promise!vars)
<1> USE TemplateAssumption DEF TemplateAssumption
<1>1. CASE Instantiate
  <2> DEFINE c == IF Condition[1] THEN 0 ELSE 1
  <2>1. c \in 0..NumSteps /\ EnterNext(c, task, "PENDING_APPROVAL") /\ forced' = forced
        /\ entity = "DRAFT" /\ status = "NONE" /\ outside' = outside
    BY <1>1 DEF Instantiate
  <2>2. forced = {} /\ \A s \in Steps : task[s] = NoTasks BY <2>1 DEF InOrder
  <2>3. ClearedSteps = {} /\ ~SomeSurplus
    BY <2>2 DEF ClearedSteps, SomeSurplus, Cleared, Surplus, HavingStatus, NoTasks
  <2>4. \A s \in Steps : s > c \/ ~Condition[s] BY DEF Steps
  <2> HIDE DEF c
  <2>5. \A s \in Steps, u \in Users : task'[s][u] # "APPROVED"
    <3>1. CASE Remaining(c) = {} BY <2>1, <2>2, <3>1 DEF EnterNext, NoTasks
    <3>2. CASE Remaining(c) # {}
      <4> DEFINE n == StepAfter(c)
                 row == [u \in Users |->
                            IF u \in Eligible(n, delegating) THEN "PENDING" ELSE "NONE"]
      <4>1. n \in Steps /\ task' = [task EXCEPT ![n] = row]
        BY <2>1, <3>2, StepAfterIsNext DEF EnterNext
      <4>2. \A u \in Users : row[u] # "APPROVED" OBVIOUS
      <4> HIDE DEF n, row
      <4>3. ASSUME NEW s \in Steps PROVE task'[s] = row \/ task'[s] = NoTasks
        BY <2>2, <4>1 DEF TypeOK
      <4> QED BY <4>2, <4>3 DEF NoTasks
    <3> QED BY <3>1, <3>2
  <2>6. ~SomeSurplus' BY <2>5 DEF SomeSurplus, Surplus, HavingStatus
  <2>7. ClearedSteps' = {} BY <2>1, <2>2, <2>5 DEF ClearedSteps, Cleared, HavingStatus
  <2>8. entity' = IF Applicable = {} THEN "APPROVED" ELSE "PENDING_APPROVAL"
    <3>1. CASE Remaining(c) = {}
      <4>1. Applicable = {} BY <2>4, <3>1 DEF Remaining, Applicable
      <4> QED BY <2>1, <3>1, <4>1 DEF EnterNext, StatusAfter, Synced
    <3>2. CASE Remaining(c) # {}
      <4>1. Applicable # {} BY <3>2 DEF Remaining, Applicable
      <4> QED BY <2>1, <3>2, <4>1 DEF EnterNext, StatusAfter, Synced
    <3> QED BY <3>1, <3>2
  <2>9. ClearedSteps' = ClearedSteps /\ (SomeSurplus' <=> SomeSurplus) BY <2>3, <2>6, <2>7
  <2>10. Promise!Submit
    BY <2>1, <2>8, <2>9 DEF Promise!Submit, Applicable, ClearedSteps, SomeSurplus
  <2> QED BY <2>10 DEF Promise!Next
<1>2. ASSUME NEW s \in Steps, NEW u \in Users, NEW a \in Users, Approve(s, u, a)
      PROVE  [Promise!Next]_(Promise!vars)
  <2> DEFINE ts == [task[s] EXCEPT ![u] = "APPROVED"]
             settled == SiblingsCancelled(s, ts)
             tasks == [task EXCEPT ![s] = settled]
  <2>1. status = "ACTIVE" /\ task[s][u] = "PENDING" /\ forced' = forced /\ outside' = outside
    BY <1>2 DEF Approve, ActsOn
  <2>2. OpenInOrder BY <2>1 DEF InOrder, OpenStatus
  <2>3. /\ ts \in [Users -> TaskStatus] /\ ts[u] = "APPROVED"
        /\ task[s] \in [Users -> TaskStatus]
        /\ \A v \in Users : task[s][v] = "APPROVED" => ts[v] = "APPROVED"
    BY DEF TypeOK, TaskStatus
  <2>4. settled \in [Users -> TaskStatus] BY <2>3, SiblingsType
  <2>5. tasks \in [Steps -> [Users -> TaskStatus]] /\ tasks[s] = settled
        /\ \A r \in Steps \ {s} : tasks[r] = task[r]
    BY <2>4 DEF TypeOK
  <2>6. \A v \in Users : settled[v] = ts[v] \/ (ts[v] = "PENDING" /\ settled[v] = "CANCELLED")
    BY <2>3, SiblingsKept
  <2> HIDE DEF ts, settled, tasks
  <2>7. /\ VotedFor(s, settled) <=> VotedFor(s, ts)
        /\ SurplusIn(s, settled) <=> SurplusIn(s, ts)
    BY <2>3, <2>4, <2>6, CancellingKeepsVotes
  <2>8. CASE Converged(s, ts)
    <3>1. EnterNext(current, tasks, entity) BY <1>2, <2>8 DEF Approve, ts, settled, tasks
    <3>2. VotedFor(s, ts) BY <2>3, <2>8 DEF VotedFor, HavingStatus
    <3>3. SurplusIn(s, task[s]) => SurplusIn(s, ts) BY <2>3, SurplusStays
    <3>4. \A r \in Steps : /\ VotedFor(r, task[r]) => VotedFor(r, tasks[r])
                           /\ SurplusIn(r, task[r]) => SurplusIn(r, tasks[r])
      BY <2>5, <2>7, <3>2, <3>3
    <3> QED BY <2>1, <2>5, <3>1, <3>4, AdvanceKeeps
  <2>9. CASE ~Converged(s, ts)
    <3>1. task' = tasks /\ entity' \in {entity, Synced("FAILED", entity), Synced("ACTIVE", entity)}
      BY <1>2, <2>1, <2>9 DEF Approve, ts, settled, tasks
    <3>2. StepType[s] = "PARALLEL" BY <2>3, <2>9, OneIsEnough
    <3>3. ~VotedFor(s, settled) BY <2>7, <2>9 DEF VotedFor
    <3>4. ~VotedFor(s, task[s]) BY <2>1, <2>2, <3>2 DEF OpenInOrder, Undecided
    <3>5. ~SurplusIn(s, settled) /\ ~SurplusIn(s, task[s]) BY <3>2 DEF SurplusIn
    <3>6. ClearedSteps' = ClearedSteps /\ (SomeSurplus' <=> SomeSurplus)
      BY <2>1, <2>5, <3>1, <3>3, <3>4, <3>5, NothingCleared
    <3> QED BY <2>1, <3>1, <3>6, RefuseOrStutter DEF Synced
  <2> QED BY <2>8, <2>9
<1>3. ASSUME NEW s \in Steps, NEW u \in Users, NEW a \in Users, Reject(s, u, a)
      PROVE  [Promise!Next]_(Promise!vars)
  <2>1. /\ status = "ACTIVE" /\ task[s][u] = "PENDING" /\ forced' = forced
        /\ outside' = outside
        /\ task' = [task EXCEPT ![s][u] = "REJECTED"] /\ entity' = Synced("FAILED", entity)
    BY <1>3 DEF Reject, ActsOn
  <2>2. Undecided(s, task[s]) BY <2>1 DEF InOrder, OpenInOrder, OpenStatus
  <2> DEFINE us == [task[s] EXCEPT ![u] = "REJECTED"]
  <2>3. us \in [Users -> TaskStatus] /\ task[s] \in [Users -> TaskStatus]
    BY DEF TypeOK, TaskStatus
  <2>4. \A v \in Users : \/ us[v] = task[s][v]
                         \/ task[s][v] = "PENDING" /\ us[v] \in {"CANCELLED", "REJECTED"}
    BY <2>1, <2>3
  <2>5. task'[s] = us /\ \A r \in Steps \ {s} : task'[r] = task[r]
    BY <2>1 DEF TypeOK
  <2> HIDE DEF us
  <2>6. VotedFor(s, us) <=> VotedFor(s, task[s]) BY <2>2, <2>3, <2>4, ClosingDecidesNothing
  <2>7. SurplusIn(s, us) <=> SurplusIn(s, task[s]) BY <2>2, <2>3, <2>4, ClosingDecidesNothing
  <2>8. ClearedSteps' = ClearedSteps /\ (SomeSurplus' <=> SomeSurplus)
    BY <2>1, <2>5, <2>6, <2>7, NothingCleared
  <2> QED BY <2>1, <2>8, RefuseOrStutter DEF Synced
<1>4. ASSUME NEW r \in Steps
      PROVE  /\ AllCancelled \in [Steps -> [Users -> TaskStatus]]
             /\ VotedFor(r, AllCancelled[r]) <=> VotedFor(r, task[r])
             /\ SurplusIn(r, AllCancelled[r]) <=> SurplusIn(r, task[r])
  <2> DEFINE us == AllCancelled
  <2>1. us \in [Steps -> [Users -> TaskStatus]] BY DEF AllCancelled, TypeOK, TaskStatus
  <2>2. \A v \in Users :
          us[r][v] = task[r][v] \/ (task[r][v] = "PENDING" /\ us[r][v] = "CANCELLED")
    BY DEF AllCancelled
  <2> HIDE DEF us
  <2>3. us[r] \in [Users -> TaskStatus] /\ task[r] \in [Users -> TaskStatus]
    BY <2>1 DEF TypeOK
  <2>4. /\ VotedFor(r, us[r]) <=> VotedFor(r, task[r])
        /\ SurplusIn(r, us[r]) <=> SurplusIn(r, task[r])
    BY <2>2, <2>3, CancellingKeepsVotes
  <2> QED BY <2>1, <2>4 DEF us
<1>5. CASE Cancel
  <2>1. /\ forced' = forced /\ task' = AllCancelled /\ outside' = outside
        /\ entity' = Synced("CANCELLED", entity)
    BY <1>5 DEF Cancel
  <2> HIDE DEF AllCancelled
  <2>2. ClearedSteps' = ClearedSteps /\ (SomeSurplus' <=> SomeSurplus)
    BY <1>4, <2>1, NothingCleared
  <2> QED BY <2>1, <2>2, RefuseOrStutter DEF Synced
<1>6. CASE ForceAdvance
  <2>1. status = "ACTIVE" /\ EnterNext(current, AllCancelled, entity)
        /\ outside' = outside /\ forced \subseteq forced'
    BY <1>6 DEF ForceAdvance
  <2>2. 1 \in Steps BY DEF Steps
  <2>3. AllCancelled \in [Steps -> [Users -> TaskStatus]] BY <1>4, <2>2
  <2> HIDE DEF AllCancelled
  <2> QED BY <1>4, <2>1, <2>3, AdvanceKeeps
<1>7. CASE DecidedAside
  <2>1. UNCHANGED <<task, forced>> BY <1>7, AsideTouchesNothing
  <2>2. ClearedSteps' = ClearedSteps /\ (SomeSurplus' <=> SomeSurplus)
    BY <2>1, NothingCleared DEF VotedFor, SurplusIn
  <2>3. Promise!DecideOutside
    BY <1>7, <2>2, AsideTouchesNothing
       DEF Promise!DecideOutside, ClearedSteps, SomeSurplus
  <2> QED BY <2>3 DEF Promise!Next
<1>8. CASE \/ Pause \/ Resume \/ SlaScan \/ \E s \in Steps : TimePasses(s)
           \/ \E u \in Users : DelegationChanges(u)
           \/ UNCHANGED vars
  <2>1. UNCHANGED <<task, forced, entity, outside>>
    BY <1>8 DEF Pause, Resume, SlaScan, TimePasses, DelegationChanges, vars, flowVars
  <2>2. ClearedSteps' = ClearedSteps /\ (SomeSurplus' <=> SomeSurplus)
    BY <2>1, NothingCleared DEF VotedFor, SurplusIn
  <2> QED BY <2>1, <2>2, RefuseOrStutter
<1> QED
  BY <1>1, <1>2, <1>3, <1>5, <1>6, <1>7, <1>8 DEF Next, Act, DecidedAside

\* The engine is an implementation of the approval a document is promised, for
\* every template and whatever is decided beside the workflow.
THEOREM KeepsPromiseHolds == Spec => KeepsPromise
<1> DEFINE Inv == TypeOK /\ InOrder /\ EntityFollowsInstance
<1>1. Init => Inv
  BY TypeInit, OrderInit DEF Init, EntityFollowsInstance, OpenStatus
<1>2. Inv /\ [Next]_vars => Inv' BY TypeStep, OrderStep, EntityStep
<1>3. Inv /\ Inv' /\ [Next]_vars => [Promise!Next]_(Promise!vars) BY PromiseStep
<1> HIDE DEF Inv
<1> QED BY <1>1, <1>2, <1>3, PromiseInit, PTL DEF Spec, KeepsPromise, Promise!Spec

-----------------------------------------------------------------------------
(* Somebody can act.  Inductive: nothing is rejected before the instance     *)
(* fails, the group of the current step has not decided, and once somebody   *)
(* of it approved it is not refused either; so that somebody of it has yet   *)
(* to vote.                                                                  *)

OpenAttended ==
    /\ current \in Steps
    /\ Group(task[current]) # {}
    /\ \A u \in Users : task[current][u] # "CANCELLED"
    /\ ~VotedFor(current, task[current])
    /\ HavingStatus(task[current], "APPROVED") # {} => ~Refused(current, task[current])

NothingRejected(ts) == \A u \in Users : ts[u] # "REJECTED"

Attended ==
    /\ status \in OpenStatus \cup {"NONE"} => \A s \in Steps : NothingRejected(task[s])
    /\ status \in OpenStatus => OpenAttended
    /\ RejectedBySomebody

\* A non-empty set of users is finite and has at least one member.
LEMMA SomeUsers ==
    ASSUME NEW S, S \subseteq Users, S # {}
    PROVE  Cardinality(S) \in Nat \ {0}
<1>1. IsFiniteSet(S) BY TemplateAssumption, FS_Subset DEF TemplateAssumption
<1> QED BY <1>1, FS_CardinalityType, FS_EmptySet

\* A group that has somebody in it and rejected nothing is refused only when it
\* is smaller than the quorum asked of it.
LEMMA RefusedWithoutRejection ==
    ASSUME NEW s \in Steps, NEW ts \in [Users -> TaskStatus],
           Group(ts) # {}, NothingRejected(ts), Refused(s, ts)
    PROVE  /\ StepType[s] = "PARALLEL" /\ Convergence[s] = "QUORUM"
           /\ Cardinality(Group(ts)) < Quorum[s]
<1>1. HavingStatus(ts, "REJECTED") = {} BY DEF HavingStatus, NothingRejected
<1>2. Cardinality(HavingStatus(ts, "REJECTED")) = 0 BY <1>1, FS_EmptySet
<1>3. Cardinality(Group(ts)) \in Nat \ {0} BY SomeUsers DEF Group
<1>4. Quorum[s] \in Nat \ {0} BY TemplateAssumption DEF TemplateAssumption
<1>5. Convergence[s] # "ALL" BY <1>1 DEF Refused
<1>6. Convergence[s] # "MAJORITY"
  <2> SUFFICES ASSUME Convergence[s] = "MAJORITY" PROVE FALSE
    OBVIOUS
  <2>1. 2 * Cardinality(HavingStatus(ts, "REJECTED")) >= Cardinality(Group(ts))
    BY DEF Refused
  <2> QED BY <1>2, <1>3, <2>1
<1>7. StepType[s] = "PARALLEL" /\ Convergence[s] = "QUORUM" BY <1>5, <1>6 DEF Refused
<1>8. Cardinality(HavingStatus(ts, "REJECTED")) + Quorum[s] > Cardinality(Group(ts))
  BY <1>7 DEF Refused
<1> QED BY <1>2, <1>3, <1>4, <1>7, <1>8

\* A group all of whose members approved has decided, one way or the other.
LEMMA AllApprovedDecides ==
    ASSUME NEW s \in Steps, NEW ts \in [Users -> TaskStatus],
           Group(ts) # {}, HavingStatus(ts, "APPROVED") = Group(ts), ~Refused(s, ts)
    PROVE  VotedFor(s, ts)
<1>1. HavingStatus(ts, "REJECTED") = {}
  <2>1. \A u \in Users : ts[u] # "NONE" => ts[u] = "APPROVED" BY DEF HavingStatus, Group
  <2> QED BY <2>1 DEF HavingStatus
<1>2. Cardinality(HavingStatus(ts, "REJECTED")) = 0 BY <1>1, FS_EmptySet
<1>3. Cardinality(Group(ts)) \in Nat \ {0} BY SomeUsers DEF Group
<1>4. Quorum[s] \in Nat \ {0} BY TemplateAssumption DEF TemplateAssumption
<1>5. 2 * Cardinality(Group(ts)) > Cardinality(Group(ts)) BY <1>3
<1>6. ASSUME StepType[s] = "PARALLEL", Convergence[s] = "QUORUM", ~Converged(s, ts)
      PROVE  FALSE
  <2>1. ~(Cardinality(HavingStatus(ts, "REJECTED")) + Quorum[s] > Cardinality(Group(ts)))
    BY <1>6 DEF Refused
  <2>2. ~(Cardinality(Group(ts)) >= Quorum[s]) BY <1>6 DEF Converged
  <2> QED BY <1>2, <1>3, <1>4, <2>1, <2>2
<1>7. StepType[s] \in StepTypes /\ Convergence[s] \in Convergences
  BY TemplateAssumption DEF TemplateAssumption
<1>8. Converged(s, ts)
  BY <1>1, <1>5, <1>6, <1>7 DEF Converged, StepTypes, Convergences
<1> QED BY <1>8 DEF VotedFor

\* Cancelling open tasks changes neither the group nor what is rejected.
LEMMA CancelledKeeps ==
    ASSUME NEW ts \in [Users -> TaskStatus], NEW us \in [Users -> TaskStatus],
           \A u \in Users : \/ us[u] = ts[u]
                            \/ ts[u] = "PENDING" /\ us[u] \in {"CANCELLED", "APPROVED"}
    PROVE  /\ Group(us) = Group(ts)
           /\ NothingRejected(ts) => NothingRejected(us)
BY DEF Group, NothingRejected

LEMMA AttendedInit == Init => Attended
BY DEF Init, Attended, OpenStatus, NoTasks, NothingRejected, RejectedBySomebody

\* The step that is entered has somebody to act on it.
LEMMA AttendedEnterNext ==
    ASSUME TypeOK, NEW c \in 0..NumSteps, NEW e,
           NEW ts \in [Steps -> [Users -> TaskStatus]], EnterNext(c, ts, e),
           \A s \in Steps : NothingRejected(ts[s])
    PROVE  Attended'
<1> USE TemplateAssumption DEF TemplateAssumption
<1>1. CASE Remaining(c) = {}
  <2>1. status' = "COMPLETED" BY <1>1 DEF EnterNext, StatusAfter
  <2> QED BY <2>1 DEF Attended, OpenStatus, RejectedBySomebody
<1>2. CASE Remaining(c) # {}
  <2> DEFINE n == StepAfter(c)
             opened == Eligible(n, delegating)
             row == [u \in Users |-> IF u \in opened THEN "PENDING" ELSE "NONE"]
  <2>1. n \in Steps BY <1>2, StepAfterIsNext
  <2>2. /\ task' = [ts EXCEPT ![n] = row] /\ current' = n /\ status' = "ACTIVE"
        /\ opened # {}
    BY <1>2 DEF EnterNext, StatusAfter, CanEnterNext
  <2>3. opened \subseteq Users BY <2>1 DEF Eligible, FirstChoice
  <2>4. Group(row) = opened BY <2>3 DEF Group
  <2>5. HavingStatus(row, "APPROVED") = {} BY DEF HavingStatus
  <2>6. NothingRejected(row) /\ \A u \in Users : row[u] # "CANCELLED"
    BY DEF NothingRejected
  <2> HIDE DEF n, opened, row
  <2>7. task'[n] = row /\ \A s \in Steps \ {n} : task'[s] = ts[s] BY <2>1, <2>2
  <2>8. OpenAttended'
    BY <2>1, <2>2, <2>4, <2>5, <2>6, <2>7 DEF OpenAttended, VotedFor
  <2>9. \A s \in Steps : NothingRejected(task'[s])
    BY <2>6, <2>7
  <2> QED BY <2>2, <2>8, <2>9 DEF Attended, OpenStatus, RejectedBySomebody, NothingRejected
<1> QED BY <1>1, <1>2

LEMMA AttendedStep ==
    ASSUME TypeOK, Attended, [Next]_vars
    PROVE  Attended'
<1> USE TemplateAssumption DEF TemplateAssumption
<1>1. CASE Instantiate
  <2>1. (IF Condition[1] THEN 0 ELSE 1) \in 0..NumSteps OBVIOUS
  <2>2. EnterNext(IF Condition[1] THEN 0 ELSE 1, task, "PENDING_APPROVAL") /\ status = "NONE"
    BY <1>1 DEF Instantiate
  <2>3. \A s \in Steps : NothingRejected(task[s]) BY <2>2 DEF Attended
  <2> QED BY <2>1, <2>2, <2>3, AttendedEnterNext DEF TypeOK
<1>2. ASSUME NEW s \in Steps, NEW u \in Users, NEW a \in Users, Approve(s, u, a)
      PROVE  Attended'
  <2> DEFINE ts == [task[s] EXCEPT ![u] = "APPROVED"]
             settled == SiblingsCancelled(s, ts)
             tasks == [task EXCEPT ![s] = settled]
  <2>1. status = "ACTIVE" /\ task[s][u] = "PENDING" BY <1>2 DEF Approve, ActsOn
  <2>2. OpenAttended /\ \A r \in Steps : NothingRejected(task[r])
    BY <2>1 DEF Attended, OpenStatus
  <2>3. ts \in [Users -> TaskStatus] /\ task[s] \in [Users -> TaskStatus]
    BY DEF TypeOK, TaskStatus
  <2>4. settled \in [Users -> TaskStatus] BY <2>3, SiblingsType
  <2>5. \A v \in Users : \/ ts[v] = task[s][v]
                         \/ task[s][v] = "PENDING" /\ ts[v] \in {"CANCELLED", "APPROVED"}
    BY <2>1, <2>3
  <2>6. \A v \in Users : \/ settled[v] = ts[v]
                         \/ ts[v] = "PENDING" /\ settled[v] \in {"CANCELLED", "APPROVED"}
    BY <2>3 DEF SiblingsCancelled
  <2>7. u \in Group(task[s]) BY <2>1 DEF Group
  <2>8. tasks \in [Steps -> [Users -> TaskStatus]] /\ tasks[s] = settled
        /\ \A r \in Steps \ {s} : tasks[r] = task[r]
    BY <2>4 DEF TypeOK
  <2>9. Group(ts) = Group(task[s]) /\ NothingRejected(ts)
    BY <2>2, <2>3, <2>5, CancelledKeeps
  <2>10. ts[u] = "APPROVED" /\ \A v \in Users : ts[v] = "CANCELLED" => task[s][v] = "CANCELLED"
    BY <2>3
  <2> HIDE DEF ts, settled, tasks
  <2>11. Group(settled) = Group(ts) /\ NothingRejected(settled)
    BY <2>3, <2>4, <2>6, <2>9, CancelledKeeps
  <2>12. \A r \in Steps : NothingRejected(tasks[r]) BY <2>2, <2>8, <2>11
  <2>13. Group(ts) # {} BY <2>7, <2>9
  <2>14. CASE Converged(s, ts)
    <3>1. EnterNext(current, tasks, entity) BY <1>2, <2>14 DEF Approve, ts, settled, tasks
    <3> QED BY <2>8, <2>12, <3>1, AttendedEnterNext DEF TypeOK
  <2>15. CASE ~Converged(s, ts) /\ Refused(s, ts)
    <3>1. status' = "FAILED" /\ task' = tasks
      BY <1>2, <2>15 DEF Approve, ts, settled, tasks
    <3>2. /\ StepType[s] = "PARALLEL" /\ Convergence[s] = "QUORUM"
          /\ Cardinality(Group(ts)) < Quorum[s]
      BY <2>3, <2>9, <2>13, <2>15, RefusedWithoutRejection
    <3>3. Group(task'[s]) = Group(ts) BY <2>8, <2>11, <3>1
    <3>4. RejectedBySomebody' BY <3>2, <3>3 DEF RejectedBySomebody, Group
    <3> QED BY <3>1, <3>4 DEF Attended, OpenStatus
  <2>16. CASE ~Converged(s, ts) /\ ~Refused(s, ts)
    <3>2. task' = tasks /\ status' = "ACTIVE" /\ current' = current
      BY <1>2, <2>1, <2>16 DEF Approve, ts, settled, tasks
    <3>3. settled = ts BY <2>16 DEF settled, SiblingsCancelled
    <3>4. OpenAttended'
      <4>1. CASE s = current
        <5>1. task'[current] = ts BY <2>8, <3>2, <3>3, <4>1
        <5>2. ~VotedFor(current, ts) /\ ~Refused(current, ts)
          BY <2>16, <4>1 DEF VotedFor
        <5>3. \A v \in Users : ts[v] # "CANCELLED" BY <2>2, <2>10, <4>1 DEF OpenAttended
        <5> QED BY <2>2, <2>13, <3>2, <5>1, <5>2, <5>3 DEF OpenAttended
      <4>2. CASE s # current
        <5>1. task'[current] = task[current] BY <2>2, <2>8, <3>2, <4>2 DEF OpenAttended
        <5> QED BY <2>2, <3>2, <5>1 DEF OpenAttended
      <4> QED BY <4>1, <4>2
    <3> QED BY <2>12, <3>2, <3>4 DEF Attended, RejectedBySomebody, NothingRejected
  <2> QED BY <2>14, <2>15, <2>16
<1>3. ASSUME NEW s \in Steps, NEW u \in Users, NEW a \in Users, Reject(s, u, a)
      PROVE  Attended'
  <2>1. status' = "FAILED" /\ task' = [task EXCEPT ![s][u] = "REJECTED"]
    BY <1>3 DEF Reject
  <2>2. task'[s][u] = "REJECTED" BY <2>1 DEF TypeOK
  <2>3. RejectedBySomebody' BY <2>2 DEF RejectedBySomebody, HavingStatus
  <2> QED BY <2>1, <2>3 DEF Attended, OpenStatus
<1>4. CASE Cancel
  <2>1. status' = "CANCELLED" BY <1>4 DEF Cancel
  <2> QED BY <2>1 DEF Attended, OpenStatus, RejectedBySomebody
<1>5. CASE ForceAdvance
  <2>1. EnterNext(current, AllCancelled, entity) /\ status = "ACTIVE"
    BY <1>5 DEF ForceAdvance
  <2>2. \A s \in Steps : NothingRejected(task[s]) BY <2>1 DEF Attended, OpenStatus
  <2>3. \A s \in Steps : NothingRejected(AllCancelled[s])
    BY <2>2 DEF NothingRejected, AllCancelled
  <2>4. AllCancelled \in [Steps -> [Users -> TaskStatus]]
    BY DEF TypeOK, AllCancelled, TaskStatus
  <2> HIDE DEF AllCancelled
  <2> QED BY <2>1, <2>3, <2>4, AttendedEnterNext DEF TypeOK
<1>6. CASE Pause \/ Resume
  <2>1. UNCHANGED <<current, task>> /\ status \in OpenStatus /\ status' \in OpenStatus
    BY <1>6 DEF Pause, Resume, OpenStatus
  <2> QED BY <2>1 DEF Attended, OpenAttended, RejectedBySomebody, OpenStatus
<1>7. CASE \/ SlaScan \/ \E s \in Steps : TimePasses(s)
           \/ \E u \in Users : DelegationChanges(u)
           \/ DecidedAside \/ UNCHANGED vars
  <2>1. UNCHANGED <<status, current, task>>
    BY <1>7, AsideTouchesNothing DEF SlaScan, TimePasses, DelegationChanges, vars, flowVars
  <2> QED BY <2>1 DEF Attended, OpenAttended, RejectedBySomebody
<1> QED BY <1>1, <1>2, <1>3, <1>4, <1>5, <1>6, <1>7 DEF Next, Act, DecidedAside

LEMMA AttendedSuffices ==
    ASSUME TypeOK, Attended
    PROVE  SomebodyToAct
<1> SUFFICES ASSUME status \in OpenStatus
             PROVE  current \in Steps /\ Pending(current) # {}
  BY DEF SomebodyToAct
<1> DEFINE ts == task[current]
<1>1. OpenAttended /\ NothingRejected(ts)
  BY DEF Attended, OpenAttended
<1>2. ts \in [Users -> TaskStatus] BY <1>1 DEF OpenAttended, TypeOK
<1> SUFFICES ASSUME Pending(current) = {} PROVE FALSE
  BY <1>1 DEF OpenAttended
<1>3. HavingStatus(ts, "APPROVED") = Group(ts)
  BY <1>1, <1>2 DEF OpenAttended, NothingRejected, Pending, HavingStatus, Group, TaskStatus
<1> HIDE DEF ts
<1>4. Group(ts) # {} /\ ~VotedFor(current, ts) /\ current \in Steps BY <1>1 DEF OpenAttended, ts
<1>5. ~Refused(current, ts) BY <1>1, <1>3, <1>4 DEF OpenAttended, ts
<1> QED BY <1>2, <1>3, <1>4, <1>5, AllApprovedDecides

\* An open workflow never waits for nobody: a task of the current step is
\* pending, whatever the template, the quorums and the delegations, and however
\* often a step is forced.
THEOREM SomebodyToActHolds == Spec => []SomebodyToAct
<1>1. Init => TypeOK /\ Attended BY TypeInit, AttendedInit
<1>2. TypeOK /\ Attended /\ [Next]_vars => (TypeOK /\ Attended)' BY TypeStep, AttendedStep
<1>3. TypeOK /\ Attended => SomebodyToAct BY AttendedSuffices
<1> QED BY <1>1, <1>2, <1>3, PTL DEF Spec

\* A workflow fails only because somebody rejected, or because the group opened
\* for a step is smaller than the quorum asked of it: the convergence check
\* refuses a document by arithmetic alone in no other case.
THEOREM RejectedBySomebodyHolds == Spec => []RejectedBySomebody
<1>1. Init => TypeOK /\ Attended BY TypeInit, AttendedInit
<1>2. TypeOK /\ Attended /\ [Next]_vars => (TypeOK /\ Attended)' BY TypeStep, AttendedStep
<1>3. Attended => RejectedBySomebody BY DEF Attended
<1> QED BY <1>1, <1>2, <1>3, PTL DEF Spec
=============================================================================
