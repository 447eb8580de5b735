-------------------------- MODULE WorkflowRaceProofs --------------------------
(***************************************************************************)
(* Proofs about the workflow engine under concurrent requests, for every   *)
(* template, directory and number of sessions.                             *)
(***************************************************************************)
EXTENDS WorkflowRace, FiniteSetTheorems, WellFoundedInduction, SequenceTheorems, TLAPS

-----------------------------------------------------------------------------
(* The operators of the template.                                           *)

\* A non-empty set of naturals has a least element, the one Min chooses.
LEMMA MinIsLeast ==
    ASSUME NEW S, S \subseteq Nat, S # {}
    PROVE  Min(S) \in S /\ \A x \in S : Min(S) <= x
<1> DEFINE Upto == {1..x : x \in S}
           R == StrictSubsetOrdering(Nat)
<1>1. \A x \in S : 1..x \in SUBSET Nat /\ IsFiniteSet(1..x)
  <2>1. ASSUME NEW x \in S PROVE IsFiniteSet(1..x)
    BY FS_Interval, x \in Int, 1 \in Int
  <2> QED BY <2>1
<1>2. \E T \in Upto : \A U \in Upto : ~(<<U, T>> \in R)
  <2>1. IsWellFoundedOn(R, FiniteSubsetsOf(Nat)) BY FS_StrictSubsetOrderingWellFounded
  <2>2. Upto \subseteq FiniteSubsetsOf(Nat) BY <1>1 DEF FiniteSubsetsOf
  <2>3. Upto # {} OBVIOUS
  <2> HIDE DEF R, Upto
  <2> QED BY <2>1, <2>2, <2>3, WFMin
<1>3. PICK m \in S : \A y \in S : ~(<<1..y, 1..m>> \in R)
  BY <1>2
<1>4. ASSUME NEW y \in S PROVE m <= y
  <2>1. y \in Nat /\ m \in Nat OBVIOUS
  <2>2. SUFFICES ASSUME y < m PROVE FALSE BY <2>1
  <2>3. 1..y \subseteq 1..m /\ m \in 1..m /\ m \notin 1..y BY <2>1, <2>2
  <2>4. 1..y \in SUBSET Nat /\ 1..m \in SUBSET Nat OBVIOUS
  <2> QED BY <1>3, <2>3, <2>4 DEF StrictSubsetOrdering
<1> QED BY <1>4 DEF Min

\* The step entered from c is a step.
LEMMA StepAfterType ==
    ASSUME NEW c \in 0..NumSteps, Remaining(c) # {}
    PROVE  StepAfter(c) \in Steps
<1>1. Remaining(c) \subseteq Nat BY DEF Remaining, Steps
<1>2. Min(Remaining(c)) \in Remaining(c) BY <1>1, MinIsLeast
<1> QED BY <1>2 DEF StepAfter, Remaining

\* The first step of a template some step of which applies.
LEMMA FirstStepType ==
    ASSUME Remaining(0) # {}
    PROVE  Min(Remaining(0)) \in Steps
<1>1. Remaining(0) \subseteq Nat BY DEF Remaining, Steps
<1>2. Min(Remaining(0)) \in Remaining(0) BY <1>1, MinIsLeast
<1> QED BY <1>2 DEF Remaining

\* Synchronising the requisition leaves one of its statuses, and a requisition
\* that is no longer waiting alone.
LEMMA SyncedType ==
    ASSUME NEW st \in InstanceStatus, NEW e \in EntityStatus
    PROVE  Synced(st, e) \in EntityStatus /\ (Synced(st, e) # e => e = "PENDING_APPROVAL")
BY DEF Synced, EntityStatus, InstanceStatus

\* What a transaction makes of the instance's status is a status, and an
\* instance once made stays made.
LEMMA NewStatusType ==
    ASSUME NEW t \in Transactions, status \in InstanceStatus
    PROVE  /\ NewStatus(t) \in InstanceStatus
           /\ status # "NONE" => NewStatus(t) # "NONE"
           /\ t.outcome = "NOTHING" => NewStatus(t) = status
BY DEF NewStatus, InstanceStatus, Enters

\* What RequisitionService decides without the engine, and how.
LEMMA DirectNames ==
    /\ DirectRequests = {"WITHDRAW", "APPROVE_DIRECTLY", "REJECT_DIRECTLY"}
    /\ \A op \in DirectRequests : Direct[op] \in {"WITHDRAWN", "APPROVED", "REJECTED"}
BY DEF DirectRequests, Direct

\* The group of tasks opened for a step.
LEMMA OpenedType ==
    ASSUME NEW s \in Steps
    PROVE  Opened(s) \in [step : Steps, task : [Users -> TaskStatus]]
BY DEF Opened, TaskStatus

-----------------------------------------------------------------------------
(* The inductive invariant.                                                 *)

TaskGroup == [step : Steps, task : [Users -> TaskStatus]]

\* TypeOK, with the domains it leaves open.
Typed == TypeOK /\ groups \in Seq(TaskGroup) /\ txn \in [Sessions -> Transactions]

\* The instance is at a step from the moment it exists.
AtSomeStep == status # "NONE" => current \in Steps

\* A request of the engine was loaded from an instance, at a step.
UnderWay(t) ==
    /\ t.phase # "idle" /\ t.op \notin DirectRequests => status # "NONE" /\ t.at \in Steps
    /\ t.phase = "idle" \/ t.op \in DirectRequests => t.outcome = "NOTHING"

\* A vote locks its own task, then the instance (and what it cancels): it holds
\* nothing before the first and nothing else after.
LocksInOrder(t) ==
    /\ t.voted \subseteq (Nat \ {0}) \X Users
    /\ t.voted # {} => t.op \in {"APPROVE", "REJECT"}
    /\ t.phase \in {"idle", "loaded"} => t.holds = {}
    /\ t.voted # {} /\ t.phase = "decided" => t.holds = t.voted
    /\ t.voted # {} /\ t.phase = "flushed" =>
          t.holds \subseteq t.voted \cup t.cancels \cup {InstanceRow}

\* No two transactions hold a lock of one row.
Exclusive ==
    \A p, q \in Sessions : p # q => txn[p].holds \cap txn[q].holds = {}

\* What a transaction writes to the requisition is a decision.  The engine takes
\* it holding the lock of the instance, and the requisition has been waiting
\* since, unless it was decided without the engine.
DecidesAlone(t) ==
    /\ t.decides \in Decided \cup {"KEEP"}
    /\ t.decides # "KEEP" /\ t.op \notin DirectRequests =>
          /\ t.phase = "flushed" /\ InstanceRow \in t.holds
          /\ entity = "PENDING_APPROVAL" \/ outside

IInv ==
    /\ Typed /\ AtSomeStep /\ Exclusive
    /\ \A p \in Sessions : UnderWay(txn[p]) /\ LocksInOrder(txn[p])

Alone == \A p \in Sessions : DecidesAlone(txn[p])

\* A lock taken by p is not held by anybody else: the invariant survives a step
\* of one transaction that writes nothing.
LEMMA TransactionStep ==
    ASSUME IInv, NEW p \in Sessions, NEW t \in Transactions,
           txn' = [txn EXCEPT ![p] = t], UNCHANGED committed,
           UnderWay(t), LocksInOrder(t),
           \/ t.holds = {}
           \/ CanLock(p) /\ t.holds \subseteq txn[p].holds \cup Wanted(txn[p])
    PROVE  IInv'
<1>1. txn' \in [Sessions -> Transactions] /\ txn'[p] = t
      /\ \A q \in Sessions \ {p} : txn'[q] = txn[q]
  BY DEF IInv, Typed
<1>2. Typed'
  BY <1>1 DEF IInv, Typed, TypeOK, committed
<1>3. AtSomeStep' BY DEF IInv, AtSomeStep, committed
<1>4. Exclusive'
  <2>1. ASSUME NEW q \in Sessions \ {p} PROVE t.holds \cap txn[q].holds = {}
    <3>1. CASE t.holds = {} BY <3>1
    <3>2. CASE CanLock(p) /\ t.holds \subseteq txn[p].holds \cup Wanted(txn[p])
      <4>1. txn[q].holds \cap Wanted(txn[p]) = {} BY <3>2 DEF CanLock, Blocks
      <4>2. txn[q].holds \cap txn[p].holds = {} BY DEF IInv, Exclusive
      <4> QED BY <3>2, <4>1, <4>2
    <3> QED BY <3>1, <3>2
  <2> QED BY <1>1, <2>1 DEF IInv, Exclusive
<1>5. ASSUME NEW q \in Sessions PROVE (UnderWay(txn[q]) /\ LocksInOrder(txn[q]))'
  <2>1. CASE q = p BY <1>1, <2>1 DEF UnderWay, LocksInOrder, committed
  <2>2. CASE q # p BY <1>1, <2>2 DEF IInv, UnderWay, LocksInOrder, committed
  <2> QED BY <2>1, <2>2
<1> QED BY <1>2, <1>3, <1>4, <1>5 DEF IInv

LEMMA IdleType == Idle \in Transactions
<1>1. 0 \in 0..NumSteps BY TemplateAssumption DEF TemplateAssumption
<1> QED BY <1>1 DEF Idle, Transactions, Operations

LEMMA InitInv == Init => IInv
<1> SUFFICES ASSUME Init PROVE IInv OBVIOUS
<1> USE TemplateAssumption DEF TemplateAssumption
<1>1. Idle \in Transactions BY IdleType
<1>2. txn = [p \in Sessions |-> Idle] /\ status = "NONE" /\ groups = <<>> BY DEF Init
<1>3. Typed
  <2>1. current = 0 /\ entity = "DRAFT" /\ outside = FALSE /\ forced = {} BY DEF Init
  <2>2. txn \in [Sessions -> Transactions] /\ groups \in Seq(TaskGroup) BY <1>1, <1>2
  <2>3. TypeOK
    <3>1. status \in InstanceStatus /\ entity \in EntityStatus /\ forced \subseteq Steps
      BY <1>2, <2>1 DEF InstanceStatus, EntityStatus
    <3>2. current \in 0..NumSteps BY <2>1
    <3>3. \A p \in Sessions : txn[p] \in Transactions BY <1>1, <1>2
    <3>4. DOMAIN groups = {} BY <1>2
    <3>5. outside \in BOOLEAN BY <2>1
    <3> QED BY <3>1, <3>2, <3>3, <3>4, <3>5 DEF TypeOK
  <2> QED BY <2>2, <2>3 DEF Typed
<1>4. \A p \in Sessions : UnderWay(txn[p]) /\ LocksInOrder(txn[p])
  BY <1>2 DEF Idle, UnderWay, LocksInOrder
<1>5. Exclusive BY <1>2 DEF Exclusive, Idle
<1> QED BY <1>2, <1>3, <1>4, <1>5 DEF IInv, AtSomeStep

LEMMA InstantiateInv ==
    ASSUME IInv, Instantiate
    PROVE  IInv'
<1> DEFINE s == Min(Remaining(0))
<1>1. s \in Steps BY FirstStepType DEF Instantiate
<1>2. Opened(s) \in TaskGroup BY <1>1, OpenedType DEF TaskGroup
<1>3. /\ status' = "ACTIVE" /\ current' = s /\ entity' = "PENDING_APPROVAL"
      /\ groups' = <<Opened(s)>> /\ forced' = forced /\ txn' = txn
      /\ outside' = outside /\ outside' = outside
  BY DEF Instantiate
<1> HIDE DEF s
<1>4. groups' \in Seq(TaskGroup) BY <1>2, <1>3
<1>5. \A g \in DOMAIN groups' :
         groups'[g].step \in Steps /\ groups'[g].task \in [Users -> TaskStatus]
  <2>1. \A g \in DOMAIN groups' : groups'[g] \in TaskGroup BY <1>4
  <2> QED BY <2>1 DEF TaskGroup
<1>6. Typed'
  BY <1>1, <1>3, <1>4, <1>5 DEF IInv, Typed, TypeOK, InstanceStatus, EntityStatus, Steps
<1>7. AtSomeStep' /\ Exclusive' BY <1>1, <1>3 DEF AtSomeStep, IInv, Exclusive
<1>8. \A p \in Sessions : (UnderWay(txn[p]) /\ LocksInOrder(txn[p]))'
  BY <1>3 DEF IInv, UnderWay, LocksInOrder
<1> QED BY <1>6, <1>7, <1>8 DEF IInv

\* What Begin votes on is a row of a task.
LEMMA PendingRowsType ==
    ASSUME Typed
    PROVE  PendingRows \subseteq (Nat \ {0}) \X Users
BY DEF Typed, PendingRows

LEMMA LoadInv ==
    ASSUME IInv, NEW p \in Sessions, NEW op \in Requests,
           NEW voted \in {{}} \cup {{row} : row \in PendingRows}, Load(p, op, voted)
    PROVE  IInv'
<1> DEFINE t == [Idle EXCEPT !.phase = "loaded", !.op = op, !.at = current, !.voted = voted]
<1>1. voted \subseteq (Nat \ {0}) \X Users BY PendingRowsType DEF IInv
<1>2. /\ t.phase = "loaded" /\ t.op = op /\ t.at = current /\ t.voted = voted
      /\ t.cancels = {} /\ t.outcome = "NOTHING" /\ t.holds = {} /\ t.decides = "KEEP"
  BY DEF Idle
<1>3. t \in Transactions
  <2>1. voted \subseteq TaskRows BY <1>1 DEF TaskRows
  <2>2. op \in Operations /\ current \in 0..NumSteps BY RaceAssumption DEF IInv, Typed, TypeOK
  <2> QED BY <2>1, <2>2, IdleType DEF Transactions
<1>4. status # "NONE" /\ (voted # {} => op \in {"APPROVE", "REJECT"})
  BY DEF Load, OpenStatus
<1>5. UnderWay(t) /\ LocksInOrder(t) /\ t.holds = {}
  BY <1>1, <1>2, <1>4 DEF UnderWay, LocksInOrder, IInv, AtSomeStep
<1>6. txn' = [txn EXCEPT ![p] = t] /\ UNCHANGED committed BY DEF Load
<1> HIDE DEF t
<1> QED BY <1>3, <1>5, <1>6, TransactionStep

LEMMA LoadDirectInv ==
    ASSUME IInv, NEW p \in Sessions, NEW op \in Requests, LoadDirect(p, op)
    PROVE  IInv'
<1> DEFINE t == [Idle EXCEPT !.phase = "flushed", !.op = op, !.decides = Direct[op]]
<1>1. /\ t.phase = "flushed" /\ t.op = op /\ t.voted = {} /\ t.cancels = {}
      /\ t.outcome = "NOTHING" /\ t.holds = {}
  BY DEF Idle
<1>2. op \in DirectRequests /\ op \in Operations /\ Direct[op] \in EntityStatus
  BY RaceAssumption, DirectNames DEF LoadDirect, EntityStatus
<1>3. t \in Transactions
  BY <1>2, IdleType DEF Transactions
<1>4. UnderWay(t) /\ LocksInOrder(t) /\ t.holds = {}
  BY <1>1, <1>2 DEF UnderWay, LocksInOrder
<1>5. txn' = [txn EXCEPT ![p] = t] /\ UNCHANGED committed BY DEF LoadDirect
<1> HIDE DEF t
<1> QED BY <1>3, <1>4, <1>5, TransactionStep

\* A request that is loaded wants the instance's row or that of its own task.
LEMMA DecidesInv ==
    ASSUME IInv, NEW p \in Sessions, NEW op \in Operations \ DirectRequests,
           NEW outcome \in {"NOTHING", "ADVANCE", "FAIL", "CANCEL"},
           NEW cancels \in SUBSET TaskRows, Decides(p, op, outcome, cancels)
    PROVE  IInv'
<1> DEFINE t == [txn[p] EXCEPT !.phase = "decided", !.outcome = outcome,
                               !.cancels = cancels, !.holds = Wanted(txn[p])]
<1>1. txn[p] \in Transactions /\ UnderWay(txn[p]) /\ LocksInOrder(txn[p])
  BY DEF IInv, Typed
<1>2. txn[p].phase = "loaded" /\ txn[p].op = op /\ CanLock(p) BY DEF Decides
<1>3. Wanted(txn[p]) = IF op = "CANCEL" THEN {InstanceRow} ELSE txn[p].voted
  BY <1>2 DEF Wanted
<1>4. Wanted(txn[p]) \subseteq TaskRows \cup {InstanceRow, EntityRow}
  BY <1>1, <1>3 DEF Transactions
<1>5. /\ t.phase = "decided" /\ t.op = op /\ t.at = txn[p].at /\ t.voted = txn[p].voted
      /\ t.cancels = cancels /\ t.outcome = outcome /\ t.holds = Wanted(txn[p])
      /\ t.decides = txn[p].decides
  BY <1>1, <1>2 DEF Transactions
<1>6. t \in Transactions
  BY <1>1, <1>4 DEF Transactions
<1>7. txn' = [txn EXCEPT ![p] = t] /\ UNCHANGED committed
  BY <1>1 DEF Decides, IInv, Typed
<1> HIDE DEF t
<1>8. UnderWay(t) BY <1>1, <1>2, <1>5 DEF UnderWay
<1>9. LocksInOrder(t) BY <1>1, <1>2, <1>3, <1>5 DEF LocksInOrder
<1> QED BY <1>2, <1>5, <1>6, <1>7, <1>8, <1>9, TransactionStep

\* A decided request takes the locks of the tasks it cancels and the instance's.
LEMMA FlushInv ==
    ASSUME IInv, NEW p \in Sessions, Flush(p)
    PROVE  IInv'
<1> DEFINE u == txn[p]
           synced == Synced(NewStatus(u), entity)
           decides == IF EndsInstance(u) /\ synced # entity THEN synced ELSE "KEEP"
           t == [u EXCEPT !.phase = "flushed", !.holds = u.holds \cup Wanted(u),
                          !.decides = decides]
<1>1. u \in Transactions /\ UnderWay(u) /\ LocksInOrder(u) /\ status \in InstanceStatus
      /\ entity \in EntityStatus
  BY DEF IInv, Typed, TypeOK
<1>2. u.phase = "decided" /\ CanLock(p) BY DEF Flush
<1>3. Wanted(u) = u.cancels \cup (IF WritesInstance(u) THEN {InstanceRow} ELSE {})
  BY <1>2 DEF Wanted
<1>4. decides \in EntityStatus \cup {"KEEP"}
  BY <1>1, NewStatusType, SyncedType
<1>5. u.holds \cup Wanted(u) \in SUBSET (TaskRows \cup {InstanceRow, EntityRow})
  BY <1>1, <1>3 DEF Transactions
<1>6. txn' = [txn EXCEPT ![p] = t] /\ UNCHANGED committed
  BY <1>1 DEF Flush, IInv, Typed
<1> HIDE DEF decides
<1>7. t \in Transactions BY <1>1, <1>4, <1>5 DEF Transactions
<1>8. /\ t.phase = "flushed" /\ t.op = u.op /\ t.at = u.at /\ t.voted = u.voted
      /\ t.cancels = u.cancels /\ t.outcome = u.outcome /\ t.holds = u.holds \cup Wanted(u)
  BY <1>1 DEF Transactions
<1> HIDE DEF t
<1>9. UnderWay(t) BY <1>1, <1>2, <1>8 DEF UnderWay
<1>10. LocksInOrder(t)
  BY <1>1, <1>2, <1>3, <1>8 DEF LocksInOrder
<1> QED BY <1>2, <1>6, <1>7, <1>8, <1>9, <1>10, TransactionStep

LEMMA RollbackInv ==
    ASSUME IInv, NEW p \in Sessions, Rollback(p)
    PROVE  IInv'
<1>1. txn' = [txn EXCEPT ![p] = Idle] /\ UNCHANGED committed BY DEF Rollback
<1>2. UnderWay(Idle) /\ LocksInOrder(Idle) /\ Idle.holds = {}
  BY DEF Idle, UnderWay, LocksInOrder
<1> QED BY <1>1, <1>2, IdleType, TransactionStep

\* Writing a transaction's tasks leaves a sequence of task groups.
LEMMA WrittenType ==
    ASSUME groups \in Seq(TaskGroup), NEW t
    PROVE  Written(t) \in Seq(TaskGroup)
<1> DEFINE row(g) == [u \in Users |->
              IF <<g, u>> \in t.cancels THEN "CANCELLED"
              ELSE IF <<g, u>> \notin t.voted THEN groups[g].task[u]
              ELSE IF t.op = "APPROVE" THEN "APPROVED" ELSE "REJECTED"]
           new(g) == [groups[g] EXCEPT !.task = row(g)]
<1>1. \A g \in DOMAIN groups : groups[g] \in TaskGroup OBVIOUS
<1>2. \A g \in DOMAIN groups : row(g) \in [Users -> TaskStatus]
  BY <1>1 DEF TaskGroup, TaskStatus
<1>3. \A g \in DOMAIN groups : new(g) \in TaskGroup
  <2> HIDE DEF row
  <2> QED BY <1>1, <1>2 DEF TaskGroup
<1>4. Written(t) = [g \in DOMAIN groups |-> new(g)]
  BY <1>1 DEF Written, TaskGroup
<1> HIDE DEF new
<1>5. Written(t) \in [1..Len(groups) -> TaskGroup] BY <1>3, <1>4
<1>6. Len(groups) \in Nat OBVIOUS
<1> QED BY <1>5, <1>6

LEMMA CommitInv ==
    ASSUME IInv, NEW p \in Sessions, Commit(p)
    PROVE  IInv'
<1> DEFINE t == txn[p]
<1>1. /\ t \in Transactions /\ UnderWay(t) /\ t.phase = "flushed"
      /\ status \in InstanceStatus /\ current \in 0..NumSteps /\ entity \in EntityStatus
      /\ forced \subseteq Steps /\ groups \in Seq(TaskGroup)
      /\ txn \in [Sessions -> Transactions]
  BY DEF IInv, Typed, TypeOK, Commit
<1>2. /\ status' = NewStatus(t)
      /\ current' = IF Enters(t) THEN StepAfter(t.at) ELSE current
      /\ groups' = IF Enters(t) THEN Append(Written(t), Opened(StepAfter(t.at)))
                   ELSE Written(t)
      /\ forced' = IF t.op = "FORCE" THEN forced \cup {t.at} ELSE forced
      /\ entity' = IF t.decides = "KEEP" THEN entity ELSE t.decides
      /\ txn' = [txn EXCEPT ![p] = Idle]
  BY DEF Commit
<1> HIDE DEF t
<1>3. Enters(t) => StepAfter(t.at) \in Steps
  BY <1>1, StepAfterType DEF Enters, Transactions
<1>4. status' \in InstanceStatus /\ (status # "NONE" => status' # "NONE")
  BY <1>1, <1>2, NewStatusType
<1>5. current' \in 0..NumSteps /\ (Enters(t) => current' \in Steps)
  BY <1>1, <1>2, <1>3 DEF Steps
<1>6. forced' \subseteq Steps /\ entity' \in EntityStatus
  <2>1. t.op = "FORCE" => t.at \in Steps BY <1>1, DirectNames DEF UnderWay
  <2>2. t.decides \in EntityStatus \cup {"KEEP"} BY <1>1 DEF Transactions
  <2> QED BY <1>1, <1>2, <2>1, <2>2
<1>14. outside' \in BOOLEAN
  <2>1. outside' = (outside \/ t.op \in DirectRequests) BY DEF Commit, t
  <2> QED BY <2>1
<1>7. groups' \in Seq(TaskGroup)
  <2>1. Written(t) \in Seq(TaskGroup) BY <1>1, WrittenType
  <2>2. Enters(t) => Opened(StepAfter(t.at)) \in TaskGroup
    BY <1>3, OpenedType DEF TaskGroup
  <2> QED BY <1>2, <2>1, <2>2
<1>8. \A g \in DOMAIN groups' :
         groups'[g].step \in Steps /\ groups'[g].task \in [Users -> TaskStatus]
  <2>1. \A g \in DOMAIN groups' : groups'[g] \in TaskGroup BY <1>7
  <2> QED BY <2>1 DEF TaskGroup
<1>9. txn' \in [Sessions -> Transactions] /\ txn'[p] = Idle
      /\ \A q \in Sessions \ {p} : txn'[q] = txn[q]
  BY <1>1, <1>2, IdleType
<1>10. Typed' BY <1>4, <1>5, <1>6, <1>7, <1>8, <1>9, <1>14 DEF Typed, TypeOK
<1>11. AtSomeStep'
  <2>1. CASE t.op \in DirectRequests
    <3>1. t.outcome = "NOTHING" BY <1>1, <2>1 DEF UnderWay
    <3>2. status' = status BY <1>1, <1>2, <3>1, NewStatusType
    <3>3. current' = current BY <1>2, <3>1 DEF Enters
    <3> QED BY <3>2, <3>3 DEF IInv, AtSomeStep
  <2>2. CASE t.op \notin DirectRequests
    <3>1. status # "NONE" BY <1>1, <2>2 DEF UnderWay
    <3> QED BY <1>2, <1>5, <3>1 DEF IInv, AtSomeStep
  <2> QED BY <2>1, <2>2
<1>12. Exclusive' BY <1>9 DEF IInv, Exclusive, Idle
<1>13. ASSUME NEW q \in Sessions PROVE (UnderWay(txn[q]) /\ LocksInOrder(txn[q]))'
  <2>1. CASE q = p
    <3>1. txn'[q] = Idle BY <1>9, <2>1
    <3> QED BY <3>1 DEF Idle, UnderWay, LocksInOrder
  <2>2. CASE q # p
    <3>1. txn'[q] = txn[q] BY <1>9, <2>2
    <3> QED BY <1>4, <3>1 DEF IInv, UnderWay, LocksInOrder
  <2> QED BY <2>1, <2>2
<1> QED BY <1>10, <1>11, <1>12, <1>13 DEF IInv

\* Which operations decide, what they decide, and which tasks they cancel.
LEMMA DecidedType ==
    ASSUME Typed, NEW p \in Sessions,
           DecideApprove(p) \/ DecideReject(p) \/ DecideCancel(p) \/ DecideForce(p)
    PROVE  \E op \in Operations \ DirectRequests,
              outcome \in {"NOTHING", "ADVANCE", "FAIL", "CANCEL"},
              cancels \in SUBSET TaskRows : Decides(p, op, outcome, cancels)
<1>1. PendingRows \in SUBSET TaskRows BY PendingRowsType DEF TaskRows
<1>2. {} \in SUBSET TaskRows OBVIOUS
<1>3. CASE DecideApprove(p)
  <2>1. PICK g \in DOMAIN groups : \E outcome \in {"NOTHING", "ADVANCE", "FAIL", "CANCEL"},
           U \in SUBSET Users : Decides(p, "APPROVE", outcome, {<<g, u>> : u \in U})
    BY <1>3 DEF DecideApprove
  <2>2. \A U \in SUBSET Users : {<<g, u>> : u \in U} \in SUBSET TaskRows
    BY DEF Typed, TaskRows
  <2> QED BY <2>1, <2>2, DirectNames DEF Operations
<1>4. CASE DecideReject(p) BY <1>2, <1>4, DirectNames DEF DecideReject, Operations
<1>5. CASE DecideCancel(p) BY <1>1, <1>5, DirectNames DEF DecideCancel, Operations
<1>6. CASE DecideForce(p) BY <1>1, <1>6, DirectNames DEF DecideForce, Operations
<1> QED BY <1>3, <1>4, <1>5, <1>6

LEMMA StepInv == IInv /\ [Next]_vars => IInv'
<1> SUFFICES ASSUME IInv, [Next]_vars PROVE IInv' OBVIOUS
<1>1. CASE Instantiate BY <1>1, InstantiateInv
<1>2. ASSUME NEW p \in Sessions, Begin(p) PROVE IInv'
  BY <1>2, LoadInv, LoadDirectInv DEF Begin
<1>3. ASSUME NEW p \in Sessions, Proceed(p) PROVE IInv'
  <2>1. CASE DecideApprove(p) \/ DecideReject(p) \/ DecideCancel(p) \/ DecideForce(p)
    BY <2>1, DecidedType, DecidesInv DEF IInv
  <2> QED BY <1>3, <2>1, FlushInv, CommitInv, RollbackInv DEF Proceed
<1>4. CASE UNCHANGED vars
  BY <1>4 DEF vars, committed, IInv, Typed, TypeOK, AtSomeStep, Exclusive, UnderWay,
              LocksInOrder
<1> QED BY <1>1, <1>2, <1>3, <1>4 DEF Next

LEMMA Invariance == Spec => []IInv
<1>1. Init => IInv BY InitInv
<1>2. IInv /\ [Next]_vars => IInv' BY StepInv
<1> QED BY <1>1, <1>2, PTL DEF Spec

-----------------------------------------------------------------------------
(* What survives concurrency.                                               *)

\* Whatever the requests and however their transactions interleave, the rows of
\* the engine stay what the tables may hold.
THEOREM RaceTypeCorrect == Spec => []TypeOK
<1>1. IInv => TypeOK BY DEF IInv, Typed
<1> QED BY <1>1, Invariance, PTL

\* Two votes that cancel nobody's task never wait for each other: one that holds
\* a lock wants the instance, and one that holds the instance wants nothing that
\* a vote holds.
THEOREM NoLockCycleHolds == Spec => []NoLockCycle
<1>1. ASSUME IInv PROVE NoLockCycle
  <2> SUFFICES ASSUME NEW p \in Sessions, NEW q \in Sessions, Voting(p), Voting(q),
                      Blocks(p, q), Blocks(q, p)
               PROVE  FALSE
    BY DEF NoLockCycle
  <2>0. \A r \in Sessions : txn[r] \in Transactions /\ LocksInOrder(txn[r])
    BY <1>1 DEF IInv, Typed
  <2>1. ASSUME NEW r \in Sessions, Voting(r)
        PROVE  /\ txn[r].phase \in {"decided", "flushed"} \/ txn[r].holds = {}
               /\ EntityRow \notin txn[r].holds
               /\ txn[r].phase = "decided" => InstanceRow \notin txn[r].holds
               /\ txn[r].phase = "decided" => Wanted(txn[r]) \subseteq {InstanceRow}
               /\ txn[r].phase = "flushed" => Wanted(txn[r]) \subseteq {EntityRow}
    <3>1. txn[r] \in Transactions /\ LocksInOrder(txn[r]) BY <2>0
    <3>2. InstanceRow \notin txn[r].voted /\ EntityRow \notin txn[r].voted
          /\ EntityRow # InstanceRow
      BY <3>1 DEF LocksInOrder, InstanceRow, EntityRow
    <3>3. txn[r].voted # {} /\ txn[r].cancels = {} BY <2>1 DEF Voting
    <3>4. txn[r].phase \in {"decided", "flushed"} \/ txn[r].holds = {}
      BY <3>1 DEF LocksInOrder, Transactions
    <3>5. EntityRow \notin txn[r].holds
          /\ (txn[r].phase = "decided" => InstanceRow \notin txn[r].holds)
      BY <3>1, <3>2, <3>3, <3>4 DEF LocksInOrder
    <3>6. /\ txn[r].phase = "decided" => Wanted(txn[r]) \subseteq {InstanceRow}
          /\ txn[r].phase = "flushed" => Wanted(txn[r]) \subseteq {EntityRow}
      BY <3>3 DEF Wanted
    <3> QED BY <3>4, <3>5, <3>6
  <2>2. /\ txn[p].phase \in {"decided", "flushed"} /\ txn[q].phase \in {"decided", "flushed"}
    BY <2>1 DEF Blocks
  <2>3. txn[p].phase = "decided" /\ txn[q].phase = "decided" BY <2>1, <2>2 DEF Blocks
  <2> QED BY <2>1, <2>3 DEF Blocks
<1> QED BY <1>1, Invariance, PTL

\* What becomes of the requisition when it changes after it was decided.
DecidesAgain == entity' # entity /\ entity \in Decided => outside' /\ entity' \in Decided

\* Synchronising a requisition either leaves it or decides one that waits.
LEMMA SyncedDecides ==
    ASSUME NEW st \in InstanceStatus, NEW e \in EntityStatus
    PROVE  Synced(st, e) # e => Synced(st, e) \in Decided /\ e = "PENDING_APPROVAL"
BY DEF Synced, EntityStatus, InstanceStatus, Decided

\* The requisition the engine is about to decide is still waiting: whoever
\* decides it through the engine holds the row of the instance.
LEMMA AloneStep ==
    ASSUME IInv, Alone, [Next]_vars
    PROVE  Alone' /\ DecidesAgain
<1>1. ASSUME NEW p \in Sessions, NEW t, DecidesAlone(t), UNCHANGED committed,
             txn' = [txn EXCEPT ![p] = t]
      PROVE  Alone' /\ DecidesAgain
  <2>1. entity' = entity /\ outside' = outside BY <1>1 DEF committed
  <2>2. ASSUME NEW q \in Sessions PROVE DecidesAlone(txn[q])'
    <3>1. CASE q = p
      <4>1. txn'[q] = t BY <1>1, <3>1 DEF IInv, Typed
      <4> QED BY <1>1, <2>1, <4>1 DEF DecidesAlone
    <3>2. CASE q # p
      <4>1. txn'[q] = txn[q] BY <1>1, <3>2 DEF IInv, Typed
      <4> QED BY <2>1, <4>1 DEF Alone, DecidesAlone
    <3> QED BY <3>1, <3>2
  <2> QED BY <2>1, <2>2 DEF Alone, DecidesAgain
<1>2. CASE Instantiate
  <2>1. txn' = txn /\ txn = [p \in Sessions |-> Idle] /\ entity = "DRAFT"
    BY <1>2 DEF Instantiate
  <2>2. Alone' BY <2>1 DEF Alone, DecidesAlone, Idle
  <2> QED BY <2>1, <2>2 DEF Decided, DecidesAgain
<1>3. ASSUME NEW p \in Sessions, Begin(p) PROVE Alone' /\ DecidesAgain
  <2>1. ASSUME NEW op \in Requests, LoadDirect(p, op) PROVE Alone' /\ DecidesAgain
    <3> DEFINE t == [Idle EXCEPT !.phase = "flushed", !.op = op, !.decides = Direct[op]]
    <3>1. op \in DirectRequests /\ UNCHANGED committed /\ txn' = [txn EXCEPT ![p] = t]
      BY <2>1 DEF LoadDirect
    <3>2. t.op = op /\ t.decides = Direct[op] BY DEF Idle
    <3> HIDE DEF t
    <3>3. DecidesAlone(t) BY <3>1, <3>2, DirectNames DEF DecidesAlone, Decided
    <3> QED BY <1>1, <3>1, <3>3
  <2>2. ASSUME NEW op \in Requests, NEW voted, Load(p, op, voted)
        PROVE  Alone' /\ DecidesAgain
    <3> DEFINE t == [Idle EXCEPT !.phase = "loaded", !.op = op, !.at = current,
                                 !.voted = voted]
    <3>1. DecidesAlone(t) BY DEF DecidesAlone, Idle
    <3>2. UNCHANGED committed /\ txn' = [txn EXCEPT ![p] = t] BY <2>2 DEF Load
    <3> HIDE DEF t
    <3> QED BY <1>1, <3>1, <3>2
  <2> QED BY <1>3, <2>1, <2>2 DEF Begin
<1>4. ASSUME NEW p \in Sessions, Proceed(p) PROVE Alone' /\ DecidesAgain
  <2> DEFINE u == txn[p]
  <2>1. u \in Transactions /\ DecidesAlone(u) /\ entity \in EntityStatus
        /\ status \in InstanceStatus /\ outside \in BOOLEAN
    BY DEF IInv, Typed, TypeOK, Alone
  <2>2. CASE DecideApprove(p) \/ DecideReject(p) \/ DecideCancel(p) \/ DecideForce(p)
    <3>1. PICK op, outcome, cancels : Decides(p, op, outcome, cancels)
      BY <2>2, DecidedType DEF IInv
    <3> DEFINE t == [u EXCEPT !.phase = "decided", !.outcome = outcome,
                              !.cancels = cancels, !.holds = Wanted(u)]
    <3>2. txn' = [txn EXCEPT ![p] = t] /\ UNCHANGED committed /\ u.phase = "loaded"
      BY <2>1, <3>1 DEF Decides, IInv, Typed
    <3>3. t.op = u.op /\ t.decides = u.decides BY <2>1 DEF Transactions
    <3> HIDE DEF t
    <3>4. DecidesAlone(t) BY <2>1, <3>2, <3>3 DEF DecidesAlone
    <3> QED BY <1>1, <3>2, <3>4
  <2>3. CASE Flush(p)
    <3> DEFINE synced == Synced(NewStatus(u), entity)
               decides == IF EndsInstance(u) /\ synced # entity THEN synced ELSE "KEEP"
               t == [u EXCEPT !.phase = "flushed", !.holds = u.holds \cup Wanted(u),
                              !.decides = decides]
    <3>1. txn' = [txn EXCEPT ![p] = t] /\ UNCHANGED committed /\ u.phase = "decided"
      BY <2>1, <2>3 DEF Flush, IInv, Typed
    <3>2. decides # "KEEP" =>
            decides \in Decided /\ entity = "PENDING_APPROVAL" /\ WritesInstance(u)
      BY <2>1, NewStatusType, SyncedDecides DEF EndsInstance
    <3>3. WritesInstance(u) => InstanceRow \in Wanted(u) BY <3>1 DEF Wanted
    <3>4. t.phase = "flushed" /\ t.op = u.op /\ t.decides = decides /\ t.holds = u.holds \cup Wanted(u)
      BY <2>1 DEF Transactions
    <3> HIDE DEF t, decides
    <3>5. DecidesAlone(t) BY <2>1, <3>2, <3>3, <3>4 DEF DecidesAlone
    <3> QED BY <1>1, <3>1, <3>5
  <2>4. CASE Commit(p)
    <3>1. /\ entity' = IF u.decides = "KEEP" THEN entity ELSE u.decides
          /\ txn' = [txn EXCEPT ![p] = Idle]
          /\ outside' = (outside \/ u.op \in DirectRequests)
      BY <2>4 DEF Commit
    <3>2. u.decides # "KEEP" => u.decides \in Decided
          /\ (outside' \/ (entity = "PENDING_APPROVAL" /\ InstanceRow \in u.holds))
      BY <2>1, <3>1 DEF DecidesAlone
    <3>3. ASSUME NEW q \in Sessions PROVE DecidesAlone(txn[q])'
      <4>1. CASE q = p
        <5>1. txn'[q] = Idle BY <3>1, <4>1 DEF IInv, Typed
        <5> QED BY <5>1 DEF DecidesAlone, Idle
      <4>2. CASE q # p
        <5>1. txn'[q] = txn[q] BY <3>1, <4>2 DEF IInv, Typed
        <5>2. u.holds \cap txn[q].holds = {} BY <4>2 DEF IInv, Exclusive
        <5>3. DecidesAlone(txn[q]) BY DEF Alone
        <5> HIDE DEF u
        <5> QED BY <3>1, <3>2, <5>1, <5>2, <5>3 DEF DecidesAlone
      <4> QED BY <4>1, <4>2
    <3>4. DecidesAgain
      <4> HIDE DEF u
      <4>1. "PENDING_APPROVAL" \notin Decided BY DEF Decided
      <4> QED BY <3>1, <3>2, <4>1 DEF DecidesAgain
    <3> QED BY <3>3, <3>4 DEF Alone
  <2>5. CASE Rollback(p)
    <3>1. txn' = [txn EXCEPT ![p] = Idle] /\ UNCHANGED committed BY <2>5 DEF Rollback
    <3>2. DecidesAlone(Idle) BY DEF Idle, DecidesAlone
    <3> QED BY <1>1, <3>1, <3>2
  <2> QED BY <1>4, <2>2, <2>3, <2>4, <2>5 DEF Proceed
<1>5. CASE UNCHANGED vars
  <2>1. entity' = entity /\ outside' = outside /\ txn' = txn BY <1>5 DEF vars, committed
  <2> QED BY <2>1 DEF Alone, DecidesAlone, DecidesAgain
<1> QED BY <1>2, <1>3, <1>4, <1>5 DEF Next

\* Whatever the requests and however they race, in any number of sessions, the
\* engine decides the requisition once, and what was decided never waits again.
THEOREM DecidedOnceHolds == Spec => DecidedOnce
<1>1. Init => Alone BY DEF Init, Alone, DecidesAlone, Idle
<1>2. IInv /\ Alone /\ [Next]_vars => Alone' /\ DecidesAgain BY AloneStep
<1>3. DecidesAgain =>
        [entity' # entity /\ entity \in Decided => outside' /\ entity' \in Decided]_entity
  BY DEF DecidesAgain
<1> QED BY <1>1, <1>2, <1>3, Invariance, PTL DEF Spec, DecidedOnce

-----------------------------------------------------------------------------
(* One session at a time: what a transaction read when it began still holds  *)
(* when it commits.                                                         *)

OneAtATime == \A p, q \in Sessions : p = q

\* A step has one group of tasks, and none comes before the instance's step.
GroupsOK ==
    /\ \A g, h \in DOMAIN groups : groups[g].step = groups[h].step => g = h
    /\ \A g \in DOMAIN groups : groups[g].step <= current
    /\ status = "NONE" => groups = <<>>

\* What the request was loaded from: an instance at its step, a task to vote on.
Loaded(t) ==
    /\ t.at = current /\ status \in OpenStatus
    /\ t.op # "CANCEL" => status = "ACTIVE"
    /\ IF t.op \in {"APPROVE", "REJECT"}
       THEN \E g \in DOMAIN groups, u \in Users :
                t.voted = {<<g, u>>} /\ groups[g].task[u] = "PENDING"
       ELSE t.voted = {}

\* The tasks of a group after the vote.
Voted(t, g) == [u \in Users |-> IF <<g, u>> \in t.voted THEN "APPROVED" ELSE groups[g].task[u]]

\* What it decided, from what is committed.
DecidedAs(t) ==
    /\ t.op = "APPROVE" => \A g \in DOMAIN groups, u \in Users : t.voted = {<<g, u>>} =>
           LET s == groups[g].step
               ts == Voted(t, g)
               after == SiblingsCancelled(s, ts)
           IN  /\ t.outcome = IF Converged(s, ts) THEN "ADVANCE"
                              ELSE IF Refused(s, ts) THEN "FAIL" ELSE "NOTHING"
               /\ t.cancels = {<<g, w>> : w \in {v \in Users : after[v] # ts[v]}}
    /\ t.op = "REJECT" => t.outcome = "FAIL" /\ t.cancels = {}
    /\ t.op = "CANCEL" => t.outcome = "CANCEL" /\ t.cancels = PendingRows
    /\ t.op = "FORCE" => t.outcome = "ADVANCE" /\ t.cancels = PendingRows

\* The requisition as a transaction leaves it.
EntityAfter(t) == IF t.decides = "KEEP" THEN entity ELSE t.decides

\* What it found when it had written everything else.
Settles(t) ==
    /\ Enters(t) => Eligible(StepAfter(t.at), {}) # {}
    /\ EntityAfter(t) = IF EndsInstance(t) THEN Synced(NewStatus(t), entity) ELSE entity

DecidesDirectly(t) ==
    /\ t.phase = "flushed" /\ t.outcome = "NOTHING" /\ t.voted = {} /\ t.cancels = {}
    /\ t.decides = Direct[t.op]
    /\ entity = "PENDING_APPROVAL" \/ (t.op = "WITHDRAW" /\ entity = "DRAFT")
    /\ t.op = "APPROVE_DIRECTLY" => Users \ Makers # {}

UpToDate(t) ==
    /\ t.phase # "idle" /\ t.op \in DirectRequests => DecidesDirectly(t)
    /\ t.phase # "idle" /\ t.op \notin DirectRequests => Loaded(t)
    /\ t.phase \in {"decided", "flushed"} /\ t.op \notin DirectRequests => DecidedAs(t)
    /\ t.phase = "flushed" /\ t.op \notin DirectRequests => Settles(t)

SInv == GroupsOK /\ \A p \in Sessions : UpToDate(txn[p])

\* A transaction's rows, written.
Row(t, g) ==
    [u \in Users |->
        IF <<g, u>> \in t.cancels THEN "CANCELLED"
        ELSE IF <<g, u>> \notin t.voted THEN groups[g].task[u]
        ELSE IF t.op = "APPROVE" THEN "APPROVED" ELSE "REJECTED"]

LEMMA WrittenRows ==
    ASSUME groups \in Seq(TaskGroup), NEW t
    PROVE  /\ DOMAIN Written(t) = DOMAIN groups
           /\ \A g \in DOMAIN groups :
                  Written(t)[g].step = groups[g].step /\ Written(t)[g].task = Row(t, g)
<1> DEFINE new(g) == [groups[g] EXCEPT !.task = Row(t, g)]
<1>1. \A g \in DOMAIN groups : groups[g] \in TaskGroup OBVIOUS
<1>2. \A g \in DOMAIN groups : new(g).step = groups[g].step /\ new(g).task = Row(t, g)
  BY <1>1 DEF TaskGroup
<1>3. Written(t) = [g \in DOMAIN groups |-> new(g)]
  BY <1>1 DEF Written, TaskGroup, Row
<1> HIDE DEF new
<1> QED BY <1>2, <1>3

\* The step after c is after it.
LEMMA StepAfterLater ==
    ASSUME NEW c \in 0..NumSteps, Remaining(c) # {}
    PROVE  StepAfter(c) > c
<1>1. Remaining(c) \subseteq Nat BY DEF Remaining, Steps
<1>2. Min(Remaining(c)) \in Remaining(c) BY <1>1, MinIsLeast
<1> QED BY <1>2 DEF StepAfter, Remaining

\* The groups after a commit: those there were, and one of the step entered.
LEMMA CommittedGroups ==
    ASSUME IInv, SInv, NEW p \in Sessions, Commit(p)
    PROVE  LET t == txn[p]
               n == Len(groups)
           IN  /\ DOMAIN groups = 1..n /\ n \in Nat
               /\ DOMAIN groups' = 1..(IF Enters(t) THEN n + 1 ELSE n)
               /\ \A g \in 1..n : groups'[g].step = groups[g].step
                                  /\ groups'[g].task = Row(t, g)
               /\ Enters(t) => /\ groups'[n + 1] = Opened(StepAfter(t.at))
                               /\ StepAfter(t.at) \in Steps /\ StepAfter(t.at) > current
                               /\ current' = StepAfter(t.at) /\ t.at = current
                               /\ t.op \notin DirectRequests
               /\ ~Enters(t) => current' = current
<1> DEFINE t == txn[p]
           n == Len(groups)
           w == Written(t)
           o == Opened(StepAfter(t.at))
<1>1. /\ t \in Transactions /\ UnderWay(t) /\ UpToDate(t) /\ t.phase = "flushed"
      /\ groups \in Seq(TaskGroup) /\ current \in 0..NumSteps
  BY DEF IInv, SInv, Typed, TypeOK, Commit
<1>2. /\ current' = IF Enters(t) THEN StepAfter(t.at) ELSE current
      /\ groups' = IF Enters(t) THEN Append(w, o) ELSE w
  BY DEF Commit
<1> HIDE DEF t
<1>3. n \in Nat /\ DOMAIN groups = 1..n BY <1>1, LenProperties
<1>4. w \in Seq(TaskGroup) /\ DOMAIN w = 1..n
      /\ \A g \in 1..n : w[g].step = groups[g].step /\ w[g].task = Row(t, g)
  BY <1>1, <1>3, WrittenType, WrittenRows
<1>5. Len(w) = n BY <1>3, <1>4, LenProperties
<1> HIDE DEF w, n
<1>6. CASE ~Enters(t)
  BY <1>2, <1>3, <1>4, <1>6 DEF n, t
<1>7. CASE Enters(t)
  <2>1. t.op \notin DirectRequests /\ t.at = current
    BY <1>1, <1>7 DEF Enters, UnderWay, UpToDate, Loaded
  <2>2. StepAfter(t.at) \in Steps /\ StepAfter(t.at) > current
    BY <1>1, <1>7, <2>1, StepAfterType, StepAfterLater DEF Enters
  <2>3. o \in TaskGroup BY <2>2, OpenedType DEF TaskGroup
  <2> HIDE DEF o
  <2>4. /\ DOMAIN Append(w, o) = 1..n + 1
        /\ Append(w, o)[n + 1] = o /\ \A g \in 1..n : Append(w, o)[g] = w[g]
    BY <1>3, <1>4, <1>5, <2>3, AppendProperties, LenProperties
  <2>5. groups' = Append(w, o) /\ current' = StepAfter(t.at) BY <1>2, <1>7
  <2>6. \A g \in 1..n : groups'[g].step = groups[g].step /\ groups'[g].task = Row(t, g)
    BY <1>4, <2>4, <2>5
  <2>7. DOMAIN groups' = 1..n + 1 /\ groups'[n + 1] = Opened(StepAfter(t.at))
    BY <2>4, <2>5 DEF o
  <2> QED BY <1>3, <1>7, <2>1, <2>2, <2>5, <2>6, <2>7 DEF n, t
<1> QED BY <1>6, <1>7

\* SInv is kept: by a transaction that has only begun or read, by one that
\* commits, and there is no other.
LEMMA SInit == Init => SInv
BY DEF Init, SInv, GroupsOK, UpToDate, Idle

\* A step of the only transaction that writes nothing.
LEMMA OnlyTransaction ==
    ASSUME OneAtATime, IInv, SInv, NEW p \in Sessions, NEW t, UNCHANGED committed,
           txn' = [txn EXCEPT ![p] = t], UpToDate(t)
    PROVE  SInv'
<1>1. GroupsOK' BY DEF SInv, GroupsOK, committed
<1>2. ASSUME NEW q \in Sessions PROVE UpToDate(txn[q])'
  <2>1. txn'[q] = t BY DEF OneAtATime, IInv, Typed
  <2>2. status' = status /\ current' = current /\ entity' = entity /\ groups' = groups
    BY DEF committed
  <2>3. DecidesDirectly(t) => DecidesDirectly(txn[q])' BY <2>1, <2>2 DEF DecidesDirectly
  <2>4. Loaded(t) => Loaded(txn[q])' BY <2>1, <2>2 DEF Loaded
  <2>5. DecidedAs(t) => DecidedAs(txn[q])'
    <3>1. PendingRows' = PendingRows BY <2>2 DEF PendingRows, StatusOf
    <3>2. \A g : Voted(txn[q], g)' = Voted(t, g) BY <2>1, <2>2 DEF Voted
    <3> QED BY <2>1, <2>2, <3>1, <3>2 DEF DecidedAs
  <2>6. Settles(t) => Settles(txn[q])'
    <3>1. NewStatus(txn[q])' = NewStatus(t) BY <2>1, <2>2 DEF NewStatus
    <3> QED BY <2>1, <2>2, <3>1 DEF Settles, EntityAfter
  <2> QED BY <2>1, <2>3, <2>4, <2>5, <2>6 DEF UpToDate
<1> QED BY <1>1, <1>2 DEF SInv

LEMMA InstantiateSerial == IInv /\ SInv /\ Instantiate => SInv'
<1> SUFFICES ASSUME IInv, SInv, Instantiate PROVE SInv' OBVIOUS
<1> DEFINE s == Min(Remaining(0))
<1>1. s \in Steps BY FirstStepType DEF Instantiate
<1>2. groups' = <<Opened(s)>> /\ current' = s /\ status' = "ACTIVE" /\ txn' = txn
      /\ txn = [p \in Sessions |-> Idle]
  BY DEF Instantiate
<1>3. Opened(s).step = s BY DEF Opened
<1> HIDE DEF s
<1>4. GroupsOK' BY <1>1, <1>2, <1>3 DEF GroupsOK, Steps
<1>5. \A p \in Sessions : txn'[p] = Idle BY <1>2
<1>6. \A p \in Sessions : UpToDate(txn[p])' BY <1>5 DEF UpToDate, Idle
<1> QED BY <1>4, <1>6 DEF SInv

LEMMA BeginSerial ==
    ASSUME OneAtATime, IInv, SInv, NEW p \in Sessions, Begin(p)
    PROVE  SInv'
<1>1. ASSUME NEW op \in Requests, LoadDirect(p, op) PROVE SInv'
  <2> DEFINE t == [Idle EXCEPT !.phase = "flushed", !.op = op, !.decides = Direct[op]]
  <2>1. /\ t.phase = "flushed" /\ t.op = op /\ t.voted = {} /\ t.cancels = {}
        /\ t.outcome = "NOTHING" /\ t.decides = Direct[op]
    BY DEF Idle
  <2>2. txn' = [txn EXCEPT ![p] = t] /\ UNCHANGED committed /\ op \in DirectRequests
        /\ (entity = "PENDING_APPROVAL" \/ (op = "WITHDRAW" /\ entity = "DRAFT"))
        /\ (op = "APPROVE_DIRECTLY" => Users \ Makers # {})
    BY <1>1 DEF LoadDirect
  <2> HIDE DEF t
  <2>3. UpToDate(t) BY <2>1, <2>2 DEF UpToDate, DecidesDirectly
  <2> QED BY <2>2, <2>3, OnlyTransaction
<1>2. ASSUME NEW op \in Requests, NEW voted \in {{}} \cup {{row} : row \in PendingRows},
             Load(p, op, voted)
      PROVE  SInv'
  <2> DEFINE t == [Idle EXCEPT !.phase = "loaded", !.op = op, !.at = current,
                               !.voted = voted]
  <2>1. t.phase = "loaded" /\ t.op = op /\ t.at = current /\ t.voted = voted
    BY DEF Idle
  <2>2. txn' = [txn EXCEPT ![p] = t] /\ UNCHANGED committed BY <1>2 DEF Load
  <2>3. /\ status \in OpenStatus /\ (op # "CANCEL" => status = "ACTIVE")
        /\ op \in {"APPROVE", "REJECT"} => voted # {}
        /\ op \notin {"APPROVE", "REJECT"} => voted = {}
        /\ op \notin DirectRequests
    BY <1>2, DirectNames DEF Load, OpenStatus
  <2>4. voted # {} => \E g \in DOMAIN groups, u \in Users :
                          voted = {<<g, u>>} /\ groups[g].task[u] = "PENDING"
    BY DEF PendingRows, StatusOf
  <2> HIDE DEF t
  <2>5. Loaded(t) BY <2>1, <2>3, <2>4 DEF Loaded
  <2>6. UpToDate(t) BY <2>1, <2>3, <2>5 DEF UpToDate
  <2> QED BY <2>2, <2>6, OnlyTransaction
<1> QED BY <1>1, <1>2 DEF Begin

LEMMA DecideSerial ==
    ASSUME OneAtATime, IInv, SInv, NEW p \in Sessions,
           DecideApprove(p) \/ DecideReject(p) \/ DecideCancel(p) \/ DecideForce(p)
    PROVE  SInv'
<1>1. txn[p] \in Transactions /\ UpToDate(txn[p]) BY DEF IInv, SInv, Typed
<1>2. ASSUME NEW op \in Operations \ DirectRequests, NEW outcome, NEW cancels,
             Decides(p, op, outcome, cancels),
             op = "APPROVE" => \A g \in DOMAIN groups, u \in Users :
                 txn[p].voted = {<<g, u>>} =>
                     LET s == groups[g].step
                         ts == Voted(txn[p], g)
                         after == SiblingsCancelled(s, ts)
                     IN  /\ outcome = IF Converged(s, ts) THEN "ADVANCE"
                                      ELSE IF Refused(s, ts) THEN "FAIL" ELSE "NOTHING"
                         /\ cancels = {<<g, w>> : w \in {v \in Users : after[v] # ts[v]}},
             op = "REJECT" => outcome = "FAIL" /\ cancels = {},
             op = "CANCEL" => outcome = "CANCEL" /\ cancels = PendingRows,
             op = "FORCE" => outcome = "ADVANCE" /\ cancels = PendingRows
      PROVE  SInv'
  <2> DEFINE t == [txn[p] EXCEPT !.phase = "decided", !.outcome = outcome,
                                 !.cancels = cancels, !.holds = Wanted(txn[p])]
  <2>1. txn[p].phase = "loaded" /\ txn[p].op = op BY <1>2 DEF Decides
  <2>2. /\ t.phase = "decided" /\ t.op = op /\ t.at = txn[p].at /\ t.voted = txn[p].voted
        /\ t.cancels = cancels /\ t.outcome = outcome
    BY <1>1, <2>1 DEF Transactions
  <2>3. txn' = [txn EXCEPT ![p] = t] /\ UNCHANGED committed
    BY <1>1, <1>2 DEF Decides, IInv, Typed
  <2> HIDE DEF t
  <2>4. Loaded(t)
    <3>1. Loaded(txn[p]) BY <1>1, <2>1 DEF UpToDate
    <3> QED BY <2>1, <2>2, <3>1 DEF Loaded
  <2>5. DecidedAs(t)
    <3>1. \A g : Voted(t, g) = Voted(txn[p], g) BY <2>2 DEF Voted
    <3> QED BY <1>2, <2>2, <3>1 DEF DecidedAs
  <2>6. UpToDate(t) BY <2>2, <2>4, <2>5 DEF UpToDate
  <2> QED BY <2>3, <2>6, OnlyTransaction
<1>3. CASE DecideApprove(p)
  <2>1. PICK g \in DOMAIN groups, u \in Users :
          /\ <<g, u>> \in txn[p].voted
          /\ LET s == groups[g].step
                 ts == Voted(txn[p], g)
                 after == SiblingsCancelled(s, ts)
             IN  Decides(p, "APPROVE",
                         IF Converged(s, ts) THEN "ADVANCE"
                         ELSE IF Refused(s, ts) THEN "FAIL" ELSE "NOTHING",
                         {<<g, w>> : w \in {v \in Users : after[v] # ts[v]}})
    BY <1>3 DEF DecideApprove, Voted
  <2>2. \A h \in DOMAIN groups, w \in Users : txn[p].voted = {<<h, w>>} => h = g
    BY <2>1
  <2> QED BY <1>2, <2>1, <2>2, DirectNames DEF Operations
<1>4. CASE DecideReject(p) BY <1>2, <1>4, DirectNames DEF DecideReject, Operations
<1>5. CASE DecideCancel(p) BY <1>2, <1>5, DirectNames DEF DecideCancel, Operations
<1>6. CASE DecideForce(p) BY <1>2, <1>6, DirectNames DEF DecideForce, Operations
<1> QED BY <1>3, <1>4, <1>5, <1>6

LEMMA FlushSerial ==
    ASSUME OneAtATime, IInv, SInv, NEW p \in Sessions, Flush(p)
    PROVE  SInv'
<1> DEFINE u == txn[p]
           synced == Synced(NewStatus(u), entity)
           decides == IF EndsInstance(u) /\ synced # entity THEN synced ELSE "KEEP"
           t == [u EXCEPT !.phase = "flushed", !.holds = u.holds \cup Wanted(u),
                          !.decides = decides]
<1>1. u \in Transactions /\ UpToDate(u) /\ entity \in EntityStatus /\ u.phase = "decided"
      /\ status \in InstanceStatus
  BY DEF IInv, SInv, Typed, TypeOK, Flush
<1>2. txn' = [txn EXCEPT ![p] = t] /\ UNCHANGED committed
      /\ (Enters(u) => Eligible(StepAfter(u.at), {}) # {})
  BY <1>1 DEF Flush, IInv, Typed
<1>3. u.op \notin DirectRequests /\ Loaded(u) /\ DecidedAs(u)
  BY <1>1 DEF UpToDate, DecidesDirectly
<1>4. synced # "KEEP"
  <2>1. synced \in EntityStatus BY <1>1, NewStatusType, SyncedType
  <2> QED BY <2>1 DEF EntityStatus
<1> HIDE DEF synced
<1>5. /\ t.phase = "flushed" /\ t.op = u.op /\ t.at = u.at /\ t.voted = u.voted
      /\ t.cancels = u.cancels /\ t.outcome = u.outcome /\ t.decides = decides
  BY <1>1 DEF Transactions
<1> HIDE DEF t, u
<1>6. Loaded(t) /\ DecidedAs(t)
  <2>1. Loaded(t) BY <1>3, <1>5 DEF Loaded
  <2>2. \A g : Voted(t, g) = Voted(u, g) BY <1>5 DEF Voted
  <2> QED BY <1>3, <1>5, <2>1, <2>2 DEF DecidedAs
<1>7. Settles(t)
  <2>1. Enters(t) = Enters(u) /\ EndsInstance(t) = EndsInstance(u)
        /\ NewStatus(t) = NewStatus(u)
    BY <1>5 DEF Enters, EndsInstance, WritesInstance, NewStatus
  <2>2. EntityAfter(t) = IF EndsInstance(u) THEN synced ELSE entity
    BY <1>4, <1>5 DEF EntityAfter
  <2> QED BY <1>2, <1>5, <2>1, <2>2 DEF Settles, synced
<1>8. UpToDate(t) BY <1>3, <1>5, <1>6, <1>7 DEF UpToDate
<1> QED BY <1>2, <1>8, OnlyTransaction

LEMMA CommitSerial ==
    ASSUME OneAtATime, IInv, SInv, NEW p \in Sessions, Commit(p)
    PROVE  SInv'
<1> DEFINE t == txn[p]
           n == Len(groups)
<1>1. t \in Transactions /\ UpToDate(t) /\ t.phase = "flushed" /\ UnderWay(t)
      /\ status \in InstanceStatus /\ current \in 0..NumSteps
      /\ \A g \in DOMAIN groups : groups[g].step \in Steps
  BY DEF IInv, SInv, Typed, TypeOK, Commit
<1>2. /\ n \in Nat /\ DOMAIN groups = 1..n
      /\ DOMAIN groups' = 1..(IF Enters(t) THEN n + 1 ELSE n)
      /\ \A g \in 1..n : groups'[g].step = groups[g].step
      /\ Enters(t) => /\ groups'[n + 1] = Opened(StepAfter(t.at))
                      /\ StepAfter(t.at) \in Steps /\ StepAfter(t.at) > current
                      /\ current' = StepAfter(t.at)
      /\ ~Enters(t) => current' = current
  BY CommittedGroups
<1>3. txn'[p] = Idle BY DEF Commit, IInv, Typed
<1>4. status' = NewStatus(t) BY DEF Commit
<1> HIDE DEF t
<1>5. GroupsOK'
  <2>1. Enters(t) => groups'[n + 1].step = StepAfter(t.at) BY <1>2 DEF Opened
  <2>2. \A g \in 1..n : groups'[g].step <= current /\ groups'[g].step \in Nat
    BY <1>1, <1>2 DEF SInv, GroupsOK, Steps
  <2>3. current' \in Nat /\ current' >= current BY <1>1, <1>2 DEF Steps
  <2> HIDE DEF n
  <2>4. \A g \in DOMAIN groups' : g \in 1..n \/ (Enters(t) /\ g = n + 1) BY <1>2
  <2>5. \A g \in DOMAIN groups' : groups'[g].step <= current'
    BY <1>1, <1>2, <2>1, <2>2, <2>3, <2>4 DEF Steps
  <2>6. \A g, h \in DOMAIN groups' : groups'[g].step = groups'[h].step => g = h
    <3>1. \A g, h \in 1..n : groups'[g].step = groups'[h].step => g = h
      BY <1>2 DEF SInv, GroupsOK
    <3>2. Enters(t) => \A g \in 1..n : groups'[g].step # groups'[n + 1].step
      BY <1>1, <1>2, <2>1, <2>2 DEF Steps
    <3> QED BY <2>4, <3>1, <3>2
  <2>7. status' = "NONE" => groups' = <<>>
    <3>1. CASE t.op \in DirectRequests
      <4>1. status' = status /\ ~Enters(t)
        BY <1>1, <1>4, <3>1, NewStatusType DEF UnderWay, Enters
      <4>2. SUFFICES ASSUME status = "NONE" PROVE groups' = <<>> BY <4>1
      <4>3. n = 0 BY <4>2 DEF SInv, GroupsOK, n
      <4>4. groups' = Written(t) BY <4>1 DEF Commit, t
      <4>5. Written(t) \in Seq(TaskGroup) BY WrittenType DEF IInv, Typed
      <4>6. DOMAIN groups' = 1..0 BY <1>2, <4>1, <4>3
      <4> QED BY <4>4, <4>5, <4>6, EmptySeq, LenProperties
    <3>2. CASE t.op \notin DirectRequests
      BY <1>1, <1>4, <3>2, NewStatusType DEF UnderWay
    <3> QED BY <3>1, <3>2
  <2> QED BY <2>5, <2>6, <2>7 DEF GroupsOK
<1>6. ASSUME NEW q \in Sessions PROVE UpToDate(txn[q])'
  <2>1. txn'[q] = Idle BY <1>3 DEF OneAtATime
  <2> QED BY <2>1 DEF UpToDate, Idle
<1> QED BY <1>5, <1>6 DEF SInv

LEMMA SerialStep == OneAtATime /\ IInv /\ SInv /\ [Next]_vars => SInv'
<1> SUFFICES ASSUME OneAtATime, IInv, SInv, [Next]_vars PROVE SInv' OBVIOUS
<1>1. ASSUME NEW p \in Sessions, Rollback(p) PROVE SInv'
  <2>1. txn' = [txn EXCEPT ![p] = Idle] /\ UNCHANGED committed BY <1>1 DEF Rollback
  <2>2. UpToDate(Idle) BY DEF UpToDate, Idle
  <2> QED BY <2>1, <2>2, OnlyTransaction
<1>2. ASSUME NEW p \in Sessions, Proceed(p) PROVE SInv'
  BY <1>1, <1>2, DecideSerial, FlushSerial, CommitSerial DEF Proceed
<1>3. CASE UNCHANGED vars
  <2>1. GroupsOK' BY <1>3 DEF vars, committed, SInv, GroupsOK
  <2>2. ASSUME NEW p \in Sessions PROVE SInv'
    <3>1. txn' = [txn EXCEPT ![p] = txn[p]] /\ UNCHANGED committed
      BY <1>3 DEF vars, IInv, Typed
    <3>2. UpToDate(txn[p]) BY DEF SInv
    <3> QED BY <3>1, <3>2, OnlyTransaction
  <2> QED BY <2>1, <2>2 DEF SInv
<1> QED BY <1>2, <1>3, InstantiateSerial, BeginSerial DEF Next

-----------------------------------------------------------------------------
(* The engine of the refinement is built from the same template.            *)

LEMMA SameCardinality == ASSUME NEW S PROVE Engine!Cardinality(S) = Cardinality(S)
BY DEF Engine!Cardinality, Cardinality

LEMMA SameProgress ==
    ASSUME NEW c
    PROVE  /\ Engine!Remaining(c) = Remaining(c) /\ Engine!StepAfter(c) = StepAfter(c)
           /\ Engine!StatusAfter(c) = StatusAfter(c)
           /\ Engine!CanEnterNext(c, {}) <=> CanEnterNext(c, {})
<1>1. \A s, D : Engine!Eligible(s, D) = Eligible(s, D)
  BY DEF Engine!Eligible, Eligible, Engine!FirstChoice, FirstChoice,
         Engine!DelegateOf, DelegateOf
<1>2. Engine!Remaining(c) = Remaining(c)
  BY DEF Engine!Remaining, Remaining, Engine!Steps, Steps
<1>3. Engine!StepAfter(c) = StepAfter(c)
  BY <1>2 DEF Engine!StepAfter, StepAfter, Engine!Min, Min
<1> QED BY <1>1, <1>2, <1>3 DEF Engine!StatusAfter, StatusAfter, Engine!CanEnterNext,
           CanEnterNext

LEMMA SameApprovers ==
    ASSUME NEW s
    PROVE  /\ Engine!Eligible(s, {}) = Eligible(s, {})
           /\ \A u : Engine!AssigneeOf(s, u, {}) = u
BY DEF Engine!Eligible, Eligible, Engine!FirstChoice, FirstChoice, Engine!DelegateOf,
       DelegateOf, Engine!AssigneeOf

LEMMA SameDecisions ==
    ASSUME NEW s, NEW ts
    PROVE  /\ Engine!Converged(s, ts) <=> Converged(s, ts)
           /\ Engine!Refused(s, ts) <=> Refused(s, ts)
           /\ Engine!SiblingsCancelled(s, ts) = SiblingsCancelled(s, ts)
<1>1. Engine!Converged(s, ts) <=> Converged(s, ts)
  BY SameCardinality DEF Engine!Converged, Converged, Engine!HavingStatus, HavingStatus,
                         Engine!Group, Group
<1>2. Engine!Refused(s, ts) <=> Refused(s, ts)
  BY <1>1, SameCardinality DEF Engine!Refused, Refused, Engine!HavingStatus, HavingStatus,
                               Engine!Group, Group
<1> QED BY <1>1, <1>2 DEF Engine!SiblingsCancelled, SiblingsCancelled

LEMMA SameSync == ASSUME NEW st, NEW e PROVE Engine!Synced(st, e) = Synced(st, e)
BY DEF Engine!Synced, Synced

-----------------------------------------------------------------------------
(* The table of tasks the engine sees.                                      *)

NoTasks == [u \in Users |-> "NONE"]

Table(gs, s) ==
    IF \E g \in DOMAIN gs : gs[g].step = s
    THEN (CHOOSE g \in Range(gs) : g.step = s).task
    ELSE NoTasks

\* The table has the tasks of the one group of a step.
LEMMA TableOf ==
    ASSUME NEW gs, \A g, h \in DOMAIN gs : gs[g].step = gs[h].step => g = h,
           NEW g \in DOMAIN gs
    PROVE  Table(gs, gs[g].step) = gs[g].task
<1> DEFINE s == gs[g].step
           r == CHOOSE x \in Range(gs) : x.step = s
<1>1. gs[g] \in Range(gs) BY DEF Range
<1>2. r \in Range(gs) /\ r.step = s BY <1>1
<1>3. PICK h \in DOMAIN gs : r = gs[h] BY <1>2 DEF Range
<1>4. h = g BY <1>2, <1>3
<1> QED BY <1>3, <1>4 DEF Table

Tasks == [s \in Steps |-> TasksOf(s)]
Acted == [s \in Steps |-> [u \in Users |->
             IF TasksOf(s)[u] \in {"APPROVED", "REJECTED"} THEN u ELSE NoUser]]

\* The table and who acted, group by group.
LEMMA TasksNow ==
    ASSUME IInv, SInv
    PROVE  /\ \A g \in DOMAIN groups :
                  groups[g].step \in Steps /\ Tasks[groups[g].step] = groups[g].task
           /\ \A s \in Steps : (\A g \in DOMAIN groups : groups[g].step # s) =>
                  Tasks[s] = NoTasks
           /\ Tasks \in [Steps -> [Users -> TaskStatus]]
           /\ Acted = [s \in Steps |-> [u \in Users |->
                  IF Tasks[s][u] \in {"APPROVED", "REJECTED"} THEN u ELSE NoUser]]
<1>1. \A s : TasksOf(s) = Table(groups, s) BY DEF TasksOf, Table, NoTasks
<1>2. ASSUME NEW g \in DOMAIN groups
      PROVE  groups[g].step \in Steps /\ Tasks[groups[g].step] = groups[g].task
             /\ groups[g].task \in [Users -> TaskStatus]
  <2>1. groups[g].step \in Steps /\ groups[g].task \in [Users -> TaskStatus]
    BY DEF IInv, Typed, TypeOK
  <2>2. Table(groups, groups[g].step) = groups[g].task BY TableOf DEF SInv, GroupsOK
  <2> QED BY <1>1, <2>1, <2>2 DEF Tasks
<1>3. ASSUME NEW s \in Steps, \A g \in DOMAIN groups : groups[g].step # s
      PROVE  Tasks[s] = NoTasks
  BY <1>3 DEF Tasks, TasksOf, NoTasks
<1>4. NoTasks \in [Users -> TaskStatus] BY DEF NoTasks, TaskStatus
<1>5. \A s \in Steps : Tasks[s] \in [Users -> TaskStatus] BY <1>2, <1>3, <1>4
<1>6. Tasks \in [Steps -> [Users -> TaskStatus]] BY <1>5 DEF Tasks
<1>7. \A s \in Steps : Tasks[s] = TasksOf(s) BY DEF Tasks
<1> QED BY <1>2, <1>3, <1>6, <1>7 DEF Acted

LEMMA ActedNext ==
    Acted' = [s \in Steps |-> [u \in Users |->
                 IF Tasks'[s][u] \in {"APPROVED", "REJECTED"} THEN u ELSE NoUser]]
<1>1. \A s \in Steps : Tasks'[s] = TasksOf(s)' BY DEF Tasks
<1> QED BY <1>1 DEF Acted

\* The table after a commit: what the transaction wrote, and the step it entered.
LEMMA TasksNext ==
    ASSUME IInv, SInv, SInv', NEW p \in Sessions, Commit(p), NEW tab,
           tab = [s \in Steps |-> tab[s]],
           \A g \in DOMAIN groups : tab[groups[g].step] = Row(txn[p], g),
           \A s \in Steps : (\A g \in DOMAIN groups : groups[g].step # s) => tab[s] = NoTasks
    PROVE  LET s == StepAfter(txn[p].at)
           IN  Tasks' = IF Enters(txn[p]) THEN [tab EXCEPT ![s] = Opened(s).task] ELSE tab
<1> DEFINE t == txn[p]
           n == Len(groups)
           e == StepAfter(t.at)
<1>1. /\ DOMAIN groups = 1..n /\ n \in Nat
      /\ DOMAIN groups' = 1..(IF Enters(t) THEN n + 1 ELSE n)
      /\ \A g \in 1..n : groups'[g].step = groups[g].step /\ groups'[g].task = Row(t, g)
      /\ Enters(t) => groups'[n + 1] = Opened(e) /\ e \in Steps
  BY CommittedGroups
<1>2. \A g, h \in DOMAIN groups' : groups'[g].step = groups'[h].step => g = h
  BY DEF SInv, GroupsOK
<1>3. \A g \in DOMAIN groups' : Table(groups', groups'[g].step) = groups'[g].task
  BY <1>2, TableOf
<1>4. \A s \in Steps : Tasks'[s] = Table(groups', s)
  BY DEF Tasks, TasksOf, Table, NoTasks
<1> HIDE DEF t, n, e
<1>5. Enters(t) => Tasks'[e] = Opened(e).task
  <2>1. Opened(e).step = e BY DEF Opened
  <2>2. Enters(t) => n + 1 \in DOMAIN groups' BY <1>1
  <2> QED BY <1>1, <1>3, <1>4, <2>1, <2>2
<1>6. ASSUME NEW s \in Steps, Enters(t) => s # e PROVE Tasks'[s] = tab[s]
  <2>1. CASE \E g \in DOMAIN groups : groups[g].step = s
    <3>1. PICK g \in DOMAIN groups : groups[g].step = s BY <2>1
    <3>2. g \in DOMAIN groups' /\ groups'[g].step = s /\ groups'[g].task = Row(t, g)
      BY <1>1, <3>1
    <3> QED BY <1>3, <1>4, <3>1, <3>2 DEF t
  <2>2. CASE \A g \in DOMAIN groups : groups[g].step # s
    <3>1. \A g \in DOMAIN groups' : groups'[g].step # s
      <4>1. \A g \in DOMAIN groups' : g \in 1..n \/ (Enters(t) /\ g = n + 1) BY <1>1
      <4>2. Opened(e).step = e BY DEF Opened
      <4> QED BY <1>1, <1>6, <2>2, <4>1, <4>2
    <3>2. Table(groups', s) = NoTasks BY <3>1 DEF Table
    <3> QED BY <1>4, <2>2, <3>2
  <2> QED BY <2>1, <2>2
<1>7. Tasks' = [s \in Steps |-> Tasks'[s]] BY DEF Tasks
<1>8. CASE ~Enters(t) BY <1>6, <1>7, <1>8 DEF t
<1>9. CASE Enters(t)
  <2>1. [tab EXCEPT ![e] = Opened(e).task]
            = [s \in Steps |-> IF s = e THEN Opened(e).task ELSE tab[s]]
    OBVIOUS
  <2> QED BY <1>1, <1>5, <1>6, <1>7, <1>9, <2>1 DEF t, e
<1> QED BY <1>8, <1>9

-----------------------------------------------------------------------------
(* Every commit is the engine's action for its operation.                   *)

Assignees == [s \in Steps |-> [u \in Users |-> u]]
Clocks == [s \in Steps |-> 0]

\* Entering the step after c from the table tab, as the engine does it.
Enter(c, tab, e) ==
    /\ CanEnterNext(c, {})
    /\ status' = StatusAfter(c)
    /\ current' = StepAfter(c)
    /\ entity' = Synced(StatusAfter(c), e)
    /\ Tasks' = IF Remaining(c) = {} THEN tab
                ELSE [tab EXCEPT ![StepAfter(c)] = Opened(StepAfter(c)).task]

LEMMA EnterMaps ==
    ASSUME NEW tab, NEW c, NEW e, Enter(c, tab, e)
    PROVE  Engine!EnterNext(c, tab, e)
<1> DEFINE s == StepAfter(c)
<1>1. /\ Engine!Remaining(c) = Remaining(c) /\ Engine!StepAfter(c) = s
      /\ Engine!StatusAfter(c) = StatusAfter(c) /\ Engine!CanEnterNext(c, {})
      /\ Engine!Synced(StatusAfter(c), e) = Synced(StatusAfter(c), e)
  BY SameProgress, SameSync DEF Enter
<1>2. Engine!Eligible(s, {}) = Eligible(s, {}) /\ \A u : Engine!AssigneeOf(s, u, {}) = u
  BY SameApprovers
<1>3. Opened(s).task = [u \in Users |-> IF u \in Eligible(s, {}) THEN "PENDING" ELSE "NONE"]
  BY DEF Opened
<1>4. [u \in Users |-> IF u \in Engine!Eligible(s, {}) THEN Engine!AssigneeOf(s, u, {}) ELSE u]
          = [u \in Users |-> u]
  BY <1>2
<1>5. [Assignees EXCEPT ![s] = [u \in Users |-> u]] = Assignees BY DEF Assignees
<1>6. [Clocks EXCEPT ![s] = 0] = Clocks BY DEF Clocks
<1>7. [u \in Users |-> IF u \in Engine!Eligible(s, {}) THEN "PENDING" ELSE "NONE"]
          = Opened(s).task
  BY <1>2, <1>3
<1>8. CASE Remaining(c) = {}
  <2>1. Tasks' = tab BY <1>8 DEF Enter
  <2> QED BY <1>1, <1>8, <2>1 DEF Enter, Engine!EnterNext, Engine!slaVars, Tasks
<1>9. CASE Remaining(c) # {}
  <2>1. Tasks' = [tab EXCEPT ![s] = Opened(s).task] /\ current' = s BY <1>9 DEF Enter
  <2>2. /\ status' = StatusAfter(c) /\ entity' = Synced(StatusAfter(c), e) BY DEF Enter
  <2>3. Engine!Remaining(c) # {} BY <1>1, <1>9
  <2> HIDE DEF s
  <2>4. Tasks' = [tab EXCEPT ![s] = [u \in Users |->
                     IF u \in Engine!Eligible(s, {}) THEN "PENDING" ELSE "NONE"]]
    BY <1>7, <2>1
  <2>5. Assignees = [Assignees EXCEPT ![s] = [u \in Users |->
            IF u \in Engine!Eligible(s, {}) THEN Engine!AssigneeOf(s, u, {}) ELSE u]]
    BY <1>4, <1>5
  <2> QED BY <1>1, <1>6, <2>1, <2>2, <2>3, <2>4, <2>5
      DEF Engine!EnterNext, Tasks, Assignees, Clocks
<1> QED BY <1>8, <1>9

\* Who has acted after a commit: the table the transaction wrote says it all.
LEMMA ActedAfter ==
    ASSUME IInv, SInv, SInv', NEW p \in Sessions, Commit(p), NEW tab,
           tab = [s \in Steps |-> tab[s]],
           \A g \in DOMAIN groups : tab[groups[g].step] = Row(txn[p], g),
           \A s \in Steps : (\A g \in DOMAIN groups : groups[g].step # s) => tab[s] = NoTasks
    PROVE  Acted' = [s \in Steps |-> [u \in Users |->
                        IF tab[s][u] \in {"APPROVED", "REJECTED"} THEN u ELSE NoUser]]
<1> DEFINE t == txn[p]
           e == StepAfter(t.at)
<1>1. Tasks' = IF Enters(t) THEN [tab EXCEPT ![e] = Opened(e).task] ELSE tab
  BY TasksNext
<1>2. Enters(t) => e > current /\ e \in Steps BY CommittedGroups
<1>3. Enters(t) => tab[e] = NoTasks
  <2>1. \A g \in DOMAIN groups : groups[g].step <= current /\ groups[g].step \in Steps
    BY DEF SInv, GroupsOK, IInv, Typed, TypeOK
  <2>2. current \in Nat BY DEF IInv, Typed, TypeOK
  <2>3. Enters(t) => \A g \in DOMAIN groups : groups[g].step # e
    BY <1>2, <2>1, <2>2 DEF Steps
  <2> QED BY <1>2, <2>3
<1>4. \A u \in Users : NoTasks[u] = "NONE" /\ Opened(e).task[u] \in {"PENDING", "NONE"}
  BY DEF NoTasks, Opened
<1> HIDE DEF t, e
<1>5. \A s \in Steps : Tasks'[s] = tab[s] \/ (Tasks'[s] = Opened(e).task /\ tab[s] = NoTasks)
  BY <1>1, <1>2, <1>3
<1>6. \A s \in Steps, u \in Users :
         Tasks'[s][u] \in {"APPROVED", "REJECTED"} => Tasks'[s][u] = tab[s][u]
  BY <1>4, <1>5
<1>7. \A s \in Steps, u \in Users :
         tab[s][u] \in {"APPROVED", "REJECTED"} => Tasks'[s][u] = tab[s][u]
  BY <1>4, <1>5
<1>8. \A s \in Steps, u \in Users :
         Tasks'[s][u] \in {"APPROVED", "REJECTED"} <=> tab[s][u] \in {"APPROVED", "REJECTED"}
  BY <1>6, <1>7
<1>9. \A s \in Steps :
         [u \in Users |-> IF Tasks'[s][u] \in {"APPROVED", "REJECTED"} THEN u ELSE NoUser]
         = [u \in Users |-> IF tab[s][u] \in {"APPROVED", "REJECTED"} THEN u ELSE NoUser]
  BY <1>8
<1> QED BY <1>9, ActedNext

\* Siblings are cancelled or left alone.
LEMMA SiblingsLeft ==
    ASSUME NEW s, NEW ts, ts = [v \in Users |-> ts[v]]
    PROVE  /\ SiblingsCancelled(s, ts) = [v \in Users |-> SiblingsCancelled(s, ts)[v]]
           /\ \A v \in Users : \/ SiblingsCancelled(s, ts)[v] = ts[v]
                               \/ /\ ts[v] = "PENDING"
                                  /\ SiblingsCancelled(s, ts)[v] = "CANCELLED"
BY DEF SiblingsCancelled

\* What an instance advancing, ending or standing still does to its status and
\* to the requisition.
LEMMA CommitDecides ==
    ASSUME IInv, SInv, NEW p \in Sessions, Commit(p), txn[p].op \notin DirectRequests
    PROVE  LET t == txn[p]
           IN  /\ t.outcome = "ADVANCE" =>
                     /\ CanEnterNext(current, {})
                     /\ status' = StatusAfter(current) \/ status # "ACTIVE"
                     /\ current' = StepAfter(current)
                     /\ entity' = Synced(StatusAfter(current), entity) \/ status # "ACTIVE"
               /\ t.outcome # "ADVANCE" => current' = current
               /\ t.outcome = "FAIL" => status' = "FAILED" /\ entity' = Synced("FAILED", entity)
               /\ t.outcome = "CANCEL" =>
                     status' = "CANCELLED" /\ entity' = Synced("CANCELLED", entity)
               /\ t.outcome = "NOTHING" => status' = status /\ entity' = entity
               /\ t.at = current /\ Loaded(t) /\ DecidedAs(t)
<1> DEFINE t == txn[p]
<1>1. /\ t \in Transactions /\ Loaded(t) /\ DecidedAs(t) /\ Settles(t) /\ t.at = current
  BY DEF IInv, SInv, Typed, TypeOK, UpToDate, Loaded, Commit
<1>2. /\ status' = NewStatus(t) /\ entity' = EntityAfter(t)
      /\ current' = IF Enters(t) THEN StepAfter(t.at) ELSE current
  BY DEF Commit, EntityAfter
<1> HIDE DEF t
<1>3. CASE t.outcome = "ADVANCE"
  <2>1. CASE Remaining(current) = {}
    <3>1. ~Enters(t) /\ EndsInstance(t) /\ NewStatus(t) = "COMPLETED"
      BY <1>1, <1>3, <2>1 DEF Enters, EndsInstance, WritesInstance, NewStatus
    <3>2. StepAfter(current) = current /\ StatusAfter(current) = "COMPLETED"
          /\ CanEnterNext(current, {})
      BY <2>1 DEF StepAfter, StatusAfter, CanEnterNext
    <3> QED BY <1>1, <1>2, <1>3, <3>1, <3>2 DEF t, Settles
  <2>2. CASE Remaining(current) # {}
    <3>1. Enters(t) /\ ~EndsInstance(t) /\ NewStatus(t) = status
      BY <1>1, <1>3, <2>2 DEF Enters, EndsInstance, WritesInstance, NewStatus
    <3>2. StatusAfter(current) = "ACTIVE" BY <2>2 DEF StatusAfter
    <3>3. CanEnterNext(current, {}) BY <1>1, <3>1 DEF Settles, CanEnterNext
    <3>4. entity' = entity /\ Synced("ACTIVE", entity) = entity
      BY <1>1, <1>2, <3>1 DEF Settles, Synced
    <3> QED BY <1>1, <1>2, <1>3, <3>1, <3>2, <3>3, <3>4 DEF t
  <2> QED BY <2>1, <2>2
<1>4. CASE t.outcome # "ADVANCE"
  <2>1. ~Enters(t) /\ (EndsInstance(t) <=> t.outcome # "NOTHING")
    BY <1>4 DEF Enters, EndsInstance, WritesInstance
  <2>2. NewStatus(t) = CASE t.outcome = "FAIL" -> "FAILED"
                         [] t.outcome = "CANCEL" -> "CANCELLED"
                         [] OTHER -> status
    BY <1>4 DEF NewStatus
  <2>3. t.outcome \in {"NOTHING", "FAIL", "CANCEL"} BY <1>1, <1>4 DEF Transactions
  <2> QED BY <1>1, <1>2, <1>4, <2>1, <2>2, <2>3 DEF t, Settles
<1> QED BY <1>3, <1>4

\* The engine's step, once the table it leaves is known: what the transaction
\* wrote and, when it advances, the tasks of the step it enters.
LEMMA AdvanceMaps ==
    ASSUME IInv, SInv, SInv', NEW p \in Sessions, Commit(p), txn[p].op \notin DirectRequests,
           txn[p].outcome = "ADVANCE", status = "ACTIVE", NEW tab,
           tab = [s \in Steps |-> tab[s]],
           \A g \in DOMAIN groups : tab[groups[g].step] = Row(txn[p], g),
           \A s \in Steps : (\A g \in DOMAIN groups : groups[g].step # s) => tab[s] = NoTasks
    PROVE  Engine!EnterNext(current, tab, entity)
<1> DEFINE t == txn[p]
<1>1. /\ CanEnterNext(current, {}) /\ status' = StatusAfter(current) /\ t.at = current
      /\ current' = StepAfter(current) /\ entity' = Synced(StatusAfter(current), entity)
  BY CommitDecides
<1>2. Tasks' = IF Enters(t) THEN [tab EXCEPT ![StepAfter(t.at)] = Opened(StepAfter(t.at)).task]
               ELSE tab
  BY TasksNext
<1>3. Enters(t) <=> Remaining(current) # {} BY <1>1 DEF Enters
<1>4. Tasks' = IF Remaining(current) = {} THEN tab
               ELSE [tab EXCEPT ![StepAfter(current)] = Opened(StepAfter(current)).task]
  BY <1>1, <1>2, <1>3
<1>5. PICK c, e : c = current /\ e = entity OBVIOUS
<1>6. Enter(c, tab, e) BY <1>1, <1>4, <1>5 DEF Enter
<1>7. Engine!EnterNext(c, tab, e) BY <1>6, EnterMaps
<1> QED BY <1>5, <1>7 DEF Engine!EnterNext

\* A request of the engine decides nothing outside it.
LEMMA EngineDecides ==
    ASSUME IInv, NEW p \in Sessions, Commit(p),
           txn[p].op \in {"APPROVE", "REJECT", "CANCEL", "FORCE"}
    PROVE  /\ outside' = outside
           /\ forced' = IF txn[p].op = "FORCE" THEN forced \cup {txn[p].at} ELSE forced
<1>1. txn[p].op \notin DirectRequests BY DirectNames
<1>2. outside \in BOOLEAN BY DEF IInv, Typed, TypeOK
<1>3. outside' = (outside \/ txn[p].op \in DirectRequests) BY DEF Commit
<1>4. outside' = outside
  <2> DEFINE direct == txn[p].op \in DirectRequests
  <2> HIDE DEF direct
  <2>1. ~direct /\ outside' = (outside \/ direct) BY <1>1, <1>3 DEF direct
  <2> QED BY <1>2, <2>1
<1> QED BY <1>4 DEF Commit

\* advance(APPROVE).
LEMMA ApproveMaps ==
    ASSUME IInv, SInv, SInv', NEW p \in Sessions, Commit(p), txn[p].op = "APPROVE"
    PROVE  \E s \in Steps, u \in Users : Engine!Approve(s, u, u)
<1> DEFINE t == txn[p]
<1>1. /\ Loaded(t) /\ DecidedAs(t) /\ t \in Transactions
      /\ t.outcome # "ADVANCE" => current' = current
      /\ t.outcome = "FAIL" => status' = "FAILED" /\ entity' = Synced("FAILED", entity)
      /\ t.outcome = "NOTHING" => status' = status /\ entity' = entity
  BY CommitDecides, DirectNames DEF IInv, Typed
<1>2. PICK g \in DOMAIN groups, u \in Users :
          t.voted = {<<g, u>>} /\ groups[g].task[u] = "PENDING"
  BY <1>1 DEF Loaded
<1> DEFINE s == groups[g].step
           ts == [Tasks[s] EXCEPT ![u] = "APPROVED"]
           after == SiblingsCancelled(s, ts)
           tab == [Tasks EXCEPT ![s] = after]
<1>3. /\ s \in Steps /\ Tasks[s] = groups[g].task /\ Tasks \in [Steps -> [Users -> TaskStatus]]
      /\ Tasks[s] \in [Users -> TaskStatus]
      /\ \A h \in DOMAIN groups :
            groups[h].step \in Steps /\ Tasks[groups[h].step] = groups[h].task
            /\ (groups[h].step = s => h = g)
      /\ \A x \in Steps : (\A h \in DOMAIN groups : groups[h].step # x) => Tasks[x] = NoTasks
      /\ Acted = [x \in Steps |-> [v \in Users |->
                     IF Tasks[x][v] \in {"APPROVED", "REJECTED"} THEN v ELSE NoUser]]
  BY TasksNow DEF SInv, GroupsOK
<1>4. ts = Voted(t, g) /\ ts = [v \in Users |-> ts[v]] /\ ts[u] = "APPROVED"
  BY <1>2, <1>3 DEF Voted
<1>5. /\ t.outcome = IF Converged(s, ts) THEN "ADVANCE"
                     ELSE IF Refused(s, ts) THEN "FAIL" ELSE "NOTHING"
      /\ t.cancels = {<<g, w>> : w \in {v \in Users : after[v] # ts[v]}}
  BY <1>1, <1>2, <1>4 DEF DecidedAs
<1>6. /\ after = [v \in Users |-> after[v]]
      /\ \A v \in Users : after[v] = ts[v] \/ (ts[v] = "PENDING" /\ after[v] = "CANCELLED")
  BY <1>4, SiblingsLeft
<1>7. status = "ACTIVE" BY <1>1 DEF Loaded
<1> HIDE DEF t, after
<1>8. tab = [x \in Steps |-> tab[x]]
      /\ \A x \in Steps : (\A h \in DOMAIN groups : groups[h].step # x) => tab[x] = NoTasks
  BY <1>3
<1>9. ASSUME NEW h \in DOMAIN groups PROVE tab[groups[h].step] = Row(t, h)
  <2>1. groups[h].task \in [Users -> TaskStatus] BY <1>3
  <2>2. CASE h # g
    <3>1. Row(t, h) = groups[h].task BY <1>2, <1>5, <2>1, <2>2 DEF Row, t
    <3> QED BY <1>3, <2>2, <3>1
  <2>3. CASE h = g
    <3>1. tab[s] = after BY <1>3
    <3>2. \A v \in Users : <<g, v>> \in t.cancels <=> after[v] # ts[v] BY <1>5
    <3>3. \A v \in Users : <<g, v>> \in t.voted <=> v = u BY <1>2 DEF t
    <3>4. \A v \in Users : v # u => ts[v] = groups[g].task[v] BY <1>3
    <3>5. t.op = "APPROVE" BY DEF t
    <3>6. \A v \in Users : Row(t, g)[v] = after[v]
      BY <1>4, <1>6, <3>2, <3>3, <3>4, <3>5 DEF Row
    <3>7. Row(t, g) = [v \in Users |-> Row(t, g)[v]] BY DEF Row
    <3> QED BY <1>6, <2>3, <3>1, <3>6, <3>7
  <2> QED BY <2>2, <2>3
<1>10. Acted' = [Acted EXCEPT ![s][u] = u]
  <2>1. Acted' = [x \in Steps |-> [v \in Users |->
                     IF tab[x][v] \in {"APPROVED", "REJECTED"} THEN v ELSE NoUser]]
    <3>1. \A h \in DOMAIN groups : tab[groups[h].step] = Row(txn[p], h) BY <1>9 DEF t
    <3> HIDE DEF tab
    <3> QED BY <1>8, <3>1, ActedAfter
  <2>2. \A v \in Users \ {u} : tab[s][v] \in {"APPROVED", "REJECTED"} <=>
                                  Tasks[s][v] \in {"APPROVED", "REJECTED"}
    BY <1>3, <1>6
  <2>3. tab[s][u] = "APPROVED" BY <1>3, <1>4, <1>6
  <2>4. \A x \in Steps \ {s} : tab[x] = Tasks[x] BY <1>3
  <2> HIDE DEF tab, s, ts
  <2>5. \A v \in Users : (IF tab[s][v] \in {"APPROVED", "REJECTED"} THEN v ELSE NoUser)
                         = [Acted[s] EXCEPT ![u] = u][v]
    BY <1>3, <2>2, <2>3
  <2>6. [v \in Users |-> IF tab[s][v] \in {"APPROVED", "REJECTED"} THEN v ELSE NoUser]
        = [Acted[s] EXCEPT ![u] = u]
    BY <1>3, <2>5
  <2>7. \A x \in Steps : [v \in Users |-> IF tab[x][v] \in {"APPROVED", "REJECTED"} THEN v ELSE NoUser]
                         = [Acted EXCEPT ![s][u] = u][x]
    BY <1>3, <2>4, <2>6
  <2> QED BY <1>3, <2>1, <2>7
<1>11. Engine!Converged(s, ts) <=> Converged(s, ts) BY SameDecisions
<1>12. Engine!Refused(s, ts) <=> Refused(s, ts) BY SameDecisions
<1>13. Engine!SiblingsCancelled(s, ts) = after BY SameDecisions DEF after
<1>14. Engine!ActsOn(s, u, u)
  <2>1. Tasks[s][u] = "PENDING" /\ Assignees[s][u] = u BY <1>2, <1>3 DEF Assignees
  <2>2. forced' = forced /\ outside' = outside BY EngineDecides
  <2> HIDE DEF s
  <2> QED BY <1>7, <1>10, <2>1, <2>2
      DEF Engine!ActsOn, Engine!MayAct, Tasks, Assignees, Acted
<1>15. CASE Converged(s, ts)
  <2>1. Engine!EnterNext(current, tab, entity)
    BY <1>5, <1>7, <1>8, <1>9, <1>15, AdvanceMaps, DirectNames DEF t
  <2> QED BY <1>3, <1>11, <1>13, <1>14, <1>15, <2>1 DEF Engine!Approve, Tasks
<1>16. CASE ~Converged(s, ts)
  <2>1. Tasks' = tab
    BY <1>5, <1>8, <1>9, <1>16, TasksNext DEF t, Enters
  <2>2. Engine!Synced("FAILED", entity) = Synced("FAILED", entity)
        /\ Engine!Synced("ACTIVE", entity) = entity
    BY SameSync DEF Synced
  <2>3. /\ status' = IF Refused(s, ts) THEN "FAILED" ELSE status
        /\ entity' = Engine!Synced(IF Refused(s, ts) THEN "FAILED" ELSE status, entity)
        /\ current' = current
    BY <1>1, <1>5, <1>7, <1>16, <2>2 DEF t
  <2> QED BY <1>3, <1>11, <1>12, <1>13, <1>14, <1>16, <2>1, <2>3
      DEF Engine!Approve, Engine!slaVars, Tasks
<1> QED BY <1>15, <1>16

\* advance(REJECT).
LEMMA RejectMaps ==
    ASSUME IInv, SInv, SInv', NEW p \in Sessions, Commit(p), txn[p].op = "REJECT"
    PROVE  \E s \in Steps, u \in Users : Engine!Reject(s, u, u)
<1> DEFINE t == txn[p]
<1>1. /\ Loaded(t) /\ t.outcome = "FAIL" /\ t.cancels = {} /\ current' = current
      /\ status' = "FAILED" /\ entity' = Synced("FAILED", entity)
  BY CommitDecides, DirectNames DEF DecidedAs
<1>2. PICK g \in DOMAIN groups, u \in Users :
          t.voted = {<<g, u>>} /\ groups[g].task[u] = "PENDING"
  BY <1>1 DEF Loaded
<1> DEFINE s == groups[g].step
           tab == [Tasks EXCEPT ![s][u] = "REJECTED"]
<1>3. /\ s \in Steps /\ Tasks[s] = groups[g].task /\ Tasks \in [Steps -> [Users -> TaskStatus]]
      /\ \A h \in DOMAIN groups :
            groups[h].step \in Steps /\ Tasks[groups[h].step] = groups[h].task
            /\ (groups[h].step = s => h = g)
      /\ \A x \in Steps : (\A h \in DOMAIN groups : groups[h].step # x) => Tasks[x] = NoTasks
      /\ Acted = [x \in Steps |-> [v \in Users |->
                     IF Tasks[x][v] \in {"APPROVED", "REJECTED"} THEN v ELSE NoUser]]
  BY TasksNow DEF SInv, GroupsOK
<1>4. status = "ACTIVE" BY <1>1 DEF Loaded
<1>5. tab = [x \in Steps |-> tab[x]]
      /\ \A x \in Steps : (\A h \in DOMAIN groups : groups[h].step # x) => tab[x] = NoTasks
  BY <1>3
<1>6. ASSUME NEW h \in DOMAIN groups PROVE tab[groups[h].step] = Row(txn[p], h)
  <2>1. Tasks[groups[h].step] \in [Users -> TaskStatus] BY <1>3
  <2>2. \A v \in Users : <<h, v>> \in t.voted <=> h = g /\ v = u BY <1>2
  <2>3. Row(t, h) = [v \in Users |-> IF h = g /\ v = u THEN "REJECTED" ELSE groups[h].task[v]]
    BY <1>1, <2>2 DEF Row
  <2>4. CASE h # g
    <3>1. Row(t, h) = groups[h].task BY <1>3, <2>1, <2>3, <2>4
    <3> QED BY <1>3, <2>4, <3>1
  <2>5. CASE h = g
    <3>1. tab[s] = [Tasks[s] EXCEPT ![u] = "REJECTED"] BY <1>3
    <3> QED BY <1>3, <2>1, <2>3, <2>5, <3>1
  <2> QED BY <2>4, <2>5
<1>7. Tasks' = tab
  <2>1. ~Enters(txn[p]) BY <1>1 DEF Enters
  <2>2. \A h \in DOMAIN groups : tab[groups[h].step] = Row(txn[p], h) BY <1>6
  <2> HIDE DEF tab
  <2> QED BY <1>5, <2>1, <2>2, TasksNext
<1>8. Acted' = [Acted EXCEPT ![s][u] = u]
  <2>1. Acted' = [x \in Steps |-> [v \in Users |->
                     IF tab[x][v] \in {"APPROVED", "REJECTED"} THEN v ELSE NoUser]]
    <3> HIDE DEF tab
    <3> QED BY <1>7, ActedNext
  <2>2. \A v \in Users \ {u} : tab[s][v] = Tasks[s][v] BY <1>3
  <2>3. tab[s][u] = "REJECTED" BY <1>3
  <2>4. \A x \in Steps \ {s} : tab[x] = Tasks[x] BY <1>3
  <2> HIDE DEF tab, s
  <2>5. \A v \in Users : (IF tab[s][v] \in {"APPROVED", "REJECTED"} THEN v ELSE NoUser)
                         = [Acted[s] EXCEPT ![u] = u][v]
    BY <1>3, <2>2, <2>3
  <2>6. [v \in Users |-> IF tab[s][v] \in {"APPROVED", "REJECTED"} THEN v ELSE NoUser]
        = [Acted[s] EXCEPT ![u] = u]
    BY <1>3, <2>5
  <2>7. \A x \in Steps : [v \in Users |-> IF tab[x][v] \in {"APPROVED", "REJECTED"} THEN v ELSE NoUser]
                         = [Acted EXCEPT ![s][u] = u][x]
    BY <1>3, <2>4, <2>6
  <2> QED BY <1>3, <2>1, <2>7
<1>9. Engine!ActsOn(s, u, u)
  <2>1. Tasks[s][u] = "PENDING" /\ Assignees[s][u] = u BY <1>2, <1>3 DEF Assignees
  <2>2. forced' = forced /\ outside' = outside BY EngineDecides
  <2> HIDE DEF s
  <2> QED BY <1>4, <1>8, <2>1, <2>2
      DEF Engine!ActsOn, Engine!MayAct, Tasks, Assignees, Acted
<1>10. Engine!Synced("FAILED", entity) = Synced("FAILED", entity) BY SameSync
<1> QED BY <1>1, <1>3, <1>7, <1>9, <1>10 DEF Engine!Reject, Engine!slaVars, Tasks

\* _cancel_pending_tasks: every open task, whatever its step.
LEMMA CancelledRows ==
    ASSUME IInv, SInv, NEW t, t.voted = {}, t.cancels = PendingRows
    PROVE  LET tab == Engine!AllCancelled
           IN  /\ tab = [s \in Steps |-> tab[s]]
               /\ \A g \in DOMAIN groups : tab[groups[g].step] = Row(t, g)
               /\ \A s \in Steps : (\A g \in DOMAIN groups : groups[g].step # s) =>
                      tab[s] = NoTasks
               /\ \A s \in Steps, u \in Users :
                      tab[s][u] \in {"APPROVED", "REJECTED"} <=>
                      Tasks[s][u] \in {"APPROVED", "REJECTED"}
<1> DEFINE tab == Engine!AllCancelled
<1>1. tab = [s \in Steps |-> [u \in Users |->
                IF Tasks[s][u] = "PENDING" THEN "CANCELLED" ELSE Tasks[s][u]]]
  BY DEF Engine!AllCancelled, Engine!Steps, Steps, Tasks
<1> HIDE DEF tab
<1>2. /\ \A g \in DOMAIN groups :
            groups[g].step \in Steps /\ Tasks[groups[g].step] = groups[g].task
      /\ \A s \in Steps : (\A g \in DOMAIN groups : groups[g].step # s) => Tasks[s] = NoTasks
  BY TasksNow
<1>3. ASSUME NEW g \in DOMAIN groups PROVE tab[groups[g].step] = Row(t, g)
  <2>1. \A u \in Users : <<g, u>> \in t.cancels <=> groups[g].task[u] = "PENDING"
    BY DEF PendingRows, StatusOf
  <2>2. Row(t, g) = [u \in Users |->
            IF groups[g].task[u] = "PENDING" THEN "CANCELLED" ELSE groups[g].task[u]]
    BY <2>1 DEF Row
  <2> QED BY <1>1, <1>2, <2>2
<1>4. ASSUME NEW s \in Steps, Tasks[s] = NoTasks PROVE tab[s] = NoTasks
  BY <1>1, <1>4 DEF NoTasks
<1> QED BY <1>1, <1>2, <1>3, <1>4 DEF tab

\* cancel() and force_advance().
LEMMA CancelMaps ==
    ASSUME IInv, SInv, SInv', NEW p \in Sessions, Commit(p), txn[p].op = "CANCEL"
    PROVE  Engine!Cancel
<1> DEFINE t == txn[p]
           tab == Engine!AllCancelled
<1>1. /\ t.outcome = "CANCEL" /\ t.cancels = PendingRows /\ t.voted = {}
      /\ status \in OpenStatus /\ current' = current
      /\ status' = "CANCELLED" /\ entity' = Synced("CANCELLED", entity)
  BY CommitDecides, DirectNames DEF DecidedAs, Loaded
<1>2. /\ tab = [s \in Steps |-> tab[s]]
      /\ \A g \in DOMAIN groups : tab[groups[g].step] = Row(txn[p], g)
      /\ \A s \in Steps : (\A g \in DOMAIN groups : groups[g].step # s) => tab[s] = NoTasks
      /\ \A s \in Steps, u \in Users :
            tab[s][u] \in {"APPROVED", "REJECTED"} <=> Tasks[s][u] \in {"APPROVED", "REJECTED"}
  BY <1>1, CancelledRows
<1> HIDE DEF tab
<1>3. Tasks' = tab
  <2>1. ~Enters(txn[p]) BY <1>1 DEF Enters
  <2> QED BY <1>2, <2>1, TasksNext
<1>4. Acted' = Acted
  <2>1. Acted' = [s \in Steps |-> [u \in Users |->
                     IF tab[s][u] \in {"APPROVED", "REJECTED"} THEN u ELSE NoUser]]
    BY <1>2, ActedAfter
  <2>2. Acted = [s \in Steps |-> [u \in Users |->
                     IF Tasks[s][u] \in {"APPROVED", "REJECTED"} THEN u ELSE NoUser]]
    BY TasksNow
  <2> QED BY <1>2, <2>1, <2>2
<1>5. forced' = forced /\ outside' = outside BY EngineDecides
<1>6. Engine!Synced("CANCELLED", entity) = Synced("CANCELLED", entity) BY SameSync
<1>7. status \in Engine!OpenStatus BY <1>1 DEF Engine!OpenStatus, OpenStatus
<1> QED BY <1>1, <1>3, <1>4, <1>5, <1>6, <1>7
    DEF Engine!Cancel, Engine!slaVars, Tasks, Acted, tab

LEMMA ForceMaps ==
    ASSUME IInv, SInv, SInv', NEW p \in Sessions, Commit(p), txn[p].op = "FORCE"
    PROVE  Engine!ForceAdvance
<1> DEFINE t == txn[p]
           tab == Engine!AllCancelled
<1>1. /\ t.outcome = "ADVANCE" /\ t.cancels = PendingRows /\ t.voted = {}
      /\ status = "ACTIVE" /\ t.at = current
  BY CommitDecides, DirectNames DEF DecidedAs, Loaded
<1>2. /\ tab = [s \in Steps |-> tab[s]]
      /\ \A g \in DOMAIN groups : tab[groups[g].step] = Row(txn[p], g)
      /\ \A s \in Steps : (\A g \in DOMAIN groups : groups[g].step # s) => tab[s] = NoTasks
      /\ \A s \in Steps, u \in Users :
            tab[s][u] \in {"APPROVED", "REJECTED"} <=> Tasks[s][u] \in {"APPROVED", "REJECTED"}
  BY <1>1, CancelledRows
<1> HIDE DEF tab
<1>3. Engine!EnterNext(current, tab, entity) BY <1>1, <1>2, AdvanceMaps, DirectNames
<1>4. Acted' = Acted
  <2>1. Acted' = [s \in Steps |-> [u \in Users |->
                     IF tab[s][u] \in {"APPROVED", "REJECTED"} THEN u ELSE NoUser]]
    BY <1>2, ActedAfter
  <2>2. Acted = [s \in Steps |-> [u \in Users |->
                     IF Tasks[s][u] \in {"APPROVED", "REJECTED"} THEN u ELSE NoUser]]
    BY TasksNow
  <2> QED BY <1>2, <2>1, <2>2
<1>5. forced' = forced \cup {current} /\ outside' = outside BY <1>1, EngineDecides
<1> QED BY <1>1, <1>3, <1>4, <1>5 DEF Engine!ForceAdvance, Acted, tab

\* RequisitionService.withdraw, approve and reject.
LEMMA DirectMaps ==
    ASSUME IInv, SInv, SInv', NEW p \in Sessions, Commit(p), txn[p].op \in DirectRequests
    PROVE  \/ Engine!Withdraw \/ Engine!RejectDirectly
           \/ \E a \in Users : Engine!ApproveDirectly(a)
<1> DEFINE t == txn[p]
<1>1. /\ t.voted = {} /\ t.cancels = {} /\ t.outcome = "NOTHING" /\ t.decides = Direct[t.op]
      /\ entity = "PENDING_APPROVAL" \/ (t.op = "WITHDRAW" /\ entity = "DRAFT")
      /\ t.op = "APPROVE_DIRECTLY" => Users \ Makers # {}
      /\ t \in Transactions /\ t.op \in DirectRequests /\ Direct[t.op] # "KEEP"
  BY DirectNames DEF SInv, UpToDate, DecidesDirectly, Commit, IInv, Typed
<1>2. ~Enters(t) /\ NewStatus(t) = status BY <1>1 DEF Enters, NewStatus
<1>3. /\ status' = status /\ current' = current /\ forced' = forced
      /\ entity' = Direct[t.op] /\ outside' = TRUE
  <2>1. t.op # "FORCE" BY <1>1, DirectNames
  <2> QED BY <1>1, <1>2, <2>1 DEF Commit
<1>4. /\ \A g \in DOMAIN groups : Tasks[groups[g].step] = groups[g].task
      /\ \A s \in Steps : (\A g \in DOMAIN groups : groups[g].step # s) => Tasks[s] = NoTasks
      /\ Tasks = [s \in Steps |-> Tasks[s]]
      /\ \A g \in DOMAIN groups : groups[g].task \in [Users -> TaskStatus]
  BY TasksNow DEF IInv, Typed, TypeOK
<1>5. ASSUME NEW g \in DOMAIN groups PROVE Tasks[groups[g].step] = Row(txn[p], g)
  <2>1. groups[g].task = [u \in Users |-> groups[g].task[u]] BY <1>4
  <2>2. Row(t, g) = [u \in Users |-> groups[g].task[u]] BY <1>1 DEF Row
  <2> QED BY <1>4, <2>1, <2>2
<1>6. Tasks' = Tasks BY <1>2, <1>4, <1>5, TasksNext
<1>7. Acted' = Acted
  <2>1. Acted = [s \in Steps |-> [u \in Users |->
                     IF Tasks[s][u] \in {"APPROVED", "REJECTED"} THEN u ELSE NoUser]]
    BY TasksNow
  <2> QED BY <1>6, <2>1, ActedNext
<1>8. Engine!DecidesItself(Direct[t.op])
  BY <1>3, <1>6, <1>7 DEF Engine!DecidesItself, Engine!slaVars, Tasks, Acted
<1> HIDE DEF t
<1>9. CASE t.op = "WITHDRAW"
  <2>1. Direct[t.op] = "WITHDRAWN" BY <1>9 DEF Direct
  <2> QED BY <1>1, <1>8, <2>1 DEF Engine!Withdraw
<1>10. CASE t.op = "REJECT_DIRECTLY"
  <2>1. Direct[t.op] = "REJECTED" BY <1>10 DEF Direct
  <2> QED BY <1>1, <1>8, <1>10, <2>1 DEF Engine!RejectDirectly
<1>11. CASE t.op = "APPROVE_DIRECTLY"
  <2>1. Direct[t.op] = "APPROVED" BY <1>11 DEF Direct
  <2>2. PICK a \in Users : a \notin Makers BY <1>1, <1>11
  <2>3. Engine!ApproveDirectly(a) BY <1>1, <1>8, <1>11, <2>1, <2>2 DEF Engine!ApproveDirectly
  <2> QED BY <2>3
<1> QED BY <1>1, <1>9, <1>10, <1>11, DirectNames

\* submit() and instantiate(): a first step whose condition is false is stepped
\* over like any other.
LEMMA InstantiateMaps ==
    ASSUME IInv, SInv, SInv', Instantiate
    PROVE  Engine!Instantiate
<1> DEFINE s == Min(Remaining(0))
           c == IF Condition[1] THEN 0 ELSE 1
<1>1. /\ entity = "DRAFT" /\ status = "NONE" /\ status' = "ACTIVE" /\ current' = s
      /\ entity' = "PENDING_APPROVAL" /\ groups' = <<Opened(s)>> /\ forced' = forced
      /\ outside' = outside
      /\ Remaining(0) # {} /\ Eligible(s, {}) # {}
  BY DEF Instantiate
<1>2. s \in Steps /\ 1 \in Steps /\ Steps \subseteq Nat \ {0}
  BY <1>1, FirstStepType, TemplateAssumption DEF Steps
<1>3. Remaining(c) = Remaining(0)
  <2>1. CASE Condition[1] BY <2>1
  <2>2. CASE ~Condition[1]
    <3>1. c = 1 BY <2>2
    <3>2. \A x \in Steps : x > 1 /\ Condition[x] <=> x > 0 /\ Condition[x]
      <4>1. \A x \in Steps : Condition[x] => x # 1 BY <2>2
      <4> QED BY <1>2, <4>1
    <3> HIDE DEF c
    <3> QED BY <3>1, <3>2 DEF Remaining
  <2> QED BY <2>1, <2>2
<1>4. StepAfter(c) = s /\ StatusAfter(c) = "ACTIVE" /\ CanEnterNext(c, {})
  BY <1>1, <1>3 DEF StepAfter, StatusAfter, CanEnterNext
<1> HIDE DEF s, c
<1>5. groups = <<>> BY <1>1 DEF SInv, GroupsOK
<1>6. Tasks = [x \in Steps |-> NoTasks]
  BY <1>5 DEF Tasks, TasksOf, NoTasks
<1>7. Tasks' = [x \in Steps |-> IF x = s THEN Opened(s).task ELSE NoTasks]
  <2>1. DOMAIN groups' = {1} /\ groups'[1] = Opened(s) /\ Opened(s).step = s
    BY <1>1 DEF Opened
  <2>2. Table(groups', s) = Opened(s).task
    <3>1. \A g, h \in DOMAIN groups' : groups'[g].step = groups'[h].step => g = h
      BY <2>1
    <3> QED BY <2>1, <3>1, TableOf
  <2>3. \A x \in Steps : x # s => Table(groups', x) = NoTasks BY <2>1 DEF Table
  <2>4. \A x \in Steps : TasksOf(x)' = Table(groups', x) BY DEF TasksOf, Table, NoTasks
  <2> QED BY <2>2, <2>3, <2>4 DEF Tasks
<1>8. Tasks' = [Tasks EXCEPT ![s] = Opened(s).task] BY <1>6, <1>7
<1>9. Engine!EnterNext(c, Tasks, "PENDING_APPROVAL")
  <2>1. PICK tab : tab = Tasks OBVIOUS
  <2>2. Synced("ACTIVE", "PENDING_APPROVAL") = "PENDING_APPROVAL" BY DEF Synced
  <2>3. Enter(c, tab, "PENDING_APPROVAL") BY <1>1, <1>3, <1>4, <1>8, <2>1, <2>2 DEF Enter
  <2>4. Engine!EnterNext(c, tab, "PENDING_APPROVAL") BY <2>3, EnterMaps
  <2> QED BY <2>1, <2>4 DEF Engine!EnterNext
<1>10. Acted' = Acted
  <2>1. \A u \in Users : NoTasks[u] = "NONE" /\ Opened(s).task[u] \in {"PENDING", "NONE"}
    BY DEF NoTasks, Opened
  <2>2. \A x \in Steps, u \in Users : Tasks'[x][u] \notin {"APPROVED", "REJECTED"}
    BY <1>7, <2>1
  <2>3. \A x \in Steps, u \in Users : Tasks[x][u] \notin {"APPROVED", "REJECTED"}
    BY <1>6, <2>1
  <2>4. Acted = [x \in Steps |-> [u \in Users |->
                     IF Tasks[x][u] \in {"APPROVED", "REJECTED"} THEN u ELSE NoUser]]
    BY TasksNow
  <2>5. Acted' = [x \in Steps |-> [u \in Users |-> NoUser]] BY <2>2, ActedNext
  <2>6. Acted = [x \in Steps |-> [u \in Users |-> NoUser]] BY <2>3, <2>4
  <2> QED BY <2>5, <2>6
<1> QED BY <1>1, <1>9, <1>10 DEF Engine!Instantiate, Tasks, Acted, c

\* What publishes nothing is a step the engine does not see.
LEMMA UnseenMaps == UNCHANGED committed => UNCHANGED Engine!vars
<1> SUFFICES ASSUME UNCHANGED committed PROVE UNCHANGED Engine!vars OBVIOUS
<1>1. /\ status' = status /\ current' = current /\ entity' = entity /\ forced' = forced
      /\ groups' = groups /\ outside' = outside
  BY DEF committed
<1>2. \A s : TasksOf(s)' = TasksOf(s) BY <1>1 DEF TasksOf
<1>3. Tasks' = Tasks /\ Acted' = Acted BY <1>2 DEF Tasks, Acted
<1> QED BY <1>1, <1>3 DEF Engine!vars, Engine!flowVars, Engine!slaVars, Tasks, Acted

LEMMA InitMaps == Init => Engine!Init
<1> SUFFICES ASSUME Init PROVE Engine!Init OBVIOUS
<1>1. groups = <<>> BY DEF Init
<1>2. \A s : TasksOf(s) = NoTasks BY <1>1 DEF TasksOf, NoTasks
<1>3. Tasks = [s \in Steps |-> NoTasks] BY <1>2 DEF Tasks
<1>4. Acted = [s \in Steps |-> [u \in Users |-> NoUser]]
  BY <1>2 DEF Acted, NoTasks
<1>5. {} \in SUBSET {u \in Users : Delegation[u] # u} OBVIOUS
<1> QED BY <1>3, <1>4, <1>5 DEF Init, Engine!Init, Engine!NoTasks, NoTasks, Engine!Steps,
           Steps, Tasks, Acted

LEMMA StepMaps ==
    OneAtATime /\ IInv /\ SInv /\ SInv' /\ [Next]_vars => [Engine!Next]_(Engine!vars)
<1> SUFFICES ASSUME OneAtATime, IInv, SInv, SInv', [Next]_vars
             PROVE  Engine!Next \/ UNCHANGED Engine!vars
  OBVIOUS
<1>1. ASSUME NEW p \in Sessions, Commit(p) PROVE Engine!Next
  <2>1. txn[p].op \in Operations BY DEF IInv, Typed, Transactions
  <2>2. Steps = Engine!Steps BY DEF Steps, Engine!Steps
  <2>3. CASE txn[p].op = "APPROVE"
    BY <1>1, <2>2, <2>3, ApproveMaps DEF Engine!Next, Engine!Act
  <2>4. CASE txn[p].op = "REJECT"
    BY <1>1, <2>2, <2>4, RejectMaps DEF Engine!Next, Engine!Act
  <2>5. CASE txn[p].op = "CANCEL" BY <1>1, <2>5, CancelMaps DEF Engine!Next
  <2>6. CASE txn[p].op = "FORCE" BY <1>1, <2>6, ForceMaps DEF Engine!Next
  <2>7. CASE txn[p].op \in DirectRequests BY <1>1, <2>7, DirectMaps DEF Engine!Next
  <2> QED BY <2>1, <2>3, <2>4, <2>5, <2>6, <2>7 DEF Operations
<1>2. CASE Instantiate BY <1>2, InstantiateMaps DEF Engine!Next
<1>3. ASSUME NEW p \in Sessions, Begin(p) PROVE UNCHANGED committed
  <2>1. ASSUME NEW op, LoadDirect(p, op) PROVE UNCHANGED committed
    BY <2>1, ZenonT(40) DEF LoadDirect
  <2>2. ASSUME NEW op, NEW voted, Load(p, op, voted) PROVE UNCHANGED committed
    BY <2>2, ZenonT(40) DEF Load
  <2> QED BY <1>3, <2>1, <2>2, Zenon DEF Begin
<1>4. ASSUME NEW p \in Sessions, Proceed(p), ~Commit(p) PROVE UNCHANGED committed
  BY <1>4 DEF Proceed, DecideApprove, DecideReject, DecideCancel, DecideForce, Decides,
              Flush, Rollback
<1>5. CASE UNCHANGED vars BY <1>5, UnseenMaps DEF vars
<1> QED BY <1>1, <1>2, <1>3, <1>4, <1>5, UnseenMaps DEF Next

\* With one session, whatever the template, the directory and the operations
\* clients request, the concurrent engine is the atomic one: each transaction
\* takes effect at its commit, as the one action of WorkflowEngine for its
\* operation.
THEOREM SerialIsAtomicHolds ==
    ASSUME OneAtATime
    PROVE  Spec => SerialIsAtomic
<1>1. Init => SInv BY SInit
<1>2. IInv /\ SInv /\ [Next]_vars => SInv' BY SerialStep
<1>3. IInv /\ SInv /\ SInv' /\ [Next]_vars => [Engine!Next]_(Engine!vars) BY StepMaps
<1> QED BY <1>1, <1>2, <1>3, Invariance, InitMaps, PTL
       DEF Spec, SerialIsAtomic, Engine!Spec
=============================================================================
