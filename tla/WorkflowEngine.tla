---------------------------- MODULE WorkflowEngine ----------------------------
(***************************************************************************)
(* The approval workflow engine with every request executed atomically: an *)
(* instance, its tasks, the SLA ladder of its open step, the delegation    *)
(* rules in force and the requisition the instance decides.  This is what  *)
(* the engine promises; WorkflowRace is the same engine under concurrent   *)
(* database transactions.                                                  *)
(***************************************************************************)
EXTENDS WorkflowTemplate

VARIABLES
    status,     \* WorkflowInstance.status, "NONE" before instantiate()
    current,    \* WorkflowInstance.current_step_number
    task,       \* task[s][u]: status of the task of step s resolved for u
    assigned,   \* assigned[s][u]: its assigned_to
    actedBy,    \* actedBy[s][u]: who approved or rejected it
    forced,     \* from_step of the ADMIN_INTERVENTION events
    entity,     \* Requisition.status
    outside,    \* history: the requisition's own service decided it
    delegating, \* users whose delegation rule is in force
    age,        \* age[s]: SLA quarter-mark reached by the tasks of step s
    sla         \* sla[s]: rung of the SLA ladder already handled

flowVars == <<status, current, task, assigned, actedBy, forced, entity, outside>>
slaVars == <<age, sla>>
vars == <<flowVars, delegating, slaVars>>

NoTasks == [u \in Users |-> "NONE"]
Pending(s) == {u \in Users : task[s][u] = "PENDING"}

\* Marks of the SLA ladder: 0 within SLA, then 50%, 100%, 150% and 200% of it.
Rungs == 0..4
Reassign == 3
Critical == 4

TypeOK ==
    /\ status \in InstanceStatus
    /\ current \in 0..NumSteps
    /\ task \in [Steps -> [Users -> TaskStatus]]
    /\ assigned \in [Steps -> [Users -> Users]]
    /\ actedBy \in [Steps -> [Users -> Users \cup {NoUser}]]
    /\ forced \subseteq 0..NumSteps
    /\ entity \in EntityStatus
    /\ outside \in BOOLEAN
    /\ delegating \subseteq Users
    /\ age \in [Steps -> Rungs]
    /\ sla \in [Steps -> Rungs]

Init ==
    /\ status = "NONE"
    /\ current = 0
    /\ task = [s \in Steps |-> NoTasks]
    /\ assigned = [s \in Steps |-> [u \in Users |-> u]]
    /\ actedBy = [s \in Steps |-> [u \in Users |-> NoUser]]
    /\ forced = {}
    /\ entity = "DRAFT"
    /\ outside = FALSE
    /\ delegating \in SUBSET {u \in Users : Delegation[u] # u}
    /\ age = [s \in Steps |-> 0]
    /\ sla = [s \in Steps |-> 0]

-----------------------------------------------------------------------------
(* Entering the step after c, shared by every handler that advances: create *)
(* its tasks, or complete the instance and synchronise the requisition.  ts *)
(* is the task table, and e the requisition, as the handler left them.      *)

EnterNext(c, ts, e) ==
    LET s == StepAfter(c)
        opened == Eligible(s, delegating)
    IN  /\ CanEnterNext(c, delegating)
        /\ status' = StatusAfter(c)
        /\ current' = s
        /\ entity' = Synced(StatusAfter(c), e)
        /\ IF Remaining(c) = {}
           THEN task' = ts /\ UNCHANGED <<assigned, slaVars>>
           ELSE /\ task' = [ts EXCEPT ![s] = [u \in Users |->
                               IF u \in opened THEN "PENDING" ELSE "NONE"]]
                /\ assigned' = [assigned EXCEPT ![s] = [u \in Users |->
                               IF u \in opened THEN AssigneeOf(s, u, delegating) ELSE u]]
                /\ age' = [age EXCEPT ![s] = 0]
                /\ sla' = [sla EXCEPT ![s] = 0]

\* Mutant: leaving a step does not cancel its tasks.
NoneCancelled == task

\* _cancel_pending_tasks, whatever the step.
AllCancelled == [s \in Steps |-> [u \in Users |->
                    IF task[s][u] = "PENDING" THEN "CANCELLED" ELSE task[s][u]]]

\* RequisitionService.submit with a matching rule, and instantiate(): a first
\* step whose condition is false is stepped over like any other.
Instantiate ==
    /\ entity = "DRAFT" /\ status = "NONE"
    /\ EnterNext(IF Condition[1] THEN 0 ELSE 1, task, "PENDING_APPROVAL")
    /\ UNCHANGED <<actedBy, forced, outside, delegating>>

\* advance(), its guards and what it records of user a acting on a task.
ActsOn(s, u, a) ==
    /\ task[s][u] = "PENDING"
    /\ MayAct(a, assigned[s][u], delegating)
    /\ status = "ACTIVE"
    /\ actedBy' = [actedBy EXCEPT ![s][u] = a]
    /\ UNCHANGED <<forced, outside, delegating>>

\* advance(APPROVE): a converged step lets the instance leave the step it is
\* at (its own current_step_number, not the task's); a refused one fails it.
Approve(s, u, a) ==
    LET ts == [task[s] EXCEPT ![u] = "APPROVED"]
        tasks == [task EXCEPT ![s] = SiblingsCancelled(s, ts)]
        after == IF Refused(s, ts) THEN "FAILED" ELSE status
    IN  /\ ActsOn(s, u, a)
        /\ IF Converged(s, ts) THEN EnterNext(current, tasks, entity)
           ELSE /\ task' = tasks
                /\ status' = after
                /\ entity' = Synced(after, entity)
                /\ UNCHANGED <<current, assigned, slaVars>>

\* advance(REJECT) and advance(RETURN): the instance fails at once, whatever
\* the convergence, and the other tasks are left as they are.
Reject(s, u, a) ==
    /\ ActsOn(s, u, a)
    /\ task' = [task EXCEPT ![s][u] = "REJECTED"]
    /\ status' = "FAILED"
    /\ entity' = Synced("FAILED", entity)
    /\ UNCHANGED <<current, assigned, slaVars>>

Cancel ==
    /\ status \in OpenStatus
    /\ status' = "CANCELLED"
    /\ task' = AllCancelled
    /\ entity' = Synced("CANCELLED", entity)
    /\ UNCHANGED <<current, assigned, actedBy, forced, outside, delegating, slaVars>>

Pause ==
    /\ status = "ACTIVE"
    /\ status' = "PAUSED"
    /\ UNCHANGED <<current, task, assigned, actedBy, forced, entity, outside, delegating,
                   slaVars>>

Resume ==
    /\ status = "PAUSED"
    /\ status' = "ACTIVE"
    /\ UNCHANGED <<current, task, assigned, actedBy, forced, entity, outside, delegating,
                   slaVars>>

\* force_advance(): skip the current step and leave a compliance record.
ForceAdvance ==
    /\ status = "ACTIVE"
    /\ EnterNext(current, AllCancelled, entity)
    /\ forced' = forced \cup {current}
    /\ UNCHANGED <<actedBy, outside, delegating>>

-----------------------------------------------------------------------------
(* The SLA timer (one beat of check_workflow_sla_timers) and the clock.      *)

\* Mutant: the beat compares with the wrong rung.
RungTooLate(s) == IF Pending(s) # {} /\ age[s] > sla[s] + 1 THEN age[s] ELSE sla[s]

\* The rung a beat moves a pending task to: ages passed between two beats are
\* skipped, so a late beat can jump over Reassign.
RungAfter(s) == IF Pending(s) # {} /\ age[s] > sla[s] THEN age[s] ELSE sla[s]

SlaScan ==
    /\ sla' = [s \in Steps |-> RungAfter(s)]
    /\ assigned' = [s \in Steps |-> [u \in Users |->
          IF /\ u \in Pending(s) /\ RungAfter(s) # sla[s] /\ RungAfter(s) = Reassign
             /\ EscalationAdmin # NoUser
          THEN EscalationAdmin ELSE assigned[s][u]]]
    /\ UNCHANGED <<status, current, task, actedBy, forced, entity, outside, delegating, age>>

\* Time reaches the next mark of the open tasks of a step that has an SLA.
TimePasses(s) ==
    /\ s \in Timed /\ Pending(s) # {} /\ age[s] < Critical
    /\ age' = [age EXCEPT ![s] = @ + 1]
    /\ UNCHANGED <<flowVars, delegating, sla>>

-----------------------------------------------------------------------------
(* What happens around the engine.                                          *)

\* A delegation rule is activated, deactivated, starts or expires.
DelegationChanges(u) ==
    /\ Delegation[u] # u
    /\ delegating' = IF u \in delegating THEN delegating \ {u} ELSE delegating \cup {u}
    /\ UNCHANGED <<flowVars, slaVars>>

\* What the requisition's own service writes; the running instance is not told.
DecidesItself(st) ==
    /\ entity' = st /\ outside' = TRUE
    /\ UNCHANGED <<status, current, task, assigned, actedBy, forced, delegating, slaVars>>

Withdraw == entity \in {"DRAFT", "PENDING_APPROVAL"} /\ DecidesItself("WITHDRAWN")

\* RequisitionService.approve and reject without a task_id: only the approval
\* asks that user a is no maker.
ApproveDirectly(a) ==
    entity = "PENDING_APPROVAL" /\ a \notin Makers /\ DecidesItself("APPROVED")
RejectDirectly == entity = "PENDING_APPROVAL" /\ DecidesItself("REJECTED")

Act == \E s \in Steps, u \in Users, a \in Users : Approve(s, u, a) \/ Reject(s, u, a)

Next ==
    \/ Instantiate
    \/ Act
    \/ Cancel \/ Pause \/ Resume \/ ForceAdvance
    \/ SlaScan
    \/ \E s \in Steps : TimePasses(s)
    \/ \E u \in Users : DelegationChanges(u)
    \/ Withdraw \/ RejectDirectly
    \/ \E a \in Users : ApproveDirectly(a)

Spec == Init /\ [][Next]_vars

\* Celery beat runs the scan every few minutes and the clock never stops;
\* nothing obliges a person to act.
Fairness == WF_vars(SlaScan) /\ \A s \in Steps : WF_vars(TimePasses(s))
FairSpec == Spec /\ Fairness

-----------------------------------------------------------------------------
(* Safety.                                                                  *)

\* Step s was decided: its approvers converged, or an administrator forced it.
Cleared(s) ==
    \/ s \in forced
    \/ HavingStatus(task[s], "APPROVED") # {} /\ Converged(s, task[s])

\* Step s asks for one approval and got several: its resolver named several
\* users, and each of their approvals moved the instance on.
Surplus(s) ==
    /\ StepType[s] = "SEQUENTIAL"
    /\ \E u, v \in HavingStatus(task[s], "APPROVED") : u # v

\* No step is bypassed (_advance_to_next_step, _check_parallel_convergence): a
\* completed workflow cleared every step whose condition holds, and an open one
\* every such step before the current one, up to the first SEQUENTIAL step that
\* was approved twice.
NoStepBypassed ==
    \A s \in Steps : Condition[s] /\ status \in OpenStatus \cup {"COMPLETED"} =>
        (s < current \/ status = "COMPLETED" =>
            Cleared(s) \/ \E r \in 1..s-1 : Surplus(r))

\* Maker-checker (create_tasks_for_step, _apply_delegation, advance): however
\* delegation rules come and go, no task is approved by somebody who created or
\* submitted the document, other than the administrator to whom the SLA timer
\* reassigned it without asking (sla_timers.py:167).
MakerNeverApproves ==
    \A s \in Steps, u \in Users :
        task[s][u] = "APPROVED" /\ actedBy[s][u] \in Makers =>
            actedBy[s][u] = EscalationAdmin /\ sla[s] >= Reassign

\* _sync_entity_on_completion: the document has exactly the status its
\* workflow's status calls for, unless its own service decided it first; then
\* the workflow, which goes on, never overrides that.
EntityFollowsInstance ==
    entity \in IF outside THEN {"WITHDRAWN", "APPROVED", "REJECTED"}
              ELSE CASE status \in OpenStatus -> {"PENDING_APPROVAL"}
                     [] status = "COMPLETED" -> {"APPROVED"}
                     [] status = "FAILED" -> {"REJECTED"}
                     [] status = "CANCELLED" -> {"CANCELLED"}
                     [] status = "NONE" -> {"DRAFT"}

\* advance() moves the instance on from its own current step, whatever step the
\* task belongs to: so no task of another step may still be open to action, but
\* those of a SEQUENTIAL step one of whose approvers was enough, and what a
\* surplus approval of such a step left behind.
OpenTasksAtCurrentStep ==
    status \in OpenStatus => \A s \in Steps \ {current} : Pending(s) # {} =>
        /\ s < current
        /\ \/ StepType[s] = "SEQUENTIAL" /\ HavingStatus(task[s], "APPROVED") # {}
           \/ \E r \in 1..s-1 : Surplus(r)

\* An active workflow never waits for nobody: some task of the current step is
\* pending (every path of create_tasks_for_step and of the convergence check).
SomebodyToAct ==
    status \in OpenStatus => current \in Steps /\ Pending(current) # {}

\* A document is rejected by somebody (_handle_step_completion, the failing
\* half of _check_parallel_convergence), and by the arithmetic of a group alone
\* only when the group that was opened is smaller than its quorum.
RejectedBySomebody ==
    status = "FAILED" => \E s \in Steps :
        \/ HavingStatus(task[s], "REJECTED") # {}
        \/ /\ StepType[s] = "PARALLEL" /\ Convergence[s] = "QUORUM"
           /\ Cardinality(Group(task[s])) < Quorum[s]

-----------------------------------------------------------------------------
(* The promise the engine implements.                                       *)

Promise == INSTANCE DocumentApproval WITH
    Applicable <- {s \in Steps : Condition[s]},
    decision <- entity,
    cleared <- {s \in Steps : Condition[s] /\ Cleared(s)},
    surplus <- \E s \in Steps : Surplus(s)

\* Every behaviour of the engine, seen through the document's status and the
\* steps cleared, is one of DocumentApproval: steps are cleared in order and
\* never uncleared, and the document is decided once, by the last of them or
\* outside the workflow; after a surplus approval the order alone is given up.
KeepsPromise == Promise!Spec

-----------------------------------------------------------------------------
(* Liveness under FairSpec.                                                 *)

\* Every task with an SLA that somebody leaves pending reaches the CRITICAL rung
\* of the ladder (check_workflow_sla_timers), even of an instance no longer
\* active.
NeglectedTaskTurnsCritical ==
    \A s \in Timed : Pending(s) # {} ~> Pending(s) = {} \/ sla[s] = Critical
=============================================================================
