--------------------------- MODULE WorkflowTemplate ---------------------------
(***************************************************************************)
(* The data an approval workflow runs on and the pure decisions taken from *)
(* it: who gets a task of a step, when a step has converged, which step    *)
(* comes next, and what a finished workflow does to the business document. *)
(* Both the atomic engine (WorkflowEngine) and the engine under concurrent *)
(* transactions (WorkflowRace) are built from these operators.             *)
(*                                                                         *)
(* One workflow instance over one requisition.  A step of the template is  *)
(* its position in step_number order; condition_expression is a Boolean    *)
(* because the names it may read never change after instantiate().         *)
(***************************************************************************)
EXTENDS Naturals, FiniteSets, FiniteSetsExt

CONSTANTS
    Users,          \* active users of the organisation
    NoUser,         \* "nobody": acted_by of a task nobody acted on
    Makers,         \* created_by and submitted_by of the document
    NumSteps,       \* number of steps of the template
    StepType,       \* step_type of each step
    Convergence,    \* convergence of each step
    Quorum,         \* N of QUORUM_N_OF_M
    Condition,      \* does condition_expression hold for this document?
    Timed,          \* steps with an SLA (sla_hours above 0)
    Resolved,       \* users ApproverResolver.resolve returns for each step
    Escalation,     \* users of the step's escalation role
    Delegation,     \* delegate_id of a user's delegation rule (u itself: none)
    EscalationAdmin \* first PROCUREMENT_ADMIN, NoUser when there is none

Steps == 1..NumSteps
StepTypes == {"SEQUENTIAL", "PARALLEL"}
Convergences == {"ALL", "ANY", "MAJORITY", "QUORUM"}
InstanceStatus == {"NONE", "ACTIVE", "PAUSED", "COMPLETED", "FAILED", "CANCELLED"}
OpenStatus == {"ACTIVE", "PAUSED"}
TaskStatus == {"NONE", "PENDING", "APPROVED", "REJECTED", "CANCELLED"}
EntityStatus == {"DRAFT", "PENDING_APPROVAL", "APPROVED", "REJECTED", "CANCELLED", "WITHDRAWN"}

\* The template and the directory are what the tables may hold.
ASSUME TemplateAssumption ==
    /\ NumSteps \in Nat \ {0}
    /\ NoUser \notin Users
    /\ IsFiniteSet(Users)
    /\ Makers \subseteq Users
    /\ StepType \in [Steps -> StepTypes]
    /\ Convergence \in [Steps -> Convergences]
    /\ Quorum \in [Steps -> Nat \ {0}]
    /\ Condition \in [Steps -> BOOLEAN]
    /\ Timed \subseteq Steps
    /\ Resolved \in [Steps -> SUBSET Users]
    /\ Escalation \in [Steps -> SUBSET Users]
    /\ Delegation \in [Users -> Users]
    /\ EscalationAdmin \in Users \cup {NoUser}

-----------------------------------------------------------------------------
(* Approvers.  D is the set of users whose delegation rule is in force now. *)

\* _apply_delegation: a rule that points to its owner or to a maker is skipped.
DelegateOf(u, D) ==
    IF u \in D /\ Delegation[u] # u /\ Delegation[u] \notin Makers
    THEN Delegation[u]
    ELSE u

\* create_tasks_for_step, first pass: resolved approvers whose (delegated)
\* identity is not a maker.  A task is identified by the approver it was
\* resolved for, so two approvers with one delegate still get two tasks.
FirstChoice(s, D) == {u \in Resolved[s] : DelegateOf(u, D) \notin Makers}

\* create_tasks_for_step: fall back on the escalation role when nobody is left.
Eligible(s, D) ==
    IF FirstChoice(s, D) # {} THEN FirstChoice(s, D) ELSE Escalation[s] \ Makers

\* assigned_to of the task created for approver u of step s: escalation users
\* are not delegated.
AssigneeOf(s, u, D) == IF FirstChoice(s, D) # {} THEN DelegateOf(u, D) ELSE u

\* Mutant: the second maker-checker test of advance() is missing.
MayActUnchecked(actor, assignee, D) ==
    \/ actor = assignee
    \/ assignee \in D /\ Delegation[assignee] = actor

\* advance: the assignee, or the delegate of a rule in force unless a maker.
MayAct(actor, assignee, D) ==
    \/ actor = assignee
    \/ assignee \in D /\ Delegation[assignee] = actor /\ actor \notin Makers

-----------------------------------------------------------------------------
(* Convergence.  ts maps each approver of the step to its task's status.    *)

HavingStatus(ts, st) == {u \in Users : ts[u] = st}
Group(ts) == {u \in Users : ts[u] # "NONE"}

\* _check_parallel_convergence, the advancing half; any approval of a
\* SEQUENTIAL step advances.
Converged(s, ts) ==
    LET approved == HavingStatus(ts, "APPROVED")
    IN  \/ StepType[s] = "SEQUENTIAL" /\ approved # {}
        \/ /\ StepType[s] = "PARALLEL"
           /\ \/ /\ Convergence[s] = "ALL"
                 /\ HavingStatus(ts, "REJECTED") = {}
                 /\ approved = Group(ts)
              \/ Convergence[s] = "ANY" /\ approved # {}
              \/ /\ Convergence[s] = "MAJORITY"
                 /\ 2 * Cardinality(approved) > Cardinality(Group(ts))
              \/ /\ Convergence[s] = "QUORUM"
                 /\ Cardinality(approved) >= Quorum[s]

\* Mutant: tasks still pending count as rejections.
RefusedByAbsence(s, ts) ==
    /\ StepType[s] = "PARALLEL"
    /\ ~Converged(s, ts)
    /\ 2 * Cardinality(HavingStatus(ts, "PENDING")) >= Cardinality(Group(ts))

\* _check_parallel_convergence, the failing half, tried when not Converged.
Refused(s, ts) ==
    LET rejected == HavingStatus(ts, "REJECTED")
    IN  /\ StepType[s] = "PARALLEL"
        /\ ~Converged(s, ts)
        /\ \/ Convergence[s] = "ALL" /\ rejected # {}
           \/ /\ Convergence[s] = "MAJORITY"
              /\ 2 * Cardinality(rejected) >= Cardinality(Group(ts))
           \/ /\ Convergence[s] = "QUORUM"
              /\ Cardinality(rejected) + Quorum[s] > Cardinality(Group(ts))

\* Mutant: a converged step leaves its open tasks behind.
SiblingsLeftOpen(s, ts) == ts

\* The siblings still PENDING when a step converges, or when ALL refuses, are
\* cancelled; a SEQUENTIAL step has no group to cancel.
SiblingsCancelled(s, ts) ==
    IF \/ StepType[s] = "PARALLEL" /\ Converged(s, ts)
       \/ Refused(s, ts) /\ Convergence[s] = "ALL"
    THEN [u \in Users |-> IF ts[u] = "PENDING" THEN "CANCELLED" ELSE ts[u]]
    ELSE ts

-----------------------------------------------------------------------------
(* Progress.                                                                *)

\* Mutant: the search starts one step too far.
RemainingOffByOne(c) == {s \in Steps : s > c + 1 /\ Condition[s]}

\* _advance_to_next_step: the steps after c whose condition holds.
Remaining(c) == {s \in Steps : s > c /\ Condition[s]}

\* Mutants: the step number moves on before the end of the template is noticed;
\* the end is never noticed.
StepAfterTheEnd(c) == IF Remaining(c) = {} THEN c + 1 ELSE Min(Remaining(c))
StatusNeverCompleted(c) == "ACTIVE"

\* The step entered from c; c itself when none remains and the workflow ends.
StepAfter(c) == IF Remaining(c) = {} THEN c ELSE Min(Remaining(c))
StatusAfter(c) == IF Remaining(c) = {} THEN "COMPLETED" ELSE "ACTIVE"

\* NO_ELIGIBLE_APPROVER aborts the request that tries to enter the step.
CanEnterNext(c, D) == Remaining(c) = {} \/ Eligible(StepAfter(c), D) # {}

\* Mutants: a requisition no longer waiting is overwritten; failures are not
\* synchronised.
SyncedAlways(st, e) ==
    CASE st = "COMPLETED" -> "APPROVED"
      [] st = "FAILED"    -> "REJECTED"
      [] st = "CANCELLED" -> "CANCELLED"
      [] OTHER            -> e
SyncedOnSuccess(st, e) ==
    IF e = "PENDING_APPROVAL" /\ st = "COMPLETED" THEN "APPROVED" ELSE e

\* _sync_entity_on_completion for a requisition, which it leaves alone unless
\* it is still waiting for approval.  st is the instance's new status.
Synced(st, e) ==
    IF e # "PENDING_APPROVAL" THEN e
    ELSE CASE st = "COMPLETED" -> "APPROVED"
           [] st = "FAILED"    -> "REJECTED"
           [] st = "CANCELLED" -> "CANCELLED"
           [] OTHER            -> e
=============================================================================
