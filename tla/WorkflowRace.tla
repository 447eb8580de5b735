----------------------------- MODULE WorkflowRace -----------------------------
(***************************************************************************)
(* The workflow engine under concurrent requests.  Each request runs in a  *)
(* session of its own with one database transaction (get_db): it loads its *)
(* rows and tests them, changes its copies, and its UPDATEs take row locks *)
(* as they are flushed, held until the commit that publishes its writes.   *)
(* The database is PostgreSQL at READ COMMITTED: a statement sees what was *)
(* committed before it, an UPDATE waits for the row's lock and then writes *)
(* its columns whatever the row has become.  No row carries a version.     *)
(*                                                                         *)
(* A request goes through Load, Decide, Flush and Commit.  Adjacent        *)
(* statements that nothing can usefully come between are one step: a lock  *)
(* taken earlier only delays others.  Approvers are fixed (no rule is in   *)
(* force), pause, resume and the SLA timer are left to WorkflowEngine.     *)
(***************************************************************************)
EXTENDS WorkflowTemplate, Sequences

CONSTANTS
    Sessions,   \* database sessions
    Requests    \* the operations clients request

VARIABLES
    status, current, entity,    \* committed, as in WorkflowEngine
    outside,                    \* history: a request without the engine decided
    forced,                     \* from_step of the ADMIN_INTERVENTION events
    groups,                     \* the task groups created, in commit order
    txn                         \* txn[p]: the transaction of session p

committed == <<status, current, entity, outside, forced, groups>>
vars == <<committed, txn>>

\* What RequisitionService decides without the engine: withdraw(), and approve()
\* and reject() without a task_id.
Direct == [WITHDRAW |-> "WITHDRAWN", APPROVE_DIRECTLY |-> "APPROVED",
           REJECT_DIRECTLY |-> "REJECTED"]
DirectRequests == DOMAIN Direct
Operations == {"APPROVE", "REJECT", "CANCEL", "FORCE"} \cup DirectRequests
ASSUME RaceAssumption == Requests \subseteq Operations

\* Rows that an UPDATE locks: tasks <<g, u>>, the instance, the requisition.
TaskRows == Nat \X Users
InstanceRow == <<0, "instance">>
EntityRow == <<0, "requisition">>

\* phase: the last step taken.  at: current_step_number as loaded.  voted: the
\* request's own task row (a singleton or empty).  cancels: task rows it found
\* PENDING and cancels.  outcome: what becomes of the instance.  holds: its row
\* locks.  decides: the requisition status it writes, "KEEP" if none.
Idle == [phase |-> "idle", op |-> "APPROVE", at |-> 0, voted |-> {}, cancels |-> {},
         outcome |-> "NOTHING", holds |-> {}, decides |-> "KEEP"]

Transactions ==
    [phase : {"idle", "loaded", "decided", "flushed"}, op : Operations,
     at : 0..NumSteps, voted : SUBSET TaskRows, cancels : SUBSET TaskRows,
     outcome : {"NOTHING", "ADVANCE", "FAIL", "CANCEL"},
     holds : SUBSET (TaskRows \cup {InstanceRow, EntityRow}),
     decides : EntityStatus \cup {"KEEP"}]

TypeOK ==
    /\ status \in InstanceStatus
    /\ current \in 0..NumSteps
    /\ entity \in EntityStatus
    /\ outside \in BOOLEAN
    /\ forced \subseteq Steps
    /\ \A g \in DOMAIN groups :
          groups[g].step \in Steps /\ groups[g].task \in [Users -> TaskStatus]
    /\ \A p \in Sessions : txn[p] \in Transactions

\* The tasks create_tasks_for_step makes of step s.
Opened(s) == [step |-> s, task |-> [u \in Users |->
                 IF u \in Eligible(s, {}) THEN "PENDING" ELSE "NONE"]]

Init ==
    /\ status = "NONE"
    /\ current = 0
    /\ entity = "DRAFT"
    /\ outside = FALSE
    /\ forced = {}
    /\ groups = <<>>
    /\ txn = [p \in Sessions |-> Idle]

-----------------------------------------------------------------------------
(* What a transaction will write, and the rows it has to lock for that.     *)

StatusOf(row) == groups[row[1]].task[row[2]]
PendingRows == {row \in (DOMAIN groups) \X Users : StatusOf(row) = "PENDING"}

\* An ADVANCE enters the step after the one loaded, or completes the instance.
Enters(t) == t.outcome = "ADVANCE" /\ Remaining(t.at) # {}
WritesInstance(t) == t.outcome # "NOTHING"
EndsInstance(t) == WritesInstance(t) /\ ~Enters(t)

\* Mutant: the outcome is written where the status belongs.
OutcomeAsStatus(t) == IF WritesInstance(t) THEN t.outcome ELSE status

\* An UPDATE carries the changed columns only: a status not assigned stays as
\* it is committed.
NewStatus(t) ==
    CASE t.outcome = "ADVANCE" /\ ~Enters(t) -> "COMPLETED"
      [] t.outcome = "FAIL" -> "FAILED"
      [] t.outcome = "CANCEL" -> "CANCELLED"
      [] OTHER -> status

\* Mutants: the instance row is not written before the requisition is read;
\* an approval writes the instance before its task.
WantedNoInstance(t) ==
    CASE t.phase = "loaded" -> t.voted
      [] t.phase = "decided" -> t.cancels
      [] t.phase = "flushed" -> IF t.decides = "KEEP" THEN {} ELSE {EntityRow}
      [] OTHER -> {}
WantedInstanceFirst(t) ==
    CASE t.phase = "loaded" -> IF t.op = "REJECT" THEN t.voted ELSE {InstanceRow}
      [] t.phase = "decided" -> t.cancels \cup t.voted \cup {InstanceRow}
      [] t.phase = "flushed" -> IF t.decides = "KEEP" THEN {} ELSE {EntityRow}
      [] OTHER -> {}

\* The locks the next step of t has to take.
Wanted(t) ==
    CASE t.phase = "loaded" -> IF t.op = "CANCEL" THEN {InstanceRow} ELSE t.voted
      [] t.phase = "decided" ->
             t.cancels \cup (IF WritesInstance(t) THEN {InstanceRow} ELSE {})
      [] t.phase = "flushed" -> IF t.decides = "KEEP" THEN {} ELSE {EntityRow}
      [] OTHER -> {}

Blocks(q, p) == txn[q].holds \cap Wanted(txn[p]) # {}
CanLock(p) == \A q \in Sessions \ {p} : ~Blocks(q, p)

-----------------------------------------------------------------------------
(* A request.                                                               *)

\* submit() and instantiate(): nobody knows the tasks before it commits.
Instantiate ==
    LET s == Min(Remaining(0))
    IN  /\ entity = "DRAFT" /\ status = "NONE" /\ txn = [p \in Sessions |-> Idle]
        /\ Remaining(0) # {} /\ Eligible(s, {}) # {}
        /\ status' = "ACTIVE"
        /\ current' = s
        /\ entity' = "PENDING_APPROVAL"
        /\ groups' = <<Opened(s)>>
        /\ UNCHANGED <<outside, forced, txn>>

\* What get_instance and get_task find, tested by each operation's guards.
Load(p, op, voted) ==
    /\ txn[p].phase = "idle" /\ op \in Requests
    /\ \/ op \in {"APPROVE", "REJECT"} /\ status = "ACTIVE" /\ voted # {}
       \/ op = "CANCEL" /\ status \in OpenStatus /\ voted = {}
       \/ op = "FORCE" /\ status = "ACTIVE" /\ voted = {}
    /\ txn' = [txn EXCEPT ![p] = [Idle EXCEPT !.phase = "loaded", !.op = op,
                                     !.at = current, !.voted = voted]]
    /\ UNCHANGED committed

\* RequisitionService reads and tests the requisition alone, and locks nothing;
\* approve() also asks that its actor is no maker.
LoadDirect(p, op) ==
    /\ txn[p].phase = "idle" /\ op \in Requests \cap DirectRequests
    /\ entity = "PENDING_APPROVAL" \/ (op = "WITHDRAW" /\ entity = "DRAFT")
    /\ op = "APPROVE_DIRECTLY" => Users \ Makers # {}
    /\ txn' = [txn EXCEPT ![p] = [Idle EXCEPT !.phase = "flushed", !.op = op,
                                     !.decides = Direct[op]]]
    /\ UNCHANGED committed

\* The first UPDATE is flushed, what it allows to be read is read, and the
\* request knows what it does to the instance and which tasks it cancels.
Decides(p, op, outcome, cancels) ==
    /\ txn[p].phase = "loaded" /\ txn[p].op = op
    /\ CanLock(p)
    /\ txn' = [txn EXCEPT ![p].phase = "decided", ![p].outcome = outcome,
                          ![p].cancels = cancels, ![p].holds = Wanted(txn[p])]
    /\ UNCHANGED committed

\* advance(APPROVE): the group read after the task's UPDATE shows the other
\* approvers' committed votes, not those in flight.
DecideApprove(p) ==
    \E g \in DOMAIN groups :
        LET s == groups[g].step
            ts == [u \in Users |-> IF <<g, u>> \in txn[p].voted THEN "APPROVED"
                                   ELSE groups[g].task[u]]
            after == SiblingsCancelled(s, ts)
        IN  /\ \E u \in Users : <<g, u>> \in txn[p].voted
            /\ Decides(p, "APPROVE",
                       IF Converged(s, ts) THEN "ADVANCE"
                       ELSE IF Refused(s, ts) THEN "FAIL" ELSE "NOTHING",
                       {<<g, u>> : u \in {v \in Users : after[v] # ts[v]}})

\* advance(REJECT): fails the instance whatever the group says.
DecideReject(p) == Decides(p, "REJECT", "FAIL", {})

\* cancel(): the open tasks are read once the instance's UPDATE is flushed.
DecideCancel(p) == Decides(p, "CANCEL", "CANCEL", PendingRows)

\* Mutant: the tasks of the forced step stay open.
DecideForceOnly(p) == Decides(p, "FORCE", "ADVANCE", {})

\* force_advance(): the open tasks are read before anything is written.
DecideForce(p) == Decides(p, "FORCE", "ADVANCE", PendingRows)

\* The remaining UPDATEs of tasks and instance; a transaction that ends the
\* instance then reads the requisition (_sync_entity_on_completion).
Flush(p) ==
    LET t == txn[p]
        synced == Synced(NewStatus(t), entity)
    IN  /\ t.phase = "decided"
        /\ CanLock(p)
        /\ Enters(t) => Eligible(StepAfter(t.at), {}) # {}
        /\ txn' = [txn EXCEPT ![p].phase = "flushed", ![p].holds = @ \cup Wanted(t),
              ![p].decides = IF EndsInstance(t) /\ synced # entity THEN synced ELSE "KEEP"]
        /\ UNCHANGED committed

\* The task table with the transaction's own rows written.
Written(t) ==
    [g \in DOMAIN groups |-> [groups[g] EXCEPT !.task = [u \in Users |->
        IF <<g, u>> \in t.cancels THEN "CANCELLED"
        ELSE IF <<g, u>> \notin t.voted THEN @[u]
        ELSE IF t.op = "APPROVE" THEN "APPROVED" ELSE "REJECTED"]]]

Commit(p) ==
    LET t == txn[p]
    IN  /\ t.phase = "flushed"
        /\ CanLock(p)
        /\ status' = NewStatus(t)
        /\ current' = IF Enters(t) THEN StepAfter(t.at) ELSE current
        /\ groups' = IF Enters(t) THEN Append(Written(t), Opened(StepAfter(t.at)))
                     ELSE Written(t)
        /\ forced' = IF t.op = "FORCE" THEN forced \cup {t.at} ELSE forced
        /\ entity' = IF t.decides = "KEEP" THEN entity ELSE t.decides
        /\ outside' = (outside \/ t.op \in DirectRequests)
        /\ txn' = [txn EXCEPT ![p] = Idle]

\* Mutant: nobody breaks a cycle of lock waits.
RollbackNoCycle(p) ==
    /\ txn[p].phase = "decided" /\ Enters(txn[p])
    /\ Eligible(StepAfter(txn[p].at), {}) = {}
    /\ txn' = [txn EXCEPT ![p] = Idle]
    /\ UNCHANGED committed

\* get_db rolls back: PostgreSQL breaks a cycle of lock waits, or the step to
\* enter has no eligible approver.
Rollback(p) ==
    /\ \/ \E q \in Sessions : Blocks(q, p) /\ Blocks(p, q)
       \/ /\ txn[p].phase = "decided" /\ Enters(txn[p])
          /\ Eligible(StepAfter(txn[p].at), {}) = {}
    /\ txn' = [txn EXCEPT ![p] = Idle]
    /\ UNCHANGED committed

Begin(p) ==
    \E op \in Requests :
        \/ LoadDirect(p, op)
        \/ \E voted \in {{}} \cup {{row} : row \in PendingRows} : Load(p, op, voted)

Proceed(p) ==
    \/ DecideApprove(p) \/ DecideReject(p) \/ DecideCancel(p) \/ DecideForce(p)
    \/ Flush(p) \/ Commit(p) \/ Rollback(p)

Next == Instantiate \/ \E p \in Sessions : Begin(p) \/ Proceed(p)

Spec == Init /\ [][Next]_vars

\* The server runs every request it accepted, and PostgreSQL grants a row lock
\* to those who wait for it in turn; a client may never send a request.
FairSpec == Spec /\ \A p \in Sessions : SF_vars(Proceed(p))

-----------------------------------------------------------------------------
(* What survives concurrency.                                               *)

AtRest == \A p \in Sessions : txn[p].phase = "idle"

\* However requests race, the engine decides the requisition once:
\* _sync_entity_on_completion reads it holding the lock of the instance row,
\* which every request that ends the instance takes.  A decided requisition
\* never waits again, and it is decided otherwise only where RequisitionService
\* decided it without the engine, before or after.
Decided == {"APPROVED", "REJECTED", "CANCELLED", "WITHDRAWN"}
DecidedOnce ==
    [][entity' # entity /\ entity \in Decided => outside' /\ entity' \in Decided]_entity

\* Votes that close nobody else's task (advance() on a group that must agree)
\* never wait for each other in a cycle: each locks its own task and then the
\* instance.
Voting(p) == txn[p].voted # {} /\ txn[p].cancels = {}
NoLockCycle ==
    \A p, q \in Sessions : Voting(p) /\ Voting(q) => ~(Blocks(p, q) /\ Blocks(q, p))

\* Lock waits never leave a request hanging (FairSpec): advance() locks tasks
\* before the instance and cancel() the instance before tasks.
EveryRequestEnds ==
    \A p \in Sessions : txn[p].phase # "idle" ~> txn[p].phase = "idle"

-----------------------------------------------------------------------------
(* What does not, with two sessions.                                        *)

\* The test plan asks that of two simultaneous approvals of a parallel group
\* exactly one runs the convergence check; whoever approves last must find the
\* group complete, or nobody is left to act on an active instance.
LastApprovalConverges == AtRest /\ status = "ACTIVE" => PendingRows # {}

-----------------------------------------------------------------------------
(* One session at a time, the transactions are the atomic engine.           *)

TasksOf(s) ==
    IF \E g \in DOMAIN groups : groups[g].step = s
    THEN (CHOOSE g \in Range(groups) : g.step = s).task
    ELSE [u \in Users |-> "NONE"]

Engine == INSTANCE WorkflowEngine WITH
    task <- [s \in Steps |-> TasksOf(s)],
    assigned <- [s \in Steps |-> [u \in Users |-> u]],
    actedBy <- [s \in Steps |-> [u \in Users |->
                   IF TasksOf(s)[u] \in {"APPROVED", "REJECTED"} THEN u ELSE NoUser]],
    delegating <- {},
    age <- [s \in Steps |-> 0],
    sla <- [s \in Steps |-> 0]

\* With one session every transaction takes effect at its commit, as the one
\* action of WorkflowEngine for its operation.
SerialIsAtomic == Engine!Spec
=============================================================================
