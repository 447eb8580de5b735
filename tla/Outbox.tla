------------------------------- MODULE Outbox -------------------------------
(***************************************************************************)
(* The transactional outbox: OutboxPublisher inserts a row within the      *)
(* transaction of the business change, and runs of the task                *)
(* publish_outbox, started by the beat and free to overlap, claim rows,    *)
(* publish them and commit what became of them.                            *)
(*                                                                         *)
(* "row" is what is committed; "draft" is the row as the run that holds    *)
(* its lock has written it.  One commit ends the whole batch, so a run     *)
(* that dies forgets every message it has published.                       *)
(***************************************************************************)
EXTENDS Integers, FiniteSets

CONSTANTS
    Msgs,       \* the events
    Txns,       \* the business transactions
    Writer,     \* Writer[m]: the transaction that publishes m
    Workers,    \* runs of publish_outbox that may overlap
    Nobody,     \* no lock
    BatchSize,  \* OUTBOX_BATCH_SIZE
    RetryMax,   \* OUTBOX_RETRY_MAX
    Faults      \* bound: runs that die or fail as a whole

ASSUME OutboxAssumption ==
    /\ Writer \in [Msgs -> Txns]
    /\ Nobody \notin Workers
    /\ BatchSize \in Nat \ {0} /\ RetryMax \in Nat \ {0} /\ Faults \in Nat

VARIABLES
    clock,   \* how many transactions have started or ended
    began,   \* began[t]: when t started, the created_at of its rows; 0 before
    ended,   \* ended[t]: when t committed; 0 before
    row,     \* committed rows, "NONE" where there is none
    draft,   \* the same as the run holding the lock sees it
    lock,    \* which run holds the row
    left,    \* claimed messages whose turn in the loop has not come
    copies,  \* copies of m the broker has accepted
    faults   \* runs that have died or failed

vars == <<clock, began, ended, row, draft, lock, left, copies, faults>>

Row == [status : {"NONE", "PENDING", "PUBLISHED", "FAILED"}, retries : Nat]

\* The run has claimed something and has neither committed nor died.
Busy(w) == \E m \in Msgs : lock[m] = w

-----------------------------------------------------------------------------
(* The application side. *)

\* What the rows are once t has committed.
Inserted(rows, t) ==
    [m \in Msgs |-> IF Writer[m] = t THEN [status |-> "PENDING", retries |-> 0]
                    ELSE rows[m]]

\* Mutant: the publisher commits the row in a session of its own.
BeginOwnSession(t) ==
    /\ began[t] = 0
    /\ clock' = clock + 1
    /\ began' = [began EXCEPT ![t] = clock + 1]
    /\ row' = Inserted(row, t)
    /\ draft' = Inserted(draft, t)
    /\ UNCHANGED <<ended, lock, left, copies, faults>>

\* NOW() is the start of the transaction, whenever the row is inserted.
Begin(t) ==
    /\ began[t] = 0
    /\ clock' = clock + 1
    /\ began' = [began EXCEPT ![t] = clock + 1]
    /\ UNCHANGED <<ended, row, draft, lock, left, copies, faults>>

\* A transaction that is rolled back leaves no row: it never commits.
Commit(t) ==
    /\ began[t] > 0 /\ ended[t] = 0
    /\ clock' = clock + 1
    /\ ended' = [ended EXCEPT ![t] = clock + 1]
    /\ row' = Inserted(row, t)
    /\ draft' = Inserted(draft, t)
    /\ UNCHANGED <<began, lock, left, copies, faults>>

-----------------------------------------------------------------------------
(* The worker side. *)

Age(m) == began[Writer[m]]

\* Mutants: SELECT without the lock, of failed rows too, of untried rows only.
ClaimableUnlocked == {m \in Msgs : row[m].status = "PENDING"}
ClaimableFailed == {m \in Msgs : /\ row[m].status \in {"PENDING", "FAILED"}
                                 /\ lock[m] = Nobody}
ClaimableUntried == {m \in Msgs : /\ row[m].status = "PENDING"
                                  /\ row[m].retries = 0 /\ lock[m] = Nobody}

\* FOR UPDATE SKIP LOCKED
Claimable == {m \in Msgs : row[m].status = "PENDING" /\ lock[m] = Nobody}

\* Mutant: no ORDER BY.
InAnyOrder(S, all) == S \subseteq all

\* ORDER BY created_at: rows of one transaction come in any order.
OldestOf(S, all) == \A m \in S, n \in all \ S : Age(m) <= Age(n)

\* A run that finds nothing commits and returns.
Claim(w) ==
    /\ ~Busy(w)
    /\ \E S \in SUBSET Claimable :
           /\ S # {}
           /\ Cardinality(S) <= BatchSize
           /\ Cardinality(S) = BatchSize \/ S = Claimable
           /\ OldestOf(S, Claimable)
           /\ lock' = [m \in Msgs |-> IF m \in S THEN w ELSE lock[m]]
           /\ left' = left \cup S
    /\ UNCHANGED <<clock, began, ended, row, draft, copies, faults>>

\* Mutant: one try too many.
FailingLate(r) ==
    [status |-> IF r.retries >= RetryMax THEN "FAILED" ELSE "PENDING",
     retries |-> r.retries + 1]

\* The row after a failed publish.
Failing(r) ==
    [status |-> IF r.retries + 1 >= RetryMax THEN "FAILED" ELSE "PENDING",
     retries |-> r.retries + 1]

\* The turn of m in its run's loop.
Turn(m) ==
    /\ m \in left
    /\ \A n \in left : lock[n] = lock[m] => Age(m) <= Age(n)
    /\ left' = left \ {m}
    /\ UNCHANGED <<clock, began, ended, row, lock, faults>>

\* The broker confirms.
Publish(m) ==
    /\ Turn(m)
    /\ copies' = [copies EXCEPT ![m] = @ + 1]
    /\ draft' = [draft EXCEPT ![m].status = "PUBLISHED"]

\* publish() raises: the broker has the message or it has not.
PublishFails(m) ==
    /\ Turn(m)
    /\ copies' \in {copies, [copies EXCEPT ![m] = @ + 1]}
    /\ draft' = [draft EXCEPT ![m] = Failing(@)]

\* Whatever the run has written goes back to what is committed, or is it.
Release(w) ==
    /\ Busy(w)
    /\ lock' = [m \in Msgs |-> IF lock[m] = w THEN Nobody ELSE lock[m]]
    /\ UNCHANGED <<clock, began, ended, copies>>

CommitBatch(w) ==
    /\ Release(w)
    /\ \A m \in left : lock[m] # w
    /\ row' = [m \in Msgs |-> IF lock[m] = w THEN draft[m] ELSE row[m]]
    /\ UNCHANGED <<draft, left, faults>>

\* The process dies, a statement fails or the commit does.
Abort(w) ==
    /\ Release(w)
    /\ faults < Faults
    /\ faults' = faults + 1
    /\ draft' = [m \in Msgs |-> IF lock[m] = w THEN row[m] ELSE draft[m]]
    /\ left' = {m \in left : lock[m] # w}
    /\ UNCHANGED row

-----------------------------------------------------------------------------
Init ==
    /\ clock = 0 /\ faults = 0 /\ left = {}
    /\ began = [t \in Txns |-> 0]
    /\ ended = [t \in Txns |-> 0]
    /\ row = [m \in Msgs |-> [status |-> "NONE", retries |-> 0]]
    /\ draft = row
    /\ lock = [m \in Msgs |-> Nobody]
    /\ copies = [m \in Msgs |-> 0]

Next ==
    \/ \E t \in Txns : Begin(t) \/ Commit(t)
    \/ \E w \in Workers : Claim(w) \/ CommitBatch(w) \/ Abort(w)
    \/ \E m \in Msgs : Publish(m) \/ PublishFails(m)

Spec == Init /\ [][Next]_vars

\* The beat starts a run every few seconds and some run reaches the broker;
\* a run that has claimed rows goes on to its commit unless it dies.
FairSpec ==
    /\ Spec
    /\ WF_vars(\E w \in Workers : Claim(w))
    /\ \A w \in Workers : WF_vars(CommitBatch(w))
    /\ \A m \in Msgs : WF_vars(Publish(m) \/ PublishFails(m))

-----------------------------------------------------------------------------
(* Properties. *)

\* No message is tried more often than OUTBOX_RETRY_MAX, FAILED means that
\* every try was used, and only claimed messages await their turn.
TypeOK ==
    /\ clock \in Nat /\ faults \in 0 .. Faults
    /\ began \in [Txns -> Nat] /\ ended \in [Txns -> Nat]
    /\ row \in [Msgs -> Row] /\ draft \in [Msgs -> Row]
    /\ lock \in [Msgs -> Workers \cup {Nobody}]
    /\ left \subseteq {m \in Msgs : lock[m] # Nobody}
    /\ copies \in [Msgs -> Nat]
    /\ \A m \in Msgs : /\ draft[m].retries <= RetryMax
                       /\ draft[m].status = "FAILED" <=>
                              draft[m].retries = RetryMax

\* What get_db commits with the business change is what gets out: the broker
\* has copies of committed events only, and of every PUBLISHED one.
SentIsCommitted ==
    \A m \in Msgs :
        /\ copies[m] > 0 => ended[Writer[m]] > 0
        /\ row[m].status = "PUBLISHED" => copies[m] > 0

\* However runs overlap, the broker gets an event once, and once more only
\* for each try recorded as failed and for each run that died.
DuplicatesAreExplained ==
    \A m \in Msgs :
        copies[m] <= draft[m].retries + faults
                     + IF draft[m].status = "PUBLISHED" THEN 1 ELSE 0

\* Once the row of an event is committed as PUBLISHED or FAILED, no run that
\* still has it in its batch publishes it again.
SettledForGood ==
    [][\A m \in Msgs : copies'[m] # copies[m] =>
           row[m].status = "PENDING" /\ row'[m] = row[m]]_vars

Before(m, n) ==
    /\ ended[Writer[m]] > 0 /\ began[Writer[n]] > 0
    /\ ended[Writer[m]] < began[Writer[n]]

\* Without a fault an event of a transaction that began after another one had
\* committed overtakes the other's only while that is in a batch, or after a
\* try of it has failed.
OvertakesOnlyTheFailed ==
    faults = 0 =>
        \A m, n \in Msgs :
            Before(m, n) /\ copies[n] > 0 =>
                copies[m] > 0 \/ row[m].retries > 0 \/ lock[m] # Nobody

\* Every committed event is published or given up in the end, as long as the
\* beat goes on, however often publishing fails and whichever runs die.
EveryEventSettles ==
    \A m \in Msgs :
        ended[Writer[m]] > 0 ~> row[m].status \in {"PUBLISHED", "FAILED"}
=============================================================================
