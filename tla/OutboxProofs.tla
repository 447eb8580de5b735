---------------------------- MODULE OutboxProofs ----------------------------
(***************************************************************************)
(* Theorems about the outbox, for any number of events, transactions and   *)
(* overlapping runs, and every batch size, retry limit and fault bound.    *)
(*                                                                         *)
(* The properties speak of what is committed; the inductive invariant adds *)
(* what the holder of a row can have written: nothing while the message    *)
(* awaits its turn, afterwards one step from the committed row.  So a run  *)
(* that dies loses at most one copy of each of its messages from the       *)
(* record, and one that commits cannot touch what another one settled.     *)
(***************************************************************************)
EXTENDS Outbox, TLAPS

Typed ==
    /\ clock \in Nat /\ faults \in 0 .. Faults
    /\ began \in [Txns -> Nat] /\ ended \in [Txns -> Nat]
    /\ row \in [Msgs -> Row] /\ draft \in [Msgs -> Row]
    /\ lock \in [Msgs -> Workers \cup {Nobody}]
    /\ left \subseteq Msgs
    /\ copies \in [Msgs -> Nat]

\* A committed row uses no more than its tries, and FAILED means all of them.
Counted(r) ==
    /\ r.retries <= RetryMax
    /\ r.status = "FAILED" <=> r.retries = RetryMax
    /\ r.status = "NONE" => r.retries = 0

\* What the holder of m has made of the committed row.
Held(m) ==
    /\ lock[m] = Nobody => m \notin left /\ draft[m] = row[m]
    /\ lock[m] # Nobody => row[m].status = "PENDING"
    /\ m \in left => draft[m] = row[m]
    /\ lock[m] # Nobody /\ m \notin left =>
           \/ draft[m] = [row[m] EXCEPT !.status = "PUBLISHED"]
           \/ draft[m] = Failing(row[m])

\* The rows of a transaction exist once it has committed, and not before.
Exists(m) == row[m].status # "NONE" <=> ended[Writer[m]] > 0

Copies(m) ==
    /\ copies[m] > 0 => ended[Writer[m]] > 0
    /\ draft[m].status = "PUBLISHED" => copies[m] > 0
    /\ copies[m] <= draft[m].retries + faults
                    + IF draft[m].status = "PUBLISHED" THEN 1 ELSE 0

Timed(t) ==
    /\ began[t] <= clock /\ ended[t] <= clock
    /\ ended[t] > 0 => began[t] > 0 /\ began[t] <= ended[t]

\* Who is claimed before a message that began later.
InOrder(m, n) ==
    faults = 0 /\ Before(m, n) /\ (copies[n] > 0 \/ lock[n] # Nobody) =>
        copies[m] > 0 \/ row[m].retries > 0 \/ lock[m] # Nobody

IInv ==
    /\ Typed
    /\ \A m \in Msgs : Counted(row[m]) /\ Held(m) /\ Exists(m) /\ Copies(m)
    /\ \A t \in Txns : Timed(t)
    /\ \A m, n \in Msgs : InOrder(m, n)

-----------------------------------------------------------------------------
\* A try leaves a row well counted, and is one more or the last of them.
LEMMA FailingCounts ==
    ASSUME NEW r \in Row, Counted(r), r.status = "PENDING"
    PROVE  /\ Failing(r) \in Row
           /\ Counted(Failing(r))
           /\ Failing(r).retries = r.retries + 1
           /\ Failing(r).status \in {"PENDING", "FAILED"}
  BY OutboxAssumption DEF Row, Counted, Failing

\* So is the row its holder sees.
LEMMA DraftCounts ==
    ASSUME IInv, NEW m \in Msgs
    PROVE  /\ Counted(draft[m])
           /\ row[m] \in Row /\ draft[m] \in Row
           /\ draft[m].status = "NONE" <=> row[m].status = "NONE"
  <1>1. row[m] \in Row /\ draft[m] \in Row /\ Counted(row[m]) /\ Held(m)
    BY DEF IInv, Typed
  <1>2. CASE draft[m] = row[m]
    BY <1>1, <1>2
  <1>3. CASE draft[m] = [row[m] EXCEPT !.status = "PUBLISHED"]
             /\ row[m].status = "PENDING"
    BY <1>1, <1>3, OutboxAssumption DEF Row, Counted
  <1>4. CASE draft[m] = Failing(row[m]) /\ row[m].status = "PENDING"
    BY <1>1, <1>4, FailingCounts
  <1> QED BY <1>1, <1>2, <1>3, <1>4 DEF Held

LEMMA InitInv == Init => IInv
  <1> SUFFICES ASSUME Init PROVE IInv
    OBVIOUS
  <1>1. Typed
    BY OutboxAssumption DEF Init, Typed, Row
  <1>2. \A m \in Msgs : Counted(row[m]) /\ Held(m) /\ Exists(m) /\ Copies(m)
    BY OutboxAssumption DEF Init, Counted, Held, Exists, Copies
  <1>3. \A t \in Txns : Timed(t)
    BY DEF Init, Timed
  <1>4. \A m, n \in Msgs : InOrder(m, n)
    BY OutboxAssumption DEF Init, InOrder, Before
  <1> QED BY <1>1, <1>2, <1>3, <1>4 DEF IInv

\* A transaction that begins is later than any that has committed.
LEMMA BeginInv ==
    ASSUME IInv, NEW t \in Txns, Begin(t)
    PROVE  IInv'
  <1> USE OutboxAssumption DEF IInv, Typed, Begin
  <1>1. Typed'
    OBVIOUS
  <1>2. \A m \in Msgs : (Counted(row[m]) /\ Held(m) /\ Exists(m) /\ Copies(m))'
    BY DEF Counted, Held, Exists, Copies
  <1>3. \A u \in Txns : Timed(u)'
    BY DEF Timed
  <1>4. \A m, n \in Msgs : InOrder(m, n)'
    <2> SUFFICES ASSUME NEW m \in Msgs, NEW n \in Msgs,
                        (faults = 0 /\ Before(m, n)
                         /\ (copies[n] > 0 \/ lock[n] # Nobody))'
                 PROVE (copies[m] > 0 \/ row[m].retries > 0
                        \/ lock[m] # Nobody)'
      BY DEF InOrder
    <2>1. CASE Writer[n] = t
      <3>1. ended[t] = 0
        BY DEF Timed
      <3>2. row[n].status = "NONE" /\ copies[n] = 0 /\ lock[n] = Nobody
        BY <2>1, <3>1 DEF Exists, Copies, Held, Row
      <3> QED BY <3>2
    <2>2. CASE Writer[n] # t
      BY <2>2 DEF InOrder, Before
    <2> QED BY <2>1, <2>2
  <1> QED BY <1>1, <1>2, <1>3, <1>4

\* Nobody has seen the rows of a transaction before it commits.
LEMMA CommitInv ==
    ASSUME IInv, NEW t \in Txns, Commit(t)
    PROVE  IInv'
  <1> USE OutboxAssumption DEF IInv, Typed, Commit
  <1> DEFINE Fresh == [status |-> "PENDING", retries |-> 0]
  <1>1. Typed'
    BY DEF Inserted, Row
  <1>2. ASSUME NEW m \in Msgs
        PROVE  (Counted(row[m]) /\ Held(m) /\ Exists(m) /\ Copies(m))'
    <2>1. CASE Writer[m] = t
      <3>1. row[m].status = "NONE" /\ copies[m] = 0 /\ lock[m] = Nobody
            /\ m \notin left
        BY <2>1 DEF Exists, Copies, Held
      <3>2. row'[m] = Fresh /\ draft'[m] = Fresh
        BY <2>1 DEF Inserted
      <3> QED BY <2>1, <3>1, <3>2 DEF Counted, Held, Exists, Copies
    <2>2. CASE Writer[m] # t
      <3>1. row'[m] = row[m] /\ draft'[m] = draft[m]
            /\ ended'[Writer[m]] = ended[Writer[m]]
        BY <2>2 DEF Inserted
      <3> QED BY <3>1 DEF Counted, Held, Exists, Copies
    <2> QED BY <2>1, <2>2
  <1>3. \A u \in Txns : Timed(u)'
    BY DEF Timed
  <1>4. \A m, n \in Msgs : InOrder(m, n)'
    <2> SUFFICES ASSUME NEW m \in Msgs, NEW n \in Msgs,
                        (faults = 0 /\ Before(m, n)
                         /\ (copies[n] > 0 \/ lock[n] # Nobody))'
                 PROVE (copies[m] > 0 \/ row[m].retries > 0
                        \/ lock[m] # Nobody)'
      BY DEF InOrder
    <2>1. Writer[m] # t
      BY DEF Before, Timed
    <2>2. row'[m] = row[m] /\ ended'[Writer[m]] = ended[Writer[m]]
      BY <2>1 DEF Inserted
    <2> QED BY <2>2 DEF InOrder, Before
  <1> QED BY <1>1, <1>2, <1>3, <1>4

\* The oldest are claimed first, so whatever is older is claimed or settled.
LEMMA ClaimInv ==
    ASSUME IInv, NEW w \in Workers, Claim(w)
    PROVE  IInv'
  <1> PICK S \in SUBSET Claimable :
           /\ OldestOf(S, Claimable)
           /\ lock' = [m \in Msgs |-> IF m \in S THEN w ELSE lock[m]]
           /\ left' = left \cup S
    BY DEF Claim
  <1>0. UNCHANGED <<clock, began, ended, row, draft, copies, faults>>
    BY DEF Claim
  <1> USE <1>0, OutboxAssumption DEF IInv, Typed
  <1>1. Typed'
    BY DEF Claimable
  <1>2. \A m \in Msgs : (Counted(row[m]) /\ Held(m) /\ Exists(m) /\ Copies(m))'
    BY DEF Claimable, Counted, Held, Exists, Copies
  <1>3. \A u \in Txns : Timed(u)'
    BY DEF Timed
  <1>4. \A m, n \in Msgs : InOrder(m, n)'
    <2> SUFFICES ASSUME NEW m \in Msgs, NEW n \in Msgs,
                        (faults = 0 /\ Before(m, n)
                         /\ (copies[n] > 0 \/ lock[n] # Nobody))',
                        m \notin S, lock[m] = Nobody
                 PROVE copies[m] > 0 \/ row[m].retries > 0
      BY DEF InOrder
    <2>1. CASE n \in S
      <3>1. row[m].status # "NONE"
        BY DEF Exists, Before
      <3>2. m \notin Claimable
        <4>1. Age(m) < Age(n)
          BY DEF Before, Timed, Age, Exists, Claimable
        <4> QED BY <2>1, <4>1 DEF OldestOf, Age, Claimable
      <3>3. row[m].status \in {"PUBLISHED", "FAILED"}
        BY <3>1, <3>2 DEF Claimable, Row
      <3> QED BY <3>3 DEF Held, Copies, Counted, Row
    <2>2. CASE n \notin S
      BY <2>2 DEF InOrder, Before
    <2> QED BY <2>1, <2>2
  <1> QED BY <1>1, <1>2, <1>3, <1>4

\* A message whose turn has come is one its run has not touched.
LEMMA TurnFacts ==
    ASSUME IInv, NEW m \in Msgs, Turn(m)
    PROVE  /\ draft[m] = row[m] /\ row[m] \in Row /\ Counted(row[m])
           /\ row[m].status = "PENDING" /\ ended[Writer[m]] > 0
           /\ lock[m] # Nobody
           /\ copies[m] <= row[m].retries + faults
  <1>1. m \in left /\ row[m] \in Row /\ copies[m] \in Nat /\ faults \in Nat
    BY OutboxAssumption DEF Turn, IInv, Typed
  <1>2. Counted(row[m]) /\ Held(m) /\ Exists(m) /\ Copies(m)
    BY DEF IInv
  <1>3. draft[m] = row[m] /\ row[m].status = "PENDING" /\ lock[m] # Nobody
    BY <1>1, <1>2 DEF Held
  <1> QED BY <1>1, <1>2, <1>3 DEF Exists, Copies, Row

\* It is published, or it is tried once more: either way the copy is recorded
\* in the draft, and only there.
LEMMA TurnInv ==
    ASSUME IInv, NEW k \in Msgs, Publish(k) \/ PublishFails(k)
    PROVE  IInv'
  <1> USE OutboxAssumption DEF IInv, Typed
  <1>0. Turn(k)
    BY DEF Publish, PublishFails
  <1>a. UNCHANGED <<clock, began, ended, row, lock, faults>>
        /\ left' = left \ {k}
    BY <1>0 DEF Turn
  <1>b. /\ draft[k] = row[k] /\ row[k] \in Row /\ Counted(row[k])
        /\ row[k].status = "PENDING" /\ ended[Writer[k]] > 0
        /\ lock[k] # Nobody
        /\ copies[k] <= row[k].retries + faults
    BY <1>0, TurnFacts
  <1>c. \/ /\ copies' = [copies EXCEPT ![k] = @ + 1]
           /\ draft' = [draft EXCEPT ![k] = [row[k] EXCEPT !.status = "PUBLISHED"]]
        \/ /\ copies' \in {copies, [copies EXCEPT ![k] = @ + 1]}
           /\ draft' = [draft EXCEPT ![k] = Failing(row[k])]
    BY <1>b DEF Publish, PublishFails
  <1>d. /\ Failing(row[k]) \in Row
        /\ Failing(row[k]).retries = row[k].retries + 1
        /\ Failing(row[k]).status \in {"PENDING", "FAILED"}
    BY <1>b, FailingCounts
  <1>e. /\ [row[k] EXCEPT !.status = "PUBLISHED"] \in Row
        /\ [row[k] EXCEPT !.status = "PUBLISHED"].status = "PUBLISHED"
        /\ [row[k] EXCEPT !.status = "PUBLISHED"].retries = row[k].retries
    BY <1>b DEF Row
  <1>1. Typed'
    BY <1>a, <1>c, <1>d, <1>e
  <1>2. ASSUME NEW m \in Msgs
        PROVE  (Counted(row[m]) /\ Held(m) /\ Exists(m) /\ Copies(m))'
    <2>1. CASE m = k
      <3>1. (Counted(row[m]) /\ Held(m) /\ Exists(m))'
        BY <1>a, <1>b, <1>c, <2>1 DEF Counted, Held, Exists
      <3>2. Copies(m)'
        <4>1. copies[k] \in Nat /\ row[k].retries \in Nat /\ faults \in Nat
          BY <1>b DEF Row
        <4>2. CASE draft'[k] = [row[k] EXCEPT !.status = "PUBLISHED"] /\ copies'[k] = copies[k] + 1
          BY <1>a, <1>b, <1>e, <2>1, <4>1, <4>2 DEF Copies
        <4>3. CASE draft'[k] = Failing(row[k]) /\ copies'[k] \in {copies[k], copies[k] + 1}
          BY <1>a, <1>b, <1>d, <2>1, <4>1, <4>3 DEF Copies
        <4> QED
          BY <1>c, <4>2, <4>3
      <3> QED BY <3>1, <3>2
    <2>2. CASE m # k
      <3>1. draft'[m] = draft[m] /\ copies'[m] = copies[m]
            /\ (m \in left' <=> m \in left)
        BY <1>a, <1>c, <2>2
      <3> QED BY <1>a, <3>1 DEF Counted, Held, Exists, Copies
    <2> QED BY <2>1, <2>2
  <1>3. \A u \in Txns : Timed(u)'
    BY <1>a DEF Timed
  <1>4. \A m, n \in Msgs : InOrder(m, n)'
    <2> SUFFICES ASSUME NEW m \in Msgs, NEW n \in Msgs,
                        (faults = 0 /\ Before(m, n)
                         /\ (copies[n] > 0 \/ lock[n] # Nobody))'
                 PROVE (copies[m] > 0 \/ row[m].retries > 0
                        \/ lock[m] # Nobody)'
      BY DEF InOrder
    <2>1. copies[n] > 0 \/ lock[n] # Nobody
      BY <1>a, <1>b, <1>c
    <2>2. copies[m] > 0 \/ row[m].retries > 0 \/ lock[m] # Nobody
      BY <1>a, <2>1 DEF InOrder, Before
    <2> QED BY <1>a, <1>b, <1>c, <2>2
  <1> QED BY <1>1, <1>2, <1>3, <1>4

\* The batch becomes what is committed: each of its messages has had its turn.
LEMMA CommitBatchInv ==
    ASSUME IInv, NEW w \in Workers, CommitBatch(w)
    PROVE  IInv'
  <1> USE OutboxAssumption DEF IInv, Typed
  <1>0. /\ UNCHANGED <<clock, began, ended, copies, draft, left, faults>>
        /\ lock' = [m \in Msgs |-> IF lock[m] = w THEN Nobody ELSE lock[m]]
        /\ row' = [m \in Msgs |-> IF lock[m] = w THEN draft[m] ELSE row[m]]
        /\ \A m \in left : lock[m] # w
    BY DEF CommitBatch, Release
  <1>1. Typed'
    BY <1>0
  <1>2. ASSUME NEW m \in Msgs
        PROVE  (Counted(row[m]) /\ Held(m) /\ Exists(m) /\ Copies(m))'
    <2>1. Counted(draft[m])
          /\ (draft[m].status = "NONE" <=> row[m].status = "NONE")
      BY DraftCounts
    <2>2. CASE lock[m] = w
      BY <1>0, <2>1, <2>2 DEF Counted, Held, Exists, Copies
    <2>3. CASE lock[m] # w
      BY <1>0, <2>3 DEF Counted, Held, Exists, Copies
    <2> QED BY <2>2, <2>3
  <1>3. \A u \in Txns : Timed(u)'
    BY <1>0 DEF Timed
  <1>4. \A m, n \in Msgs : InOrder(m, n)'
    <2> SUFFICES ASSUME NEW m \in Msgs, NEW n \in Msgs,
                        (faults = 0 /\ Before(m, n)
                         /\ (copies[n] > 0 \/ lock[n] # Nobody))'
                 PROVE (copies[m] > 0 \/ row[m].retries > 0
                        \/ lock[m] # Nobody)'
      BY DEF InOrder
    <2>1. copies[m] > 0 \/ row[m].retries > 0 \/ lock[m] # Nobody
      BY <1>0 DEF InOrder, Before
    <2>2. CASE lock[m] = w
      <3>1. m \notin left /\ row[m] \in Row
        BY <1>0, <2>2
      <3>2. CASE draft[m] = [row[m] EXCEPT !.status = "PUBLISHED"]
        BY <1>0, <3>1, <3>2 DEF Copies, Row
      <3>3. CASE draft[m] = Failing(row[m])
        BY <1>0, <2>2, <3>1, <3>3 DEF Failing, Row
      <3> QED BY <2>2, <3>1, <3>2, <3>3 DEF Held
    <2>3. CASE lock[m] # w
      BY <1>0, <2>1, <2>3
    <2> QED BY <2>2, <2>3
  <1> QED BY <1>1, <1>2, <1>3, <1>4

\* A run that dies takes back at most one try of each message, and is counted.
LEMMA AbortInv ==
    ASSUME IInv, NEW w \in Workers, Abort(w)
    PROVE  IInv'
  <1> USE OutboxAssumption DEF IInv, Typed
  <1>0. /\ UNCHANGED <<clock, began, ended, copies, row>>
        /\ lock' = [m \in Msgs |-> IF lock[m] = w THEN Nobody ELSE lock[m]]
        /\ draft' = [m \in Msgs |-> IF lock[m] = w THEN row[m] ELSE draft[m]]
        /\ left' = {m \in left : lock[m] # w}
        /\ faults < Faults /\ faults' = faults + 1
    BY DEF Abort, Release
  <1>1. Typed'
    BY <1>0
  <1>2. ASSUME NEW m \in Msgs
        PROVE  (Counted(row[m]) /\ Held(m) /\ Exists(m) /\ Copies(m))'
    <2>1. row[m] \in Row /\ Counted(row[m])
      OBVIOUS
    <2>2. CASE lock[m] = w
      <3>1. row[m].status = "PENDING" /\ lock[m] # Nobody
        BY <2>2 DEF Held
      <3>2. copies[m] <= row[m].retries + faults + 1
        <4>1. CASE draft[m] = row[m]
          BY <2>1, <3>1, <4>1 DEF Copies, Row
        <4>2. CASE draft[m] = [row[m] EXCEPT !.status = "PUBLISHED"]
          BY <2>1, <4>2 DEF Copies, Row
        <4>3. CASE draft[m] = Failing(row[m])
          BY <2>1, <3>1, <4>3, FailingCounts DEF Copies, Row
        <4> QED BY <3>1, <4>1, <4>2, <4>3 DEF Held
      <3>3. Copies(m)'
        BY <1>0, <2>1, <2>2, <3>1, <3>2 DEF Copies, Row
      <3> QED BY <1>0, <2>2, <3>1, <3>3 DEF Counted, Held, Exists
    <2>3. CASE lock[m] # w
      <3>1. draft[m] \in Row
        OBVIOUS
      <3> QED BY <1>0, <2>3, <3>1 DEF Counted, Held, Exists, Copies, Row
    <2> QED BY <2>2, <2>3
  <1>3. \A u \in Txns : Timed(u)'
    BY <1>0 DEF Timed
  <1>4. \A m, n \in Msgs : InOrder(m, n)'
    BY <1>0 DEF InOrder
  <1> QED BY <1>1, <1>2, <1>3, <1>4

LEMMA StepInv == IInv /\ [Next]_vars => IInv'
  <1> SUFFICES ASSUME IInv, [Next]_vars PROVE IInv'
    OBVIOUS
  <1>1. CASE \E t \in Txns : Begin(t) \/ Commit(t)
    BY <1>1, BeginInv, CommitInv
  <1>2. CASE \E w \in Workers : Claim(w) \/ CommitBatch(w) \/ Abort(w)
    BY <1>2, ClaimInv, CommitBatchInv, AbortInv
  <1>3. CASE \E m \in Msgs : Publish(m) \/ PublishFails(m)
    BY <1>3, TurnInv
  <1>4. CASE UNCHANGED vars
    BY <1>4 DEF vars, IInv, Typed, Counted, Held, Exists, Copies, Timed,
                InOrder, Before
  <1> QED BY <1>1, <1>2, <1>3, <1>4 DEF Next

-----------------------------------------------------------------------------
\* The inductive invariant holds of every reachable state.
THEOREM Invariance == Spec => []IInv
  BY InitInv, StepInv, PTL DEF Spec

\* No message is tried more often than the limit, and FAILED means that every
\* try was used, in the row its holder is writing too.
THEOREM TypeCorrect == Spec => []TypeOK
  <1>1. IInv => TypeOK
    <2> SUFFICES ASSUME IInv PROVE TypeOK
      OBVIOUS
    <2>1. \A m \in Msgs : Counted(draft[m])
      BY DraftCounts
    <2>2. left \subseteq {m \in Msgs : lock[m] # Nobody}
      BY DEF IInv, Typed, Held
    <2> QED BY <2>1, <2>2 DEF IInv, Typed, TypeOK, Counted
  <1> QED BY <1>1, Invariance, PTL

\* The broker has copies of committed events only, and one of every event
\* whose row says PUBLISHED.
THEOREM SentIsCommittedHolds == Spec => []SentIsCommitted
  <1>1. IInv => SentIsCommitted
    <2> SUFFICES ASSUME IInv, NEW m \in Msgs
                 PROVE /\ copies[m] > 0 => ended[Writer[m]] > 0
                       /\ row[m].status = "PUBLISHED" => copies[m] > 0
      BY DEF SentIsCommitted
    <2>1. Copies(m) /\ Held(m)
      BY DEF IInv
    <2>2. row[m].status = "PUBLISHED" => draft[m] = row[m]
      BY <2>1 DEF Held
    <2> QED BY <2>1, <2>2 DEF Copies
  <1> QED BY <1>1, Invariance, PTL

\* Every copy beyond the first stands for a try recorded as failed or for a
\* run that died.
THEOREM DuplicatesAreExplainedHolds == Spec => []DuplicatesAreExplained
  <1>1. IInv => DuplicatesAreExplained
    BY DEF IInv, Copies, DuplicatesAreExplained
  <1> QED BY <1>1, Invariance, PTL

\* Without a fault only a message in a batch, or one that failed, is
\* overtaken by an event of a transaction that began later.
THEOREM OvertakesOnlyTheFailedHolds == Spec => []OvertakesOnlyTheFailed
  <1>1. IInv => OvertakesOnlyTheFailed
    BY DEF IInv, InOrder, OvertakesOnlyTheFailed
  <1> QED BY <1>1, Invariance, PTL

\* An event whose row is committed as PUBLISHED or FAILED is not sent again,
\* whatever batches overlap.
THEOREM SettledForGoodHolds == Spec => SettledForGood
  <1> DEFINE Quiet == \A m \in Msgs : copies'[m] # copies[m] =>
                          row[m].status = "PENDING" /\ row'[m] = row[m]
  <1>1. IInv /\ [Next]_vars => [Quiet]_vars
    <2> SUFFICES ASSUME IInv, Next, NEW m \in Msgs, copies'[m] # copies[m]
                 PROVE  row[m].status = "PENDING" /\ row'[m] = row[m]
      OBVIOUS
    <2>1. PICK k \in Msgs : Publish(k) \/ PublishFails(k)
      BY DEF Next, Begin, Commit, Claim, CommitBatch, Abort, Release
    <2>2. Turn(k) /\ row' = row
      BY <2>1 DEF Publish, PublishFails, Turn
    <2>3. m = k
      BY <2>1 DEF Publish, PublishFails, IInv, Typed
    <2> QED BY <2>2, <2>3, TurnFacts
  <1>2. Spec => [][Quiet]_vars
    BY <1>1, Invariance, PTL DEF Spec
  <1> QED BY <1>2 DEF SettledForGood
=============================================================================
