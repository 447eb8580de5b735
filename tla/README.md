# Verification of the HKT procurement portal

TLA+ modules, TLC configurations and machine-checked proofs for the backend of
the portal (`src/app`, FastAPI + SQLAlchemy over PostgreSQL, Celery workers,
Redis) and for the parts of its web frontend that keep state of their own
(`src/procurement-portal-frontend`: session, auction rooms, notifications).
Paths are relative to `src/app`, those with `packages/` and `apps/` to the
frontend.

## 1. Inventory

The portal takes a purchase from a request to a payment:

    requisition --submit--> workflow --approve--> requisition APPROVED
        --convert--> RFQ --bids / live auction--> award --> purchase order
        --> shipment notice --> goods receipt --> invoice (three-way match)
        --> payment --> ERP / gateway webhooks

Every document is a row with a `status` column; a service method loads the row,
tests the status, changes it and flushes.  One HTTP request is one session and
one database transaction (`db/session.py`, `get_db`): commit at the end,
rollback on an exception.  PostgreSQL runs at its default, READ COMMITTED, and
almost no read takes a lock (`with_for_update` appears in a handful of places).
Components call each other in-process and share the transaction.  Outside of
requests, Celery beat runs periodic tasks in sessions of their own.

The browser talks to it over REST and two kinds of sockets.  Every tab has its
own copy of `packages/utils/src/api.ts` and of the stores; tabs share the
cookies.  Sockets are fed from Redis channels, to which services publish while
their transaction is still open; a page that was not subscribed at that moment
never hears of it and depends on the intervals of its queries.

| component | state it keeps | operations | what makes it correct | hard behaviour |
|---|---|---|---|---|
| Approval workflow engine (`modules/workflow`) | template, instance (status, current step), tasks, delegation rules | instantiate, advance (approve, reject, return), cancel, pause, resume, force_advance, simulate | steps cleared in order, none bypassed; a maker never approves; somebody can always act; the document follows the workflow | concurrent votes on a group, one task decided twice, cancellation against the last approval, lock order |
| Workflow SLA timer (`tasks/sla_timers.py`) | `sla_status` and assignee of a task | one scan of all pending tasks | every neglected task escalates up to CRITICAL | runs beside the approver; a late beat jumps over rungs |
| Requisitions (`modules/requisition`) | status, lines, revision, budget reservation | create, submit, withdraw, approve, reject, amend, merge, split, convert | one decision per submission; the budget is never exceeded | double submit, amendment while a workflow runs, check-then-write of budgets and numbers |
| Purchase orders (`modules/purchase_order`) | status, lines with ordered / received / accepted / open quantity | create, approve, send, acknowledge, record_grn_receipt, amend, close, cancel | the open quantity is what was ordered and not received | receipts against a changing order |
| Goods receipt (`modules/grn`, `modules/asn`) | GRN status, lines with received / accepted / rejected | create, quality_inspection, confirm, cancel, consignee confirm / reject | a receipt is counted once; never more than ordered | two GRNs for one open quantity, confirmation repeated |
| Invoices (`modules/invoice`) | status, match status, lines | create, submit, three_way_match, approve, reject, dispute, early payment | what is approved was received, at the agreed price | several invoices for one order |
| Payments (`modules/payment`) | payment records, paid amount of the invoice, disputes | schedule, process, live payment, ERP and gateway webhooks, disputes | an invoice is paid once, paid_amount is the sum of the completed payments | webhooks duplicated or out of order, double processing |
| Live auctions (`modules/bid/live_bid_service.py`, `tasks/auction.py`) | auction status, closing time, extensions, bids, winner, proxy floors | create, open, submit, close, release, cancel, proxy bids | the winner is the lowest valid bid, every bid undercuts the best one, every auction ends | bids racing the closing task and extending the end; transitions validated on rows read without a lock |
| Auction rooms (`useAuctionSocket.ts`, `useAuction.ts`, the supplier's two screens) | what the socket told, what the queries read | connect, hear, poll, bid | the screen shows the committed auction | messages published before the commit, sockets that break, two sources for one value |
| Browser session (`packages/utils/src/api.ts`, `authStore.ts`, `useAuth.ts`; `auth/service.py`) | access token in memory, session in sessionStorage, cookies of the host, refresh call and queue; sessions with their Redis marks | log in, open a page, send, renew after a 401, sign out | a tab acts for the user it shows; every request ends; a sign-out ends one's own session | tabs share cookies; concurrent 401s; reloads and lost answers during a rotation |
| Notifications (`modules/notification`, `useNotifications.ts`, `notificationStore.ts`) | rows; list, badge and requests of a page; socket | dispatch, push, poll, mark as read | the badge and the list are right in the end | pushes before the commit, overtaken answers, optimistic clicks |
| Sealed bids (`modules/bid/service.py`) | bid status, versions | draft, submit, revise, withdraw, open | nothing is readable before the opening | deadline |
| Outbox (`events/outbox_worker.py`, `publisher.py`) | outbox rows, retry count | append in the business transaction, publish a batch | every committed event is published or given up, again only after a failure, and nothing uncommitted goes out | overlapping runs, a run that dies between publish and commit, lost confirmations |
| Idempotency middleware (`core/idempotency.py`) | key -> stored response (Redis) | look up, execute, store | a retry does not execute twice | retry while the first is in flight |
| Audit trail (`modules/audit/service.py`) | hash chain of records | log, verify_chain_integrity | one chain, unbroken | two transactions extend the same record |
| Contracts (`modules/contract`) | status, utilisation, renewals | lifecycle, update_utilization, auto_renew | never used beyond its value | utilisation under a row lock; renewal by a task |
| Sourcing, evaluation, vendors, tickets, approval rules, integration | status machines and lookups | see `PROJECT.json` | transitions follow the FSM tables | deadlines moved by tasks |
| Organisation, catalogue, analytics, documents, the other pages | | | | I/O, master data and read-only queries |

`PROJECT.json` lists all components with the status of their models, and every
hazard of the code that is hard to test at the line where it bites.

## 2. Modules

| module | models | state |
|---|---|---|
| `WorkflowTemplate` | the constants of one approval (users, makers, template, delegation) and the pure decisions: who is eligible, convergence, the next step, what a finished workflow does to its document | none |
| `WorkflowEngine` | `modules/workflow/service.py` with atomic requests, the SLA timer and a requisition | `status`, `current` (WorkflowInstance), `task`, `assigned`, `actedBy` (WorkflowTask), `entity` (Requisition.status), `outside` (history: the requisition's own service decided it), `forced` (ADMIN_INTERVENTION events), `delegating` (rules in force), `age`, `sla` |
| `DocumentApproval` | the abstract promise: the steps that apply are cleared in order and the last one approves the document; it is decided once, unless somebody decides it outside the workflow; the order holds until a step is approved more often than it asks for | `decision`, `cleared`, `outside`, `surplus` |
| `WorkflowRace` | the same requests as READ COMMITTED transactions with row locks, in several sessions | the committed rows and one transaction record per session |
| `WorkflowEngineProofs` | theorems about `WorkflowEngine` and their proofs | |
| `WorkflowRaceProofs` | theorems about `WorkflowRace`, its refinement of `WorkflowEngine` among them | |
| `PurchaseOrder` | `modules/purchase_order`: status under `PO_FSM`, quantities of the lines, amendments, the use of a rate contract (`ContractService.update_utilization`) | `po`, `ordered`, `received`, `open`, `total`, `amendments`, `workflows`, `utilized` |
| `Receiving` | `modules/grn` and `modules/asn` on top of the orders: receipts, inspection, confirmation, shipment notices, fast intake | `grn`, `against`, `arrived`, `accepted`, `qc`, `again` (history: receipts confirmed or inspected once confirmed), `asn`, `shipped` |
| `ReceivingProofs` | theorems about `Receiving` and their proofs | |
| `LiveAuction` | `live_bid_service.py`, `auction_fsm.py` and the two tasks of the beat, for one lot | `db` (committed row with its bids), `draft` (the row as its holder has written it), `holder` (row lock), `reading` (a transition validated on an unlocked read), `seen` (the closing time an open read with it), `proxies`, `floors`, `config`, `now` |
| `AuctionRoom` | the rooms of that auction: socket hook, queries, terminal and floor | `up`, `inbox`, `sent`, `heard`, `polled` |
| `LiveAuctionProofs` | theorems about `LiveAuction` and their proofs | |
| `AuctionRoomProofs` | theorems about `AuctionRoom`, which carry those of `LiveAuction` over to it | |
| `BrowserSession` | the tabs of one browser, their session and the authentication service | `sess` (user_sessions and Redis marks), `jar` (cookies), `disk`, `mem`, `shown`, `page`, `goal`, `req`, `renewing`, `call`, `gone` |
| `BrowserSessionProofs` | theorems about `BrowserSession` and their proofs | |
| `NotificationStream` | `notification/service.py`, `consumer.py` and `websocket.py`, `useNotifications.ts` and its store, for one user | `db`, `open`, `ended`, `socket`, `inbox`, `shown`, `badge`, `loaded`, `flights`, `failed` (a list did not load while the socket was up), `clicks`, `done` |
| `NotificationStreamProofs` | type correctness of `NotificationStream` | |
| `Outbox` | `events/publisher.py` and overlapping runs of `events/outbox_worker.py` | `row` (committed), `draft` (as the run holding the lock wrote it), `lock`, `left`, `copies`, `began`, `ended` |
| `OutboxProofs` | theorems about `Outbox` and their proofs | |
| `MC...` | small templates, directories, orders, auctions, browsers and batches for TLC | |

How they compose: `WorkflowEngine` and `WorkflowRace` both extend
`WorkflowTemplate`, so a vote, an exclusion or a convergence is decided by the
same operators; `WorkflowEngine` instantiates `DocumentApproval` under a
refinement mapping (`KeepsPromise`) and `WorkflowRace` instantiates
`WorkflowEngine` (`SerialIsAtomic`).  `Receiving` extends `PurchaseOrder` and
calls its `RecordReceipt`, as `GrnService` calls `record_grn_receipt`.
`AuctionRoom` extends `LiveAuction` and conjoins every action of the server that
publishes with the delivery of its messages.

### The engine (`WorkflowEngine`)

A task is identified by its step and the approver it was resolved for;
`assigned[s][u]` is who it is assigned to after delegation or reassignment.
Each operation of the service is one action, with every call it makes:
`Approve` is `advance(APPROVE)` with the maker-checker test, the delegation
test, `_check_parallel_convergence`, the cancellation of siblings,
`_advance_to_next_step`, `create_tasks_for_step` and
`_sync_entity_on_completion`.  A request that raises (for instance
NO_ELIGIBLE_APPROVER while entering a step) is rolled back by `get_db`, and so
is no action.  `RETURN` takes the same branches as `REJECT`.  `SlaScan` is one
beat of the Celery task over all pending tasks; `age` abstracts the elapsed
share of the SLA to the four marks the task compares with, and `Timed` are the
steps that have an SLA at all.

The requisition's own service decides a requisition without the engine.
`Withdraw` does so always.  `POST /requisitions/{id}/approve` and `reject` take
`task_id` as an optional query parameter (`requisition/router.py:413-451`): without
it, and for an approval also with the task of somebody else, the service writes the
status and never calls `advance` (`ApproveDirectly`, `RejectDirectly`).  The
instance stays ACTIVE, its approvers go on voting, and `_sync_entity_on_completion`
leaves the decided document alone.  Only an approval with a task of one's own and a
rejection with any task call `advance`, without an `instance_id`, and raise.

An approval is a *surplus* (`Surplus`) when a SEQUENTIAL step had one already: its
resolver may name several users, each gets a task, and each approval moves the
instance on from wherever it is.

### The engine under concurrency (`WorkflowRace`)

A request is `Load` (unlocked reads and guards), `Decide*` (the first UPDATE is
flushed, the rows it depends on are read), `Flush` (the other UPDATEs; the
document is read) and `Commit`.  A step waits while another session holds a
row lock it needs; `Rollback` is PostgreSQL's deadlock detector, or an
exception.  An UPDATE carries only the columns its session changed, so a status
it did not assign keeps the committed value.  A withdrawal and the requisition's
own approval and rejection (`LoadDirect`) lock nothing but the requisition, at their
commit.  Approvers are fixed here; pause,
resume, delegation and the timer are covered by `WorkflowEngine` only.

### Orders and receipts (`PurchaseOrder`, `Receiving`)

A handler that only checks the FSM and assigns the status is `Moves`; creation,
amendment, closing, cancellation and receipts are actions of their own.  All of
a confirmation is one action: the receipt's status, the lines of the order, its
status.  `Amended` has no guard on the status because `amend_po` has none, and
`ConfirmGrn` and `QualityInspection` none on the receipt's; `again` remembers the
receipts this happened to once they were confirmed.  The lines of a receipt need not belong to
the order it is against (`create_grn` does not ask), those of a shipment notice
do.  A value is a quantity (every unit price is 1), and an amendment changes one
line or, with `value_change`, the value alone.  The approval of an order by its
workflow is `WorkflowEnds`, at any moment and with any result; `WorkflowEngine`
is the detail of it.

### One live auction (`LiveAuction`)

A bid takes the row with `SELECT ... FOR UPDATE` before it looks at anything
(`Bid`), and its transaction answers for the proxies one after the other
(`ProxyBid`) before it commits.  Opening, closing, cancelling and releasing read
the row *without* a lock and validate the transition (`Read`), and take it only
when their UPDATE is flushed (`Write`), possibly after other transactions have
changed it; columns they did not assign keep the committed value.  `seen` is the
closing time an opening read, which is the one it will announce.  `Commit` and
`Abort` end any of them.

### Its rooms (`AuctionRoom`)

`heard` is the state of `useAuctionSocket`, `polled` the data of the queries,
and the `Shown...` operators say which of the two a screen prefers: the terminal
(`rfqs/[id]/auction`) the socket, the floor (`auctions/[id]/live`) the query for
the status and the socket for the price.  Messages are published by `TakeBid`,
`TakeProxyBid` and `Announce` while the row is held, so before the outcome is
known, and only to rooms that are subscribed.  A price comes from the row as its
holder has it; a status comes with the closing time its request read before it had
the lock (`StatusNews`), which a bid may have moved meanwhile.

### The browser's session (`BrowserSession`)

One action per handler of the frontend (`Login`, `Open`, `Send`,
`StartRenewal`, `JoinQueue`, `RenewalWon`, `RenewalLost`, `Logout`, ...), and two
for a refresh on the server: `RefreshCheck` (marks, grace entry, portal) and
`RefreshRotate` (a new session, the old token spent), because the handler awaits
Redis and the database in between.  `Login` with a password sets the portal's
cookie and the shared one; the second step of MFA (`/auth/mfa/verify`) sets the
portal's alone and leaves in the shared one what was there (`LoginJar`).  A refresh
call whose page is unloaded goes on in `gone`.  `Expire` and `GraceEnds` are the two clocks.

### Notifications (`NotificationStream`)

`Dispatch` pushes before `Commit` or `Rollback`.  A GET of the list is a
`flight`: `Count` and `List` are its two statements, `Answer` writes the store.
`Refreshed` starts the queries again without aborting the requests they leave
behind, whose answers are still written.  `Fail` is a GET that fails, its retries
included.  `Polls` is the refetch interval, which runs only while the store does not
call itself connected: after a failure with the socket up nothing loads the list
again until the next push, the next click that succeeds or the loss of the socket.  Nothing in the
repository starts `NotificationConsumer` except its tests; its notifications
(`Nameless`: pushed before the row has an id) are in the model as its code would
send them.

### The outbox (`Outbox`)

`Begin` and `Commit` are a business transaction with its INSERTs; one that is
rolled back never commits.  A run claims the oldest PENDING rows nobody holds
(`Claim`), takes them in turn (`Publish`, `PublishFails`: the broker has the
message or not), and ends with one commit for all (`CommitBatch`) or none
(`Abort`: the process dies, a statement or the commit fails).  `draft` is what
the run has written so far.  The claim is one statement and one action; a row
that another run lets go while the statement scans could be skipped in favour of
a later one, which the properties allow.  A run that cannot connect changes
nothing, as the code returns at once.  What the broker does with a message it
has accepted (routing, queues) is not in the model.

## 3. Runs

| run | expects | question |
|---|---|---|
| `workflow_approval` | pass | A single approval asked of two, a conditional step that does not apply, a MAJORITY of three and a quorum that resolves to the maker alone: is a step ever bypassed without a surplus approval, is somebody always left to act, is a document ever rejected by arithmetic, do makers stay out, does the document follow its workflow or its own service (`KeepsPromise`), does every neglected task turn CRITICAL? |
| `race_requests` | pass | Two sessions race every kind of request, the requisition's own withdrawal, approval and rejection included: does the engine decide the requisition once, and is a decided one changed only where its own service decided it; do votes avoid lock cycles; does every request end? |
| `race_serial` | pass | With one session, is every transaction, those that bypass the engine included, exactly the one atomic action of `WorkflowEngine`? |
| `race_stuck` | violation | Two simultaneous approvals of an ALL group both see the other as pending: nobody is left to act. |
| `receiving_complete` | pass | One order of two lines, two receipts, a shipment, an amendment and cancellations in any order: is the open quantity what was ordered less what the confirmed receipts accepted, is what counts as received inspected and confirmed, and is a complete order complete? |
| `receiving_open` | violation | An inspection of a receipt that is confirmed already changes what it accepted and leaves the order's open quantity as it is. |
| `session_portals` | pass | A buyer and, through MFA, a supplier in two tabs of one browser: does a tab ever act for somebody else, does a renewal stay with the user it is for, does the 401 queue always have a refresh call, does every request end, does a sign-out end only one's own session? |
| `auction_server` | pass | Three suppliers, with and without proxies, against the beat and the buyer: is the lowest valid bid the winner, does every bid undercut, does every auction end? |
| `auction_room` | pass | With messages in flight, a broken socket, a failing transaction and a buyer who opens and cancels at any moment: does a room that lost nothing show what is committed, the end of the auction too unless a late opening overtook an extension, and does the floor stop offering bids? |
| `auction_rank` | violation | A supplier who is outbid goes on being shown as first on the terminal. |
| `notification_bell` | pass | Without a socket, does polling make list and badge right in the end; do entries that were never committed leave the screen, unless every list failed to load while the socket was up? |
| `outbox_batches` | pass | Two overlapping runs that fail and die: is every copy explained, nothing uncommitted sent, nothing settled sent again, the order kept unless something failed, and does every event settle? |

**Bounds.**  Workflow: one template of four steps for four people, a maker, who is
also the administrator late tasks go to, and three approvers.  Step 1 is SEQUENTIAL
and asked of the maker and ann (where the maker has delegated, two approvals can
arrive, and the second is a surplus); step 2 does not apply; step 3 is a MAJORITY of
three; step 4 is a quorum of two that resolves to the maker alone: with his delegate
the group is too small, without one the escalation role decides.  bob delegates to
the maker and the maker to cat, and both rules come and go.  Only step 1 has an SLA
(`Timed`), so that the ladder, which is finite as it is, does not multiply with
the votes.  Two sessions: every race the code is exposed to is between two
requests; two steps in `race_requests` (two of three, then one) and three in
`race_serial` (all of two, one, nobody).

Receiving: one order of two lines, so that one line can be complete and the other
not, and quantities of one, so that a second receipt is an over-receipt; two
receipts, an amendment and a shipment reach every guard with either outcome.
`MaxReceived`, `MaxAmendments` and `MaxQuantity` only keep the state space
finite.  Receipts that name the lines of *another* order need two orders, which
is too much for TLC with everything else on; the theorems cover them.
`receiving_open` has the same bounds.

Session: two tabs on two portals, one request of data each besides the profile,
four acts of the users, one expiry and one lost or failing call.  `MaxLive` is
one where the code's default is five, so that a second sign-in of a user revokes
the first session, as a sixth does there.  Auction: three bids at three prices,
two ticks of the clock (before and after the closing time), one failing
transaction.  A tick passes only between transactions: one lasts less than a
tick.  The rooms have two suppliers, one of them watched, two messages in flight,
one bid typed at one price (the other supplier's proxy has a second) and one broken
socket; `auction_server` has the three prices.  Notifications: two of them, one
view, two list requests at once (`Slots`), one broken socket, one click, and one
failure, which a transaction, a click or a list may take; a page of the list holds
every notification.  Outbox: three events of two transactions, so
that two have the same `created_at`; batches of two, so that a batch leaves
something; two tries; one run that dies.

**Deadlock** is not checked in these runs because the system may stop: a decided
document takes no further request, an auction that is over no bid, a browser
waits for its user, and an empty outbox for an event.

**Fairness.**  `FairSpec` of the engine assumes that Celery beat keeps running
the scan and that time passes (`WF` of `SlaScan` and `TimePasses`); no person
has to act.  `FairSpec` of the race assumes that the server runs each request it
accepted (`SF` of `Proceed`: a session waiting for a row lock is granted it in
turn, so it proceeds if it can again and again); no client has to send one.  The
auction assumes that time passes, that the beat's two tasks run and that
transactions end; nobody has to bid or to do anything as the buyer.  Its rooms
add that a socket which is up delivers what it carries and that the queries'
intervals come round; no socket has to reconnect.  In the browser, calls are
answered and answers handled (the axios timeout and the server's end them), and
nobody has to click.  Notifications are the same, with queries that poll while
there is no socket.  The outbox assumes that the beat starts runs, that one of
them reaches the broker from time to time, and that a run which has claimed rows
goes on unless it dies; publishing may fail every time.

## 4. Proofs

`WorkflowEngineProofs` proves, for every number of steps and users, every
template, condition and directory:

- `TypeCorrect` — `Spec => []TypeOK`.
- `EntityFollowsInstanceHolds` — the requisition's status is the one its
  workflow calls for.
- `MakerNeverApprovesHolds` — by the invariant `NoMakerInvolved`: no *assignee* of an
  open task is a maker either, which every way of assigning a task (resolution,
  delegation, escalation) preserves.  The one exception is in the property as it is
  in the code: the administrator to whom the SLA timer reassigned the task, from the
  Reassign rung on.
- `NoStepBypassedHolds` and `OpenTasksAtCurrentStepHolds` — by the invariant
  `InOrder`: while the instance is open its current step is not cleared, those after
  it are untouched, and a task still open belongs to a step whose approvals have not
  settled it, or to a SEQUENTIAL one.  The exception is the surplus approval of such
  a step (`SurplusIn`, `AfterSurplus`), which the code allows for every step that
  resolves to several users; the theorems say that nothing else bypasses a step.
- `EntityFollowsInstanceHolds` and `KeepsPromiseHolds` count with the decisions the
  requisition's own service takes (`outside`): the workflow goes on after them and
  never overrides them.  Every step of the engine is a step of `DocumentApproval` or
  a stutter; the abstract order is given up from the first surplus approval on, and
  nothing else is.
- `SomebodyToActHolds` and `RejectedBySomebodyHolds` — by the invariant `Attended`:
  nothing is rejected before the instance fails, and the group of the current step
  is one on which the convergence check is still undecided; then somebody of it is
  pending.  What ends an instance as a failure is a rejection, or a group that
  opened smaller than its quorum, which the code does not check when it opens it
  (section 5).

None of these has a hypothesis besides the types of the constants: templates with
several approvers for a single approval, quorums no group reaches and makers who are
administrators are all included, in the run as well.

`WorkflowRaceProofs` proves, for any number of sessions, users and steps and every
template:

- `RaceTypeCorrect`, and `NoLockCycleHolds`: two votes that cancel nobody's task
  never wait for each other.  The invariant `IInv` has `LocksInOrder`: a vote takes
  its own task first and the instance next, so that who holds the instance wants
  nothing another such vote holds; and `Exclusive`: a row has one holder.
- `DecidedOnceHolds`, for every set of requests: the engine decides a requisition once
  and a decided one never waits again; it is decided a second time only where its own
  service, which takes no lock of the engine, is one of the two (`outside`).  `Alone`
  is the reason: a transaction of the engine that is about to decide the requisition
  holds the lock of the instance, and nobody but the requisition's own service has
  written its status since that was read.
- `SerialIsAtomicHolds`, assuming `OneAtATime` (there is at most one session, as in
  `race_serial`): the transactions refine `WorkflowEngine`, each by the one action
  of its operation at its commit, and all steps before it are stutters.  `SInv`
  says what the transaction has loaded and decided is what the committed rows
  say; with a second session just that fails, as `race_stuck` shows.

`ReceivingProofs` proves, for every finite set of lines, every set of orders,
receipts and shipments and all bounds, that `OpenIsWhatIsMissing`,
`CompleteWhenClosed` and `ReceivedIsConfirmed` hold.  The first compares the open
quantity with the sum of what the confirmed receipts accepted, as
`specs/SPEC_14_PURCHASE_ORDER.md:165` defines it, for every line of no receipt in
`again`; `receiving_open` shows what those do.  The three are not inductive
alone.  `IInv` adds `Unplaced` (a line whose order does not exist is in no receipt
and no shipment, because only open quantities are accepted) and `AcceptedArrived`
(what is accepted is on the receipt); `RecordReceiptStep` is the heart: received
quantities only grow, and an order becomes complete only when `AllReceived`
holds.  `CompleteWhenClosed` survives amendments only because every amendment
takes the order out of FULLY_RECEIVED and CLOSED.  `ReceivingTypeCorrect` adds the
values: the sum `Value` over an order's lines is a recursive function on sets, and
that it exists, is unique and is an integer is proved by a smallest
counterexample (`SmallestSubset`, `SumsAgree`, `SumExists`), which is why the set of
lines is assumed to be finite.  `WorkflowsStarted` bounds the workflows of an order
by its amendments.

`LiveAuctionProofs` proves, for any number of suppliers, prices, floors and
configurations, `AuctionTypeCorrect`, `EachBidUndercutsHolds` and
`WinnerIsLowestHolds`.  The invariant says of the row its holder is *writing*
what the properties say of the committed one, and adds `LastWord`: once an
auction has concluded, the beat has no request under way and the only one who
may still write it is the buyer, whose release finds it CLOSED.  That is what
makes transitions validated on an unlocked read harmless to the result, and it is
an argument about who may do what, not about locks.

`AuctionRoomProofs` proves `RoomsRunTheAuction` (the server behind the rooms is a
`LiveAuction`, so that its theorems hold here too), `RoomTypeCorrect` and
`QuietRoomIsRightHolds` for any number of rooms and messages in flight.  The
invariant is `Informed`: what a room has heard, overwritten by what is under way to
it in order, is the row *as it is being written*, since messages leave before the
commit; it holds until the first message is lost or the first transaction fails.  Of
the closing time it says a little less (`MayEnd`): an opening announces one it read
before it had the lock.  `Grown` bounds how wrong that can be: closing times only
grow, an auction that is EXTENDED has been extended, and an opening under way read
the closing time of the row or one from before an extension.

`NotificationStreamProofs` proves `StreamTypeCorrect` for any number of
notifications, views and requests.  The type invariant of that module has its hard
parts in it: no list waits for two answers although queries are started again
without ending the earlier ones, which holds because there are as many slots as
requests wanted (`SlotsSuffice`), and a row is in the table only once its
transaction has ended.

`BrowserSessionProofs` proves for any number of tabs, users, portals and requests:

- `TypeCorrect` (no cookie, stored token or answer names a session that was not
  created) and `QueueHasRenewalHolds`.  The invariant adds that a call past its
  check carries a token, that a page which is still booting has sent nothing of its
  own, and that every queued request sits behind a renewal.
- `RenewalKeepsUserHolds`, in two halves.  What a renewal answers is a session of
  the user whose token it was sent: that rests on `Heirs` (a session's successor is its user's, until
  the grace entry is gone) and on `SameUsers` (sessions never change hands).
  And the refresh token in sessionStorage is the one of the session the tab's
  requests run under: saving in several merges drops tokens, and
  `OwnSession` adds why it never mixes them: at the login page there is no user in
  the stored session, so that a sign-in with MFA, which stores no refresh token,
  does not inherit one.

- `TabKeepsItsUserHolds`, for the runs in which no tab goes on with a refresh whose
  token was another user's (`OwnAnswers`, an action formula that constrains the
  behaviour and not the constants).  It says that such an answer is the *only* thing
  that can change whom a tab acts for.  The invariant `OwnUser` ties together the
  stored session, the access token, the profile that is being read and the pages of a
  tab, which every merge of the stored session and every queued request has to keep.
- `LoneTabKeepsItsUser` and `LoneTabLogoutHolds`, assuming `OneTab` (one tab of the
  portals is open).  `OwnAnswers` is then proved and not assumed: `Alone` says that
  the shared key is never set without the tab's own portal's and that no other key
  holds a cookie (`OwnJar`), so that the fallback over the cookies stops at the tab's
  own; after a sign-in with MFA the shared key may still hold a former user's cookie,
  which is never reached.  And access token, cookie, stored session and every refresh
  call in flight speak for one user (`SpeaksFor`).  A refresh call that is still under
  way at the server when its page is left changes sessions but never the cookies, and
  a new user can only sign in when nothing of the last one is left in the tab.

Without `OwnAnswers` the first of these is false for some values of the constants: a
tab without a refresh token of its own (after a sign-in with MFA until its first
renewal, or once it has started without a stored session) presents the browser's
cookie, which another tab of the same portal may have replaced, and the grace entry
answers without the test of the portal.  With one tab to a portal and one user each, as in the
run, TLC finds no such case within the bounds.

`OutboxProofs` proves all four safety properties and the action property of
`Outbox`: `SentIsCommittedHolds`, `DuplicatesAreExplainedHolds`,
`OvertakesOnlyTheFailedHolds`, `SettledForGoodHolds` and `TypeCorrect`, for any
number of events, transactions and overlapping runs.  The invariant adds `Held`:
whatever its holder has written of a row is nothing (its turn has not come) or
exactly one step from the committed row.  So a run that dies takes at most one
copy of each message off the record, which the fault counter pays for.

**Only model-checked.**  Liveness (`NeglectedTaskTurnsCritical`,
`EveryRequestEnds`, `RequestsEnd`, `AuctionEnds`, `FloorSeesTheEnd`,
`PollingCatchesUp`, `GhostsVanish`, `EveryEventSettles`), which this prover does not
reach.  `TabKeepsItsUser` and `LogoutEndsOwnSession` hold of several tabs only
depending on who shares the browser: for one tab they are theorems, for two tabs on two
portals they are model-checked.
Every other property of a passing run is a theorem.  RECURSIVE operators are not
used.

## 5. What the checks found

Three disagreements have a run and are recorded as findings: `race_stuck` (the
plan asks for exactly one convergence check under two simultaneous approvals),
`receiving_open` (the specification's open quantity follows what receipts accepted,
the code's does not once a receipt is confirmed) and `auction_rank` (a rank that is
only ever sent to the vendor who bid, and that screens prefer for ever).  Met while
modelling, and not given a run of their own:

*Workflow*
- the SLA timer reassigns to the first PROCUREMENT_ADMIN without a maker test
  (`tasks/sla_timers.py:167`), the exception in `MakerNeverApproves`;
- a quorum of 3 of 3 from which a maker is excluded is refused by the first
  approval (`workflow/service.py:648`), the exception in `RejectedBySomebody`;
- one task approved twice concurrently opens the next step twice
  (`workflow/service.py:137`); no property of `WorkflowRace` forbids that, since no
  document of the repository says what should happen to the second approval;
- a SEQUENTIAL step that resolves to several users opens a task for each, and
  each approval moves the instance on, the second one from a step nobody decided
  (`Surplus`);
- a rejection leaves the other approvers' tasks PENDING, where they keep running
  up the SLA ladder;
- `RequisitionService.withdraw` leaves the workflow open, and so do its `approve` and
  `reject` without a task (`requisition/service.py:414`, `:467`): the
  instance stays ACTIVE and its approvers go on voting.  Under concurrency their write
  can follow a decision of the engine that made their test stale, or be followed by
  one;
- `RequisitionService.reject` with a task, and `approve` with a task assigned to the
  caller, call `advance` without its `instance_id`, and the two consignee operations
  call `audit.log` with arguments it does not take: these requests raise `TypeError`
  and are rolled back;
- `_sync_entity_on_completion` swallows every exception (`workflow/service.py:1168`).

*Orders and receipts*
- `confirm_grn` has no guard: a receipt confirmed twice counts twice
  (`grn/service.py:276`), and `quality_inspection` none either: an inspection after
  the confirmation changes what was accepted and nothing else (`receiving_open`);
- `amend_po` has none either: a cancelled order comes back to life without its
  share of the rate contract (`purchase_order/service.py:476`);
- `POST /contracts/{id}/utilization` lets a client change `utilized_value`
  directly; the models have only the changes made by orders.

*Browser and sessions*
- `auth/service.py:164` revokes all sessions of a reused token and then raises, so
  that `get_db` rolls the revocation back;
- a session revoked by the session limit has no mark in Redis: its refresh token
  still renews it (`auth/service.py:394`);
- a sign-out with an expired access token is refused with a 401 the client
  ignores (`auth/router.py:171`): cookie and session live on;
- of two tabs of *one* portal with different users, one may continue as the other:
  they share the portal's cookie, which decides after a reload without a stored
  session, and in the first renewal after a sign-in with MFA, in place
  (`useAuth.ts:274`, `api.ts:231`);
- switching the company changes the token in the store and not in `api.ts`
  (`useTenantSwitcher.ts:33`).

*Auctions*
- `close_auction` does not test the closing time again: a bid that extends the
  auction can be accepted while it closes (`live_bid_service.py:394`); the bid is
  counted, the extension is not honoured;
- `open_auction` announces and validates what it read without a lock
  (`live_bid_service.py:187`, `:203`): a second opening that waits for a bid announces
  the closing time from before the extension and takes EXTENDED back to OPEN, and one
  that waits for the close reopens the auction; a cancellation that waits for it
  leaves a cancelled auction with a winner;
- proxies never answer proxies, so that the cap of five rounds is never reached
  (`live_bid_service.py:597`);
- both screens enable bidding in OPEN only, although the server takes bids in
  EXTENDED, and `sendBid` drops a bid without a socket while the page reports
  success;
- a bid that is rolled back has been announced already, and nothing takes it back.

*Notifications*
- a list that fails to load while the socket is up is not asked for again until the
  next push (`useNotifications.ts:324`): what the push before it put on the screen and
  was rolled back stays there, which is the exception in `GhostsVanish`.

*Outbox*
- once a try has failed, later events of a document go out while the earlier one
  is PENDING or FAILED; nothing retries a FAILED one, and the alert that
  `specs/SPEC_02_ARCHITECTURE.md:622` speaks of does not exist.

## 6. Plan

In order; each step is a module, its instance for TLC and, where marked (P), its
theorems.  Runs are few: a question that needs a new run replaces the least
telling one, and a component that composes with another shares its run.

1. **Invoices and payments** (P): three-way match over the receipts of
   `Receiving`, the tolerance, approval, disputes; scheduled and live payments
   with webhooks of the ERP and the gateway that are duplicated, delayed and out
   of order.  A settlement webhook delivered twice, or two `process_payment`
   requests at once, add to `paid_amount` twice in the code as it is, so that the
   promise (an invoice is paid once) has to be stated per path.
2. **Requisitions** (P): their own withdrawal, approval and rejection are in the
   workflow modules; left are submit, amend, merge, split and convert with the
   instances of `DocumentApproval`, double submission, document numbers and
   the budget reservation.
3. **Receiving under concurrent transactions**: the confirmations of two
   receipts and an amendment as read-modify-write transactions without a lock
   (lost updates of `received_quantity`), with the row lock of the contract.
4. **Audit chain** and **idempotency middleware**: forks of the chain, two
   retries in flight.
5. Contracts (renewal task), tickets, sealed bids and RFQs, sourcing.

Also worth proving: that a template edited under running instances keeps `KeepsPromise` only when
no step is inserted before the current one.

## 7. Not modelled, and why

- The resolver's queries and the condition evaluator: who a step resolves to and
  whether its condition holds are constants; what matters to the engine is every
  combination of them.
- Templates edited while instances run on them (planned with 2).
- pause, resume and the SLA timer inside `WorkflowRace`: they lock single rows and
  would multiply its states; their effect is in `WorkflowEngine`.
- Prices, taxes, currencies, wording, numbers of documents, and the content of
  events and audit records as data.
- Emulated personas and the switch of company in the browser; permissions, roles,
  MFA codes and lock-out on the server.
- Sign-in over SSO (`auth/router.py:335`, `:372`), which sets the portal's cookie
  alone, as MFA does.
- Auctions: creation and admission (given), several lots, the closing warning,
  pausing (no route reaches it), the buyer's monitor and the countdown.  Prices are
  whole amounts: a proxy's percentage decrement is rounded down, where the code
  keeps four decimals (`live_bid_service.py:250-255`, `models.py:126`) and may exceed
  the exact price by less than 0.0001.
- Notifications by e-mail, SMS and digest, preferences, toasts; TLC runs one view of
  the list (all), the proved type invariant covers any number.
- Master data, catalogue, analytics, documents and the other pages of the
  frontend: I/O and read-only queries without a protocol over time.

**Coverage.**  The models translate some 4,800 lines of the service layer and of
the frontend's hooks.  Most of the repository's lines are elsewhere: in pages and
tables, in generated types, in schemas and CRUD routes, which have no behaviour
over time.  The share of the implementation that is modelled is therefore small,
and is meant to be: it is the part where the order of steps matters.
