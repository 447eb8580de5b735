----------------------------- MODULE LiveAuction -----------------------------
(***************************************************************************)
(* The server's side of one live reverse auction: LiveBidService, called   *)
(* by the bidders' sockets, the buyer's requests and the beat.             *)
(*                                                                         *)
(* A transaction that writes holds the auction's row until it ends: a bid  *)
(* takes it with SELECT ... FOR UPDATE before it looks at anything, while  *)
(* open, close, cancel and release read the row without a lock, test the   *)
(* transition, and take the row only when their UPDATE is flushed.  "db"   *)
(* is what is committed, "draft" what the holder of the row has written;   *)
(* one of the two outcomes, Commit or Abort, makes them equal again.       *)
(* Messages go out while the row is held, before the outcome is known; an  *)
(* open announces the closing time of the row it read without the lock.    *)
(***************************************************************************)
EXTENDS Integers, Sequences, FiniteSets

CONSTANTS
    Vendors,   \* the suppliers admitted to the auction
    Nobody,    \* the null of the code: no vendor, no price, no request
    Prices,    \* the amounts bidders think of
    FloorsOf,  \* FloorsOf[v]: the floors v may set for his proxy
    Configs,   \* the auction_config records a buyer may have stored
    BuyerOps,  \* what the buyer asks for: some of "open", "cancel", "release"
    MaxBids,   \* bound: bids in the table
    Horizon,   \* bound: the clock
    Faults     \* bound: transactions that fail after their last statement

Staff == {"beat", "buyer"}
Ops == {"open", "close", "cancel", "release"}
Statuses == {"SCHEDULED", "OPEN", "EXTENDED", "PAUSED", "CLOSING", "CLOSED",
             "RESULTS_RELEASED", "CANCELLED"}
Config == [decrementType : {"PERCENTAGE", "ABSOLUTE"}, decrement : Nat \ {0},
           reserve : Nat \cup {Nobody}, startAt : Nat, closeAt : Nat,
           trigger : Nat, duration : Nat, maxExtensions : Nat,
           allowProxy : BOOLEAN]

ASSUME AuctionAssumption ==
    /\ Nobody \notin Vendors \cup Staff \cup Ops \cup Int
    /\ Vendors \cap Staff = {}
    /\ Prices \subseteq Nat \ {0}
    /\ FloorsOf \in [Vendors -> SUBSET (Nat \ {0})]
    /\ Configs \subseteq Config /\ BuyerOps \subseteq Ops \ {"close"}
    /\ MaxBids \in Nat /\ Horizon \in Nat /\ Faults \in Nat

VARIABLES
    now,      \* the clock, in ticks
    config,   \* live_auctions.config
    db,       \* the committed row, its bids and what was handed to evaluation
    draft,    \* the same as the holder of the row sees it
    holder,   \* whose transaction holds the row
    proxies,  \* floors of the proxies the holder has still to bid for
    reading,  \* reading[a]: what a's request decided on the row it read
    seen,     \* seen[a]: the closing time in that row, for an open alone
    floors,   \* auction_participants.proxy_floor_inr
    faults    \* what remains of the bound

vars == <<now, config, db, draft, holder, proxies, reading, seen, floors, faults>>

AUCTION_FSM ==
    [SCHEDULED |-> {"OPEN", "CANCELLED"},
     OPEN |-> {"EXTENDED", "CLOSING", "CLOSED", "PAUSED", "CANCELLED"},
     EXTENDED |-> {"OPEN", "CLOSING", "CLOSED", "PAUSED", "CANCELLED"},
     PAUSED |-> {"OPEN", "CANCELLED"},
     CLOSING |-> {"CLOSED", "CANCELLED"},
     CLOSED |-> {"RESULTS_RELEASED"},
     RESULTS_RELEASED |-> {},
     CANCELLED |-> {}]

Target == [open |-> "OPEN", close |-> "CLOSED", cancel |-> "CANCELLED",
           release |-> "RESULTS_RELEASED"]

Accepting == {"OPEN", "EXTENDED", "CLOSING"}
Concluded == {"CLOSED", "RESULTS_RELEASED"}
Over == Concluded \cup {"CANCELLED"}
----------------------------------------------------------------------------
(* The bids of the auction.                                                *)

Bids == [vendor : Vendors, amount : Nat, valid : BOOLEAN]

ValidBids(bids) == {i \in DOMAIN bids : bids[i].valid}
BidsOf(bids, v) == {i \in ValidBids(bids) : bids[i].vendor = v}

\* The lowest of the bids numbered in S.
Lowest(bids, S) ==
    CHOOSE i \in S : \A j \in S : bids[i].amount <= bids[j].amount

BestOf(bids, S) == IF S = {} THEN Nobody ELSE bids[Lowest(bids, S)].amount
Best(bids) == BestOf(bids, ValidBids(bids))

Leader(bids) ==
    IF ValidBids(bids) = {} THEN Nobody
    ELSE bids[Lowest(bids, ValidBids(bids))].vendor

\* The rank of a vendor, and the null of one who has no valid bid.
Rank(bids, v) ==
    LET ahead == {w \in Vendors : BidsOf(bids, w) # {}
                     /\ BestOf(bids, BidsOf(bids, w)) < BestOf(bids, BidsOf(bids, v))}
    IN  IF BidsOf(bids, v) = {} THEN Nobody ELSE 1 + Cardinality(ahead)

\* The decrement: PERCENTAGE compares with best * (1 - decrement / 100).
DecrementMet(amount, best) ==
    best # Nobody =>
        IF config.decrementType = "PERCENTAGE"
        THEN 100 * amount <= best * (100 - config.decrement)
        ELSE amount <= best - config.decrement

\* The largest amount that meets it, which a proxy bids; amounts are whole, where
\* the code keeps four decimals of a percentage.
AutoBid(best) ==
    IF config.decrementType = "PERCENTAGE"
    THEN (best * (100 - config.decrement)) \div 100
    ELSE best - config.decrement

AboveReserve(amount) == config.reserve # Nobody /\ amount > config.reserve

\* Mutant: any amount below the best price will do.
AcceptsAnyLess(row, amount) ==
    /\ row.status \in Accepting
    /\ now <= row.closeAt
    /\ Best(row.bids) # Nobody => amount < Best(row.bids)
\* Guards 1, 2 and 4 of submit_live_bid; the vendors of the model pass 3.
Accepts(row, amount) ==
    /\ row.status \in Accepting
    /\ now <= row.closeAt
    /\ DecrementMet(amount, Best(row.bids))

\* Mutant: one extension too many.
ExtendsOnceMore(row, amount) ==
    /\ ~AboveReserve(amount)
    /\ row.closeAt - now <= config.trigger
    /\ row.extensions <= config.maxExtensions
\* A bid of this amount extends the auction: it comes late, may count, and
\* extensions are left.  maxExtensions = 0 stands for auto_extend off too.
Extends(row, amount) ==
    /\ ~AboveReserve(amount)
    /\ row.closeAt - now <= config.trigger
    /\ row.extensions < config.maxExtensions

\* The row after an accepted bid: stored as invalid above the reserve.
Placed(row, v, amount) ==
    LET bid == [vendor |-> v, amount |-> amount, valid |-> ~AboveReserve(amount)]
    IN  IF Extends(row, amount)
        THEN [row EXCEPT !.bids = Append(@, bid), !.status = "EXTENDED",
                         !.closeAt = @ + config.duration,
                         !.extensions = @ + 1]
        ELSE [row EXCEPT !.bids = Append(@, bid)]
----------------------------------------------------------------------------
(* What is published while the row is held.  BID stands for the three      *)
(* messages of a new valid bid, LEADERBOARD_UPDATE, NEW_BID and            *)
(* RANK_UPDATE; only the bidder gets the last, which carries the rank.     *)

BidNews(row, v, amount) ==
    LET after == Placed(row, v, amount) IN
    (IF Extends(row, amount)
     THEN <<[type |-> "EXTENDED", closeAt |-> after.closeAt]>> ELSE <<>>)
    \o (IF AboveReserve(amount) THEN <<>>
        ELSE <<[type |-> "BID", vendor |-> v, price |-> Best(after.bids),
                rank |-> Rank(after.bids, v)]>>)

\* The closing time is the one of AUCTION_OPENED; no other message has one.
StatusNews(op, closeAt) ==
    <<[type |-> Target[op], closeAt |-> closeAt]>>
----------------------------------------------------------------------------
NoRequests == [a \in Staff |-> Nobody]
NoProxies == [v \in Vendors |-> Nobody]

Init ==
    /\ now = 0
    /\ config \in Configs
    /\ db = [status |-> "SCHEDULED", closeAt |-> config.closeAt, extensions |-> 0,
             winner |-> Nobody, sealed |-> NoProxies, bids |-> <<>>]
    /\ draft = db
    /\ holder = Nobody
    /\ proxies = NoProxies
    /\ reading = NoRequests
    /\ seen = NoRequests
    /\ floors = NoProxies
    /\ faults = Faults

\* Time passes between transactions: one lasts less than a tick.
Tick ==
    /\ now < Horizon
    /\ holder = Nobody /\ reading = NoRequests
    /\ now' = now + 1
    /\ UNCHANGED <<config, db, draft, holder, proxies, reading, seen, floors, faults>>

SetFloor(v, floor) ==
    /\ config.allowProxy   \* a floor is read in these auctions only
    /\ floors' = [floors EXCEPT ![v] = floor]
    /\ UNCHANGED <<now, config, db, draft, holder, proxies, reading, seen, faults>>

\* submit_live_bid on behalf of a connected vendor, up to its commit.
Bid(v, amount) ==
    /\ holder = Nobody
    /\ Len(db.bids) < MaxBids
    /\ Accepts(db, amount)
    /\ holder' = v
    /\ draft' = Placed(db, v, amount)
    /\ proxies' = IF config.allowProxy /\ ~AboveReserve(amount)
                  THEN [floors EXCEPT ![v] = Nobody] ELSE NoProxies
    /\ UNCHANGED <<now, config, db, reading, seen, floors, faults>>

\* The bid a proxy answers with, or the null: its floor would be breached,
\* or submit_live_bid refuses.
ProxyAnswer(p) ==
    LET amount == AutoBid(Best(draft.bids))
    IN  IF amount >= proxies[p] /\ Accepts(draft, amount) THEN amount ELSE Nobody

\* One turn of the loop of execute_proxy_bids, within the same transaction.
ProxyBid(p) ==
    /\ proxies[p] # Nobody
    /\ proxies' = [proxies EXCEPT ![p] = Nobody]
    /\ draft' = IF ProxyAnswer(p) = Nobody THEN draft
                ELSE Placed(draft, p, ProxyAnswer(p))
    /\ UNCHANGED <<now, config, db, holder, reading, seen, floors, faults>>

\* Mutant: the task looks for OPEN auctions only.
DueOpenOnly(row) == row.status = "OPEN" /\ row.closeAt <= now
Due(row) == row.status \in Accepting /\ row.closeAt <= now

\* Which request may come: the beat's two tasks, the buyer's three routes.
Asks(a, op) ==
    \/ a = "beat" /\ op = "open" /\ db.status = "SCHEDULED" /\ config.startAt <= now
    \/ a = "beat" /\ op = "close" /\ Due(db)
    \/ a = "buyer" /\ op \in BuyerOps

\* The row is read, unlocked, and the transition validated.
Read(a, op) ==
    /\ reading[a] = Nobody /\ holder # a
    /\ Asks(a, op)
    /\ Target[op] \in AUCTION_FSM[db.status]
    /\ reading' = [reading EXCEPT ![a] = op]
    /\ seen' = [seen EXCEPT ![a] = IF op = "open" THEN db.closeAt ELSE Nobody]
    /\ UNCHANGED <<now, config, db, draft, holder, proxies, floors, faults>>

\* Mutant: the winner is looked up before the row is locked, so that a bid
\* committed meanwhile is missed.
ClosedEarly(row) ==
    LET early == SubSeq(row.bids, 1, Len(row.bids) - 1) IN
    [row EXCEPT !.status = "CLOSED",
        !.winner = IF Leader(early) = Nobody THEN @ ELSE Leader(early)]
\* close_auction from its first flush on: the winner, and the best price of
\* every ranked vendor, handed to the sealed table for the evaluation.
Closed(row) ==
    [row EXCEPT !.status = "CLOSED",
        !.winner = IF Leader(row.bids) = Nobody THEN @ ELSE Leader(row.bids),
        !.sealed = [v \in Vendors |-> IF BidsOf(row.bids, v) = {} THEN @[v]
                                      ELSE BestOf(row.bids, BidsOf(row.bids, v))]]

\* The UPDATE, which waits for the row and does not test it again.
Write(a) ==
    /\ reading[a] # Nobody /\ holder = Nobody
    /\ holder' = a
    /\ reading' = [reading EXCEPT ![a] = Nobody]
    /\ seen' = [seen EXCEPT ![a] = Nobody]
    /\ draft' = IF reading[a] = "close" THEN Closed(db)
                ELSE [db EXCEPT !.status = Target[reading[a]]]
    /\ UNCHANGED <<now, config, db, proxies, floors, faults>>

Commit ==
    /\ holder # Nobody /\ proxies = NoProxies
    /\ db' = draft
    /\ holder' = Nobody
    /\ UNCHANGED <<now, config, draft, proxies, reading, seen, floors, faults>>

Abort ==
    /\ holder # Nobody /\ faults > 0
    /\ faults' = faults - 1
    /\ draft' = db
    /\ holder' = Nobody
    /\ proxies' = NoProxies
    /\ UNCHANGED <<now, config, db, reading, seen, floors>>

Next ==
    \/ Tick
    \/ \E v \in Vendors : \E floor \in FloorsOf[v] : SetFloor(v, floor)
    \/ \E v \in Vendors, amount \in Prices : Bid(v, amount)
    \/ \E p \in Vendors : ProxyBid(p)
    \/ \E a \in Staff, op \in Ops : Read(a, op)
    \/ \E a \in Staff : Write(a)
    \/ Commit
    \/ Abort

Spec == Init /\ [][Next]_vars
----------------------------------------------------------------------------
Row == [status : Statuses, closeAt : Nat, extensions : Nat,
        winner : Vendors \cup {Nobody}, sealed : [Vendors -> Nat \cup {Nobody}],
        bids : Seq(Bids)]

\* The type invariant of the server's state; the closing time is the configured
\* one and the extensions granted, never more than the buyer allowed.
AuctionTypeOK ==
    /\ now \in Nat
    /\ config \in Config
    /\ \A row \in {db, draft} :
        /\ row \in Row
        /\ row.extensions <= config.maxExtensions
        /\ row.closeAt = config.closeAt + config.duration * row.extensions
    /\ holder \in Vendors \cup Staff \cup {Nobody}
    /\ proxies \in [Vendors -> Nat \cup {Nobody}]
    /\ reading \in [Staff -> Ops \cup {Nobody}]
    /\ seen \in [Staff -> Nat \cup {Nobody}]
    /\ floors \in [Vendors -> Nat \cup {Nobody}]
    /\ faults \in Nat

\* A concluded auction is won by its lowest valid bid, and the evaluation got
\* every vendor's best price: no bid that was told it counts is left out, with
\* bids, the beat, cancellations and releases in any order (close_auction).
WinnerIsLowest ==
    db.status \in Concluded =>
        /\ IF ValidBids(db.bids) = {} THEN db.winner = Nobody
           ELSE \E i \in BidsOf(db.bids, db.winner) :
                    \A j \in ValidBids(db.bids) :
                        db.bids[i].amount <= db.bids[j].amount
        /\ \A j \in ValidBids(db.bids) :
               \E i \in BidsOf(db.bids, db.bids[j].vendor) :
                   /\ db.sealed[db.bids[j].vendor] = db.bids[i].amount
                   /\ db.bids[i].amount <= db.bids[j].amount

\* Every valid bid undercut the best one before it by the decrement, proxies'
\* bids and bids that arrive together included (submit_live_bid, guard 4).
EachBidUndercuts ==
    \A j \in ValidBids(db.bids) :
        DecrementMet(db.bids[j].amount, Best(SubSeq(db.bids, 1, j - 1)))

\* The beat's two tasks are scheduled for ever and transactions end.
Fairness ==
    /\ WF_vars(Tick)
    /\ \A op \in {"open", "close"} : WF_vars(Read("beat", op))
    /\ \A a \in Staff : WF_vars(Write(a))
    /\ \A p \in Vendors : WF_vars(ProxyBid(p))
    /\ WF_vars(Commit)

FairSpec == Spec /\ Fairness

\* Every auction ends, late bids that extend it and failing transactions
\* notwithstanding (open_scheduled_auctions, close_due_auctions).
AuctionEnds == <>[](db.status \in Over)
=============================================================================
