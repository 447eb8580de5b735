-------------------------- MODULE LiveAuctionProofs --------------------------
(***************************************************************************)
(* Theorems about one live auction, for every set of vendors, prices,      *)
(* floors and configurations and every bound.                              *)
(*                                                                         *)
(* The properties speak of the committed row.  The inductive invariant     *)
(* IInv says the same of the row the holder is writing, and adds who may   *)
(* still write an auction that has concluded: nobody but the buyer, whose  *)
(* release finds it as he read it.                                         *)
(***************************************************************************)
EXTENDS LiveAuction, SequenceTheorems, WellFoundedInduction, TLAPS

\* What AuctionTypeOK says of a row.
RowOK(row) ==
    /\ row \in Row
    /\ row.extensions <= config.maxExtensions
    /\ row.closeAt = config.closeAt + config.duration * row.extensions

\* What EachBidUndercuts says of the committed row.
Undercuts(row) ==
    \A j \in ValidBids(row.bids) :
        DecrementMet(row.bids[j].amount, Best(SubSeq(row.bids, 1, j - 1)))

\* The result: the winner's bid is the lowest, and everybody's best is sealed.
Result(row) ==
    /\ IF ValidBids(row.bids) = {} THEN row.winner = Nobody
       ELSE \E i \in BidsOf(row.bids, row.winner) :
                \A j \in ValidBids(row.bids) :
                    row.bids[i].amount <= row.bids[j].amount
    /\ \A j \in ValidBids(row.bids) :
           \E i \in BidsOf(row.bids, row.bids[j].vendor) :
               /\ row.sealed[row.bids[j].vendor] = row.bids[i].amount
               /\ row.bids[i].amount <= row.bids[j].amount

\* What WinnerIsLowest says of the committed row, and what makes closing a
\* second time give a right result too: no winner without a bid.
Settled(row) ==
    /\ row.status \in Concluded => Result(row)
    /\ ValidBids(row.bids) = {} => row.winner = Nobody

Good(row) == RowOK(row) /\ Undercuts(row) /\ Settled(row)

\* A row nobody holds is as committed; only a valid bid leaves proxies to
\* answer, and a bid leaves the auction accepting.
Held ==
    /\ holder = Nobody => draft = db
    /\ holder \in Vendors => draft.status \in Accepting
    /\ \A p \in Vendors : proxies[p] # Nobody =>
           holder \in Vendors /\ ValidBids(draft.bids) # {}

\* Who may still write an auction that has concluded.
LastWord ==
    /\ reading["beat"] \in {"open", "close", Nobody}
    /\ reading["buyer"] \in {"open", "cancel", "release", Nobody}
    /\ db.status \in Concluded => /\ reading["beat"] = Nobody
                                  /\ holder \in {"buyer", Nobody}
    /\ holder = "beat" => reading["beat"] = Nobody
    /\ holder = "buyer" /\ draft.status \in Concluded => db.status = "CLOSED"
    /\ reading["buyer"] = "release" => db.status = "CLOSED" /\ holder = Nobody

Typed ==
    /\ now \in Nat
    /\ config \in Config
    /\ holder \in Vendors \cup Staff \cup {Nobody}
    /\ proxies \in [Vendors -> Nat \cup {Nobody}]
    /\ reading \in [Staff -> Ops \cup {Nobody}]
    /\ seen \in [Staff -> Nat \cup {Nobody}]
    /\ floors \in [Vendors -> Nat \cup {Nobody}]
    /\ faults \in Nat

IInv == Typed /\ Good(db) /\ Good(draft) /\ Held /\ LastWord

-----------------------------------------------------------------------------
(* The bids.                                                                *)

LEMMA BidTyped ==
    ASSUME NEW bids \in Seq(Bids), NEW i \in DOMAIN bids
    PROVE  bids[i] \in Bids /\ bids[i].amount \in Nat /\ bids[i].vendor \in Vendors
<1>1. bids[i] \in Bids
  BY ElementOfSeq, LenProperties
<1> QED BY <1>1 DEF Bids

\* Of some bids one is the lowest.
LEMMA LowestExists ==
    ASSUME NEW bids \in Seq(Bids), NEW S \in SUBSET DOMAIN bids, S # {}
    PROVE  /\ Lowest(bids, S) \in S
           /\ \A j \in S : bids[Lowest(bids, S)].amount <= bids[j].amount
<1>1. \A i \in S : bids[i].amount \in Nat
  BY BidTyped
<1> DEFINE amounts == {bids[i].amount : i \in S}
<1>2. amounts \in SUBSET Nat /\ amounts # {}
  BY <1>1
<1> HIDE DEF amounts
<1>3. PICK x \in amounts : \A y \in amounts : ~ (<<y, x>> \in OpToRel(<, Nat))
  BY <1>2, NatLessThanWellFounded, WFMin
<1>4. \A y \in amounts : x <= y
  <2>1. \A y \in amounts : ~ (y < x)
    BY <1>2, <1>3 DEF OpToRel
  <2> QED BY <1>2, <2>1
<1>5. PICK i \in S : bids[i].amount = x
  BY <1>3 DEF amounts
<1>6. \A j \in S : bids[i].amount <= bids[j].amount
  BY <1>4, <1>5 DEF amounts
<1> QED BY <1>6 DEF Lowest

LEMMA BestTyped ==
    ASSUME NEW bids \in Seq(Bids), NEW S \in SUBSET DOMAIN bids
    PROVE  BestOf(bids, S) \in Nat \cup {Nobody}
<1>1. CASE S = {}
  BY <1>1 DEF BestOf
<1>2. CASE S # {}
  <2>1. Lowest(bids, S) \in DOMAIN bids
    BY <1>2, LowestExists
  <2> QED BY <1>2, <2>1, BidTyped DEF BestOf
<1> QED BY <1>1, <1>2

\* There is a best price as soon as a bid is valid.
LEMMA BestReal ==
    ASSUME NEW bids \in Seq(Bids), ValidBids(bids) # {}
    PROVE  Best(bids) \in Nat
<1>1. ValidBids(bids) \in SUBSET DOMAIN bids
  BY DEF ValidBids
<1>2. Lowest(bids, ValidBids(bids)) \in DOMAIN bids
  BY <1>1, LowestExists
<1> QED BY <1>2, BidTyped DEF Best, BestOf

\* A bid comes after the others and changes none of them.
LEMMA OneMoreBid ==
    ASSUME NEW bids \in Seq(Bids), NEW bid \in Bids
    PROVE  /\ Append(bids, bid) \in Seq(Bids)
           /\ ValidBids(Append(bids, bid)) =
                  ValidBids(bids) \cup (IF bid.valid THEN {Len(bids) + 1} ELSE {})
           /\ \A j \in DOMAIN bids :
                  /\ Append(bids, bid)[j] = bids[j]
                  /\ SubSeq(Append(bids, bid), 1, j - 1) = SubSeq(bids, 1, j - 1)
           /\ Append(bids, bid)[Len(bids) + 1] = bid
           /\ SubSeq(Append(bids, bid), 1, Len(bids)) = bids
<1> DEFINE more == Append(bids, bid)
<1>1. /\ more \in Seq(Bids) /\ Len(more) = Len(bids) + 1
      /\ DOMAIN more = 1..Len(bids) + 1 /\ DOMAIN bids = 1..Len(bids)
      /\ \A j \in DOMAIN bids : more[j] = bids[j]
      /\ more[Len(bids) + 1] = bid
      /\ Len(bids) \in Nat
  BY AppendProperties, LenProperties
<1> HIDE DEF more
<1>2. ValidBids(more) = ValidBids(bids) \cup (IF bid.valid THEN {Len(bids) + 1} ELSE {})
  BY <1>1 DEF ValidBids
<1>3. \A n \in 0..Len(bids) : SubSeq(more, 1, n) = SubSeq(bids, 1, n)
  BY <1>1
<1>4. \A j \in DOMAIN bids : SubSeq(more, 1, j - 1) = SubSeq(bids, 1, j - 1)
  BY <1>1, <1>3
<1>5. SubSeq(more, 1, Len(bids)) = bids
  BY <1>1, <1>3, SubSeqFull
<1> QED BY <1>1, <1>2, <1>4, <1>5 DEF more

-----------------------------------------------------------------------------
(* What the operations make of a row.                                       *)

LEMMA PlacedGood ==
    ASSUME AuctionAssumption, Typed, NEW row, Good(row), NEW v \in Vendors,
           NEW amount \in Nat, Accepts(row, amount)
    PROVE  /\ Good(Placed(row, v, amount))
           /\ Placed(row, v, amount).status \in Accepting
           /\ ~AboveReserve(amount) \/ ValidBids(row.bids) # {}
                  => ValidBids(Placed(row, v, amount).bids) # {}
<1> DEFINE bid == [vendor |-> v, amount |-> amount, valid |-> ~AboveReserve(amount)]
           after == Placed(row, v, amount)
           plain == [row EXCEPT !.bids = Append(@, bid)]
           extended == [row EXCEPT !.bids = Append(@, bid), !.status = "EXTENDED",
                         !.closeAt = @ + config.duration,
                         !.extensions = @ + 1]
<1>1. bid \in Bids
  BY DEF Bids, AboveReserve
<1>2. row \in Row /\ row.bids \in Seq(Bids) /\ row.status \in Accepting
  BY DEF Good, RowOK, Row, Accepts
<1>3. after = IF Extends(row, amount) THEN extended ELSE plain
  BY DEF Placed
<1>4. /\ after.bids = Append(row.bids, bid)
      /\ after.status \in Accepting
      /\ after.winner = row.winner
  BY <1>2, <1>3 DEF Row, Accepting
<1>5. RowOK(after)
  <2>1. Append(row.bids, bid) \in Seq(Bids)
    BY <1>1, <1>2, OneMoreBid
  <2>2. /\ config.duration \in Nat /\ config.closeAt \in Nat
        /\ config.maxExtensions \in Nat /\ row.extensions \in Nat /\ row.closeAt \in Nat
    BY <1>2 DEF Typed, Config, Row
  <2>3. CASE Extends(row, amount)
    <3>1. extended \in Row
      <4>1. row.closeAt + config.duration \in Nat /\ row.extensions + 1 \in Nat
        BY <2>2
      <4>2. "EXTENDED" \in Statuses
        BY DEF Statuses
      <4> QED BY <1>2, <2>1, <4>1, <4>2 DEF Row
    <3>2. extended.extensions = row.extensions + 1
      BY <1>2 DEF Row
    <3>3. extended.closeAt = row.closeAt + config.duration
      BY <1>2 DEF Row
    <3>4. row.extensions < config.maxExtensions
      BY <2>3 DEF Extends
    <3>5. row.closeAt = config.closeAt + config.duration * row.extensions
      BY DEF Good, RowOK
    <3>6. \A d, e \in Nat : d * (e + 1) = d * e + d /\ d * e \in Nat
      OBVIOUS
    <3>7. config.duration * (row.extensions + 1) = config.duration * row.extensions + config.duration
      BY <2>2, <3>6
    <3>8. extended.closeAt = config.closeAt + config.duration * extended.extensions
      BY <2>2, <3>2, <3>3, <3>5, <3>6, <3>7
    <3>9. extended.extensions <= config.maxExtensions
      BY <2>2, <3>2, <3>4
    <3> HIDE DEF extended, after
    <3> QED BY <1>3, <2>3, <3>1, <3>8, <3>9 DEF RowOK
  <2>4. CASE ~Extends(row, amount)
    <3>1. plain \in Row /\ plain.extensions = row.extensions /\ plain.closeAt = row.closeAt
      BY <1>2, <2>1 DEF Row
    <3> HIDE DEF plain, after
    <3> QED BY <1>3, <2>4, <3>1 DEF RowOK, Good
  <2> QED BY <2>3, <2>4
<1>6. Undercuts(after)
  <2> DEFINE more == Append(row.bids, bid)
  <2>1. bid.valid => DecrementMet(bid.amount, Best(row.bids))
    BY DEF Accepts
  <2> HIDE DEF bid, after
  <2> SUFFICES ASSUME NEW j \in ValidBids(more)
               PROVE  DecrementMet(more[j].amount, Best(SubSeq(more, 1, j - 1)))
    BY <1>4 DEF Undercuts
  <2>2. CASE j \in ValidBids(row.bids)
    <3>1. more[j] = row.bids[j] /\ SubSeq(more, 1, j - 1) = SubSeq(row.bids, 1, j - 1)
      BY <1>1, <1>2, <2>2, OneMoreBid DEF ValidBids
    <3> HIDE DEF more
    <3> QED BY <2>2, <3>1 DEF Good, Undercuts
  <2>3. CASE j \notin ValidBids(row.bids)
    <3>1. bid.valid /\ j = Len(row.bids) + 1
      BY <1>1, <1>2, <2>3, OneMoreBid
    <3>2. more[j] = bid /\ SubSeq(more, 1, j - 1) = row.bids
      <4>1. j - 1 = Len(row.bids)
        BY <1>2, <3>1, LenProperties
      <4> QED BY <1>1, <1>2, <3>1, <4>1, OneMoreBid
    <3> HIDE DEF more
    <3> QED BY <2>1, <3>1, <3>2
  <2> QED BY <2>2, <2>3
<1>7. /\ ValidBids(row.bids) \subseteq ValidBids(after.bids)
      /\ bid.valid => ValidBids(after.bids) # {}
  <2>1. bid.valid => Len(row.bids) + 1 \in ValidBids(after.bids)
    <3> HIDE DEF bid, after
    <3> QED BY <1>1, <1>2, <1>4, OneMoreBid
  <2>2. ValidBids(row.bids) \subseteq ValidBids(after.bids)
    <3> HIDE DEF bid, after
    <3> QED BY <1>1, <1>2, <1>4, OneMoreBid
  <2> HIDE DEF bid, after
  <2> QED BY <2>1, <2>2
<1>8. Settled(after)
  <2>1. after.status \notin Concluded
    BY <1>4 DEF Accepting, Concluded
  <2> HIDE DEF after
  <2> QED BY <1>4, <1>7, <2>1 DEF Settled, Good
<1> QED BY <1>4, <1>5, <1>6, <1>7, <1>8 DEF Good

LEMMA ClosedGood ==
    ASSUME AuctionAssumption, Typed, NEW row, Good(row)
    PROVE  Good(Closed(row)) /\ Closed(row).status = "CLOSED"
<1> DEFINE after == Closed(row)
           bids == row.bids
           Sealed(v) == IF BidsOf(bids, v) = {} THEN row.sealed[v]
                        ELSE BestOf(bids, BidsOf(bids, v))
<1>1. row \in Row /\ bids \in Seq(Bids)
  BY DEF Good, RowOK, Row
<1>2. /\ after.status = "CLOSED" /\ after.bids = bids
      /\ after.extensions = row.extensions /\ after.closeAt = row.closeAt
      /\ after.winner = IF Leader(bids) = Nobody THEN row.winner ELSE Leader(bids)
      /\ after.sealed = [v \in Vendors |-> Sealed(v)]
  BY <1>1 DEF Closed, Row
<1>3. \A v : BidsOf(bids, v) \in SUBSET DOMAIN bids /\ BidsOf(bids, v) \subseteq ValidBids(bids)
  BY DEF BidsOf, ValidBids
<1>4. ValidBids(bids) \in SUBSET DOMAIN bids
  BY DEF ValidBids
<1>5. ValidBids(bids) # {} =>
        /\ Lowest(bids, ValidBids(bids)) \in ValidBids(bids)
        /\ \A j \in ValidBids(bids) :
               bids[Lowest(bids, ValidBids(bids))].amount <= bids[j].amount
        /\ Leader(bids) = bids[Lowest(bids, ValidBids(bids))].vendor
        /\ Leader(bids) \in Vendors
  <2> SUFFICES ASSUME ValidBids(bids) # {}
               PROVE  /\ Lowest(bids, ValidBids(bids)) \in ValidBids(bids)
                      /\ \A j \in ValidBids(bids) :
                             bids[Lowest(bids, ValidBids(bids))].amount <= bids[j].amount
                      /\ Leader(bids) = bids[Lowest(bids, ValidBids(bids))].vendor
                      /\ Leader(bids) \in Vendors
    OBVIOUS
  <2>1. /\ Lowest(bids, ValidBids(bids)) \in ValidBids(bids)
        /\ \A j \in ValidBids(bids) :
               bids[Lowest(bids, ValidBids(bids))].amount <= bids[j].amount
    BY <1>1, <1>4, LowestExists
  <2>2. Leader(bids) = bids[Lowest(bids, ValidBids(bids))].vendor
    BY DEF Leader
  <2>3. bids[Lowest(bids, ValidBids(bids))] \in Bids
    BY <1>1, <1>4, <2>1, ElementOfSeq, LenProperties
  <2> QED BY <2>1, <2>2, <2>3 DEF Bids
<1>6. ValidBids(bids) = {} => Leader(bids) = Nobody
  BY DEF Leader
<1>7. RowOK(after)
  <2>1. \A v \in Vendors : Sealed(v) \in Nat \cup {Nobody}
    BY <1>1, <1>3, BestTyped DEF Row
  <2>2. Leader(bids) \in Vendors \cup {Nobody}
    BY <1>5, <1>6
  <2>3. after \in Row
    BY <1>1, <2>1, <2>2 DEF Closed, Row, Statuses
  <2> HIDE DEF after, bids
  <2> QED BY <1>2, <2>3 DEF RowOK, Good
<1>8. Undercuts(after)
  <2> HIDE DEF after
  <2> QED BY <1>2 DEF Undercuts, Good
<1>9. Settled(after)
  <2>1. ValidBids(bids) = {} => after.winner = Nobody
    BY <1>2, <1>6 DEF Good, Settled
  <2>2. ValidBids(bids) # {} =>
          \E i \in BidsOf(bids, after.winner) :
              \A j \in ValidBids(bids) : bids[i].amount <= bids[j].amount
    BY <1>2, <1>5 DEF BidsOf, AuctionAssumption
  <2>3. ASSUME NEW j \in ValidBids(bids)
        PROVE  \E i \in BidsOf(bids, bids[j].vendor) :
                   /\ after.sealed[bids[j].vendor] = bids[i].amount
                   /\ bids[i].amount <= bids[j].amount
    <3> DEFINE v == bids[j].vendor
               own == BidsOf(bids, v)
    <3>1. j \in own
      BY DEF BidsOf
    <3>2. v \in Vendors
      <4>1. bids[j] \in Bids
        BY <1>1, <1>4, ElementOfSeq, LenProperties
      <4> QED BY <4>1 DEF Bids
    <3>3. own \in SUBSET DOMAIN bids /\ own # {}
      BY <1>3, <3>1
    <3>4. after.sealed[v] = bids[Lowest(bids, own)].amount
      BY <1>2, <3>2, <3>3 DEF BestOf
    <3>5. Lowest(bids, own) \in own /\ bids[Lowest(bids, own)].amount <= bids[j].amount
      <4> HIDE DEF own, bids
      <4> QED BY <1>1, <3>1, <3>3, LowestExists
    <3> QED BY <3>4, <3>5
  <2> HIDE DEF after
  <2> QED BY <1>2, <2>1, <2>2, <2>3 DEF Settled, Result
<1> QED BY <1>2, <1>7, <1>8, <1>9 DEF Good

-----------------------------------------------------------------------------
(* The initial state and the steps.                                         *)

LEMMA InitInv == AuctionAssumption /\ Init => IInv
<1> SUFFICES ASSUME AuctionAssumption, Init PROVE IInv
  OBVIOUS
<1>1. Typed
  BY DEF AuctionAssumption, Init, Typed, NoRequests, NoProxies
<1>2. db.bids = <<>> /\ ValidBids(db.bids) = {}
  BY DEF Init, ValidBids
<1>3. RowOK(db)
  <2>1. config \in Config
    BY <1>1 DEF Typed
  <2>2. config.closeAt \in Nat /\ config.duration * 0 = 0 /\ 0 <= config.maxExtensions
    BY <2>1 DEF Config
  <2>3. <<>> \in Seq(Bids) /\ "SCHEDULED" \in Statuses
    BY EmptySeq DEF Statuses
  <2>4. NoProxies \in [Vendors -> Nat \cup {Nobody}]
    BY DEF NoProxies
  <2> QED BY <2>2, <2>3, <2>4 DEF Init, RowOK, Row
<1>4. Undercuts(db)
  BY <1>2 DEF Undercuts
<1>5. db.status = "SCHEDULED" /\ db.winner = Nobody
  BY DEF Init
<1>6. Settled(db)
  BY <1>5 DEF Settled, Concluded
<1>7. Held /\ LastWord
  BY <1>5 DEF AuctionAssumption, Init, Held, LastWord, NoRequests, NoProxies, Staff, Ops, Concluded
<1>8. draft = db
  BY DEF Init
<1> QED BY <1>1, <1>3, <1>4, <1>6, <1>7, <1>8 DEF IInv, Good

\* What is good of a row stays good while the configuration stays.
LEMMA SameRows ==
    ASSUME config' = config, db' = db, draft' = draft, Good(db), Good(draft)
    PROVE  Good(db)' /\ Good(draft)'
BY DEF Good, RowOK, Undercuts, DecrementMet, Settled, Result

\* The holder writes a good row.
LEMMA NewDraft ==
    ASSUME config' = config, db' = db, Good(db), NEW row, Good(row), draft' = row
    PROVE  Good(db)' /\ Good(draft)'
BY DEF Good, RowOK, Undercuts, DecrementMet, Settled, Result

LEMMA TickStep == IInv /\ Tick => IInv'
<1> SUFFICES ASSUME IInv, Tick PROVE IInv'
  OBVIOUS
<1>1. Typed' /\ Held' /\ LastWord'
  BY DEF IInv, Tick, Typed, Held, LastWord
<1>2. Good(db)' /\ Good(draft)'
  BY SameRows DEF IInv, Tick
<1> QED BY <1>1, <1>2 DEF IInv

LEMMA SetFloorStep ==
    ASSUME AuctionAssumption, IInv, NEW v \in Vendors, NEW floor \in FloorsOf[v],
           SetFloor(v, floor)
    PROVE  IInv'
<1>1. floor \in Nat
  BY DEF AuctionAssumption
<1>2. Typed' /\ Held' /\ LastWord'
  BY <1>1 DEF IInv, SetFloor, Typed, Held, LastWord
<1>3. Good(db)' /\ Good(draft)'
  BY SameRows DEF IInv, SetFloor
<1> QED BY <1>2, <1>3 DEF IInv

LEMMA BidStep ==
    ASSUME AuctionAssumption, IInv, NEW v \in Vendors, NEW amount \in Prices,
           Bid(v, amount)
    PROVE  IInv'
<1>1. amount \in Nat /\ v \notin Staff
  BY DEF AuctionAssumption
<1>2. /\ Good(Placed(db, v, amount)) /\ Placed(db, v, amount).status \in Accepting
      /\ ~AboveReserve(amount) => ValidBids(Placed(db, v, amount).bids) # {}
  BY <1>1, PlacedGood DEF IInv, Bid
<1>3. Good(db)' /\ Good(draft)'
  BY <1>2, NewDraft DEF IInv, Bid
<1>4. Typed'
  BY DEF IInv, Bid, Typed, NoProxies
<1>5. db.status \notin Concluded /\ draft'.status \notin Concluded
  BY <1>2 DEF Bid, Accepts, Accepting, Concluded
<1>6. Held'
  BY <1>2, <1>4 DEF AuctionAssumption, Bid, Held, NoProxies
<1>7. LastWord'
  BY <1>1, <1>5 DEF IInv, Bid, LastWord, Concluded, Staff
<1> QED BY <1>3, <1>4, <1>6, <1>7 DEF IInv

LEMMA ProxyBidStep ==
    ASSUME AuctionAssumption, IInv, NEW p \in Vendors, ProxyBid(p)
    PROVE  IInv'
<1>1. /\ holder \in Vendors /\ holder \notin Staff /\ holder # Nobody
      /\ ValidBids(draft.bids) # {}
  BY DEF AuctionAssumption, IInv, Held, ProxyBid
<1>2. Good(draft') /\ draft'.status \in Accepting /\ ValidBids(draft'.bids) # {}
  <2>1. CASE ProxyAnswer(p) = Nobody
    BY <2>1, <1>1 DEF ProxyBid, IInv, Held
  <2>2. CASE ProxyAnswer(p) # Nobody
    <3> DEFINE amount == ProxyAnswer(p)
    <3>1. amount = AutoBid(Best(draft.bids)) /\ amount >= proxies[p] /\ Accepts(draft, amount)
      BY <2>2 DEF ProxyAnswer
    <3>2. amount \in Nat
      <4>1. proxies[p] \in Nat
        BY DEF IInv, Typed, ProxyBid
      <4>2. Best(draft.bids) \in Nat
        BY <1>1, BestReal DEF IInv, Good, RowOK, Row
      <4>3. config.decrement \in Nat
        BY DEF IInv, Typed, Config
      <4>4. amount \in Int
        BY <3>1, <4>2, <4>3 DEF AutoBid
      <4> QED BY <3>1, <4>1, <4>4
    <3>3. draft' = Placed(draft, p, amount)
      BY <2>2 DEF ProxyBid
    <3> HIDE DEF amount
    <3>4. /\ Good(Placed(draft, p, amount))
          /\ Placed(draft, p, amount).status \in Accepting
          /\ ValidBids(Placed(draft, p, amount).bids) # {}
      BY <1>1, <3>1, <3>2, PlacedGood DEF IInv
    <3> QED BY <3>3, <3>4
  <2> QED BY <2>1, <2>2
<1>3. Good(db)' /\ Good(draft)'
  BY <1>2, NewDraft DEF IInv, ProxyBid
<1>4. Typed'
  BY DEF IInv, ProxyBid, Typed
<1>5. Held'
  BY <1>1, <1>2 DEF ProxyBid, Held
<1>6. LastWord'
  BY <1>1, <1>2 DEF IInv, ProxyBid, LastWord, Staff, Accepting, Concluded
<1> QED BY <1>3, <1>4, <1>5, <1>6 DEF IInv

LEMMA ReadStep ==
    ASSUME AuctionAssumption, IInv, NEW a \in Staff, NEW op \in Ops, Read(a, op)
    PROVE  IInv'
<1>1. Typed' /\ Held'
  <2>1. db.closeAt \in Nat
    BY DEF IInv, Good, RowOK, Row
  <2>2. Typed'
    BY <2>1 DEF IInv, Read, Typed
  <2> QED BY <2>2 DEF IInv, Read, Held
<1>2. Good(db)' /\ Good(draft)'
  BY SameRows DEF IInv, Read
<1>3. LastWord'
  <2>1. db.status \in Statuses
    BY DEF IInv, Good, RowOK, Row
  <2>2. CASE a = "beat"
    <3>1. op \in {"open", "close"} /\ db.status \in {"SCHEDULED"} \cup Accepting
      BY <2>2 DEF Read, Asks, Due
    <3>2. db.status \notin Concluded /\ db.status # "CLOSED"
      BY <3>1 DEF Accepting, Concluded
    <3> QED BY <2>2, <3>1, <3>2 DEF IInv, Read, LastWord, Staff, Typed
  <2>3. CASE a = "buyer"
    <3>1. op \in {"open", "cancel", "release"} /\ holder # "buyer"
      BY <2>3 DEF AuctionAssumption, Ops, Read, Asks
    <3>2. op = "release" => db.status = "CLOSED"
      BY <2>1 DEF Read, Target, AUCTION_FSM, Statuses
    <3>3. op = "release" => holder = Nobody
      BY <3>1, <3>2 DEF IInv, LastWord, Concluded
    <3> QED BY <2>3, <3>1, <3>2, <3>3 DEF IInv, Read, LastWord, Staff, Typed
  <2> QED BY <2>2, <2>3 DEF Staff
<1> QED BY <1>1, <1>2, <1>3 DEF IInv
LEMMA WriteStep ==
    ASSUME AuctionAssumption, IInv, NEW a \in Staff, Write(a)
    PROVE  IInv'
<1> DEFINE op == reading[a]
<1>1. op \in Ops /\ holder = Nobody /\ draft = db
  BY DEF IInv, Held, Typed, Write
<1>2. a \notin Vendors /\ a # Nobody
  BY DEF AuctionAssumption
<1>3. db \in Row
  BY DEF IInv, Good, RowOK
<1>4. op = "release" => a = "buyer" /\ db.status = "CLOSED"
  BY <1>1 DEF IInv, LastWord, Staff, AuctionAssumption
<1>5. op = "close" => a = "beat"
  BY DEF IInv, LastWord, Staff, AuctionAssumption, Ops
<1>6. Good(draft') /\ (draft'.status \in Concluded => op \in {"close", "release"})
  <2>1. CASE op = "close"
    <3>1. draft' = Closed(db)
      BY <2>1 DEF Write
    <3> QED BY <2>1, <3>1, ClosedGood DEF IInv
  <2>2. CASE op # "close"
    <3> DEFINE after == [db EXCEPT !.status = Target[op]]
    <3>1. draft' = after
      BY <2>2 DEF Write
    <3>2. Target[op] \in Statuses /\ (Target[op] \in Concluded => op = "release")
      BY <1>1, <2>2 DEF Target, Ops, Statuses, Concluded
    <3>3. /\ after \in Row /\ after.status = Target[op] /\ after.bids = db.bids
          /\ after.winner = db.winner /\ after.sealed = db.sealed
          /\ after.extensions = db.extensions /\ after.closeAt = db.closeAt
      BY <1>3, <3>2 DEF Row
    <3> HIDE DEF after
    <3>4. RowOK(after) /\ Undercuts(after)
      BY <3>3 DEF IInv, Good, RowOK, Undercuts
    <3>5. op = "release" => Result(db)
      BY <1>4 DEF IInv, Good, Settled, Concluded
    <3>6. Settled(after)
      BY <3>2, <3>3, <3>5 DEF IInv, Good, Settled, Result
    <3> QED BY <3>1, <3>2, <3>3, <3>4, <3>6 DEF Good
  <2> QED BY <2>1, <2>2
<1>7. Good(db)' /\ Good(draft)'
  BY <1>6, NewDraft DEF IInv, Write
<1>8. Typed'
  BY DEF IInv, Typed, Write
<1>9. Held'
  BY <1>1, <1>2 DEF IInv, Held, Write
<1>10. LastWord'
  <2>1. reading' = [reading EXCEPT ![a] = Nobody] /\ holder' = a /\ db' = db
    BY DEF Write
  <2>2. CASE a = "beat"
    <3>1. op # "release" /\ db.status \notin Concluded /\ reading["buyer"] # "release"
      BY <1>1, <1>4, <2>2 DEF IInv, LastWord, AuctionAssumption, Concluded
    <3> QED BY <2>1, <2>2, <3>1 DEF IInv, LastWord, Typed, Staff
  <2>3. CASE a = "buyer"
    <3>1. draft'.status \in Concluded => db.status = "CLOSED"
      BY <1>4, <1>5, <1>6, <2>3
    <3> QED BY <1>2, <2>1, <2>3, <3>1 DEF IInv, LastWord, Typed, Staff, Ops, AuctionAssumption
  <2> QED BY <2>2, <2>3 DEF Staff
<1> QED BY <1>7, <1>8, <1>9, <1>10 DEF IInv

LEMMA CommitStep == AuctionAssumption /\ IInv /\ Commit => IInv'
<1> SUFFICES ASSUME AuctionAssumption, IInv, Commit PROVE IInv'
  OBVIOUS
<1>1. db' = draft /\ draft' = draft /\ config' = config
  BY DEF Commit
<1>2. Good(db)' /\ Good(draft)'
  BY <1>1 DEF IInv, Good, RowOK, Undercuts, DecrementMet, Settled, Result
<1>3. Typed' /\ Held'
  BY DEF IInv, Commit, Typed, Held, NoProxies, AuctionAssumption
<1>4. draft.status \in Concluded => reading["beat"] = Nobody
  <2>1. CASE holder \in Vendors
    BY <2>1 DEF IInv, Held, Accepting, Concluded
  <2>2. CASE holder \in Staff
    BY <2>2 DEF IInv, LastWord, Staff, Concluded
  <2> QED BY <2>1, <2>2 DEF IInv, Typed, Commit
<1>5. LastWord'
  BY <1>4 DEF IInv, Commit, LastWord, AuctionAssumption, Staff
<1> QED BY <1>2, <1>3, <1>5 DEF IInv

LEMMA AbortStep == AuctionAssumption /\ IInv /\ Abort => IInv'
<1> SUFFICES ASSUME AuctionAssumption, IInv, Abort PROVE IInv'
  OBVIOUS
<1>1. Good(db)' /\ Good(draft)'
  BY NewDraft DEF IInv, Abort
<1>2. Typed' /\ Held' /\ LastWord'
  BY DEF IInv, Abort, Typed, Held, LastWord, NoProxies, AuctionAssumption, Staff
<1> QED BY <1>1, <1>2 DEF IInv

LEMMA StutterStep == IInv /\ UNCHANGED vars => IInv'
<1> SUFFICES ASSUME IInv, UNCHANGED vars PROVE IInv'
  OBVIOUS
<1>1. Good(db)' /\ Good(draft)'
  BY SameRows DEF IInv, vars
<1> QED BY <1>1 DEF IInv, vars, Typed, Held, LastWord

LEMMA NextInv == AuctionAssumption /\ IInv /\ [Next]_vars => IInv'
<1> SUFFICES ASSUME AuctionAssumption, IInv, [Next]_vars PROVE IInv'
  OBVIOUS
<1>1. CASE Tick
  BY <1>1, TickStep
<1>2. CASE \E v \in Vendors : \E floor \in FloorsOf[v] : SetFloor(v, floor)
  BY <1>2, SetFloorStep
<1>3. CASE \E v \in Vendors, amount \in Prices : Bid(v, amount)
  BY <1>3, BidStep
<1>4. CASE \E p \in Vendors : ProxyBid(p)
  BY <1>4, ProxyBidStep
<1>5. CASE \E a \in Staff, op \in Ops : Read(a, op)
  BY <1>5, ReadStep
<1>6. CASE \E a \in Staff : Write(a)
  BY <1>6, WriteStep
<1>7. CASE Commit
  BY <1>7, CommitStep
<1>8. CASE Abort
  BY <1>8, AbortStep
<1>9. CASE UNCHANGED vars
  BY <1>9, StutterStep
<1> QED BY <1>1, <1>2, <1>3, <1>4, <1>5, <1>6, <1>7, <1>8, <1>9 DEF Next

\* IInv holds in every reachable state, for every value of the constants.
THEOREM Invariance == Spec => []IInv
<1>1. Init => IInv
  BY InitInv, AuctionAssumption
<1>2. IInv /\ [Next]_vars => IInv'
  BY NextInv, AuctionAssumption
<1> QED BY <1>1, <1>2, PTL DEF Spec

-----------------------------------------------------------------------------
(* The properties of the run auction_server.                                *)

\* Types, and the closing time: an auction is extended no more often than its
\* buyer allowed, each time by the duration he chose (submit_live_bid).
THEOREM AuctionTypeCorrect == Spec => []AuctionTypeOK
<1>1. IInv => AuctionTypeOK
  BY DEF IInv, Good, RowOK, Typed, AuctionTypeOK
<1> QED BY <1>1, Invariance, PTL

\* However bids, proxies and failing transactions interleave, every valid bid
\* undercuts the best one before it by the decrement (submit_live_bid, guard 4).
THEOREM EachBidUndercutsHolds == Spec => []EachBidUndercuts
<1>1. IInv => EachBidUndercuts
  BY DEF IInv, Good, Undercuts, EachBidUndercuts
<1> QED BY <1>1, Invariance, PTL

\* Whatever the beat and the buyer decided on a row they read unlocked, the
\* result of a concluded auction leaves no valid bid out (close_auction).
THEOREM WinnerIsLowestHolds == Spec => []WinnerIsLowest
<1>1. IInv => WinnerIsLowest
  BY DEF IInv, Good, Settled, Result, WinnerIsLowest
<1> QED BY <1>1, Invariance, PTL
=============================================================================
