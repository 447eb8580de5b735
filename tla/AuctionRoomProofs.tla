--------------------------- MODULE AuctionRoomProofs ---------------------------
(***************************************************************************)
(* Theorems about a live auction and the rooms it is watched in, for every *)
(* set of vendors and rooms, every configuration and every bound.  A room  *)
(* changes nothing on the server but by its bids, so that the theorems of  *)
(* LiveAuctionProofs hold here too.                                        *)
(***************************************************************************)
EXTENDS AuctionRoom, LiveAuctionProofs, FiniteSetTheorems

-----------------------------------------------------------------------------
(* The inductive invariant.                                                 *)

Announced == {"OPEN", "CLOSED", "CANCELLED", "RESULTS_RELEASED"}

Messages ==
    [type : {"EXTENDED", "OPEN"}, closeAt : Nat]
    \cup [type : Announced \ {"OPEN"}, closeAt : {Nobody}]
    \cup [type : {"BID"}, vendor : Vendors, price : Nat \cup {Nobody},
          rank : Nat \cup {Nobody}]

RoomTyped ==
    /\ TypeOK
    /\ inbox \in [Watched -> Seq(Messages)]
    /\ left \in [sends : 0..Sends, drops : 0..Drops]
    /\ faults <= Faults
    /\ \A row \in {db, draft} : row.status # "CLOSING"

Lossless == left.drops = Drops /\ faults = Faults

\* The last message of q whose type is in K says of f something in S; without
\* one, what was known before is in S.
Told(q, K, f, known, S) ==
    \/ \E i \in DOMAIN q : /\ q[i].type \in K /\ q[i][f] \in S
                           /\ \A j \in DOMAIN q : j > i => q[j].type \notin K
    \/ known \in S /\ \A i \in DOMAIN q : q[i].type \notin K

\* Shown while the auction is extended, OPEN is not wrong.
MayShow(status) == {Nobody, status} \cup (IF status = "EXTENDED" THEN {"OPEN"} ELSE {})

\* The end of the auction, and those QuietRoomIsRight allows to be shown.
MayEnd(row) ==
    {Nobody, row.closeAt}
    \cup {end \in Nat : end < row.closeAt /\ row.extensions > 0 /\ row.status # "EXTENDED"}

\* What a room that knows h is told of the row by the messages q.
Tells(q, h, row) ==
    /\ Told(q, {"BID"}, "price", h.price, {Nobody, Best(row.bids)})
    /\ Told(q, {"EXTENDED", "OPEN"}, "closeAt", h.closeAt, MayEnd(row))
    /\ Told(q, Announced, "type", h.status, MayShow(row.status))

\* A room has heard, or is about to hear, the row as it is being written.
Informed(v) ==
    /\ Tells(inbox[v], heard[v], draft)
    /\ ~up[v] => heard[v] = Unheard

\* The row's end is moved by extensions alone; the end an open has read is the
\* row's, or was.
Extended ==
    /\ db.closeAt <= draft.closeAt /\ db.extensions <= draft.extensions
    /\ db.closeAt # draft.closeAt => draft.extensions > 0
OpenedAt(row, end) ==
    end \in Nat /\ end <= row.closeAt /\ (end # row.closeAt => row.extensions > 0)
Grown ==
    /\ Extended
    /\ \A a \in Staff : IF reading[a] = "open" THEN OpenedAt(db, seen[a])
                        ELSE seen[a] = Nobody

RInv == IInv /\ RoomTyped /\ Grown /\ (Lossless => \A v \in Watched : Informed(v))

-----------------------------------------------------------------------------
(* Messages.                                                                *)

\* One more message: it tells what is right, or does not speak of it.
LEMMA ToldMore ==
    ASSUME NEW M, NEW q \in Seq(M), NEW m \in M, NEW K, NEW f, NEW known, NEW S,
           m.type \in K => m[f] \in S,
           m.type \notin K => Told(q, K, f, known, S)
    PROVE  Told(Append(q, m), K, f, known, S)
<1> DEFINE r == Append(q, m)
           n == Len(q)
<1>1. /\ DOMAIN r = 1..n + 1 /\ DOMAIN q = 1..n /\ n \in Nat
      /\ r[n + 1] = m /\ \A i \in 1..n : r[i] = q[i]
  BY AppendProperties, LenProperties
<1> HIDE DEF r, n
<1>2. CASE m.type \in K
  <2>1. n + 1 \in DOMAIN r /\ \A j \in DOMAIN r : ~(j > n + 1) BY <1>1
  <2>2. r[n + 1].type \in K /\ r[n + 1][f] \in S BY <1>1, <1>2
  <2> QED BY <2>1, <2>2 DEF Told, r
<1>3. CASE m.type \notin K
  <2>1. Told(q, K, f, known, S) BY <1>3
  <2>2. CASE known \in S /\ \A i \in DOMAIN q : q[i].type \notin K
    <3>1. \A i \in DOMAIN r : r[i].type \notin K BY <1>1, <1>3, <2>2
    <3> QED BY <2>2, <3>1 DEF Told, r
  <2>3. CASE \E i \in DOMAIN q : /\ q[i].type \in K /\ q[i][f] \in S
                                /\ \A j \in DOMAIN q : j > i => q[j].type \notin K
    <3>1. PICK i \in DOMAIN q : /\ q[i].type \in K /\ q[i][f] \in S
                                /\ \A j \in DOMAIN q : j > i => q[j].type \notin K
      BY <2>3
    <3>2. i \in DOMAIN r /\ r[i] = q[i] BY <1>1
    <3>3. \A j \in DOMAIN r : j > i => r[j].type \notin K BY <1>1, <1>3, <3>1
    <3> QED BY <3>1, <3>2, <3>3 DEF Told, r
  <2> QED BY <2>1, <2>2, <2>3 DEF Told
<1> QED BY <1>2, <1>3

\* The first message is heard: it is what was known for the others.
LEMMA ToldHeard ==
    ASSUME NEW M, NEW q \in Seq(M), q # <<>>, NEW K, NEW f, NEW known, NEW S,
           NEW next,
           Head(q).type \in K => next = Head(q)[f],
           Head(q).type \notin K => next = known,
           Told(q, K, f, known, S)
    PROVE  Told(Tail(q), K, f, next, S)
<1> DEFINE r == Tail(q)
           n == Len(q)
<1>1. /\ DOMAIN q = 1..n /\ n \in Nat \ {0} /\ DOMAIN r = 1..n - 1 /\ Head(q) = q[1]
      /\ \A i \in 1..n - 1 : r[i] = q[i + 1]
  BY HeadTailProperties, LenProperties, EmptySeq
<1> HIDE DEF r, n
<1>2. CASE known \in S /\ \A i \in DOMAIN q : q[i].type \notin K
  <2>1. next = known BY <1>1, <1>2
  <2>2. \A i \in DOMAIN r : r[i].type \notin K BY <1>1, <1>2
  <2> QED BY <1>2, <2>1, <2>2 DEF Told, r
<1>3. CASE \E i \in DOMAIN q : /\ q[i].type \in K /\ q[i][f] \in S
                              /\ \A j \in DOMAIN q : j > i => q[j].type \notin K
  <2>1. PICK i \in DOMAIN q : /\ q[i].type \in K /\ q[i][f] \in S
                              /\ \A j \in DOMAIN q : j > i => q[j].type \notin K
    BY <1>3
  <2>2. CASE i = 1
    <3>1. next \in S BY <1>1, <2>1, <2>2
    <3>2. \A j \in DOMAIN r : r[j].type \notin K BY <1>1, <2>1, <2>2
    <3> QED BY <3>1, <3>2 DEF Told, r
  <2>3. CASE i # 1
    <3>1. i - 1 \in DOMAIN r /\ r[i - 1] = q[i] BY <1>1, <2>3
    <3>2. \A j \in DOMAIN r : j > i - 1 => r[j].type \notin K BY <1>1, <2>1
    <3> QED BY <2>1, <3>1, <3>2 DEF Told, r
  <2> QED BY <2>2, <2>3
<1> QED BY <1>2, <1>3 DEF Told

\* What is right may become more.
LEMMA ToldWider ==
    ASSUME NEW q, NEW K, NEW f, NEW known, NEW S, NEW T, S \subseteq T,
           Told(q, K, f, known, S)
    PROVE  Told(q, K, f, known, T)
BY DEF Told

\* Nothing heard and nothing on its way.
LEMMA ToldNothing ==
    ASSUME NEW K, NEW f, NEW S, NEW known \in S
    PROVE  Told(<<>>, K, f, known, S)
BY DEF Told

\* The rank of a vendor is a number: only so many vendors have bid.
LEMMA RankTyped ==
    ASSUME NEW bids \in Seq(Bids), NEW v
    PROVE  Rank(bids, v) \in Nat \cup {Nobody}
<1> DEFINE ahead == {w \in Vendors : BidsOf(bids, w) # {}
                        /\ BestOf(bids, BidsOf(bids, w)) < BestOf(bids, BidsOf(bids, v))}
           bidder == [i \in 1..Len(bids) |-> bids[i].vendor]
           bidders == {bids[i].vendor : i \in 1..Len(bids)}
<1>1. IsFiniteSet(bidders)
  <2>1. bidder \in Surjection(1..Len(bids), bidders) BY DEF Surjection
  <2>2. Len(bids) \in Nat OBVIOUS
  <2> HIDE DEF bidder, bidders
  <2>3. ExistsSurjection(1..Len(bids), bidders) BY <2>1 DEF ExistsSurjection
  <2> QED BY <2>2, <2>3, FS_NatSurjection
<1>2. ahead \subseteq bidders BY DEF BidsOf, ValidBids
<1> HIDE DEF ahead, bidders
<1>3. Cardinality(ahead) \in Nat BY <1>1, <1>2, FS_Subset, FS_CardinalityType
<1> QED BY <1>3 DEF Rank, ahead

\* A bid that is stored as invalid does not change the best price.
LEMMA BestStays ==
    ASSUME NEW bids \in Seq(Bids), NEW bid \in Bids, ~bid.valid
    PROVE  Best(Append(bids, bid)) = Best(bids)
<1> DEFINE more == Append(bids, bid)
           S == ValidBids(bids)
<1>1. ValidBids(more) = S /\ \A j \in DOMAIN bids : more[j] = bids[j]
  <2>1. \A j \in DOMAIN bids : more[j] = bids[j] BY OneMoreBid
  <2>2. ValidBids(more) = S \cup (IF bid.valid THEN {Len(bids) + 1} ELSE {}) BY OneMoreBid
  <2> QED BY <2>1, <2>2
<1>2. S \subseteq DOMAIN bids BY DEF ValidBids
<1> HIDE DEF more, S
<1>3. Lowest(more, S) = Lowest(bids, S) BY <1>1, <1>2 DEF Lowest
<1>4. BestOf(more, S) = BestOf(bids, S)
  <2>1. CASE S = {} BY <2>1 DEF BestOf
  <2>2. CASE S # {}
    <3>1. Lowest(bids, S) \in S BY <1>2, <2>2, LowestExists
    <3> QED BY <1>1, <1>2, <1>3, <2>2, <3>1 DEF BestOf
  <2> QED BY <2>1, <2>2
<1> QED BY <1>1, <1>4 DEF Best, S, more

-----------------------------------------------------------------------------
(* Telling the truth.                                                       *)

\* A transition that is announced.
LEMMA StatusTells ==
    ASSUME NEW q \in Seq(Messages), NEW h, NEW row, NEW after, NEW op \in Ops, NEW end,
           Tells(q, h, row), row.closeAt \in Nat,
           op = "open" => OpenedAt(row, end), op # "open" => end = Nobody,
           after.status = Target[op], after.closeAt = row.closeAt,
           after.extensions = row.extensions, after.bids = row.bids
    PROVE  /\ StatusNews(op, end) \in Seq(Messages)
           /\ Tells(q \o StatusNews(op, end), h, after)
<1> DEFINE m == [type |-> Target[op], closeAt |-> end]
<1>1. Target[op] \in Announced /\ (op = "open" <=> Target[op] = "OPEN")
  BY DEF Target, Ops, Announced
<1>2. m \in Messages BY <1>1 DEF Messages, OpenedAt
<1>3. m.type = Target[op] /\ m.closeAt = end /\ m["type"] = m.type
      /\ m["closeAt"] = m.closeAt
  OBVIOUS
<1>4. m.type \notin {"BID", "EXTENDED"} BY <1>1, <1>3 DEF Announced
<1> HIDE DEF m
<1>5. Told(Append(q, m), {"BID"}, "price", h.price, {Nobody, Best(after.bids)})
  BY <1>2, <1>4, ToldMore DEF Tells
<1>6. Told(Append(q, m), {"EXTENDED", "OPEN"}, "closeAt", h.closeAt, MayEnd(after))
  <2>1. Target[op] # "EXTENDED" BY <1>1 DEF Announced
  <2>2. MayEnd(row) \subseteq MayEnd(after) BY <2>1 DEF MayEnd
  <2>3. Told(q, {"EXTENDED", "OPEN"}, "closeAt", h.closeAt, MayEnd(after))
    BY <2>2, ToldWider DEF Tells
  <2>4. m.type \in {"EXTENDED", "OPEN"} => m["closeAt"] \in MayEnd(after)
    BY <1>1, <1>3, <2>1 DEF MayEnd, OpenedAt
  <2> QED BY <1>2, <2>3, <2>4, ToldMore
<1>7. Told(Append(q, m), Announced, "type", h.status, MayShow(after.status))
  <2>1. m["type"] \in MayShow(after.status) /\ m.type \in Announced
    BY <1>1, <1>3 DEF MayShow
  <2> QED BY <1>2, <2>1, ToldMore
<1>8. StatusNews(op, end) = <<m>> BY DEF StatusNews, m
<1>9. q \o StatusNews(op, end) = Append(q, m) BY <1>2, <1>8, AppendIsConcat
<1>10. StatusNews(op, end) \in Seq(Messages) BY <1>2, <1>8
<1>11. Tells(Append(q, m), h, after) BY <1>5, <1>6, <1>7 DEF Tells
<1> QED BY <1>9, <1>10, <1>11

\* A bid that is accepted: its EXTENDED and its BID say what becomes of the row.
LEMMA BidTells ==
    ASSUME AuctionAssumption, Typed, NEW row, RowOK(row), row.status # "CLOSING",
           NEW v \in Vendors, NEW amount \in Nat, Accepts(row, amount),
           RowOK(Placed(row, v, amount)),
           NEW q \in Seq(Messages), NEW h, Tells(q, h, row)
    PROVE  /\ BidNews(row, v, amount) \in Seq(Messages)
           /\ Tells(q \o BidNews(row, v, amount), h, Placed(row, v, amount))
<1> DEFINE after == Placed(row, v, amount)
           ext == [type |-> "EXTENDED", closeAt |-> after.closeAt]
           bid == [type |-> "BID", vendor |-> v, price |-> Best(after.bids),
                   rank |-> Rank(after.bids, v)]
           new == [vendor |-> v, amount |-> amount, valid |-> ~AboveReserve(amount)]
           mid == IF Extends(row, amount) THEN Append(q, ext) ELSE q
           all == IF AboveReserve(amount) THEN mid ELSE Append(mid, bid)
<1>1. after \in Row /\ row \in Row /\ after.bids \in Seq(Bids) /\ after.closeAt \in Nat
      /\ row.bids \in Seq(Bids)
  BY DEF RowOK, Row
<1>2. new \in Bids BY DEF Bids, AboveReserve
<1>3. /\ after.bids = Append(row.bids, new)
      /\ after.closeAt = IF Extends(row, amount) THEN row.closeAt + config.duration
                         ELSE row.closeAt
      /\ ~Extends(row, amount) => after.extensions = row.extensions
      /\ after.status = IF Extends(row, amount) THEN "EXTENDED" ELSE row.status
  BY <1>1 DEF Placed, Row
<1>4. ext \in Messages BY <1>1 DEF Messages
<1>5. bid \in Messages
  <2>1. Best(after.bids) \in Nat \cup {Nobody}
    <3>1. ValidBids(after.bids) \in SUBSET DOMAIN after.bids BY DEF ValidBids
    <3> HIDE DEF after
    <3> QED BY <1>1, <3>1, BestTyped DEF Best
  <2>2. Rank(after.bids, v) \in Nat \cup {Nobody} BY <1>1, RankTyped
  <2> HIDE DEF after
  <2> QED BY <2>1, <2>2 DEF Messages
<1>6. /\ ext.type = "EXTENDED" /\ ext["closeAt"] = after.closeAt
      /\ bid.type = "BID" /\ bid["price"] = Best(after.bids)
  OBVIOUS
<1>7. AboveReserve(amount) => Best(after.bids) = Best(row.bids)
  <2> SUFFICES ASSUME AboveReserve(amount) PROVE Best(after.bids) = Best(row.bids)
    OBVIOUS
  <2> DEFINE bids == row.bids
  <2>1. bids \in Seq(Bids) /\ new \in Bids /\ ~new.valid /\ after.bids = Append(bids, new)
    BY <1>1, <1>2, <1>3
  <2> HIDE DEF new, after, bids
  <2>2. Best(Append(bids, new)) = Best(bids) BY <2>1, BestStays
  <2> QED BY <2>1, <2>2 DEF bids
<1>8. row.status \in {"OPEN", "EXTENDED"} BY DEF Accepts, Accepting
<1>9. Extends(row, amount) => ~AboveReserve(amount) BY DEF Extends
<1>10. BidNews(row, v, amount) = (IF Extends(row, amount) THEN <<ext>> ELSE <<>>)
                                 \o (IF AboveReserve(amount) THEN <<>> ELSE <<bid>>)
  BY DEF BidNews
<1> HIDE DEF after, ext, bid, new
<1>11. mid \in Seq(Messages) BY <1>4
<1>12. Told(mid, {"EXTENDED", "OPEN"}, "closeAt", h.closeAt, MayEnd(after))
  <2>1. after.closeAt \in MayEnd(after) BY DEF MayEnd
  <2>2. ~Extends(row, amount) => MayEnd(after) = MayEnd(row) BY <1>3 DEF MayEnd
  <2>3. CASE Extends(row, amount)
    <3>1. Told(Append(q, ext), {"EXTENDED", "OPEN"}, "closeAt", h.closeAt, MayEnd(after))
      BY <1>4, <1>6, <2>1, ToldMore
    <3> QED BY <2>3, <3>1
  <2>4. CASE ~Extends(row, amount) BY <2>2, <2>4 DEF Tells
  <2> QED BY <2>3, <2>4
<1>13. Told(mid, Announced, "type", h.status, MayShow(after.status))
  <2>1. Told(q, Announced, "type", h.status, MayShow(row.status)) BY DEF Tells
  <2>2. MayShow(row.status) \subseteq MayShow(after.status)
    BY <1>3, <1>8 DEF MayShow
  <2>3. Told(q, Announced, "type", h.status, MayShow(after.status))
    BY <2>1, <2>2, ToldWider
  <2>4. ext.type \notin Announced BY <1>6 DEF Announced
  <2> QED BY <1>4, <2>3, <2>4, ToldMore
<1>14. Told(mid, {"BID"}, "price", h.price, {Nobody, Best(row.bids)})
  BY <1>4, <1>6, ToldMore DEF Tells
<1> HIDE DEF mid
<1>15. Told(all, {"BID"}, "price", h.price, {Nobody, Best(after.bids)})
  BY <1>5, <1>6, <1>7, <1>11, <1>14, ToldMore
<1>16. Told(all, {"EXTENDED", "OPEN"}, "closeAt", h.closeAt, MayEnd(after))
  BY <1>5, <1>6, <1>11, <1>12, ToldMore
<1>17. Told(all, Announced, "type", h.status, MayShow(after.status))
  <2>1. bid.type \notin Announced BY <1>6 DEF Announced
  <2> QED BY <1>5, <1>11, <1>13, <2>1, ToldMore
<1>18. BidNews(row, v, amount) \in Seq(Messages) /\ q \o BidNews(row, v, amount) = all
  <2>1. \A r \in Seq(Messages), m \in Messages : r \o <<m>> = Append(r, m)
    BY AppendIsConcat
  <2>2. CASE Extends(row, amount)
    <3>1. ~AboveReserve(amount) BY <1>9, <2>2
    <3>2. <<ext>> \in Seq(Messages) /\ <<bid>> \in Seq(Messages) BY <1>4, <1>5
    <3>3. BidNews(row, v, amount) = <<ext>> \o <<bid>> BY <1>10, <2>2, <3>1
    <3>4. q \o (<<ext>> \o <<bid>>) = (q \o <<ext>>) \o <<bid>>
      BY <3>2, ConcatAssociative
    <3>5. all = Append(Append(q, ext), bid) BY <2>2, <3>1 DEF mid
    <3>6. Append(q, ext) \in Seq(Messages) BY <1>4
    <3>7. (q \o <<ext>>) \o <<bid>> = Append(Append(q, ext), bid)
      BY <1>4, <1>5, <2>1, <3>6
    <3>8. <<ext>> \o <<bid>> \in Seq(Messages) BY <3>2, ConcatProperties
    <3> QED BY <3>3, <3>4, <3>5, <3>7, <3>8
  <2>3. CASE ~Extends(row, amount) /\ AboveReserve(amount)
    <3>1. BidNews(row, v, amount) = <<>> BY <1>10, <2>3
    <3>2. all = q BY <2>3 DEF mid
    <3> QED BY <3>1, <3>2, ConcatEmptySeq
  <2>4. CASE ~Extends(row, amount) /\ ~AboveReserve(amount)
    <3>1. BidNews(row, v, amount) = <<bid>> BY <1>10, <2>4
    <3>2. all = Append(q, bid) BY <2>4 DEF mid
    <3>3. <<bid>> \in Seq(Messages) BY <1>5
    <3>4. q \o <<bid>> = Append(q, bid) BY <1>5, <2>1
    <3> HIDE DEF all
    <3> QED BY <3>1, <3>2, <3>3, <3>4
  <2> QED BY <2>2, <2>3, <2>4
<1>19. Tells(all, h, after) BY <1>15, <1>16, <1>17 DEF Tells
<1> QED BY <1>18, <1>19 DEF after

\* What a room makes of the first message on its way, field by field.
LEMMA TakenInFields ==
    ASSUME RoomAssumption, AuctionAssumption, NEW v \in Watched, heard \in [Watched -> Heard],
           NEW m \in Messages
    PROVE  /\ TakenIn(v, m) \in Heard
           /\ TakenIn(v, m).price = IF m.type = "BID" THEN m.price ELSE heard[v].price
           /\ TakenIn(v, m).closeAt =
                  IF m.type \in {"EXTENDED", "OPEN"} THEN m.closeAt ELSE heard[v].closeAt
           /\ TakenIn(v, m).status = IF m.type \in Announced THEN m.type ELSE heard[v].status
<1>1. heard[v] \in Heard OBVIOUS
<1>2. CASE m.type = "EXTENDED"
  <2>1. m.closeAt \in Nat BY <1>2 DEF Messages, Announced
  <2>2. TakenIn(v, m) = [heard[v] EXCEPT !.closeAt = m.closeAt] BY <1>2 DEF TakenIn
  <2> QED BY <1>1, <1>2, <2>1, <2>2 DEF Heard, Announced
<1>3. CASE m.type = "OPEN"
  <2>1. m.closeAt \in Nat BY <1>3 DEF Messages, Announced
  <2>2. TakenIn(v, m) = [heard[v] EXCEPT !.status = "OPEN", !.closeAt = m.closeAt]
    BY <1>3 DEF TakenIn
  <2> QED BY <1>1, <1>3, <2>1, <2>2 DEF Heard, Announced, Statuses
<1>4. CASE m.type = "BID"
  <2>1. m.price \in Int \cup {Nobody} /\ m.rank \in Nat \cup {Nobody}
    BY <1>4 DEF Messages, Announced
  <2> DEFINE rank == IF m.vendor = v THEN m.rank ELSE heard[v].rank
  <2>2. TakenIn(v, m) = [heard[v] EXCEPT !.price = m.price, !.rank = rank]
    BY <1>1, <1>4 DEF TakenIn, Heard
  <2>3. rank \in Nat \cup {Nobody} BY <1>1, <2>1 DEF Heard
  <2> HIDE DEF rank
  <2> QED BY <1>1, <1>4, <2>1, <2>2, <2>3 DEF Heard, Announced
<1>5. CASE m.type \in Announced \ {"OPEN"}
  <2>1. m.type \in Statuses /\ m.type \notin {"EXTENDED", "OPEN", "BID"}
    BY <1>5 DEF Announced, Statuses
  <2>2. TakenIn(v, m) = [heard[v] EXCEPT !.status = m.type] BY <2>1 DEF TakenIn
  <2> QED BY <1>1, <1>5, <2>1, <2>2 DEF Heard
<1>6. m.type \in {"EXTENDED", "BID"} \cup Announced BY DEF Messages, Announced
<1> QED BY <1>2, <1>3, <1>4, <1>5, <1>6

\* What a room was going to hear it has heard.
LEMMA HearTells ==
    ASSUME RoomAssumption, AuctionAssumption, NEW v \in Watched, heard \in [Watched -> Heard],
           NEW q \in Seq(Messages), q # <<>>, NEW row, Tells(q, heard[v], row)
    PROVE  Tells(Tail(q), TakenIn(v, Head(q)), row)
<1> DEFINE m == Head(q)
           h == heard[v]
           next == TakenIn(v, m)
<1>1. m \in Messages BY HeadTailProperties
<1>2. m["price"] = m.price /\ m["closeAt"] = m.closeAt /\ m["type"] = m.type OBVIOUS
<1>3. /\ next.price = IF m.type = "BID" THEN m.price ELSE h.price
      /\ next.closeAt = IF m.type \in {"EXTENDED", "OPEN"} THEN m.closeAt ELSE h.closeAt
      /\ next.status = IF m.type \in Announced THEN m.type ELSE h.status
  BY <1>1, TakenInFields
<1> HIDE DEF next
<1>4. Told(Tail(q), {"BID"}, "price", next.price, {Nobody, Best(row.bids)})
  BY <1>2, <1>3, ToldHeard DEF Tells
<1>5. Told(Tail(q), {"EXTENDED", "OPEN"}, "closeAt", next.closeAt, MayEnd(row))
  BY <1>2, <1>3, ToldHeard DEF Tells
<1>6. Told(Tail(q), Announced, "type", next.status, MayShow(row.status))
  <2> HIDE DEF m
  <2>1. Told(q, Announced, "type", h.status, MayShow(row.status)) BY DEF Tells
  <2>2. m.type \in Announced => next.status = m["type"] BY <1>2, <1>3
  <2>3. m.type \notin Announced => next.status = h.status BY <1>3
  <2> QED BY <2>1, <2>2, <2>3, ToldHeard DEF m
<1> QED BY <1>4, <1>5, <1>6 DEF Tells, next

-----------------------------------------------------------------------------
(* A room and the server behind it.                                         *)

LEMMA TypedServer == IInv => AuctionTypeOK
BY DEF IInv, Good, RowOK, Typed, AuctionTypeOK

\* What a room does is no step of the server but a bid, one that was typed.
LEMMA ServerStep ==
    RoomAssumption /\ AuctionAssumption /\ RoomTyped /\ [RoomNext]_allVars => [Next]_vars
<1> SUFFICES ASSUME RoomAssumption, AuctionAssumption, RoomTyped, [RoomNext]_allVars
             PROVE  [Next]_vars
  OBVIOUS
<1>1. ASSUME NEW v \in Watched,
             \/ Connect(v) \/ Drop(v) \/ Hear(v) \/ Poll(v) \/ RefuseBid(v)
             \/ \E amount \in Prices : SendBid(v, amount)
      PROVE  [Next]_vars
  BY <1>1 DEF Connect, Drop, Hear, Poll, RefuseBid, SendBid
<1>2. ASSUME NEW v \in Watched, TakeBid(v) PROVE [Next]_vars
  <2>1. v \in Vendors /\ sent[v] \in Prices
    BY <1>2 DEF RoomAssumption, RoomTyped, TypeOK, TakeBid
  <2> QED BY <1>2, <2>1 DEF TakeBid, Next
<1>3. ASSUME NEW v \in Vendors \ Watched, NEW amount \in Prices, TakeOtherBid(v, amount)
      PROVE  [Next]_vars
  BY <1>3 DEF TakeOtherBid, Next
<1>4. ASSUME NEW p \in Vendors, TakeProxyBid(p) PROVE [Next]_vars
  BY <1>4 DEF TakeProxyBid, Next
<1>5. ASSUME NEW a \in Staff, Announce(a) PROVE [Next]_vars
  BY <1>5 DEF Announce, Next
<1>6. CASE Silently
  BY <1>6 DEF Silently, Next
<1>7. CASE UNCHANGED allVars
  BY <1>7 DEF allVars
<1> QED BY <1>1, <1>2, <1>3, <1>4, <1>5, <1>6, <1>7 DEF RoomNext

\* CLOSING is a status nothing sets: a bid leaves OPEN or EXTENDED, and the
\* requests write their targets.
LEMMA NeverClosing ==
    ASSUME AuctionAssumption, IInv, [Next]_vars, RoomTyped
    PROVE  \A row \in {db', draft'} : row.status # "CLOSING"
<1>1. /\ db \in Row /\ draft \in Row
      /\ db.status # "CLOSING" /\ draft.status # "CLOSING"
  BY DEF IInv, Good, RowOK, RoomTyped
<1>2. ASSUME NEW row \in Row, row.status # "CLOSING", NEW v, NEW amount
      PROVE  Placed(row, v, amount).status # "CLOSING"
  BY <1>2 DEF Placed, Row
<1>3. ASSUME NEW v \in Vendors, NEW amount \in Prices, Bid(v, amount)
      PROVE  db' = db /\ draft'.status # "CLOSING"
  BY <1>1, <1>2, <1>3 DEF Bid
<1>4. ASSUME NEW p \in Vendors, ProxyBid(p)
      PROVE  db' = db /\ draft'.status # "CLOSING"
  BY <1>1, <1>2, <1>4 DEF ProxyBid
<1>5. ASSUME NEW a \in Staff, Write(a)
      PROVE  db' = db /\ draft'.status # "CLOSING"
  <2>1. reading[a] \in Ops BY <1>5 DEF Write, IInv, Typed
  <2>2. CASE reading[a] = "close"
    BY <1>1, <1>5, <2>2 DEF Write, Closed, Row
  <2>3. CASE reading[a] # "close"
    <3>1. Target[reading[a]] # "CLOSING" BY <2>1 DEF Ops, Target
    <3>2. draft' = [db EXCEPT !.status = Target[reading[a]]] /\ db' = db
      BY <1>5, <2>3 DEF Write
    <3> QED BY <1>1, <3>1, <3>2 DEF Row
  <2> QED BY <2>2, <2>3
<1>6. ASSUME \/ Tick \/ UNCHANGED vars
             \/ \E v \in Vendors : \E floor \in FloorsOf[v] : SetFloor(v, floor)
             \/ \E a \in Staff, op \in Ops : Read(a, op)
      PROVE  db' = db /\ draft' = draft
  BY <1>6 DEF Tick, SetFloor, Read, vars
<1>7. ASSUME Commit \/ Abort
      PROVE  \A row \in {db', draft'} : row \in {db, draft}
  BY <1>7 DEF Commit, Abort
<1> QED BY <1>1, <1>3, <1>4, <1>5, <1>6, <1>7 DEF Next

\* What is published reaches the rooms that are subscribed.
LEMMA PublishTyped ==
    ASSUME RoomTyped, NEW news \in Seq(Messages), Publish(news), up' = up
    PROVE  /\ inbox' \in [Watched -> Seq(Messages)]
           /\ \A v \in Watched : ~up'[v] => inbox'[v] = <<>>
<1>1. inbox' = [v \in Watched |-> IF up[v] THEN inbox[v] \o news ELSE inbox[v]]
  BY DEF Publish
<1>2. \A v \in Watched : inbox[v] \o news \in Seq(Messages)
  BY ConcatProperties DEF RoomTyped
<1> QED BY <1>1, <1>2 DEF RoomTyped, TypeOK

\* Told to the rooms that listen, the news of a row informs them of it; the
\* others know nothing, which is right of any row.
LEMMA PublishInforms ==
    ASSUME RoomTyped, NEW news, Publish(news), up' = up, heard' = heard,
           \A v \in Watched : Informed(v),
           \A v \in Watched : Tells(inbox[v] \o news, heard[v], draft')
    PROVE  \A v \in Watched : Informed(v)'
<1> SUFFICES ASSUME NEW v \in Watched PROVE Informed(v)'
  OBVIOUS
<1>1. inbox'[v] = IF up[v] THEN inbox[v] \o news ELSE inbox[v]
  BY DEF Publish
<1>2. CASE up[v]
  BY <1>1, <1>2 DEF Informed
<1>3. CASE ~up[v]
  <2>1. inbox[v] = <<>> /\ heard[v] = Unheard
    BY <1>3 DEF RoomTyped, TypeOK, Informed
  <2>2. Tells(<<>>, Unheard, draft')
    BY ToldNothing DEF Tells, Unheard, MayShow, MayEnd
  <2> QED BY <1>1, <1>3, <2>1, <2>2 DEF Informed
<1> QED BY <1>2, <1>3

\* Rooms whose messages and knowledge stay, of a draft that stays.
LEMMA StayInformed ==
    ASSUME draft' = draft, heard' = heard, inbox' = inbox,
           \A v \in Watched : up[v] => up'[v],
           \A v \in Watched : Informed(v)
    PROVE  \A v \in Watched : Informed(v)'
BY DEF Informed

-----------------------------------------------------------------------------
(* The initial state and the steps.                                         *)

LEMMA RoomInitInv == RoomAssumption /\ AuctionAssumption /\ RoomInit => RInv
<1> SUFFICES ASSUME RoomAssumption, AuctionAssumption, RoomInit PROVE RInv
  OBVIOUS
<1>1. IInv BY InitInv DEF RoomInit
<1>2. TypeOK
  <2>1. Unheard \in Heard /\ Unread \in Polled BY DEF Unheard, Unread, Heard, Polled
  <2> QED BY <1>1, <2>1, TypedServer DEF RoomInit, TypeOK
<1>3. <<>> \in Seq(Messages) BY EmptySeq
<1>4. /\ left \in [sends : 0..Sends, drops : 0..Drops] /\ faults <= Faults
      /\ db.status = "SCHEDULED" /\ draft.status = "SCHEDULED"
  BY DEF RoomInit, Init, RoomAssumption, AuctionAssumption
<1>5. RoomTyped BY <1>2, <1>3, <1>4 DEF RoomTyped, RoomInit
<1>6. ASSUME NEW v \in Watched PROVE Informed(v)
  <2>1. inbox[v] = <<>> /\ heard[v] = Unheard BY DEF RoomInit
  <2>2. Tells(<<>>, Unheard, draft)
    BY ToldNothing DEF Tells, Unheard, MayShow, MayEnd
  <2> QED BY <2>1, <2>2 DEF Informed
<1>7. Grown
  <2>1. db.closeAt \in Nat /\ draft = db BY <1>1 DEF RoomInit, Init, IInv, Good, RowOK, Row
  <2>2. db.extensions = 0 /\ reading = NoRequests /\ seen = NoRequests
    BY DEF RoomInit, Init
  <2>3. Extended BY <2>1, <2>2 DEF Extended
  <2> QED BY <2>2, <2>3 DEF Grown, NoRequests, AuctionAssumption, Ops
<1> QED BY <1>1, <1>5, <1>6, <1>7 DEF RInv

\* What was lost stays lost.
LEMMA LossStays ==
    ASSUME RoomAssumption, AuctionAssumption, IInv, RoomTyped, [RoomNext]_allVars, Lossless'
    PROVE  Lossless /\ left'.drops = left.drops /\ ~Abort /\ \A v \in Watched : ~Drop(v)
<1>1. left.drops \in 0..Drops /\ faults \in 0..Faults /\ Drops \in Nat /\ Faults \in Nat
  BY DEF RoomTyped, RoomAssumption, AuctionAssumption, IInv, Typed
<1>2. left \in [sends : 0..Sends, drops : 0..Drops] BY DEF RoomTyped
<1>3. ~Abort BY <1>1 DEF Abort, Lossless
<1>4. \A v \in Watched : ~Drop(v) BY <1>1, <1>2 DEF Drop, Lossless
<1>5. faults' = faults
  <2>1. [Next]_vars BY ServerStep
  <2>2. Next /\ ~Abort => faults' = faults
    BY DEF Next, Tick, SetFloor, Bid, ProxyBid, Read, Write, Commit
  <2> QED BY <1>3, <2>1, <2>2 DEF vars
<1>6. left'.drops = left.drops
  <2>1. ASSUME NEW v \in Watched, NEW amount, SendBid(v, amount)
        PROVE  left'.drops = left.drops
    BY <1>2, <2>1 DEF SendBid
  <2> QED BY <1>4, <2>1 DEF RoomNext, allVars, roomVars, Connect, Hear, Poll, TakeBid,
             RefuseBid, TakeOtherBid, TakeProxyBid, Announce, Silently
<1> QED BY <1>3, <1>4, <1>5, <1>6 DEF Lossless

\* The news of a bid on a row the server may bid on.
LEMMA BidInforms ==
    ASSUME AuctionAssumption, IInv, RoomTyped, NEW row \in {db, draft},
           NEW v \in Vendors, NEW amount \in Nat, Accepts(row, amount)
    PROVE  /\ BidNews(row, v, amount) \in Seq(Messages)
           /\ \A w \in Watched : Tells(inbox[w], heard[w], row) =>
                  Tells(inbox[w] \o BidNews(row, v, amount), heard[w],
                        Placed(row, v, amount))
<1>1. Good(row) /\ RowOK(row) /\ row.status # "CLOSING"
  BY DEF IInv, Good, RoomTyped
<1>2. RowOK(Placed(row, v, amount)) BY <1>1, PlacedGood DEF IInv, Good
<1>3. Tells(<<>>, Unheard, row) BY ToldNothing DEF Tells, Unheard, MayShow, MayEnd
<1>4. BidNews(row, v, amount) \in Seq(Messages)
  BY <1>1, <1>2, <1>3, EmptySeq, BidTells DEF IInv
<1>5. ASSUME NEW w \in Watched, Tells(inbox[w], heard[w], row)
      PROVE  Tells(inbox[w] \o BidNews(row, v, amount), heard[w], Placed(row, v, amount))
  BY <1>1, <1>2, <1>5, BidTells DEF IInv, RoomTyped
<1> QED BY <1>4, <1>5

\* The amount a proxy answers with is a natural number.
LEMMA ProxyAnswerTyped ==
    ASSUME AuctionAssumption, IInv, NEW p \in Vendors, ProxyBid(p), ProxyAnswer(p) # Nobody
    PROVE  ProxyAnswer(p) \in Nat /\ Accepts(draft, ProxyAnswer(p))
<1>1. /\ ProxyAnswer(p) = AutoBid(Best(draft.bids))
      /\ ProxyAnswer(p) >= proxies[p] /\ Accepts(draft, ProxyAnswer(p))
  BY DEF ProxyAnswer
<1>2. proxies[p] \in Nat BY DEF IInv, Typed, ProxyBid
<1>3. Best(draft.bids) \in Nat
  BY BestReal DEF IInv, Held, ProxyBid, Good, RowOK, Row
<1>4. config.decrement \in Nat BY DEF IInv, Typed, Config
<1>5. AutoBid(Best(draft.bids)) \in Int BY <1>3, <1>4 DEF AutoBid
<1> QED BY <1>1, <1>2, <1>5

\* Every step that publishes publishes messages, the news of the row it writes.
LEMMA NewsIsRight ==
    ASSUME RoomAssumption, AuctionAssumption, IInv, RoomTyped, Grown,
           \/ \E v \in Watched : TakeBid(v)
           \/ \E v \in Vendors \ Watched, amount \in Prices : TakeOtherBid(v, amount)
           \/ \E p \in Vendors : TakeProxyBid(p)
           \/ \E a \in Staff : Announce(a)
    PROVE  \E news \in Seq(Messages) :
               /\ Publish(news)
               /\ up' = up /\ heard' = heard /\ polled' = polled /\ left' = left
               /\ (\A v \in Watched : Informed(v)) =>
                      \A v \in Watched : Tells(inbox[v] \o news, heard[v], draft')
<1> DEFINE Right(news) == (\A v \in Watched : Informed(v)) =>
               \A v \in Watched : Tells(inbox[v] \o news, heard[v], draft')
<1>1. ASSUME NEW v \in Vendors, NEW amount \in Prices, Bid(v, amount)
      PROVE  BidNews(db, v, amount) \in Seq(Messages) /\ Right(BidNews(db, v, amount))
  <2>1. amount \in Nat /\ Accepts(db, amount) /\ draft' = Placed(db, v, amount) /\ db = draft
    BY <1>1 DEF AuctionAssumption, Bid, IInv, Held
  <2> QED BY <2>1, BidInforms DEF Informed
<1>2. ASSUME NEW v \in Watched, TakeBid(v)
      PROVE  BidNews(db, v, sent[v]) \in Seq(Messages) /\ Right(BidNews(db, v, sent[v]))
  <2>1. v \in Vendors /\ sent[v] \in Prices
    BY <1>2 DEF RoomAssumption, RoomTyped, TypeOK, TakeBid
  <2> QED BY <1>1, <1>2, <2>1 DEF TakeBid
<1>3. CASE \E v \in Watched : TakeBid(v)
  BY <1>2, <1>3 DEF TakeBid
<1>4. CASE \E v \in Vendors \ Watched, amount \in Prices : TakeOtherBid(v, amount)
  BY <1>1, <1>4 DEF TakeOtherBid
<1>5. CASE \E p \in Vendors : TakeProxyBid(p)
  <2>1. PICK p \in Vendors : TakeProxyBid(p) BY <1>5
  <2>2. CASE ProxyAnswer(p) = Nobody
    <3>1. draft' = draft /\ Publish(<<>>) BY <2>1, <2>2 DEF TakeProxyBid, ProxyBid
    <3>2. \A v \in Watched : inbox[v] \o <<>> = inbox[v]
      BY ConcatEmptySeq DEF RoomTyped
    <3>3. Right(<<>>) BY <3>1, <3>2 DEF Informed
    <3>4. <<>> \in Seq(Messages) BY EmptySeq
    <3> QED BY <2>1, <3>1, <3>3, <3>4 DEF TakeProxyBid
  <2>3. CASE ProxyAnswer(p) # Nobody
    <3> DEFINE news == BidNews(draft, p, ProxyAnswer(p))
    <3>1. draft' = Placed(draft, p, ProxyAnswer(p)) /\ Publish(news) /\ ProxyBid(p)
      BY <2>1, <2>3 DEF TakeProxyBid, ProxyBid
    <3>2. ProxyAnswer(p) \in Nat /\ Accepts(draft, ProxyAnswer(p))
      BY <2>3, <3>1, ProxyAnswerTyped
    <3>3. news \in Seq(Messages) /\ Right(news)
      BY <3>1, <3>2, BidInforms DEF Informed
    <3> QED BY <2>1, <3>1, <3>3 DEF TakeProxyBid
  <2> QED BY <2>2, <2>3
<1>6. CASE \E a \in Staff : Announce(a)
  <2>1. PICK a \in Staff : Announce(a) BY <1>6
  <2> DEFINE op == reading[a]
             end == seen[a]
             news == StatusNews(op, end)
  <2>2. op \in Ops /\ db = draft /\ db \in Row
    BY <2>1 DEF Announce, Write, IInv, Typed, Held, Good, RowOK
  <2>3. db.closeAt \in Nat /\ (op = "open" => OpenedAt(db, end)) /\ (op # "open" => end = Nobody)
    BY <2>2 DEF Row, Grown
  <2>4. /\ draft'.status = Target[op] /\ draft'.closeAt = db.closeAt
        /\ draft'.extensions = db.extensions /\ draft'.bids = db.bids
    <3>1. CASE op = "close"
      <4>1. draft' = Closed(db) BY <2>1, <3>1 DEF Announce, Write
      <4> QED BY <2>2, <3>1, <4>1 DEF Closed, Row, Target
    <3>2. CASE op # "close"
      <4>1. draft' = [db EXCEPT !.status = Target[op]]
        BY <2>1, <3>2 DEF Announce, Write
      <4> QED BY <2>2, <4>1 DEF Row
    <3> QED BY <3>1, <3>2
  <2>5. news \in Seq(Messages)
    <3>1. Tells(<<>>, Unheard, db) BY ToldNothing DEF Tells, Unheard, MayShow, MayEnd
    <3> QED BY <2>2, <2>3, <2>4, <3>1, EmptySeq, StatusTells
  <2>6. ASSUME NEW v \in Watched, Tells(inbox[v], heard[v], db)
        PROVE  Tells(inbox[v] \o news, heard[v], draft')
    BY <2>2, <2>3, <2>4, <2>6, StatusTells DEF RoomTyped
  <2>7. Right(news) BY <2>2, <2>6 DEF Informed
  <2> QED BY <2>1, <2>5, <2>7 DEF Announce
<1> QED BY <1>3, <1>4, <1>5, <1>6

LEMMA RoomTypedStep ==
    ASSUME RoomAssumption, AuctionAssumption, IInv, RoomTyped, Grown, [RoomNext]_allVars
    PROVE  RoomTyped'
<1> USE DEF RoomTyped, TypeOK
<1>1. [Next]_vars BY ServerStep
<1>2. IInv' BY <1>1, NextInv
<1>3. AuctionTypeOK' BY <1>2 DEF IInv, Good, RowOK, Typed, AuctionTypeOK
<1>4. (\A row \in {db, draft} : row.status # "CLOSING")' BY <1>1, NeverClosing
<1>5. faults' <= Faults
  <2>1. faults \in Nat /\ Faults \in Nat BY DEF AuctionAssumption, IInv, Typed
  <2>2. faults' \in {faults, faults - 1}
    BY <1>1, <2>1 DEF Next, Tick, SetFloor, Bid, ProxyBid, Read, Write, Commit, Abort, vars
  <2> QED BY <2>1, <2>2
<1> DEFINE Rest == /\ up' \in [Watched -> BOOLEAN]
                   /\ sent' \in [Watched -> Prices \cup {Nobody}]
                   /\ heard' \in [Watched -> Heard] /\ polled' \in [Watched -> Polled]
                   /\ \A v \in Watched : ~up'[v] => inbox'[v] = <<>>
                   /\ inbox' \in [Watched -> Seq(Messages)]
                   /\ left' \in [sends : 0..Sends, drops : 0..Drops]
<1>6. ASSUME NEW v \in Watched, Connect(v) PROVE Rest
  BY <1>6 DEF Connect
<1>7. ASSUME NEW v \in Watched, Drop(v) PROVE Rest
  <2>1. left' \in [sends : 0..Sends, drops : 0..Drops]
    <3>1. left.drops - 1 \in 0..Drops BY <1>7 DEF Drop, RoomAssumption
    <3> QED BY <1>7, <3>1 DEF Drop
  <2>2. <<>> \in Seq(Messages) BY EmptySeq
  <2>3. sent' \in [Watched -> Prices \cup {Nobody}] BY <1>7 DEF Drop
  <2> QED BY <1>7, <2>1, <2>2, <2>3 DEF Drop
<1>8. ASSUME NEW v \in Watched, Hear(v) PROVE Rest
  <2>1. Head(inbox[v]) \in Messages /\ Tail(inbox[v]) \in Seq(Messages)
    BY <1>8, HeadTailProperties DEF Hear
  <2>2. TakenIn(v, Head(inbox[v])) \in Heard BY <2>1, TakenInFields
  <2>3. up[v] BY <1>8 DEF Hear
  <2> QED BY <1>8, <2>1, <2>2, <2>3 DEF Hear
<1>9. ASSUME NEW v \in Watched, Poll(v) PROVE Rest
  <2>1. db.status \in Statuses /\ db.bids \in Seq(Bids) BY DEF IInv, Good, RowOK, Row
  <2>2. Best(db.bids) \in Int \cup {Nobody} BY <2>1, BestTyped DEF Best, ValidBids
  <2>3. Rank(db.bids, v) \in Nat \cup {Nobody} BY <2>1, RankTyped
  <2>4. [status |-> db.status, price |-> Best(db.bids), rank |-> Rank(db.bids, v)] \in Polled
    BY <2>1, <2>2, <2>3 DEF Polled
  <2> QED BY <1>9, <2>4 DEF Poll
<1>10. ASSUME NEW v \in Watched, NEW amount \in Prices, SendBid(v, amount) PROVE Rest
  <2>1. left' \in [sends : 0..Sends, drops : 0..Drops]
    <3>1. left.sends - 1 \in 0..Sends BY <1>10 DEF SendBid, RoomAssumption
    <3> QED BY <1>10, <3>1 DEF SendBid
  <2> QED BY <1>10, <2>1 DEF SendBid
<1>11. ASSUME NEW v \in Watched, RefuseBid(v) PROVE Rest
  BY <1>11 DEF RefuseBid
<1>12. ASSUME \/ \E v \in Watched : TakeBid(v)
              \/ \E v \in Vendors \ Watched, amount \in Prices : TakeOtherBid(v, amount)
              \/ \E p \in Vendors : TakeProxyBid(p)
              \/ \E a \in Staff : Announce(a)
       PROVE  Rest
  <2>1. PICK news \in Seq(Messages) :
            /\ Publish(news)
            /\ up' = up /\ heard' = heard /\ polled' = polled /\ left' = left
    BY <1>12, NewsIsRight
  <2>2. /\ inbox' \in [Watched -> Seq(Messages)]
        /\ \A v \in Watched : ~up'[v] => inbox'[v] = <<>>
    BY <2>1, PublishTyped
  <2>3. sent' \in [Watched -> Prices \cup {Nobody}]
    BY <1>12 DEF TakeBid, TakeOtherBid, TakeProxyBid, Announce
  <2> QED BY <2>1, <2>2, <2>3
<1>13. CASE Silently \/ UNCHANGED allVars
  <2>1. UNCHANGED roomVars BY <1>13 DEF Silently, allVars
  <2> QED BY <1>2, <1>3, <1>4, <1>5, <2>1 DEF roomVars
<1>14. Rest \/ Silently \/ UNCHANGED allVars
  BY <1>6, <1>7, <1>8, <1>9, <1>10, <1>11, <1>12 DEF RoomNext
<1> QED BY <1>3, <1>4, <1>5, <1>13, <1>14

LEMMA InformedStep ==
    ASSUME RoomAssumption, AuctionAssumption, IInv, RoomTyped, Grown, [RoomNext]_allVars,
           Lossless', \A v \in Watched : Informed(v)
    PROVE  \A v \in Watched : Informed(v)'
<1>1. ~Abort /\ \A v \in Watched : ~Drop(v) BY LossStays
<1>2. ASSUME NEW v \in Watched, Hear(v) PROVE \A w \in Watched : Informed(w)'
  <2> SUFFICES ASSUME NEW w \in Watched PROVE Informed(w)'
    OBVIOUS
  <2>1. draft' = draft /\ up' = up BY <1>2 DEF Hear, vars
  <2>2. CASE w = v
    <3>1. /\ inbox[v] # <<>> /\ inbox'[v] = Tail(inbox[v])
          /\ heard'[v] = TakenIn(v, Head(inbox[v])) /\ up[v]
      BY <1>2 DEF Hear, RoomTyped, TypeOK
    <3>2. Tells(Tail(inbox[v]), TakenIn(v, Head(inbox[v])), draft)
      BY <3>1, HearTells DEF Informed, RoomTyped, TypeOK
    <3> QED BY <2>1, <2>2, <3>1, <3>2 DEF Informed
  <2>3. CASE w # v
    <3>1. inbox'[w] = inbox[w] /\ heard'[w] = heard[w]
      BY <1>2, <2>3 DEF Hear, RoomTyped, TypeOK
    <3> QED BY <2>1, <3>1 DEF Informed
  <2> QED BY <2>2, <2>3
<1>3. ASSUME \/ \E v \in Watched : TakeBid(v)
             \/ \E v \in Vendors \ Watched, amount \in Prices : TakeOtherBid(v, amount)
             \/ \E p \in Vendors : TakeProxyBid(p)
             \/ \E a \in Staff : Announce(a)
      PROVE  \A w \in Watched : Informed(w)'
  <2>1. PICK news \in Seq(Messages) :
            /\ Publish(news) /\ up' = up /\ heard' = heard
            /\ \A v \in Watched : Tells(inbox[v] \o news, heard[v], draft')
    BY <1>3, NewsIsRight
  <2> QED BY <2>1, PublishInforms
<1>4. ASSUME NEW v \in Watched,
             \/ Connect(v) \/ Poll(v) \/ RefuseBid(v)
             \/ \E amount \in Prices : SendBid(v, amount)
      PROVE  \A w \in Watched : Informed(w)'
  <2>1. draft' = draft /\ heard' = heard /\ inbox' = inbox
    BY <1>4 DEF Connect, Poll, RefuseBid, SendBid, vars
  <2>2. \A w \in Watched : up[w] => up'[w]
    BY <1>4 DEF Connect, Poll, RefuseBid, SendBid, RoomTyped, TypeOK
  <2> QED BY <2>1, <2>2, StayInformed
<1>5. CASE Silently \/ UNCHANGED allVars
  <2>1. UNCHANGED roomVars BY <1>5 DEF Silently, allVars
  <2>2. draft' = draft
    BY <1>1, <1>5 DEF Silently, Tick, Commit, SetFloor, Read, allVars, vars
  <2> QED BY <2>1, <2>2, StayInformed DEF roomVars
<1> QED BY <1>1, <1>2, <1>3, <1>4, <1>5 DEF RoomNext

\* An accepted bid moves the end of the row it was placed in, if it moves it,
\* forward, and counts the extension.
LEMMA PlacedGrows ==
    ASSUME AuctionAssumption, Typed, NEW row, RowOK(row), NEW v, NEW amount
    PROVE  /\ row.closeAt \in Nat /\ row.extensions \in Nat
           /\ Placed(row, v, amount).closeAt \in Nat
           /\ Placed(row, v, amount).extensions \in Nat
           /\ row.closeAt <= Placed(row, v, amount).closeAt
           /\ row.extensions <= Placed(row, v, amount).extensions
           /\ row.closeAt # Placed(row, v, amount).closeAt =>
                  Placed(row, v, amount).extensions > 0
<1>1. row \in Row /\ row.closeAt \in Nat /\ row.extensions \in Nat BY DEF RowOK, Row
<1>2. config.duration \in Nat BY DEF Typed, Config
<1>3. /\ Placed(row, v, amount).closeAt = IF Extends(row, amount)
             THEN row.closeAt + config.duration ELSE row.closeAt
      /\ Placed(row, v, amount).extensions = IF Extends(row, amount)
             THEN row.extensions + 1 ELSE row.extensions
  BY <1>1 DEF Placed, Row
<1> QED BY <1>1, <1>2, <1>3

LEMMA GrownStep ==
    ASSUME AuctionAssumption, IInv, Grown, [Next]_vars
    PROVE  Grown'
<1>1. /\ RowOK(db) /\ RowOK(draft) /\ Typed /\ Extended
      /\ db.closeAt \in Nat /\ db.extensions \in Nat
      /\ draft.closeAt \in Nat /\ draft.extensions \in Nat
  BY DEF IInv, Good, RowOK, Row, Grown
<1>2. ASSUME Extended', db' = db, reading' = reading, seen' = seen
      PROVE  Grown'
  BY <1>2 DEF Grown, OpenedAt
<1>3. ASSUME NEW v \in Vendors, NEW amount \in Prices, Bid(v, amount)
      PROVE  Grown'
  <2>1. draft' = Placed(db, v, amount) /\ db' = db BY <1>3 DEF Bid
  <2>2. Extended' BY <1>1, <2>1, PlacedGrows DEF Extended
  <2> QED BY <1>2, <1>3, <2>1, <2>2 DEF Bid
<1>4. ASSUME NEW p \in Vendors, ProxyBid(p) PROVE Grown'
  <2>1. CASE ProxyAnswer(p) = Nobody
    <3>1. draft' = draft /\ db' = db BY <1>4, <2>1 DEF ProxyBid
    <3> QED BY <1>1, <1>2, <1>4, <3>1 DEF ProxyBid, Extended
  <2>2. CASE ProxyAnswer(p) # Nobody
    <3> DEFINE after == Placed(draft, p, ProxyAnswer(p))
    <3>1. draft' = after /\ db' = db BY <1>4, <2>2 DEF ProxyBid
    <3>2. /\ after.closeAt \in Nat /\ after.extensions \in Nat
          /\ draft.closeAt <= after.closeAt /\ draft.extensions <= after.extensions
          /\ draft.closeAt # after.closeAt => after.extensions > 0
      BY <1>1, PlacedGrows
    <3> HIDE DEF after
    <3>3. Extended' BY <1>1, <3>1, <3>2 DEF Extended
    <3> QED BY <1>2, <1>4, <3>1, <3>3 DEF ProxyBid
  <2> QED BY <2>1, <2>2
<1>5. ASSUME NEW a \in Staff, NEW op \in Ops, Read(a, op) PROVE Grown'
  <2>1. db' = db /\ draft' = draft BY <1>5 DEF Read
  <2>2. /\ reading' = [reading EXCEPT ![a] = op]
        /\ seen' = [seen EXCEPT ![a] = IF op = "open" THEN db.closeAt ELSE Nobody]
    BY <1>5 DEF Read
  <2>3. OpenedAt(db, db.closeAt) BY <1>1 DEF OpenedAt
  <2>4. \A b \in Staff : IF reading'[b] = "open" THEN OpenedAt(db, seen'[b])
                          ELSE seen'[b] = Nobody
    BY <1>1, <2>2, <2>3 DEF Typed, Grown
  <2> QED BY <1>1, <2>1, <2>4 DEF Grown, Extended, OpenedAt
<1>6. ASSUME NEW a \in Staff, Write(a) PROVE Grown'
  <2>1. /\ db' = db /\ reading' = [reading EXCEPT ![a] = Nobody]
        /\ seen' = [seen EXCEPT ![a] = Nobody]
    BY <1>6 DEF Write
  <2>2. draft'.closeAt = db.closeAt /\ draft'.extensions = db.extensions
    <3>1. db \in Row BY <1>1 DEF RowOK
    <3>2. CASE reading[a] = "close" BY <1>6, <3>1, <3>2 DEF Write, Closed, Row
    <3>3. CASE reading[a] # "close" BY <1>6, <3>1, <3>3 DEF Write, Row
    <3> QED BY <3>2, <3>3
  <2>3. Extended' BY <1>1, <2>1, <2>2 DEF Extended
  <2>4. \A b \in Staff : IF reading'[b] = "open" THEN OpenedAt(db, seen'[b])
                          ELSE seen'[b] = Nobody
    BY <1>1, <2>1 DEF Typed, Grown, AuctionAssumption, Ops
  <2> QED BY <2>1, <2>3, <2>4 DEF Grown, OpenedAt
<1>7. CASE Commit
  <2>1. db' = draft /\ draft' = draft /\ reading' = reading /\ seen' = seen
    BY <1>7 DEF Commit
  <2>2. \A end : OpenedAt(db, end) => OpenedAt(draft, end)
    BY <1>1 DEF OpenedAt, Extended
  <2>3. \A a \in Staff : IF reading[a] = "open" THEN OpenedAt(draft, seen[a])
                          ELSE seen[a] = Nobody
    BY <2>2 DEF Grown
  <2> QED BY <1>1, <2>1, <2>3 DEF Grown, Extended, OpenedAt
<1>8. CASE Abort
  <2>1. db' = db /\ draft' = db BY <1>8 DEF Abort
  <2>2. Extended' BY <1>1, <2>1 DEF Extended
  <2> QED BY <1>2, <1>8, <2>1, <2>2 DEF Abort
<1>9. ASSUME \/ Tick \/ UNCHANGED vars
             \/ \E v \in Vendors : \E floor \in FloorsOf[v] : SetFloor(v, floor)
      PROVE  Grown'
  <2>1. db' = db /\ draft' = draft /\ reading' = reading /\ seen' = seen
    BY <1>9 DEF Tick, SetFloor, vars
  <2> QED BY <1>1, <1>2, <2>1 DEF Extended
<1> QED BY <1>3, <1>4, <1>5, <1>6, <1>7, <1>8, <1>9 DEF Next

LEMMA RoomNextInv ==
    RoomAssumption /\ AuctionAssumption /\ RInv /\ [RoomNext]_allVars => RInv'
<1> SUFFICES ASSUME RoomAssumption, AuctionAssumption, RInv, [RoomNext]_allVars
             PROVE  RInv'
  OBVIOUS
<1>1. IInv /\ RoomTyped /\ Grown BY DEF RInv
<1>2. IInv' BY <1>1, ServerStep, NextInv
<1>3. RoomTyped' BY <1>1, RoomTypedStep
<1>4. Lossless' => \A v \in Watched : Informed(v)'
  BY <1>1, LossStays, InformedStep DEF RInv
<1>5. Grown' BY <1>1, ServerStep, GrownStep
<1> QED BY <1>2, <1>3, <1>4, <1>5 DEF RInv

\* RInv holds in every reachable state, for every value of the constants.
THEOREM RoomInvariance == RoomSpec => []RInv
<1>1. RoomInit => RInv BY RoomInitInv, RoomAssumption, AuctionAssumption
<1>2. RInv /\ [RoomNext]_allVars => RInv'
  BY RoomNextInv, RoomAssumption, AuctionAssumption
<1> QED BY <1>1, <1>2, PTL DEF RoomSpec

-----------------------------------------------------------------------------
(* The theorems.                                                            *)

\* Rooms only look at the auction and bid in it: the server behind them is the
\* server of LiveAuction, so that what is proved of it, that the lowest valid
\* bid wins and that every bid undercuts, holds with rooms and sockets too.
THEOREM RoomsRunTheAuction == RoomSpec => Spec
<1>1. RoomInit => Init BY DEF RoomInit
<1>2. RInv /\ [RoomNext]_allVars => [Next]_vars
  BY ServerStep, RoomAssumption, AuctionAssumption DEF RInv
<1> QED BY <1>1, <1>2, RoomInvariance, PTL DEF RoomSpec, Spec

\* Types of the server and its rooms; a closed socket carries nothing (onclose).
THEOREM RoomTypeCorrect == RoomSpec => []TypeOK
<1>1. RInv => TypeOK BY DEF RInv, RoomTyped
<1> QED BY <1>1, RoomInvariance, PTL

\* In however many rooms, with bids, proxies, extensions, the beat and the buyer
\* in any order: where nothing was lost and nothing is under way, what a socket
\* told its room is what is committed, but for an end that an open read before
\* the auction was extended (_broadcast before the commit, onmessage).
THEOREM QuietRoomIsRightHolds == RoomSpec => []QuietRoomIsRight
<1>1. RInv => QuietRoomIsRight
  <2> SUFFICES ASSUME RInv, holder = Nobody, Lossless,
                      NEW v \in Watched, up[v], inbox[v] = <<>>
               PROVE  /\ heard[v].price \in {Nobody, Best(db.bids)}
                      /\ \/ heard[v].closeAt \in {Nobody, db.closeAt}
                         \/ Overtaken(heard[v].closeAt)
                      /\ \/ heard[v].status \in {Nobody, db.status}
                         \/ heard[v].status = "OPEN" /\ db.status = "EXTENDED"
    BY DEF QuietRoomIsRight, Lossless
  <2>1. Tells(<<>>, heard[v], db) BY DEF RInv, IInv, Held, Informed
  <2>2. \A K, f, known, S : Told(<<>>, K, f, known, S) => known \in S BY DEF Told
  <2>3. /\ heard[v].price \in {Nobody, Best(db.bids)}
        /\ heard[v].closeAt \in MayEnd(db)
        /\ heard[v].status \in MayShow(db.status)
    BY <2>1, <2>2 DEF Tells
  <2> QED BY <2>3 DEF MayShow, MayEnd, Overtaken
<1> QED BY <1>1, RoomInvariance, PTL
=============================================================================
