----------------------------- MODULE AuctionRoom -----------------------------
(***************************************************************************)
(* A live auction with the rooms its suppliers watch it in.  A room keeps  *)
(* two pictures of the auction: what useAuctionSocket made of the messages *)
(* it heard, and what the queries of useAuction.ts last read.  There are   *)
(* two screens over them, each with its own rule for which picture wins:   *)
(* the bidding terminal of rfqs/[id]/auction and the LiveAuctionRoom of    *)
(* auctions/[id]/live.  A socket hears what is published while it is       *)
(* subscribed and nothing else: there is no snapshot on connecting.        *)
(***************************************************************************)
EXTENDS LiveAuction

CONSTANTS
    Watched,      \* the suppliers whose rooms are in the model
    Screen,       \* Screen[v]: the page v has opened, "terminal" or "floor"
    Placeholder,  \* LiveAuctionRoom's price when it knows none
    Lag,          \* bound: messages on their way to a room
    Sends,        \* bound: bids typed
    Drops         \* bound: sockets that break

ASSUME RoomAssumption ==
    /\ Watched \subseteq Vendors /\ Screen \in [Watched -> {"terminal", "floor"}]
    /\ Placeholder \in Nat /\ Lag \in Nat /\ Sends \in Nat /\ Drops \in Nat

VARIABLES
    up,     \* up[v]: the socket is open and its listener subscribed
    inbox,  \* inbox[v]: messages on their way to the room
    sent,   \* sent[v]: a SUBMIT_BID on its way to the server
    heard,  \* heard[v]: useAuctionSocket's state, null until a message sets it
    polled, \* polled[v]: data of useLiveAuction and useAuctionMyRank
    left    \* what remains of the two bounds

roomVars == <<up, inbox, sent, heard, polled, left>>
allVars == <<vars, roomVars>>

Unheard == [status |-> Nobody, closeAt |-> Nobody, price |-> Nobody, rank |-> Nobody]
Unread == [status |-> Nobody, price |-> Nobody, rank |-> Nobody]
----------------------------------------------------------------------------
(* What the screen shows.                                                  *)

Or(first, second) == IF first # Nobody THEN first ELSE second

\* Mutant: the floor trusts its socket like the terminal does.
ShownStatusHeard(v) == Or(heard[v].status, polled[v].status)
ShownStatus(v) ==
    IF Screen[v] = "terminal" THEN Or(heard[v].status, polled[v].status)
    ELSE polled[v].status

ShownPrice(v) ==
    IF Screen[v] = "terminal" THEN Or(heard[v].price, polled[v].price)
    ELSE Or(heard[v].price, Placeholder)

ShownRank(v) == Or(heard[v].rank, polled[v].rank)

\* The bid entry is enabled, and takes an amount that meets the decrement.
Offers(v, amount) == ShownStatus(v) = "OPEN" /\ DecrementMet(amount, ShownPrice(v))
----------------------------------------------------------------------------
(* The socket.                                                             *)

\* Mutant: a closed socket's listener is still fed.
PublishToAll(news) ==
    /\ \A v \in Watched : Len(inbox[v]) + Len(news) <= Lag
    /\ inbox' = [v \in Watched |-> inbox[v] \o news]
\* _broadcast, while the transaction is still open: who is not subscribed to
\* the channel at this moment never gets it.
Publish(news) ==
    /\ \A v \in Watched : Len(inbox[v]) + Len(news) <= Lag
    /\ inbox' = [v \in Watched |-> IF up[v] THEN inbox[v] \o news ELSE inbox[v]]

\* Mutant: the handler of AUCTION_CANCELLED is missing.
TakenInNoCancel(v, m) ==
    CASE m.type = "EXTENDED" -> [heard[v] EXCEPT !.closeAt = m.closeAt]
      [] m.type = "OPEN" -> [heard[v] EXCEPT !.status = "OPEN", !.closeAt = m.closeAt]
      [] m.type = "BID" -> [heard[v] EXCEPT !.price = m.price]
      [] m.type = "CANCELLED" -> heard[v]
      [] OTHER -> [heard[v] EXCEPT !.status = m.type]
\* onmessage: AUCTION_EXTENDED sets the closing time but not the status, and
\* only a bidder gets the RANK_UPDATE of a BID.
TakenIn(v, m) ==
    CASE m.type = "EXTENDED" -> [heard[v] EXCEPT !.closeAt = m.closeAt]
      [] m.type = "OPEN" -> [heard[v] EXCEPT !.status = "OPEN", !.closeAt = m.closeAt]
      [] m.type = "BID" -> [heard[v] EXCEPT !.price = m.price,
                                !.rank = IF m.vendor = v THEN m.rank ELSE @]
      [] OTHER -> [heard[v] EXCEPT !.status = m.type]

RoomInit ==
    /\ Init
    /\ up = [v \in Watched |-> FALSE]
    /\ inbox = [v \in Watched |-> <<>>]
    /\ sent = [v \in Watched |-> Nobody]
    /\ heard = [v \in Watched |-> Unheard]
    /\ polled = [v \in Watched |-> Unread]
    /\ left = [sends |-> Sends, drops |-> Drops]

\* connect: the handshake and the server's subscription.
Connect(v) ==
    /\ ~up[v]
    /\ up' = [up EXCEPT ![v] = TRUE]
    /\ UNCHANGED <<vars, inbox, sent, heard, polled, left>>

\* onclose: what the socket carried is lost, except a bid the server has;
\* the state of the hook stays, and it connects again after a while.  A page
\* that reloads is a room that connects late.
Drop(v) ==
    /\ up[v]
    /\ left.drops > 0 /\ left' = [left EXCEPT !.drops = @ - 1]
    /\ up' = [up EXCEPT ![v] = FALSE]
    /\ inbox' = [inbox EXCEPT ![v] = <<>>]
    /\ \E kept \in {sent[v], Nobody} : sent' = [sent EXCEPT ![v] = kept]
    /\ UNCHANGED <<vars, heard, polled>>

Hear(v) ==
    /\ inbox[v] # <<>>
    /\ heard' = [heard EXCEPT ![v] = TakenIn(v, Head(inbox[v]))]
    /\ inbox' = [inbox EXCEPT ![v] = Tail(@)]
    /\ UNCHANGED <<vars, up, sent, polled, left>>

\* The queries read the committed auction again: their interval is up, or a
\* message has invalidated them.
Poll(v) ==
    /\ polled' = [polled EXCEPT ![v] = [status |-> db.status, price |-> Best(db.bids),
                                        rank |-> Rank(db.bids, v)]]
    /\ UNCHANGED <<vars, up, inbox, sent, heard, left>>

\* sendBid: without an open socket the bid is dropped.
SendBid(v, amount) ==
    /\ up[v] /\ sent[v] = Nobody /\ Offers(v, amount)
    /\ left.sends > 0 /\ left' = [left EXCEPT !.sends = @ - 1]
    /\ sent' = [sent EXCEPT ![v] = amount]
    /\ UNCHANGED <<vars, up, inbox, heard, polled>>
----------------------------------------------------------------------------
(* The server, with its messages.                                          *)

\* _handle_client_message on a bid that counts or is stored.
TakeBid(v) ==
    /\ sent[v] # Nobody
    /\ Bid(v, sent[v])
    /\ Publish(BidNews(db, v, sent[v]))
    /\ sent' = [sent EXCEPT ![v] = Nobody]
    /\ UNCHANGED <<up, heard, polled, left>>

\* The same for a supplier whose room is not in the model.
TakeOtherBid(v, amount) ==
    /\ Bid(v, amount)
    /\ Publish(BidNews(db, v, amount))
    /\ UNCHANGED <<up, sent, heard, polled, left>>

\* ... and on one that a guard refuses; only its BID_REJECTED is left of it.
RefuseBid(v) ==
    /\ sent[v] # Nobody /\ holder = Nobody
    /\ ~Accepts(db, sent[v])
    /\ sent' = [sent EXCEPT ![v] = Nobody]
    /\ UNCHANGED <<vars, up, inbox, heard, polled, left>>

TakeProxyBid(p) ==
    /\ ProxyBid(p)
    /\ Publish(IF ProxyAnswer(p) = Nobody THEN <<>>
               ELSE BidNews(draft, p, ProxyAnswer(p)))
    /\ UNCHANGED <<up, sent, heard, polled, left>>

Announce(a) ==
    /\ Write(a)
    /\ Publish(StatusNews(reading[a], seen[a]))
    /\ UNCHANGED <<up, sent, heard, polled, left>>

Silently ==
    /\ \/ Tick \/ Commit \/ Abort
       \/ \E v \in Vendors : \E floor \in FloorsOf[v] : SetFloor(v, floor)
       \/ \E a \in Staff, op \in Ops : Read(a, op)
    /\ UNCHANGED roomVars

RoomNext ==
    \/ \E v \in Watched :
        \/ Connect(v) \/ Drop(v)
        \/ Hear(v) \/ Poll(v)
        \/ \E amount \in Prices : SendBid(v, amount)
        \/ TakeBid(v) \/ RefuseBid(v)
    \/ \E v \in Vendors \ Watched, amount \in Prices : TakeOtherBid(v, amount)
    \/ \E p \in Vendors : TakeProxyBid(p)
    \/ \E a \in Staff : Announce(a)
    \/ Silently

RoomSpec == RoomInit /\ [][RoomNext]_allVars
----------------------------------------------------------------------------
Heard == [status : Statuses \cup {Nobody}, closeAt : Nat \cup {Nobody},
          price : Int \cup {Nobody}, rank : Nat \cup {Nobody}]
Polled == [status : Statuses \cup {Nobody}, price : Int \cup {Nobody},
           rank : Nat \cup {Nobody}]

\* The type invariant of the server and its rooms.
TypeOK ==
    /\ AuctionTypeOK
    /\ up \in [Watched -> BOOLEAN]
    /\ sent \in [Watched -> Prices \cup {Nobody}]
    /\ heard \in [Watched -> Heard] /\ polled \in [Watched -> Polled]
    /\ \A v \in Watched : ~up[v] => inbox[v] = <<>>

\* An end from before an extension, of an auction that is EXTENDED no more.
Overtaken(end) == end < db.closeAt /\ db.extensions > 0 /\ db.status # "EXTENDED"

\* In a room that lost nothing, once it has heard everything and no
\* transaction is open, what the socket told it is what is committed: messages
\* are published in the order of the commits they announce, whoever sends them.
\* The end it shows is too early at worst, and that only where a status was
\* written over EXTENDED: an open announces the end it read before it waited
\* for the bid that extended the auction (open_auction).
QuietRoomIsRight ==
    (holder = Nobody /\ left.drops = Drops /\ faults = Faults) =>
        \A v \in Watched : up[v] /\ inbox[v] = <<>> =>
            /\ heard[v].price \in {Nobody, Best(db.bids)}
            /\ \/ heard[v].closeAt \in {Nobody, db.closeAt}
               \/ Overtaken(heard[v].closeAt)
            /\ \/ heard[v].status \in {Nobody, db.status}
               \/ heard[v].status = "OPEN" /\ db.status = "EXTENDED"

\* A supplier who is shown a rank is shown his own: with nothing lost, no
\* transaction open and both pictures up to date, the rank on the screen is
\* the one the committed bids give him.
ShownRankIsRight ==
    (holder = Nobody /\ left.drops = Drops /\ faults = Faults) =>
        \A v \in Watched :
            (up[v] /\ inbox[v] = <<>> /\ polled[v].rank = Rank(db.bids, v)) =>
                ShownRank(v) = Rank(db.bids, v)

\* The server as in LiveAuction, sockets that deliver what they carry, and
\* the intervals of the queries; nobody has to bid and no socket to reconnect.
RoomFairness ==
    /\ WF_allVars((Tick \/ Commit) /\ UNCHANGED roomVars)
    /\ WF_allVars((Read("beat", "open") \/ Read("beat", "close")) /\ UNCHANGED roomVars)
    /\ \A a \in Staff : WF_allVars(Announce(a))
    /\ WF_allVars(\E p \in Vendors : TakeProxyBid(p))
    /\ \A v \in Watched : WF_allVars(Hear(v)) /\ WF_allVars(Poll(v))

RoomFairSpec == RoomSpec /\ RoomFairness

\* A floor stops offering bids for good, whatever its socket and the server's
\* transactions lose: it takes the status from the query (LiveAuctionRoom).
FloorSeesTheEnd ==
    \A v \in Watched : Screen[v] = "floor" => <>[](ShownStatus(v) \in Over)
=============================================================================
