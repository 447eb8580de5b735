-------------------------- MODULE NotificationStream --------------------------
(***************************************************************************)
(* One user's notifications: the rows NotificationService and the consumer *)
(* write, the socket that pushes them, and the store of the browser, which *)
(* the socket, every query of useNotificationsList and the user's own      *)
(* clicks all write to.                                                    *)
(*                                                                         *)
(* A notification is pushed before its transaction commits, so that a page *)
(* may know of a row that no query finds yet, or ever will.  A query that  *)
(* is invalidated while it is fetching starts again, and the request it    *)
(* leaves behind is not aborted: its answer still goes to the store.       *)
(***************************************************************************)
EXTENDS Integers, Sequences, FiniteSets, Functions

CONSTANTS
    Rows,     \* the notifications that may be sent to the user
    Nameless, \* those the consumer sends: pushed before the row has an id
    Blank,    \* the id such a push arrives with
    Views,    \* the lists on the screen: "all" (bell, centre), "unread" (centre)
    None,     \* what a request does not know yet
    Slots,    \* bound: list requests on their way
    Queue,    \* bound: pushes on their way
    Drops,    \* bound: sockets that break
    Clicks,   \* bound: clicks
    Faults    \* bound: transactions that roll back, clicks and lists that get lost

Ids == Rows \cup {Blank}

ASSUME StreamAssumption ==
    /\ Nameless \subseteq Rows /\ Blank \notin Rows /\ IsFiniteSet(Rows)
    /\ Views \subseteq {"all", "unread"} /\ "all" \notin Ids
    /\ None \notin Int /\ None \notin [Rows -> {"unread", "read"}]
    /\ Slots >= Cardinality(Views) /\ Slots \in Nat /\ Queue \in Nat /\ Drops \in Nat
    /\ Clicks \in Nat /\ Faults \in Nat

VARIABLES
    db,      \* db[r]: "absent", or the committed row's "unread" or "read"
    open,    \* notifications pushed by a transaction that has not ended
    ended,   \* notifications whose transaction has
    socket,  \* "down", "open", or "live" once its listener is subscribed
    inbox,   \* ids on their way to the page
    shown,   \* notifications of the store: id to "unread" or "read"
    badge,   \* unreadCount of the store
    loaded,  \* the views whose query has data
    failed,  \* the views whose query is in error: its last fetch failed
    flights, \* flights[i]: a GET /notifications on its way, or None
    clicks,  \* POSTs on their way: ids, and "all"
    done,    \* the same, executed, with the answer on its way
    left     \* what remains of the last three bounds

server == <<db, open, ended>>
page == <<shown, badge, loaded, failed, flights>>
posts == <<clicks, done>>
vars == <<server, socket, inbox, page, posts, left>>

Unread(s) == {x \in DOMAIN s : s[x] = "unread"}

\* isConnected of the store, which onopen sets before the server subscribes.
Connected == socket # "down"
----------------------------------------------------------------------------
(* Requests for the list.                                                  *)

Flight == [view : Views, wanted : BOOLEAN, unread : Nat \cup {None},
           items : {None} \cup UNION {[S -> {"unread", "read"}] : S \in SUBSET Rows}]

Asked(v) == [view |-> v, wanted |-> TRUE, unread |-> None, items |-> None]

\* A slot for each of the views of S; the slots are all alike.
Slotted(S, free) == CHOOSE slot \in Injection(S, free) : TRUE

Wanted(v) == {i \in DOMAIN flights : flights[i] # None /\ flights[i].view = v
                                        /\ flights[i].wanted}
Free == {i \in DOMAIN flights : flights[i] = None}

\* Flights after the queries of S have started again, each in a slot of its
\* own: what they waited for is no longer wanted, nor is it stopped.
Restarted(S, slot) ==
    [i \in DOMAIN flights |->
        IF \E v \in S : slot[v] = i THEN Asked(CHOOSE v \in S : slot[v] = i)
        ELSE IF flights[i] # None /\ flights[i].view \in S
        THEN [flights[i] EXCEPT !.wanted = FALSE] ELSE flights[i]]

\* invalidateQueries: a query that has no data yet goes on with its fetch.
Invalidate ==
    LET S == {v \in Views : v \in loaded \/ Wanted(v) = {}}
    IN  /\ Cardinality(S) <= Cardinality(Free)
        /\ flights' = Restarted(S, Slotted(S, Free))

Init ==
    /\ db = [r \in Rows |-> "absent"]
    /\ open = {} /\ ended = {}
    /\ socket = "down" /\ inbox = <<>>
    /\ shown = [x \in {} |-> "read"] /\ badge = 0
    /\ loaded = {} /\ failed = {}
    /\ LET slot == Slotted(Views, 1..Slots)
       IN  flights = [i \in 1..Slots |->
               IF \E v \in Views : slot[v] = i
               THEN Asked(CHOOSE v \in Views : slot[v] = i) ELSE None]
    /\ clicks = {} /\ done = {}
    /\ left = [drops |-> Drops, clicks |-> Clicks, faults |-> Faults]

\* Mutant: polling is left to the socket for good once it has connected.
PollsConnected == Connected
\* refetchInterval: every 15 seconds without a socket, never with one.
Polls == ~Connected

\* The interval of a query that is not fetching.
Poll(v) ==
    /\ Polls /\ Wanted(v) = {}
    /\ Free # {}
    /\ flights' = Restarted({v}, Slotted({v}, Free))
    /\ UNCHANGED <<server, socket, inbox, shown, badge, loaded, failed, posts, left>>

\* list_for_user counts the unread rows ...
Count(i) ==
    /\ flights[i] # None /\ flights[i].unread = None
    /\ flights' = [flights EXCEPT ![i].unread = Cardinality(Unread(db))]
    /\ UNCHANGED <<server, socket, inbox, shown, badge, loaded, failed, posts, left>>

\* ... and reads the page with another statement, of a later snapshot.
List(i) ==
    /\ flights[i] # None /\ flights[i].unread # None /\ flights[i].items = None
    /\ LET rows == {r \in Rows : db[r] # "absent"
                        /\ (flights[i].view = "unread" => db[r] = "unread")}
       IN  flights' = [flights EXCEPT ![i].items = [r \in rows |-> db[r]]]
    /\ UNCHANGED <<server, socket, inbox, shown, badge, loaded, failed, posts, left>>

\* The body of queryFn, which runs whether the answer is wanted or not:
\* setNotifications replaces the list and the badge of the store.
Answer(i) ==
    /\ flights[i] # None /\ flights[i].items # None
    /\ shown' = flights[i].items
    /\ badge' = flights[i].unread
    /\ LET v == IF flights[i].wanted THEN {flights[i].view} ELSE {}
       IN  loaded' = loaded \cup v /\ failed' = failed \ v
    /\ flights' = [flights EXCEPT ![i] = None]
    /\ UNCHANGED <<server, socket, inbox, posts, left>>

\* The request fails, with its retries: the store keeps what it has, and
\* while the socket is up nothing but the next push asks again.
Fail(i) ==
    /\ flights[i] # None
    /\ left.faults > 0 /\ left' = [left EXCEPT !.faults = @ - 1]
    /\ failed' = IF flights[i].wanted THEN failed \cup {flights[i].view} ELSE failed
    /\ flights' = [flights EXCEPT ![i] = None]
    /\ UNCHANGED <<server, socket, inbox, shown, badge, loaded, posts>>
----------------------------------------------------------------------------
(* The stream.                                                             *)

\* dispatch, up to its publication, or a message the consumer has received.
Dispatch(r) ==
    /\ r \notin open \cup ended
    /\ Len(inbox) < Queue
    /\ open' = open \cup {r}
    /\ inbox' = IF socket # "live" THEN inbox
                ELSE Append(inbox, IF r \in Nameless THEN Blank ELSE r)
    /\ UNCHANGED <<db, ended, socket, page, posts, left>>

End(r, status) ==
    /\ r \in open
    /\ open' = open \ {r} /\ ended' = ended \cup {r}
    /\ db' = [db EXCEPT ![r] = status]
    /\ UNCHANGED <<socket, inbox, page, posts>>

Commit(r) == End(r, "unread") /\ UNCHANGED left

Rollback(r) ==
    /\ left.faults > 0 /\ left' = [left EXCEPT !.faults = @ - 1]
    /\ End(r, "absent")

Connect ==
    /\ socket = "down" /\ socket' = "open"
    /\ UNCHANGED <<server, inbox, page, posts, left>>

\* What is published between the accepting and the subscribing is not heard.
Subscribe ==
    /\ socket = "open" /\ socket' = "live"
    /\ UNCHANGED <<server, inbox, page, posts, left>>

\* onclose: nothing is asked of the server when the socket is back.
Disconnect ==
    /\ Connected /\ socket' = "down"
    /\ left.drops > 0 /\ left' = [left EXCEPT !.drops = @ - 1]
    /\ inbox' = <<>>
    /\ UNCHANGED <<server, page, posts>>

\* addNotification, which knows a notification by its id.
Added(x) ==
    IF x \in DOMAIN shown THEN shown
    ELSE [y \in DOMAIN shown \cup {x} |-> IF y = x THEN "unread" ELSE shown[y]]

\* Mutant: the lists are not fetched again for a push.
NotRefreshed == flights' = flights
\* What a push does to the queries.
Refreshed == Invalidate

\* onmessage.
Hear ==
    /\ inbox # <<>> /\ inbox' = Tail(inbox)
    /\ shown' = Added(Head(inbox))
    /\ badge' = IF Head(inbox) \in DOMAIN shown THEN badge ELSE badge + 1
    /\ Refreshed
    /\ UNCHANGED <<server, socket, loaded, failed, posts, left>>
----------------------------------------------------------------------------
(* The user's clicks.                                                      *)

\* Mutant: a second click counts the badge down below what is unread.
CountedDownTwice == badge - 1
CountedDown == IF badge > 0 THEN badge - 1 ELSE 0

\* useMarkNotificationRead: the store first, then the request.
Click(x) ==
    /\ x \in Unread(shown)
    /\ left.clicks > 0 /\ left' = [left EXCEPT !.clicks = @ - 1]
    /\ shown' = [shown EXCEPT ![x] = "read"]
    /\ badge' = CountedDown
    /\ clicks' = clicks \cup {x}
    /\ UNCHANGED <<server, socket, inbox, loaded, failed, flights, done>>

\* useMarkAllNotificationsRead.
ClickAll ==
    /\ badge > 0 /\ "all" \notin clicks \cup done
    /\ left.clicks > 0 /\ left' = [left EXCEPT !.clicks = @ - 1]
    /\ shown' = [x \in DOMAIN shown |-> "read"]
    /\ badge' = 0
    /\ clicks' = clicks \cup {"all"}
    /\ UNCHANGED <<server, socket, inbox, loaded, failed, flights, done>>

\* mark_as_read and mark_all_as_read; a row that is not there is a 404,
\* after which nothing takes the click back.
Execute(x) ==
    /\ x \in clicks /\ clicks' = clicks \ {x}
    /\ LET hit == {r \in Rows : db[r] # "absent" /\ x \in {r, "all"}}
       IN  /\ db' = [r \in Rows |-> IF r \in hit THEN "read" ELSE db[r]]
           /\ done' = IF hit = {} /\ x # "all" THEN done ELSE done \cup {x}
    /\ UNCHANGED <<open, ended, socket, inbox, page, left>>

\* onSuccess.
Confirm(x) ==
    /\ x \in done /\ done' = done \ {x}
    /\ Invalidate
    /\ UNCHANGED <<server, socket, inbox, shown, badge, loaded, failed, clicks, left>>

\* The request is lost before, or its answer after, it is executed.
LoseClick(x) ==
    /\ x \in clicks \cup done
    /\ left.faults > 0 /\ left' = [left EXCEPT !.faults = @ - 1]
    /\ clicks' = clicks \ {x} /\ done' = done \ {x}
    /\ UNCHANGED <<server, socket, inbox, page>>

Next ==
    \/ \E v \in Views : Poll(v)
    \/ \E i \in DOMAIN flights : Count(i) \/ List(i) \/ Answer(i) \/ Fail(i)
    \/ \E r \in Rows : Dispatch(r) \/ Commit(r) \/ Rollback(r)
    \/ Connect \/ Subscribe \/ Disconnect
    \/ Hear
    \/ \E x \in Ids : Click(x)
    \/ ClickAll
    \/ \E x \in Ids \cup {"all"} : Execute(x) \/ Confirm(x) \/ LoseClick(x)

\* Requests are answered and transactions end, the socket delivers what it
\* carries, and the interval of a query comes round; nobody has to click or to
\* send anything, and no socket to connect or to break.
Fairness ==
    /\ \A i \in 1..Slots : WF_vars(Count(i)) /\ WF_vars(List(i)) /\ WF_vars(Answer(i))
    /\ \A v \in Views : WF_vars(Poll(v))
    /\ \A r \in Rows : WF_vars(Commit(r))
    /\ WF_vars(Hear)
    /\ \A x \in Ids \cup {"all"} : WF_vars(Execute(x)) /\ WF_vars(Confirm(x))

Spec == Init /\ [][Next]_vars /\ Fairness
----------------------------------------------------------------------------
\* The type invariant; a row is only in the table when its transaction ended.
TypeOK ==
    /\ db \in [Rows -> {"absent", "unread", "read"}]
    /\ open \subseteq Rows /\ ended \subseteq Rows \ open
    /\ \A r \in Rows \ ended : db[r] = "absent"
    /\ socket \in {"down", "open", "live"}
    /\ inbox \in Seq(Ids) /\ (socket # "live" => inbox = <<>>)
    /\ DOMAIN shown \subseteq Ids /\ \A x \in DOMAIN shown : shown[x] \in {"unread", "read"}
    /\ badge \in Nat
    /\ loaded \subseteq Views /\ failed \subseteq Views
    /\ flights \in [1..Slots -> Flight \cup {None}]
    /\ \A v \in Views : Cardinality(Wanted(v)) <= 1
    /\ clicks \subseteq Ids \cup {"all"} /\ done \subseteq Rows \cup {"all"}

\* What the page shows is what the table holds.
StoreIsRight ==
    /\ badge = Cardinality(Unread(db))
    /\ \A x \in DOMAIN shown : x \in Rows /\ shown[x] = db[x]

\* The fallback polling makes up for everything that was lost before: when the
\* socket stays down for good the badge and the status of every notification in
\* the list end up right, whatever pushes, commits, clicks and lists were lost
\* and whatever overtaken answers the store was given (refetchInterval).
PollingCatchesUp == <>[](socket = "down") => <>[]StoreIsRight

\* A notification that was pushed and then rolled back, and the nameless entry
\* of a push of the consumer, do not stay in the list: the refetch that the push
\* itself started takes them out (onmessage), and without a socket the polling
\* does.  One stays only where the code has nothing left to do: the socket is
\* up, so that no interval runs, and the last fetch of every list failed.
GhostsVanish ==
    \A x \in Ids : <>[](x \in DOMAIN shown =>
                            \/ x \in Rows /\ db[x] # "absent"
                            \/ Connected /\ failed = Views)
=============================================================================
