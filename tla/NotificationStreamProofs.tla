----------------------- MODULE NotificationStreamProofs -----------------------
(***************************************************************************)
(* The type invariant of the notification stream, for every set of rows    *)
(* and every bound.  Its inductive invariant replaces the number of wanted *)
(* requests of a view by what keeps it at one, that every restart takes a  *)
(* free slot and gives up what it waited for, and adds that a request has  *)
(* its count before it has its page.                                       *)
(***************************************************************************)
EXTENDS NotificationStream, FunctionTheorems, FiniteSetTheorems,
        SequenceTheorems, TLAPS

States == {"unread", "read"}
Pages == {None} \cup UNION {[S -> States] : S \in SUBSET Rows}

\* No view waits for two requests, and the page is read after the count.
FlightsOK(f) ==
    /\ f \in [1..Slots -> Flight \cup {None}]
    /\ \A i, j \in 1..Slots :
           (f[i] # None /\ f[i].wanted /\ f[j] # None /\ f[j].wanted
               /\ f[i].view = f[j].view) => i = j
    /\ \A i \in 1..Slots : f[i] # None /\ f[i].items # None => f[i].unread # None

TableOK ==
    /\ db \in [Rows -> {"absent"} \cup States]
    /\ open \subseteq Rows /\ ended \subseteq Rows \ open
    /\ \A r \in Rows \ ended : db[r] = "absent"

StreamOK ==
    /\ socket \in {"down", "open", "live"}
    /\ inbox \in Seq(Ids) /\ (socket # "live" => inbox = <<>>)

StoreOK ==
    /\ DOMAIN shown \subseteq Ids /\ \A x \in DOMAIN shown : shown[x] \in States
    /\ badge \in Nat
    /\ loaded \subseteq Views /\ failed \subseteq Views

ClicksOK == clicks \subseteq Ids \cup {"all"} /\ done \subseteq Rows \cup {"all"}

IInv == TableOK /\ StreamOK /\ StoreOK /\ FlightsOK(flights) /\ ClicksOK

-----------------------------------------------------------------------------
(* Slots.                                                                   *)

\* Where there are enough slots, everyone gets one of his own.
LEMMA SlotsSuffice ==
    ASSUME NEW S, NEW T, IsFiniteSet(S), IsFiniteSet(T), Cardinality(S) <= Cardinality(T)
    PROVE  /\ Slotted(S, T) \in [S -> T]
           /\ \A v, w \in S : Slotted(S, T)[v] = Slotted(S, T)[w] => v = w
<1> DEFINE k == Cardinality(S)
           n == Cardinality(T)
<1>1. k \in Nat /\ n \in Nat /\ k <= n BY FS_CardinalityType
<1>2. PICK f : f \in Bijection(1..k, S)
  BY FS_CardinalityType DEF ExistsBijection
<1>3. PICK g : g \in Bijection(1..n, T)
  BY FS_CardinalityType DEF ExistsBijection
<1> HIDE DEF k, n
<1> DEFINE inv == Inverse(f, 1..k, S)
           slot == [s \in S |-> g[inv[s]]]
<1>4. inv \in Bijection(S, 1..k) BY <1>2, Fun_BijInverse
<1> HIDE DEF inv
<1>5. inv \in [S -> 1..k] /\ \A a, b \in S : inv[a] = inv[b] => a = b
  BY <1>4 DEF Bijection, Injection, IsInjective
<1>6. g \in [1..n -> T] /\ \A a, b \in 1..n : g[a] = g[b] => a = b
  BY <1>3, Fun_BijectionProperties
<1>7. \A s \in S : inv[s] \in 1..n BY <1>1, <1>5
<1>8. slot \in [S -> T] BY <1>6, <1>7
<1>9. \A a, b \in S : slot[a] = slot[b] => a = b BY <1>5, <1>6, <1>7
<1>10. slot \in Injection(S, T) BY <1>8, <1>9 DEF Injection, IsInjective
<1>11. Slotted(S, T) \in Injection(S, T) BY <1>10 DEF Slotted
<1> QED BY <1>11 DEF Injection, IsInjective

LEMMA ViewsFinite == StreamAssumption => IsFiniteSet(Views)
<1>1. IsFiniteSet({"all", "unread"})
  <2>1. {"all", "unread"} = {"all"} \cup {"unread"} OBVIOUS
  <2>2. IsFiniteSet({"all"}) BY FS_Singleton
  <2>3. IsFiniteSet({"all"} \cup {"unread"}) BY <2>2, FS_AddElement
  <2> QED BY <2>1, <2>3
<1> QED BY <1>1, FS_Subset DEF StreamAssumption

LEMMA FreeFinite ==
    StreamAssumption /\ FlightsOK(flights) => IsFiniteSet(Free) /\ Free \subseteq 1..Slots
<1> SUFFICES ASSUME StreamAssumption, FlightsOK(flights)
             PROVE  IsFiniteSet(Free) /\ Free \subseteq 1..Slots
  OBVIOUS
<1>1. 1 \in Int /\ Slots \in Int /\ Free \subseteq 1..Slots
  BY DEF StreamAssumption, FlightsOK, Free
<1>2. IsFiniteSet(1..Slots) BY <1>1, FS_Interval
<1> QED BY <1>1, <1>2, FS_Subset

LEMMA AskedTyped ==
    ASSUME NEW v \in Views
    PROVE  /\ Asked(v) \in Flight /\ Asked(v).view = v /\ Asked(v).items = None
BY DEF Asked, Flight

\* A restart leaves every view with at most one request it waits for.
LEMMA RestartedOK ==
    ASSUME StreamAssumption, FlightsOK(flights), NEW S \in SUBSET Views,
           NEW slot \in [S -> Free], \A v, w \in S : slot[v] = slot[w] => v = w
    PROVE  FlightsOK(Restarted(S, slot))
<1> DEFINE g == Restarted(S, slot)
           A(i) == \E v \in S : slot[v] = i
           who(i) == CHOOSE v \in S : slot[v] = i
           B(i) == ~A(i) /\ flights[i] # None /\ flights[i].view \in S
           off(i) == [flights[i] EXCEPT !.wanted = FALSE]
<1>1. DOMAIN flights = 1..Slots /\ \A i \in 1..Slots : flights[i] \in Flight \cup {None}
  BY DEF FlightsOK
<1>2. ASSUME NEW i \in 1..Slots, A(i)
      PROVE  /\ who(i) \in S /\ slot[who(i)] = i /\ g[i] = Asked(who(i))
             /\ g[i] \in Flight /\ g[i].view = who(i) /\ g[i].items = None
  <2>1. who(i) \in S /\ slot[who(i)] = i BY <1>2
  <2>2. g[i] = Asked(who(i)) BY <1>1, <1>2 DEF Restarted
  <2> HIDE DEF g, who
  <2>3. who(i) \in Views BY <2>1
  <2>4. Asked(who(i)) \in Flight /\ Asked(who(i)).view = who(i) /\ Asked(who(i)).items = None
    BY <2>3, AskedTyped
  <2> QED BY <2>1, <2>2, <2>4
<1>3. ASSUME NEW i \in 1..Slots, B(i)
      PROVE  /\ g[i] \in Flight /\ ~g[i].wanted
             /\ g[i].items = flights[i].items /\ g[i].unread = flights[i].unread
  <2>1. g[i] = off(i) BY <1>1, <1>3 DEF Restarted
  <2>2. flights[i] \in Flight BY <1>1, <1>3
  <2> QED BY <2>1, <2>2 DEF Flight
<1>4. ASSUME NEW i \in 1..Slots, ~A(i), ~B(i)
      PROVE  g[i] = flights[i] /\ (g[i] # None => g[i].view \notin S)
  BY <1>1, <1>4 DEF Restarted
<1>5. g \in [1..Slots -> Flight \cup {None}]
  <2>1. DOMAIN g = 1..Slots /\ g = [i \in 1..Slots |-> g[i]] BY <1>1 DEF Restarted
  <2>2. \A i \in 1..Slots : g[i] \in Flight \cup {None} BY <1>1, <1>2, <1>3, <1>4
  <2> HIDE DEF g
  <2> QED BY <2>1, <2>2
<1> HIDE DEF g, A, B, who
<1>6. ASSUME NEW i \in 1..Slots, NEW j \in 1..Slots,
             g[i] # None, g[i].wanted, g[j] # None, g[j].wanted, g[i].view = g[j].view
      PROVE  i = j
  <2>1. ~B(i) /\ ~B(j) BY <1>3, <1>6
  <2>2. CASE A(i) /\ A(j)
    BY <1>2, <1>6, <2>2
  <2>3. CASE ~A(i) /\ ~A(j)
    <3>1. g[i] = flights[i] /\ g[j] = flights[j] BY <1>4, <2>1, <2>3
    <3> QED BY <1>6, <3>1 DEF FlightsOK
  <2>4. CASE A(i) /\ ~A(j) BY <1>2, <1>4, <1>6, <2>1, <2>4
  <2>5. CASE ~A(i) /\ A(j) BY <1>2, <1>4, <1>6, <2>1, <2>5
  <2> QED BY <2>2, <2>3, <2>4, <2>5
<1>7. ASSUME NEW i \in 1..Slots, g[i] # None, g[i].items # None
      PROVE  g[i].unread # None
  <2>1. CASE A(i) BY <1>2, <1>7, <2>1
  <2>2. CASE B(i) BY <1>3, <1>7, <2>2 DEF FlightsOK, B
  <2>3. CASE ~A(i) /\ ~B(i) BY <1>4, <1>7, <2>3 DEF FlightsOK
  <2> QED BY <2>1, <2>2, <2>3
<1>8. FlightsOK(g) BY <1>5, <1>6, <1>7 DEF FlightsOK
<1> QED BY <1>8 DEF g

LEMMA InvalidateOK ==
    ASSUME StreamAssumption, FlightsOK(flights), Invalidate
    PROVE  FlightsOK(flights')
<1> DEFINE S == {v \in Views : v \in loaded \/ Wanted(v) = {}}
<1>1. Cardinality(S) <= Cardinality(Free) /\ flights' = Restarted(S, Slotted(S, Free))
  BY DEF Invalidate
<1>2. S \in SUBSET Views OBVIOUS
<1> HIDE DEF S
<1>3. IsFiniteSet(S) /\ IsFiniteSet(Free) BY <1>2, ViewsFinite, FreeFinite, FS_Subset
<1>4. /\ Slotted(S, Free) \in [S -> Free]
      /\ \A v, w \in S : Slotted(S, Free)[v] = Slotted(S, Free)[w] => v = w
  BY <1>1, <1>3, SlotsSuffice
<1> QED BY <1>1, <1>2, <1>4, RestartedOK

-----------------------------------------------------------------------------
(* The initial state and the steps.                                         *)

LEMMA InitInv == StreamAssumption /\ Init => IInv
<1> SUFFICES ASSUME StreamAssumption, Init PROVE IInv
  OBVIOUS
<1>1. TableOK /\ StreamOK /\ StoreOK /\ ClicksOK
  <2>1. <<>> \in Seq(Ids) BY EmptySeq
  <2> QED BY <2>1 DEF Init, TableOK, StreamOK, StoreOK, ClicksOK
<1>2. FlightsOK(flights)
  <2> DEFINE slot == Slotted(Views, 1..Slots)
  <2>1. /\ slot \in [Views -> 1..Slots]
        /\ \A v, w \in Views : slot[v] = slot[w] => v = w
    <3>1. 1 \in Int /\ Slots \in Int /\ Slots \in Nat /\ Cardinality(Views) <= Slots
      <4>1. Cardinality(Views) \in Nat BY ViewsFinite, FS_CardinalityType
      <4> QED BY <4>1 DEF StreamAssumption
    <3>2. IsFiniteSet(1..Slots) /\ Cardinality(1..Slots) = Slots BY <3>1, FS_Interval
    <3> QED BY <3>1, <3>2, ViewsFinite, SlotsSuffice
  <2>2. flights = [i \in 1..Slots |->
               IF \E v \in Views : slot[v] = i
               THEN Asked(CHOOSE v \in Views : slot[v] = i) ELSE None]
    BY DEF Init
  <2> HIDE DEF slot
  <2>3. ASSUME NEW i \in 1..Slots, flights[i] # None
        PROVE  \E v \in Views : slot[v] = i /\ flights[i] = Asked(v)
    <3>1. \E v \in Views : slot[v] = i BY <2>2, <2>3
    <3>2. flights[i] = Asked(CHOOSE v \in Views : slot[v] = i) BY <2>2, <3>1
    <3> QED BY <3>1, <3>2
  <2>4. flights \in [1..Slots -> Flight \cup {None}]
    <3>1. DOMAIN flights = 1..Slots /\ flights = [i \in 1..Slots |-> flights[i]] BY <2>2
    <3>2. \A i \in 1..Slots : flights[i] \in Flight \cup {None} BY <2>3, AskedTyped
    <3> QED BY <3>1, <3>2
  <2>5. ASSUME NEW i \in 1..Slots, NEW j \in 1..Slots, flights[i] # None,
               flights[j] # None, flights[i].view = flights[j].view
        PROVE  i = j
    BY <2>1, <2>3, <2>5, AskedTyped
  <2>6. ASSUME NEW i \in 1..Slots, flights[i] # None PROVE flights[i].items = None
    BY <2>3, <2>6, AskedTyped
  <2> QED BY <2>4, <2>5, <2>6 DEF FlightsOK
<1> QED BY <1>1, <1>2 DEF IInv

\* A request that changes but for its view and whether it is wanted.
LEMMA FlightsStay ==
    ASSUME FlightsOK(flights), NEW i \in DOMAIN flights, NEW g \in Flight \cup {None},
           flights' = [flights EXCEPT ![i] = g],
           g # None => /\ g.items # None => g.unread # None
                       /\ g.view = flights[i].view /\ g.wanted = flights[i].wanted,
           flights[i] # None
    PROVE  FlightsOK(flights')
BY DEF FlightsOK

LEMMA PollStep ==
    ASSUME StreamAssumption, IInv, NEW v \in Views, Poll(v)
    PROVE  IInv'
<1>1. FlightsOK(flights')
  <2>1. IsFiniteSet({v}) /\ Cardinality({v}) = 1 BY FS_Singleton
  <2>2. IsFiniteSet(Free) /\ Free # {} BY FreeFinite DEF IInv, Poll
  <2>3. Cardinality({v}) <= Cardinality(Free)
    <3>1. Cardinality(Free) \in Nat /\ Cardinality(Free) # 0
      BY <2>2, FS_CardinalityType, FS_EmptySet
    <3> QED BY <2>1, <3>1
  <2>4. /\ Slotted({v}, Free) \in [{v} -> Free]
        /\ \A u, w \in {v} : Slotted({v}, Free)[u] = Slotted({v}, Free)[w] => u = w
    BY <2>1, <2>2, <2>3, SlotsSuffice
  <2>5. {v} \in SUBSET Views /\ flights' = Restarted({v}, Slotted({v}, Free)) BY DEF Poll
  <2> QED BY <2>4, <2>5, RestartedOK DEF IInv
<1> QED BY <1>1 DEF IInv, Poll, server, posts, TableOK, StreamOK, StoreOK, ClicksOK

LEMMA CountStep ==
    ASSUME StreamAssumption, IInv, NEW i \in DOMAIN flights, Count(i)
    PROVE  IInv'
<1>1. flights[i] \in Flight BY DEF IInv, FlightsOK, Count
<1>2. Cardinality(Unread(db)) \in Nat
  <2>1. Unread(db) \in SUBSET Rows BY DEF IInv, TableOK, Unread
  <2> QED BY <2>1, FS_Subset, FS_CardinalityType DEF StreamAssumption
<1> DEFINE g == [flights[i] EXCEPT !.unread = Cardinality(Unread(db))]
<1>3. /\ g \in Flight /\ g.view = flights[i].view /\ g.wanted = flights[i].wanted
      /\ g.unread # None
  BY <1>1, <1>2 DEF Flight, StreamAssumption
<1>4. flights' = [flights EXCEPT ![i] = g] BY DEF Count
<1> HIDE DEF g
<1>5. FlightsOK(flights') BY <1>3, <1>4, FlightsStay DEF IInv, Count
<1> QED BY <1>5 DEF IInv, Count, server, posts, TableOK, StreamOK, StoreOK, ClicksOK

LEMMA ListStep ==
    ASSUME StreamAssumption, IInv, NEW i \in DOMAIN flights, List(i)
    PROVE  IInv'
<1>1. flights[i] \in Flight BY DEF IInv, FlightsOK, List
<1> DEFINE rows == {r \in Rows : db[r] # "absent"
                        /\ (flights[i].view = "unread" => db[r] = "unread")}
           page1 == [r \in rows |-> db[r]]
           g == [flights[i] EXCEPT !.items = page1]
<1>2. page1 \in Pages
  <2>1. rows \in SUBSET Rows /\ \A r \in rows : db[r] \in States BY DEF IInv, TableOK
  <2>2. page1 \in [rows -> States] BY <2>1
  <2> HIDE DEF rows, page1
  <2> QED BY <2>1, <2>2 DEF Pages
<1>3. flights' = [flights EXCEPT ![i] = g] BY DEF List
<1> HIDE DEF rows, page1
<1>4. /\ g \in Flight /\ g.view = flights[i].view /\ g.wanted = flights[i].wanted
      /\ g.unread = flights[i].unread
  BY <1>1, <1>2 DEF Flight, Pages, States
<1> HIDE DEF g
<1>5. FlightsOK(flights') BY <1>3, <1>4, FlightsStay DEF IInv, List
<1> QED BY <1>5 DEF IInv, List, server, posts, TableOK, StreamOK, StoreOK, ClicksOK

LEMMA AnswerStep ==
    ASSUME StreamAssumption, IInv, NEW i \in DOMAIN flights, Answer(i)
    PROVE  IInv'
<1>1. /\ flights[i] \in Flight /\ flights[i] # None
      /\ flights[i].items # None /\ flights[i].unread # None
  BY DEF IInv, FlightsOK, Answer
<1>2. FlightsOK(flights') BY <1>1, FlightsStay DEF IInv, Answer
<1>3. StoreOK'
  <2>1. PICK S \in SUBSET Rows : shown' \in [S -> States]
    BY <1>1 DEF Answer, Flight, States
  <2>2. DOMAIN shown' \subseteq Ids /\ \A x \in DOMAIN shown' : shown'[x] \in States
    BY <2>1 DEF Ids
  <2>3. badge' \in Nat BY <1>1 DEF Answer, Flight
  <2>4. loaded' \subseteq Views /\ failed' \subseteq Views
    BY <1>1 DEF Answer, Flight, IInv, StoreOK
  <2> QED BY <2>2, <2>3, <2>4 DEF StoreOK
<1> QED BY <1>2, <1>3 DEF IInv, Answer, server, posts, TableOK, StreamOK, ClicksOK

LEMMA FailStep ==
    ASSUME StreamAssumption, IInv, NEW i \in DOMAIN flights, Fail(i)
    PROVE  IInv'
<1>1. flights[i] \in Flight /\ flights[i] # None BY DEF IInv, FlightsOK, Fail
<1>2. FlightsOK(flights') BY <1>1, FlightsStay DEF IInv, Fail
<1>3. StoreOK' BY <1>1 DEF Fail, Flight, IInv, StoreOK
<1> QED BY <1>2, <1>3 DEF IInv, Fail, server, posts, TableOK, StreamOK, ClicksOK

LEMMA RowStep ==
    ASSUME StreamAssumption, IInv, NEW r \in Rows, Dispatch(r) \/ Commit(r) \/ Rollback(r)
    PROVE  IInv'
<1>1. CASE Dispatch(r)
  <2> DEFINE id == IF r \in Nameless THEN Blank ELSE r
  <2>1. id \in Ids BY DEF Ids
  <2> HIDE DEF id
  <2>2. Append(inbox, id) \in Seq(Ids) BY <2>1, AppendProperties DEF IInv, StreamOK
  <2>3. StreamOK' BY <1>1, <2>2 DEF IInv, StreamOK, Dispatch, id
  <2>4. TableOK' BY <1>1 DEF IInv, TableOK, Dispatch
  <2> QED BY <1>1, <2>3, <2>4 DEF IInv, Dispatch, page, posts, StoreOK, ClicksOK
<1>2. ASSUME NEW status \in {"absent", "unread"}, End(r, status) PROVE IInv'
  <2>1. TableOK' BY <1>2 DEF IInv, TableOK, End, States
  <2> QED BY <1>2, <2>1 DEF IInv, End, page, posts, StreamOK, StoreOK, ClicksOK
<1> QED BY <1>1, <1>2 DEF Commit, Rollback

LEMMA SocketStep == IInv /\ (Connect \/ Subscribe \/ Disconnect) => IInv'
<1> SUFFICES ASSUME IInv, Connect \/ Subscribe \/ Disconnect PROVE IInv'
  OBVIOUS
<1>1. UNCHANGED <<server, page, posts>> BY DEF Connect, Subscribe, Disconnect
<1>2. <<>> \in Seq(Ids) BY EmptySeq
<1>3. StreamOK' BY <1>2 DEF IInv, StreamOK, Connect, Subscribe, Disconnect, Connected
<1> QED BY <1>1, <1>3 DEF IInv, server, page, posts, TableOK, StoreOK, ClicksOK

LEMMA HearStep == StreamAssumption /\ IInv /\ Hear => IInv'
<1> SUFFICES ASSUME StreamAssumption, IInv, Hear PROVE IInv'
  OBVIOUS
<1>1. Head(inbox) \in Ids /\ Tail(inbox) \in Seq(Ids)
  BY HeadTailProperties DEF IInv, StreamOK, Hear
<1>2. StreamOK' BY <1>1 DEF IInv, StreamOK, Hear
<1>3. StoreOK'
  <2>1. DOMAIN shown' \subseteq Ids /\ \A x \in DOMAIN shown' : shown'[x] \in States
    BY <1>1 DEF IInv, StoreOK, Hear, Added, States
  <2>2. badge' \in Nat BY DEF IInv, StoreOK, Hear
  <2> QED BY <2>1, <2>2 DEF IInv, StoreOK, Hear
<1>4. FlightsOK(flights') BY InvalidateOK DEF IInv, Hear, Refreshed
<1> QED BY <1>2, <1>3, <1>4 DEF IInv, Hear, server, posts, TableOK, ClicksOK

LEMMA ClickStep ==
    ASSUME IInv, (\E x \in Ids : Click(x)) \/ ClickAll
    PROVE  IInv'
<1>1. CASE \E x \in Ids : Click(x)
  <2>1. PICK x \in Ids : Click(x) BY <1>1
  <2>2. badge' \in Nat BY <2>1 DEF IInv, StoreOK, Click, CountedDown
  <2>3. StoreOK' BY <2>1, <2>2 DEF IInv, StoreOK, Click, States
  <2>4. ClicksOK' BY <2>1 DEF IInv, ClicksOK, Click
  <2> QED BY <2>1, <2>3, <2>4 DEF IInv, Click, server, TableOK, StreamOK
<1>2. CASE ClickAll
  <2>1. StoreOK' BY <1>2 DEF IInv, StoreOK, ClickAll, States
  <2>2. ClicksOK' BY <1>2 DEF IInv, ClicksOK, ClickAll
  <2> QED BY <1>2, <2>1, <2>2 DEF IInv, ClickAll, server, TableOK, StreamOK
<1> QED BY <1>1, <1>2

LEMMA PostStep ==
    ASSUME StreamAssumption, IInv, NEW x \in Ids \cup {"all"},
           Execute(x) \/ Confirm(x) \/ LoseClick(x)
    PROVE  IInv'
<1>1. CASE Execute(x)
  <2> DEFINE hit == {r \in Rows : db[r] # "absent" /\ x \in {r, "all"}}
  <2>1. db' = [r \in Rows |-> IF r \in hit THEN "read" ELSE db[r]]
    BY <1>1 DEF Execute
  <2>2. TableOK' BY <1>1, <2>1 DEF IInv, TableOK, Execute, States
  <2>3. ClicksOK' BY <1>1 DEF IInv, ClicksOK, Execute
  <2> QED BY <1>1, <2>2, <2>3 DEF IInv, Execute, page, StreamOK, StoreOK
<1>2. CASE Confirm(x)
  <2>1. FlightsOK(flights') BY <1>2, InvalidateOK DEF IInv, Confirm
  <2>2. ClicksOK' BY <1>2 DEF IInv, ClicksOK, Confirm
  <2> QED BY <1>2, <2>1, <2>2 DEF IInv, Confirm, server, TableOK, StreamOK, StoreOK
<1>3. CASE LoseClick(x)
  <2>1. ClicksOK' BY <1>3 DEF IInv, ClicksOK, LoseClick
  <2> QED BY <1>3, <2>1 DEF IInv, LoseClick, server, page, TableOK, StreamOK, StoreOK
<1> QED BY <1>1, <1>2, <1>3

LEMMA NextInv == StreamAssumption /\ IInv /\ [Next]_vars => IInv'
<1> SUFFICES ASSUME StreamAssumption, IInv, [Next]_vars PROVE IInv'
  OBVIOUS
<1>1. CASE UNCHANGED vars
  BY <1>1 DEF vars, server, page, posts, IInv, TableOK, StreamOK, StoreOK, ClicksOK
<1> QED BY <1>1, PollStep, CountStep, ListStep, AnswerStep, FailStep, RowStep, SocketStep, HearStep,
           ClickStep, PostStep DEF Next

\* IInv holds in every reachable state, for every value of the constants.
THEOREM Invariance == Spec => []IInv
<1>1. Init => IInv BY InitInv, StreamAssumption
<1>2. IInv /\ [Next]_vars => IInv' BY NextInv, StreamAssumption
<1> QED BY <1>1, <1>2, PTL DEF Spec

-----------------------------------------------------------------------------
(* The theorem.                                                             *)

\* However pushes, fetches that overtake each other, clicks and rollbacks
\* interleave: the badge never goes below zero, a row is in the table only when
\* its transaction ended, and no list waits for two answers (useNotifications).
THEOREM StreamTypeCorrect == Spec => []TypeOK
<1>1. IInv => TypeOK
  <2> SUFFICES ASSUME IInv PROVE TypeOK
    OBVIOUS
  <2>1. ASSUME NEW v \in Views PROVE Cardinality(Wanted(v)) <= 1
    <3>1. \A i, j \in Wanted(v) : i = j BY DEF IInv, FlightsOK, Wanted
    <3>2. CASE Wanted(v) = {} BY <3>2, FS_EmptySet
    <3>3. CASE Wanted(v) # {}
      <4>1. PICK i : i \in Wanted(v) BY <3>3
      <4>2. Wanted(v) = {i} BY <3>1, <4>1
      <4> QED BY <4>2, FS_Singleton
    <3> QED BY <3>2, <3>3
  <2>2. \A v \in Views : Cardinality(Wanted(v)) <= 1 BY <2>1
  <2> QED BY <2>2 DEF IInv, TableOK, StreamOK, StoreOK, FlightsOK, ClicksOK, States, TypeOK
<1> QED BY <1>1, Invariance, PTL
=============================================================================
