------------------------ MODULE BrowserSessionProofs ------------------------
(***************************************************************************)
(* Theorems about the sessions of one browser, for every set of users,     *)
(* portals, tabs and requests and every bound.                             *)
(***************************************************************************)
EXTENDS BrowserSession, SequenceTheorems, WellFoundedInduction, TLAPS

-----------------------------------------------------------------------------
(* The helpers.                                                             *)

\* Of the cookies found, one comes first.
LEMMA FirstFound ==
    ASSUME NEW S \in SUBSET Nat, S # {}
    PROVE  \E i \in S : \A j \in S : i <= j
<1>1. PICK x \in S : \A y \in S : ~ (<<y, x>> \in OpToRel(<, Nat))
  BY NatLessThanWellFounded, WFMin
<1>2. \A y \in S : ~ (y < x)
  BY <1>1 DEF OpToRel
<1> QED
  BY <1>2

\* The cookie read, and the key its answer is stored under, are keys.
LEMMA CookieTypes ==
    ASSUME TypeOK, NEW p \in Portals
    PROVE  CookieKey(p) \in Keys /\ AnswerKey(p) \in Keys
<1>1. p \in Keys /\ Shared \in Keys
  BY DEF Keys
<1>2. CookieKey(p) \in Keys
  <2>1. CASE jar[p] # 0 \/ Found = {}
    BY <2>1, <1>1 DEF CookieKey
  <2>2. CASE ~(jar[p] # 0 \/ Found = {})
    <3> DEFINE first == CHOOSE i \in Found : \A j \in Found : i <= j
    <3>1. CookieOrder \in Seq(Keys)
      BY SessionAssumption
    <3>2. Found \in SUBSET Nat /\ Found \subseteq 1..Len(CookieOrder)
      BY <3>1 DEF Found
    <3>3. first \in Found
      BY <2>2, <3>2, FirstFound
    <3>4. CookieOrder[first] \in Keys
      <4> HIDE DEF first
      <4> QED
        BY <3>1, <3>2, <3>3
    <3> QED
      BY <2>2, <3>4 DEF CookieKey
  <2> QED
    BY <2>1, <2>2
<1> QED
  BY <1>1, <1>2 DEF AnswerKey

LEMMA PresentedType ==
    ASSUME TypeOK, NEW t \in Tabs, NEW d \in Stored
    PROVE  Presented(t, d) \in Call /\ Presented(t, d).ph = "sent"
<1>1. PortalOf[t] \in Portals
  BY SessionAssumption
<1>2. CookieKey(PortalOf[t]) \in Keys /\ AnswerKey(PortalOf[t]) \in Keys /\ PortalOf[t] \in Keys
  BY <1>1, CookieTypes DEF Keys
<1>3. jar[CookieKey(PortalOf[t])] \in Token /\ d.rt \in Token /\ 0 \in Token
  BY <1>2 DEF TypeOK, Stored, Token
<1> QED
  BY <1>1, <1>2, <1>3 DEF Presented, Call, Phases

LEMMA CheckedType ==
    ASSUME TypeOK, NEW c \in Call
    PROVE  Checked(c) \in Call /\ Checked(c).ph \in {"won", "refused", "checked"}
<1>1. CASE c.tok = 0
  BY <1>1 DEF Checked, Call, Phases
<1>2. CASE c.tok # 0
  <2>1. c.tok \in Ids /\ sess[c.tok].next \in Token
    BY <1>2 DEF TypeOK, Call, Token, Ids
  <2> QED
    BY <1>2, <2>1 DEF Checked, Call, Phases
<1> QED
  BY <1>1, <1>2

\* Whatever is saved is a stored session again.
LEMMA SavedTypes ==
    ASSUME NEW n \in Nat, NEW d, NEW tok, NEW rt,
           d \in [at : 0..n, rt : 0..n, user : Users \cup {NoUser}],
           tok \in 0..n, rt \in 0..n
    PROVE  /\ SyncSave(d, tok, rt) \in [at : 0..n, rt : 0..n, user : Users \cup {NoUser}]
           /\ ApiSave(d, tok, rt) \in [at : 0..n, rt : 0..n, user : Users \cup {NoUser}]
           /\ \A u \in Users : UserSave(d, u) \in [at : 0..n, rt : 0..n, user : Users \cup {NoUser}]
<1> DEFINE T == [at : 0..n, rt : 0..n, user : Users \cup {NoUser}]
<1>1. \A e \in T : Kept(e) \in T
  BY DEF Kept, Empty
<1>2. \A e \in T, r \in 0..n : StoreSave(e, tok, r) \in T
  BY <1>1 DEF StoreSave
<1>3. \A e \in T, r \in 0..n : [e EXCEPT !.at = tok, !.rt = IF r = 0 THEN @ ELSE r] \in T
  OBVIOUS
<1>4. 0 \in 0..n
  OBVIOUS
<1>5. ApiSave(d, tok, rt) \in T
  BY <1>2, <1>3, <1>4 DEF ApiSave
<1> QED
  BY <1>1, <1>2, <1>5 DEF SyncSave, UserSave

\* The same of the stored sessions of a state.
LEMMA SavedStored ==
    ASSUME TypeOK, NEW d \in Stored, NEW tok \in Token, NEW rt \in Token
    PROVE  SyncSave(d, tok, rt) \in Stored /\ ApiSave(d, tok, rt) \in Stored
<1> DEFINE n == Len(sess)
<1>1. n \in Nat /\ Stored = [at : 0..n, rt : 0..n, user : Users \cup {NoUser}] /\ Token = 0..n
  BY DEF TypeOK, Stored, Token
<1>2. d \in [at : 0..n, rt : 0..n, user : Users \cup {NoUser}] /\ tok \in 0..n /\ rt \in 0..n
  BY <1>1
<1> HIDE DEF n
<1> QED
  BY <1>1, <1>2, SavedTypes

\* An update keeps a sequence of sessions what it is; outside it, it does nothing.
LEMMA Updated ==
    ASSUME NEW s \in Seq(Session), NEW i, NEW v, i \in 1..Len(s) => v \in Session
    PROVE  /\ [s EXCEPT ![i] = v] \in Seq(Session)
           /\ Len([s EXCEPT ![i] = v]) = Len(s)
           /\ \A j \in 1..Len(s) : [s EXCEPT ![i] = v][j] = IF j = i THEN v ELSE s[j]
<1>1. CASE i \in 1..Len(s)
  BY <1>1, ExceptSeq
<1>2. CASE i \notin 1..Len(s)
  <2>1. DOMAIN s = 1..Len(s)
    OBVIOUS
  <2>2. [s EXCEPT ![i] = v] = s
    BY <1>2, <2>1
  <2> QED
    BY <1>2, <2>2
<1> QED
  BY <1>1, <1>2

\* A new session is the last one, and the others keep their user and successor.
LEMMA IssuedType ==
    ASSUME NEW s \in Seq(Session), NEW u \in Users
    PROVE  /\ Issued(s, u) \in Seq(Session)
           /\ Len(Issued(s, u)) = Len(s) + 1
           /\ \A i \in 1..Len(s) : Issued(s, u)[i].next = s[i].next /\ Issued(s, u)[i].user = s[i].user
           /\ Issued(s, u)[Len(s) + 1].next = 0 /\ Issued(s, u)[Len(s) + 1].user = u
<1> DEFINE first == Oldest(LiveOf(s, u))
           room == IF Cardinality(LiveOf(s, u)) >= MaxLive
                   THEN [s EXCEPT ![first].live = FALSE] ELSE s
           new == [user |-> u, live |-> TRUE, fresh |-> TRUE, spent |-> FALSE, next |-> 0]
<1>1. new \in Session
  BY DEF Session
<1>2. /\ [s EXCEPT ![first].live = FALSE] \in Seq(Session)
      /\ Len([s EXCEPT ![first].live = FALSE]) = Len(s)
      /\ \A i \in 1..Len(s) : /\ [s EXCEPT ![first].live = FALSE][i].next = s[i].next
                              /\ [s EXCEPT ![first].live = FALSE][i].user = s[i].user
  <2> DEFINE v == [s[first] EXCEPT !.live = FALSE]
  <2>1. first \in 1..Len(s) => s[first] \in Session
    OBVIOUS
  <2>2. first \in 1..Len(s) => v \in Session /\ v.next = s[first].next /\ v.user = s[first].user
    BY <2>1 DEF Session
  <2>3. [s EXCEPT ![first].live = FALSE] = [s EXCEPT ![first] = v]
    OBVIOUS
  <2> HIDE DEF first, v
  <2>4. /\ [s EXCEPT ![first] = v] \in Seq(Session)
        /\ Len([s EXCEPT ![first] = v]) = Len(s)
        /\ \A j \in 1..Len(s) : [s EXCEPT ![first] = v][j] = IF j = first THEN v ELSE s[j]
    BY <2>2, Updated
  <2>5. \A j \in 1..Len(s) : /\ [s EXCEPT ![first] = v][j].next = s[j].next
                             /\ [s EXCEPT ![first] = v][j].user = s[j].user
    BY <2>2, <2>4
  <2> QED
    BY <2>3, <2>4, <2>5
<1>3. /\ room \in Seq(Session)
      /\ Len(room) = Len(s)
      /\ \A i \in 1..Len(s) : room[i].next = s[i].next /\ room[i].user = s[i].user
  BY <1>2
<1>4. Issued(s, u) = Append(room, new)
  BY DEF Issued
<1> HIDE DEF room, new
<1>5. /\ Append(room, new) \in Seq(Session)
      /\ Len(Append(room, new)) = Len(s) + 1
      /\ \A i \in 1..Len(s) : Append(room, new)[i] = room[i]
      /\ Append(room, new)[Len(s) + 1] = new
  BY <1>1, <1>3
<1>6. new.next = 0 /\ new.user = u
  BY DEF new
<1> QED
  BY <1>3, <1>4, <1>5, <1>6

LEMMA EndedType ==
    ASSUME NEW s \in Seq(Session), NEW tok
    PROVE  /\ Ended(s, tok) \in Seq(Session)
           /\ Len(Ended(s, tok)) = Len(s)
           /\ \A i \in 1..Len(s) : Ended(s, tok)[i].next = s[i].next /\ Ended(s, tok)[i].user = s[i].user
<1> DEFINE v == [s[tok] EXCEPT !.live = FALSE, !.spent = TRUE]
<1>1. tok \in 1..Len(s) => s[tok] \in Session
  OBVIOUS
<1>2. tok \in 1..Len(s) => v \in Session /\ v.next = s[tok].next /\ v.user = s[tok].user
  BY <1>1 DEF Session
<1>3. DOMAIN s = 1..Len(s)
  OBVIOUS
<1>4. Ended(s, tok) = [s EXCEPT ![tok] = v]
  BY <1>1, <1>3 DEF Ended, Session
<1> HIDE DEF v
<1> QED
  BY <1>2, <1>4, Updated

\* Sessions are only ever added, so that what named one still does.
SessionsOK(s) == s \in Seq(Session) /\ \A i \in 1..Len(s) : s[i].next \in 0..Len(s)

LEMMA RotationType ==
    ASSUME TypeOK, NEW c \in Call, c.tok # 0
    PROVE  /\ SessionsOK(Rotation(c)) /\ Len(Rotation(c)) = Len(sess) + 1
           /\ \A i \in Ids : /\ Rotation(c)[i].user = sess[i].user
                            /\ Rotation(c)[i].next = IF i = c.tok THEN Len(sess) + 1 ELSE sess[i].next
           /\ Rotation(c)[Len(sess) + 1].user = sess[c.tok].user
           /\ Rotation(c)[Len(sess) + 1].next = 0
<1> DEFINE ended == Ended(sess, c.tok)
           grown == Issued(ended, sess[c.tok].user)
<1>1. c.tok \in 1..Len(sess) /\ sess[c.tok].user \in Users
  <2>1. sess \in Seq(Session) /\ c.tok \in 0..Len(sess)
    BY DEF TypeOK, Call, Token
  <2>2. c.tok \in 1..Len(sess)
    BY <2>1
  <2>3. sess[c.tok] \in Session
    BY <2>1, <2>2
  <2> QED
    BY <2>2, <2>3 DEF Session
<1>2. /\ ended \in Seq(Session) /\ Len(ended) = Len(sess)
      /\ \A i \in 1..Len(sess) : ended[i].next = sess[i].next /\ ended[i].user = sess[i].user
  BY EndedType DEF TypeOK
<1> HIDE DEF ended
<1>3. /\ grown \in Seq(Session) /\ Len(grown) = Len(sess) + 1
      /\ \A i \in 1..Len(sess) : grown[i].next = sess[i].next /\ grown[i].user = sess[i].user
      /\ grown[Len(sess) + 1].next = 0 /\ grown[Len(sess) + 1].user = sess[c.tok].user
  <2> DEFINE u == sess[c.tok].user
  <2>1. u \in Users BY <1>1
  <2> HIDE DEF u
  <2>2. /\ Issued(ended, u) \in Seq(Session) /\ Len(Issued(ended, u)) = Len(ended) + 1
        /\ \A i \in 1..Len(ended) : /\ Issued(ended, u)[i].next = ended[i].next
                                     /\ Issued(ended, u)[i].user = ended[i].user
        /\ Issued(ended, u)[Len(ended) + 1].next = 0 /\ Issued(ended, u)[Len(ended) + 1].user = u
    BY <1>2, <2>1, IssuedType
  <2>3. grown = Issued(ended, u) BY DEF u
  <2> HIDE DEF grown
  <2> QED
    BY <1>2, <2>2, <2>3 DEF u
<1>4. Rotation(c) = [grown EXCEPT ![c.tok].next = Len(sess) + 1]
  BY DEF Rotation, ended
<1> HIDE DEF grown
<1>5. \A i \in 1..Len(sess) : sess[i].next \in 0..Len(sess)
  BY DEF TypeOK, Ids, Token
<1>6. Len(sess) \in Nat
  BY DEF TypeOK
<1> DEFINE v == [grown[c.tok] EXCEPT !.next = Len(sess) + 1]
<1>7. grown[c.tok] \in Session
  BY <1>1, <1>3, <1>6
<1>8. v \in Session /\ v.next = Len(sess) + 1 /\ v.user = grown[c.tok].user
  BY <1>6, <1>7 DEF Session
<1>9. Rotation(c) = [grown EXCEPT ![c.tok] = v]
  BY <1>4
<1> HIDE DEF v
<1>10. /\ Rotation(c) \in Seq(Session) /\ Len(Rotation(c)) = Len(sess) + 1
       /\ \A i \in 1..Len(sess) + 1 : Rotation(c)[i] = IF i = c.tok THEN v ELSE grown[i]
  <2>1. /\ [grown EXCEPT ![c.tok] = v] \in Seq(Session)
        /\ Len([grown EXCEPT ![c.tok] = v]) = Len(grown)
        /\ \A i \in 1..Len(grown) : [grown EXCEPT ![c.tok] = v][i] = IF i = c.tok THEN v ELSE grown[i]
    BY <1>3, <1>8, Updated
  <2> QED
    BY <1>3, <1>9, <2>1
<1>11. SessionsOK(Rotation(c))
  BY <1>3, <1>5, <1>6, <1>8, <1>10 DEF SessionsOK
<1>12. \A i \in Ids : /\ Rotation(c)[i].user = sess[i].user
                      /\ Rotation(c)[i].next = IF i = c.tok THEN Len(sess) + 1 ELSE sess[i].next
  BY <1>3, <1>6, <1>8, <1>10 DEF Ids
<1>13. Rotation(c)[Len(sess) + 1] = grown[Len(sess) + 1]
  BY <1>1, <1>6, <1>10
<1> QED
  BY <1>3, <1>10, <1>11, <1>12, <1>13

LEMMA Grow ==
    ASSUME TypeOK, SessionsOK(sess'), Len(sess') >= Len(sess)
    PROVE  /\ Token \subseteq Token' /\ Stored \subseteq Stored'
           /\ Request \subseteq Request' /\ Call \subseteq Call'
           /\ Len(sess') \in Token'
<1>1. Len(sess) \in Nat /\ Len(sess') \in Nat
  BY DEF TypeOK, SessionsOK
<1>2. Token \subseteq Token' /\ Len(sess') \in Token'
  BY <1>1 DEF Token
<1> QED
  BY <1>2 DEF Stored, Request, Call

-----------------------------------------------------------------------------
(* Type correctness.                                                        *)

LEMMA TypeInit == Init => TypeOK
<1> SUFFICES ASSUME Init PROVE TypeOK
  OBVIOUS
<1>1. sess \in Seq(Session) /\ Len(sess) = 0 /\ Token = {0} /\ Ids = {}
  BY DEF Init, Token, Ids
<1>2. \A t \in Tabs : NoCall \in Call
  BY <1>1, SessionAssumption DEF NoCall, Call, Phases, Keys
<1>3. Empty \in Stored /\ Idle \in Request
  BY <1>1 DEF Empty, Idle, Stored, Request
<1>4. left \in [acts : 0..Acts, lapses : 0..Lapses, faults : 0..Faults]
  BY SessionAssumption DEF Init
<1> QED
  BY <1>1, <1>2, <1>3, <1>4 DEF Init, TypeOK

LEMMA NothingTypes ==
    ASSUME TypeOK, NEW t \in Tabs
    PROVE  NoCall \in Call /\ Empty \in Stored /\ Idle \in Request /\ 0 \in Token
           /\ InFlight(t) \subseteq Call
<1>1. 0 \in Token
  BY DEF TypeOK, Token
<1>2. NoCall \in Call
  BY <1>1, SessionAssumption DEF NoCall, Call, Phases, Keys
<1>3. InFlight(t) \subseteq Call
  BY DEF InFlight, TypeOK
<1> QED
  BY <1>1, <1>2, <1>3 DEF Empty, Idle, Stored, Request

\* The conjuncts of TypeOK about the tabs and their calls.
TabsOK ==
    /\ disk \in [Tabs -> Stored]
    /\ mem \in [Tabs -> Token]
    /\ shown \in [Tabs -> Users \cup {NoUser}]
    /\ page \in [Tabs -> {"login", "boot", "main"}]
    /\ goal \in [Tabs -> {"login", "boot", "mount"}]
    /\ req \in [Tabs -> [Reqs -> Request]]
    /\ renewing \in [Tabs -> BOOLEAN]
    /\ call \in [Tabs -> [Kinds -> Call]]
    /\ gone \subseteq Call

LEMMA SplitType ==
    /\ TypeOK <=> /\ SessionsOK(sess) /\ jar \in [Keys -> Token] /\ TabsOK
                  /\ left \in [acts : 0..Acts, lapses : 0..Lapses, faults : 0..Faults]
  BY DEF TypeOK, SessionsOK, TabsOK, Ids, Token

\* The bounds only go down.
LEMMA LeftType ==
    ASSUME TypeOK, Spend \/ Lapse \/ Fault \/ UNCHANGED left
    PROVE  left' \in [acts : 0..Acts, lapses : 0..Lapses, faults : 0..Faults]
<1>1. Acts \in Nat /\ Lapses \in Nat /\ Faults \in Nat
  BY SessionAssumption
<1>2. left \in [acts : 0..Acts, lapses : 0..Lapses, faults : 0..Faults]
  BY DEF TypeOK
<1>3. CASE Spend
  BY <1>1, <1>2, <1>3 DEF Spend
<1>4. CASE Lapse
  BY <1>1, <1>2, <1>4 DEF Lapse
<1>5. CASE Fault
  BY <1>1, <1>2, <1>5 DEF Fault
<1>6. CASE UNCHANGED left
  BY <1>2, <1>6
<1> QED
  BY <1>3, <1>4, <1>5, <1>6

LEMMA ToLoginType ==
    ASSUME TypeOK, NEW t \in Tabs, ToLogin(t),
           Token \subseteq Token', Stored \subseteq Stored', Request \subseteq Request', Call \subseteq Call'
    PROVE  TabsOK'
<1>1. /\ NoCall \in Call' /\ Empty \in Stored' /\ Idle \in Request' /\ 0 \in Token'
      /\ InFlight(t) \subseteq Call'
  BY NothingTypes
<1>2. call' \in [Tabs -> [Kinds -> Call']]
  BY <1>1 DEF ToLogin, TypeOK
<1>3. req' \in [Tabs -> [Reqs -> Request']]
  BY <1>1 DEF ToLogin, TypeOK
<1>4. disk' \in [Tabs -> Stored'] /\ mem' \in [Tabs -> Token']
  BY <1>1 DEF ToLogin, TypeOK
<1>5. gone' \subseteq Call' /\ renewing' \in [Tabs -> BOOLEAN]
  BY <1>1 DEF ToLogin, Unload, TypeOK
<1>6. /\ shown' \in [Tabs -> Users \cup {NoUser}]
      /\ page' \in [Tabs -> {"login", "boot", "main"}]
      /\ goal' \in [Tabs -> {"login", "boot", "mount"}]
  BY DEF ToLogin, TypeOK
<1> QED
  BY <1>2, <1>3, <1>4, <1>5, <1>6 DEF TabsOK

\* Nothing but the sessions changed.
LEMMA TabsStay ==
    ASSUME TypeOK, UNCHANGED <<tabVars, callVars>>,
           Token \subseteq Token', Stored \subseteq Stored', Request \subseteq Request', Call \subseteq Call'
    PROVE  TabsOK'
  BY DEF TypeOK, TabsOK, tabVars, callVars

\* What stays of the types when no session is created or changed ...
LEMMA SameSessions ==
    ASSUME TypeOK, UNCHANGED sess
    PROVE  /\ SessionsOK(sess)' /\ Token' = Token /\ Stored' = Stored
           /\ Request' = Request /\ Call' = Call
  BY SplitType DEF SessionsOK, Token, Stored, Request, Call

\* ... and what an action owes then.
LEMMA TypeOfTabStep ==
    ASSUME TypeOK, UNCHANGED sess, jar' \in [Keys -> Token], TabsOK',
           Spend \/ Lapse \/ Fault \/ UNCHANGED left
    PROVE  TypeOK'
<1>1. SessionsOK(sess)' /\ Token' = Token
  BY SameSessions
<1>2. left' \in [acts : 0..Acts, lapses : 0..Lapses, faults : 0..Faults]
  BY LeftType
<1> QED
  BY <1>1, <1>2 DEF TypeOK, TabsOK, SessionsOK, Ids, Token

LEMMA TypeOfSessionStep ==
    ASSUME TypeOK, SessionsOK(sess'), jar' \in [Keys -> Token'], TabsOK',
           Spend \/ Lapse \/ Fault \/ UNCHANGED left
    PROVE  TypeOK'
<1>1. left' \in [acts : 0..Acts, lapses : 0..Lapses, faults : 0..Faults]
  BY LeftType
<1> QED
  BY <1>1 DEF TypeOK, TabsOK, SessionsOK, Ids, Token

LEMMA RefreshCheckType == ASSUME TypeOK, NEW t \in Tabs, NEW k \in Kinds, RefreshCheck(t, k) PROVE TypeOK'
<1>1. Checked(call[t][k]) \in Call
  BY CheckedType DEF TypeOK
<1>2. call' \in [Tabs -> [Kinds -> Call]]
  BY <1>1 DEF RefreshCheck, TypeOK
<1>3. UNCHANGED <<sess, jar, tabVars, gone, left>>
  BY DEF RefreshCheck
<1> QED
  BY <1>2, <1>3, SameSessions, TypeOfTabStep DEF TypeOK, TabsOK, tabVars

LEMMA GoneCheckType == ASSUME TypeOK, NEW c \in gone, GoneCheck(c) PROVE TypeOK'
<1>1. Checked(c) \in Call
  BY CheckedType DEF TypeOK
<1>2. gone' \subseteq Call
  BY <1>1 DEF GoneCheck, TypeOK
<1>3. UNCHANGED <<sess, jar, tabVars, call, left>>
  BY DEF GoneCheck
<1> QED
  BY <1>2, <1>3, SameSessions, TypeOfTabStep DEF TypeOK, TabsOK, tabVars

\* A call that has been checked carries a token.
CheckedHasToken ==
    /\ \A t \in Tabs, k \in Kinds : call[t][k].ph = "checked" => call[t][k].tok # 0
    /\ \A c \in gone : c.ph = "checked" => c.tok # 0

LEMMA RefreshRotateType ==
    ASSUME TypeOK, CheckedHasToken, NEW t \in Tabs, NEW k \in Kinds, RefreshRotate(t, k)
    PROVE  TypeOK'
<1>1. call[t][k] \in Call /\ call[t][k].tok # 0
  BY DEF TypeOK, RefreshRotate, CheckedHasToken
<1>2. SessionsOK(sess') /\ Len(sess') = Len(sess) + 1
  BY <1>1, RotationType DEF RefreshRotate
<1>3. Len(sess) \in Nat
  BY DEF TypeOK
<1>4. /\ Token \subseteq Token' /\ Stored \subseteq Stored'
      /\ Request \subseteq Request' /\ Call \subseteq Call'
      /\ Len(sess) + 1 \in Token'
  BY <1>2, <1>3, Grow
<1>5. Rotated(call[t][k]) \in Call'
  BY <1>1, <1>4 DEF Rotated, Call, Phases
<1>6. call' \in [Tabs -> [Kinds -> Call']]
  BY <1>4, <1>5 DEF RefreshRotate, TypeOK
<1>7. UNCHANGED <<jar, tabVars, gone, left>>
  BY DEF RefreshRotate
<1>8. TabsOK'
  BY <1>4, <1>6, <1>7 DEF TypeOK, TabsOK, tabVars
<1> QED
  BY <1>2, <1>4, <1>7, <1>8, TypeOfSessionStep DEF TypeOK

LEMMA GoneRotateType == ASSUME TypeOK, CheckedHasToken, NEW c \in gone, GoneRotate(c) PROVE TypeOK'
<1>1. c \in Call /\ c.tok # 0
  BY DEF TypeOK, GoneRotate, CheckedHasToken
<1>2. SessionsOK(sess') /\ Len(sess') = Len(sess) + 1
  BY <1>1, RotationType DEF GoneRotate
<1>3. Len(sess) \in Nat
  BY DEF TypeOK
<1>4. /\ Token \subseteq Token' /\ Stored \subseteq Stored'
      /\ Request \subseteq Request' /\ Call \subseteq Call'
  BY <1>2, <1>3, Grow
<1>5. gone' \subseteq Call /\ UNCHANGED <<jar, tabVars, call, left>>
  BY DEF GoneRotate, TypeOK
<1>6. TabsOK'
  BY <1>4, <1>5 DEF TypeOK, TabsOK, tabVars
<1> QED
  BY <1>2, <1>4, <1>5, <1>6, TypeOfSessionStep DEF TypeOK

\* One mark of one session changes.
LEMMA MarkType ==
    ASSUME TypeOK, NEW i \in Ids, NEW v \in Session, v.next \in Token,
           sess' = [sess EXCEPT ![i] = v], Lapse, UNCHANGED <<jar, tabVars, callVars>>
    PROVE  TypeOK'
<1>1. sess \in Seq(Session) /\ i \in 1..Len(sess) /\ Len(sess) \in Nat
  BY DEF TypeOK, Ids
<1>2. /\ sess' \in Seq(Session) /\ Len(sess') = Len(sess)
      /\ \A j \in 1..Len(sess) : sess'[j] = IF j = i THEN v ELSE sess[j]
  BY <1>1, Updated
<1>3. SessionsOK(sess')
  BY <1>1, <1>2 DEF TypeOK, SessionsOK, Ids, Token
<1>4. /\ Token \subseteq Token' /\ Stored \subseteq Stored'
      /\ Request \subseteq Request' /\ Call \subseteq Call'
  BY <1>1, <1>2, <1>3, Grow
<1>5. TabsOK'
  BY <1>4, TabsStay
<1> QED
  BY <1>3, <1>4, <1>5, TypeOfSessionStep DEF TypeOK

LEMMA ExpireType == ASSUME TypeOK, NEW i \in Ids, Expire(i) PROVE TypeOK'
<1> DEFINE v == [sess[i] EXCEPT !.fresh = FALSE]
<1>1. sess[i] \in Session /\ sess[i].next \in Token
  BY DEF TypeOK, Ids
<1>2. v \in Session /\ v.next \in Token
  BY <1>1 DEF Session
<1>3. sess' = [sess EXCEPT ![i] = v] /\ Lapse /\ UNCHANGED <<jar, tabVars, callVars>>
  BY DEF Expire
<1> HIDE DEF v
<1> QED
  BY <1>2, <1>3, MarkType

LEMMA GraceEndsType == ASSUME TypeOK, NEW i \in Ids, GraceEnds(i) PROVE TypeOK'
<1> DEFINE v == [sess[i] EXCEPT !.next = 0]
<1>1. sess[i] \in Session /\ 0 \in Token
  BY DEF TypeOK, Ids, Token
<1>2. v \in Session /\ v.next \in Token
  BY <1>1 DEF Session
<1>3. sess' = [sess EXCEPT ![i] = v] /\ Lapse /\ UNCHANGED <<jar, tabVars, callVars>>
  BY DEF GraceEnds
<1> HIDE DEF v
<1> QED
  BY <1>2, <1>3, MarkType

LEMMA LoginType == ASSUME TypeOK, NEW t \in Tabs, NEW u \in Users, Login(t, u) PROVE TypeOK'
<1> DEFINE id == Len(sess) + 1
           d == SyncSave(disk[t], id, IF u \in MfaUsers THEN 0 ELSE id)
<1>1. sess \in Seq(Session) /\ Len(sess) \in Nat /\ \A i \in 1..Len(sess) : sess[i].next \in 0..Len(sess)
  BY DEF TypeOK, Ids, Token
<1>2. sess' = Issued(sess, u)
  BY DEF Login
<1>3. SessionsOK(sess') /\ Len(sess') = id
  <2>1. /\ sess' \in Seq(Session) /\ Len(sess') = Len(sess) + 1
        /\ \A i \in 1..Len(sess) : sess'[i].next = sess[i].next
        /\ sess'[Len(sess) + 1].next = 0
    BY <1>1, <1>2, IssuedType
  <2> QED
    BY <1>1, <2>1 DEF SessionsOK
<1>4. /\ Token \subseteq Token' /\ Stored \subseteq Stored'
      /\ Request \subseteq Request' /\ Call \subseteq Call' /\ id \in Token' /\ Token' = 0..id
  BY <1>1, <1>3, Grow DEF Token
<1>5. d \in Stored'
  <2>1. disk[t] \in Stored'
    BY <1>4 DEF TypeOK
  <2>2. id \in Nat /\ (IF u \in MfaUsers THEN 0 ELSE id) \in 0..id /\ id \in 0..id
    BY <1>1
  <2>3. Stored' = [at : 0..id, rt : 0..id, user : Users \cup {NoUser}]
    BY <1>4 DEF Stored
  <2> HIDE DEF id
  <2> QED
    BY <2>1, <2>2, <2>3, SavedTypes
<1>6. Asked(id) \in Request'
  BY <1>4 DEF Asked, Request
<1>7. Me \in Reqs /\ PortalOf[t] \in Keys
  BY SessionAssumption DEF Reqs, Keys
<1>8. jar' \in [Keys -> Token']
  BY <1>4, <1>7 DEF Login, LoginJar, WithCookie, TypeOK
<1> HIDE DEF d, id
<1>9. disk' = [disk EXCEPT ![t] = d] /\ mem' = [mem EXCEPT ![t] = id]
  BY DEF Login, d, id
<1>10. req' = [req EXCEPT ![t][Me] = Asked(id)] /\ goal' = [goal EXCEPT ![t] = "login"]
  BY DEF Login, id
<1>11. Spend /\ UNCHANGED <<shown, page, renewing, call, gone>>
  BY DEF Login, callVars
<1>12. req' \in [Tabs -> [Reqs -> Request']]
  BY <1>4, <1>6, <1>7, <1>10 DEF TypeOK
<1>13. disk' \in [Tabs -> Stored'] /\ mem' \in [Tabs -> Token']
  BY <1>4, <1>5, <1>9 DEF TypeOK
<1>14. goal' \in [Tabs -> {"login", "boot", "mount"}]
  BY <1>10 DEF TypeOK
<1>15. call' \in [Tabs -> [Kinds -> Call']] /\ gone' \subseteq Call'
  BY <1>4, <1>11 DEF TypeOK
<1>16. TabsOK'
  BY <1>11, <1>12, <1>13, <1>14, <1>15 DEF TypeOK, TabsOK
<1> QED
  BY <1>3, <1>8, <1>11, <1>16, TypeOfSessionStep

LEMMA OpenType == ASSUME TypeOK, NEW t \in Tabs, Open(t) PROVE TypeOK'
<1> DEFINE d == disk[t]
<1>1. /\ d \in Stored /\ d.at \in Token /\ d.user \in Users \cup {NoUser} /\ 0 \in Token
      /\ Len(sess) \in Nat
  BY DEF TypeOK, Stored, Token
<1>2. NoCall \in Call /\ Idle \in Request /\ InFlight(t) \subseteq Call
  BY NothingTypes
<1>3. Spend /\ UNCHANGED <<sess, jar>>
  BY DEF Open
<1>4. gone' \subseteq Call /\ renewing' \in [Tabs -> BOOLEAN] /\ mem' \in [Tabs -> Token]
  BY <1>1, <1>2 DEF Open, Unload, TypeOK
<1>5. /\ shown' \in [Tabs -> Users \cup {NoUser}]
      /\ page' \in [Tabs -> {"login", "boot", "main"}]
      /\ goal' \in [Tabs -> {"login", "boot", "mount"}]
  <2>1. /\ \E u \in Users \cup {NoUser} : shown' = [shown EXCEPT ![t] = u]
        /\ \E p \in {"boot", "main"} : page' = [page EXCEPT ![t] = p]
        /\ \E g \in {"boot", "mount"} : goal' = [goal EXCEPT ![t] = g]
    BY <1>1 DEF Open, Stored
  <2>2. /\ shown \in [Tabs -> Users \cup {NoUser}]
        /\ page \in [Tabs -> {"login", "boot", "main"}]
        /\ goal \in [Tabs -> {"login", "boot", "mount"}]
    BY DEF TypeOK
  <2> QED
    BY <2>1, <2>2
<1>6. disk' \in [Tabs -> Stored]
  <2>1. CASE Whole(d)
    <3>1. SyncSave(d, d.at, 0) \in Stored
      BY <1>1, SavedStored
    <3>2. disk' = [disk EXCEPT ![t] = SyncSave(d, d.at, 0)]
      BY <2>1 DEF Open
    <3>3. disk \in [Tabs -> Stored]
      BY DEF TypeOK
    <3> HIDE DEF d
    <3> QED
      BY <3>1, <3>2, <3>3
  <2>2. CASE ~Whole(d)
    <3>1. disk' = disk
      BY <2>2 DEF Open
    <3> QED
      BY <3>1 DEF TypeOK
  <2> QED
    BY <2>1, <2>2
<1>7. req' \in [Tabs -> [Reqs -> Request]]
  <2>1. Asked(d.at) \in Request /\ Me \in Reqs
    BY <1>1 DEF Asked, Request, Reqs
  <2>2. /\ [r \in Reqs |-> Idle] \in [Reqs -> Request]
        /\ [[r \in Reqs |-> Idle] EXCEPT ![Me] = Asked(d.at)] \in [Reqs -> Request]
    BY <1>2, <2>1
  <2>3. \E q \in [Reqs -> Request] : req' = [req EXCEPT ![t] = q]
    BY <2>2 DEF Open
  <2> QED
    BY <2>3 DEF TypeOK
<1>8. call' \in [Tabs -> [Kinds -> Call]]
  <2>1. Presented(t, d) \in Call
    BY <1>1, PresentedType
  <2>2. /\ [k \in Kinds |-> NoCall] \in [Kinds -> Call]
        /\ [[k \in Kinds |-> NoCall] EXCEPT !["boot"] = Presented(t, d)] \in [Kinds -> Call]
    BY <1>2, <2>1
  <2>3. \E f \in [Kinds -> Call] : call' = [call EXCEPT ![t] = f]
    BY <2>2 DEF Open
  <2> QED
    BY <2>3 DEF TypeOK
<1> QED
  BY <1>3, <1>4, <1>5, <1>6, <1>7, <1>8, SameSessions, TypeOfTabStep DEF TabsOK, TypeOK

LEMMA BootWonType == ASSUME TypeOK, NEW t \in Tabs, BootWon(t) PROVE TypeOK'
<1> DEFINE c == call[t]["boot"]
<1>1. c \in Call /\ disk[t] \in Stored /\ Len(sess) \in Nat
  BY DEF TypeOK, Kinds
<1>2. c.next \in Token /\ c.key \in Keys /\ Shared \in Keys /\ Me \in Reqs
  BY <1>1 DEF Call, Keys, Reqs
<1>3. jar' \in [Keys -> Token]
  BY <1>2 DEF BootWon, WithCookie, TypeOK
<1>4. disk' \in [Tabs -> Stored]
  <2>1. SyncSave(disk[t], c.next, c.next) \in Stored
    BY <1>1, <1>2, SavedStored
  <2>2. disk' = [disk EXCEPT ![t] = SyncSave(disk[t], c.next, c.next)]
    BY DEF BootWon
  <2>3. disk \in [Tabs -> Stored]
    BY DEF TypeOK
  <2> HIDE DEF c
  <2> QED
    BY <2>1, <2>2, <2>3
<1>5. Asked(c.next) \in Request
  BY <1>2 DEF Asked, Request
<1>6. req' \in [Tabs -> [Reqs -> Request]] /\ mem' \in [Tabs -> Token]
  BY <1>2, <1>5 DEF BootWon, TypeOK
<1>7. call' \in [Tabs -> [Kinds -> Call]]
  BY NothingTypes DEF BootWon, TypeOK
<1>8. UNCHANGED <<sess, shown, page, goal, renewing, gone, left>>
  BY DEF BootWon
<1> QED
  BY <1>3, <1>4, <1>6, <1>7, <1>8, SameSessions, TypeOfTabStep DEF TabsOK, TypeOK

LEMMA OneRequest ==
    ASSUME TypeOK, NEW t \in Tabs, NEW r \in Reqs, NEW q \in Request
    PROVE  [req EXCEPT ![t][r] = q] \in [Tabs -> [Reqs -> Request]]
<1>1. req \in [Tabs -> [Reqs -> Request]]
  BY DEF TypeOK
<1>2. [req[t] EXCEPT ![r] = q] \in [Reqs -> Request]
  BY <1>1
<1> QED
  BY <1>1, <1>2

LEMMA BootLostType == ASSUME TypeOK, NEW t \in Tabs, BootLost(t) \/ RenewalLost(t) PROVE TypeOK'
<1>1. ToLogin(t) /\ UNCHANGED <<sess, jar, left>>
  BY DEF BootLost, RenewalLost
<1>2. /\ Token' = Token /\ Stored' = Stored /\ Request' = Request /\ Call' = Call
  BY <1>1, SameSessions
<1>3. TabsOK'
  BY <1>1, <1>2, ToLoginType
<1> QED
  BY <1>1, <1>3, TypeOfTabStep DEF TypeOK

LEMMA LogoutType == ASSUME TypeOK, NEW t \in Tabs, Logout(t) PROVE TypeOK'
<1> DEFINE c == Presented(t, disk[t])
<1>1. c \in Call
  BY PresentedType DEF TypeOK
<1>2. c.key \in Keys /\ c.tok \in Token /\ Shared \in Keys /\ 0 \in Token
  BY <1>1, NothingTypes DEF Call, Keys
<1>3. sess' = sess \/ sess' = Ended(sess, c.tok)
  BY DEF Logout
<1>4. sess \in Seq(Session) /\ Len(sess) \in Nat
  BY DEF TypeOK
<1>5. SessionsOK(sess') /\ Len(sess') = Len(sess)
  <2>1. \A i \in 1..Len(sess) : sess[i].next \in 0..Len(sess)
    BY DEF TypeOK, Ids, Token
  <2>2. CASE sess' = sess
    BY <1>4, <2>1, <2>2 DEF SessionsOK
  <2>3. CASE sess' = Ended(sess, c.tok)
    <3> HIDE DEF c
    <3>1. /\ Ended(sess, c.tok) \in Seq(Session) /\ Len(Ended(sess, c.tok)) = Len(sess)
          /\ \A i \in 1..Len(sess) : Ended(sess, c.tok)[i].next = sess[i].next
      BY <1>4, EndedType
    <3> QED
      BY <1>4, <2>1, <2>3, <3>1 DEF SessionsOK
  <2> QED
    BY <1>3, <2>2, <2>3
<1>6. /\ Token \subseteq Token' /\ Stored \subseteq Stored'
      /\ Request \subseteq Request' /\ Call \subseteq Call'
  BY <1>4, <1>5, Grow
<1>7. jar' = jar \/ jar' = WithCookie(c.key, 0)
  BY DEF Logout
<1>8. jar' \in [Keys -> Token']
  BY <1>2, <1>6, <1>7 DEF WithCookie, TypeOK
<1>9. Spend /\ ToLogin(t)
  BY DEF Logout
<1>10. TabsOK'
  BY <1>6, <1>9, ToLoginType
<1> QED
  BY <1>5, <1>8, <1>9, <1>10, TypeOfSessionStep

LEMMA SendType == ASSUME TypeOK, NEW t \in Tabs, NEW r \in Reqs, Send(t, r) \/ DataAnswered(t, r) PROVE TypeOK'
<1>1. Asked(mem[t]) \in Request /\ Idle \in Request
  BY NothingTypes DEF Asked, Request, TypeOK
<1>2. req' \in [Tabs -> [Reqs -> Request]]
  <2>1. \/ req' = [req EXCEPT ![t][r] = Asked(mem[t])]
        \/ req' = [req EXCEPT ![t][r] = Idle]
    BY DEF Send, DataAnswered
  <2> QED
    BY <1>1, <2>1, OneRequest
<1>3. UNCHANGED <<sess, jar, disk, mem, shown, page, goal, renewing, call, gone>>
  BY DEF Send, DataAnswered, callVars
<1>4. Spend \/ UNCHANGED left
  BY DEF Send, DataAnswered
<1> QED
  BY <1>2, <1>3, <1>4, SameSessions, TypeOfTabStep DEF TabsOK, TypeOK

LEMMA ProfileAnsweredType == ASSUME TypeOK, NEW t \in Tabs, ProfileAnswered(t) PROVE TypeOK'
<1> DEFINE u == sess[req[t][Me].tok].user
           d == UserSave(disk[t], u)
<1>1. /\ req[t][Me] \in Request /\ disk[t] \in Stored /\ mem[t] \in Token
      /\ sess \in Seq(Session) /\ Len(sess) \in Nat /\ 0 \in Token /\ Me \in Reqs
  BY DEF TypeOK, Reqs, Token
<1>2. req[t][Me].tok \in 1..Len(sess)
  BY <1>1 DEF ProfileAnswered, Accepts, Request, Token
<1>3. u \in Users
  <2>1. sess[req[t][Me].tok] \in Session
    BY <1>1, <1>2
  <2> QED
    BY <2>1 DEF Session
<1>4. d \in Stored /\ SyncSave(d, mem[t], 0) \in Stored
  <2>1. d \in Stored
    BY <1>1, <1>3, SavedTypes DEF Stored, Token
  <2> HIDE DEF d
  <2> QED
    BY <1>1, <2>1, SavedTypes DEF Stored, Token
<1>5. Asked(mem[t]) \in Request /\ Idle \in Request
  BY <1>1, NothingTypes DEF Asked, Request
<1> HIDE DEF u, d
<1>6. /\ shown' = [shown EXCEPT ![t] = u] /\ page' = [page EXCEPT ![t] = "main"]
      /\ UNCHANGED <<sess, jar, mem, renewing, call, gone, left>>
  BY DEF ProfileAnswered, callVars, u
<1>7. \/ /\ disk' = [disk EXCEPT ![t] = SyncSave(d, mem[t], 0)]
         /\ req' = [req EXCEPT ![t][Me] = Asked(mem[t])]
         /\ goal' = [goal EXCEPT ![t] = "mount"]
      \/ /\ disk' = [disk EXCEPT ![t] = d]
         /\ req' = [req EXCEPT ![t][Me] = Idle]
         /\ UNCHANGED goal
  BY DEF ProfileAnswered, d, u
<1>8. /\ shown' \in [Tabs -> Users \cup {NoUser}]
      /\ page' \in [Tabs -> {"login", "boot", "main"}]
      /\ goal' \in [Tabs -> {"login", "boot", "mount"}]
  BY <1>3, <1>6, <1>7 DEF TypeOK
<1>9. disk' \in [Tabs -> Stored]
  BY <1>4, <1>7 DEF TypeOK
<1>10. req' \in [Tabs -> [Reqs -> Request]]
  <2>1. PICK q \in Request : req' = [req EXCEPT ![t][Me] = q]
    BY <1>5, <1>7
  <2>2. Me \in Reqs
    BY DEF Reqs
  <2> QED
    BY <2>1, <2>2, OneRequest
<1> QED
  BY <1>6, <1>8, <1>9, <1>10, SameSessions, TypeOfTabStep DEF TabsOK, TypeOK

LEMMA GivenUpType == ASSUME TypeOK, NEW t \in Tabs, NEW r \in Reqs, GivenUp(t, r) PROVE TypeOK'
<1>1. (Fault \/ UNCHANGED left) /\ UNCHANGED <<sess, jar>>
  BY DEF GivenUp
<1>2. /\ Token' = Token /\ Stored' = Stored /\ Request' = Request /\ Call' = Call
  BY <1>1, SameSessions
<1>3. CASE ToLogin(t)
  <2>1. TabsOK'
    BY <1>2, <1>3, ToLoginType
  <2> QED
    BY <1>1, <2>1, TypeOfTabStep DEF TypeOK
<1>4. CASE /\ req' = [req EXCEPT ![t][r] = Idle]
           /\ UNCHANGED <<disk, mem, shown, page, goal, renewing, callVars>>
  <2>1. req' \in [Tabs -> [Reqs -> Request]]
    BY <1>4, NothingTypes DEF TypeOK
  <2> QED
    BY <1>1, <1>2, <1>4, <2>1, TypeOfTabStep DEF TabsOK, TypeOK, callVars
<1> QED
  BY <1>3, <1>4 DEF GivenUp

\* A call starts or ends, a request waits or goes on.
LEMMA OneCall ==
    ASSUME TypeOK, NEW t \in Tabs, NEW k \in Kinds, NEW c \in Call
    PROVE  [call EXCEPT ![t][k] = c] \in [Tabs -> [Kinds -> Call]]
<1>1. call \in [Tabs -> [Kinds -> Call]]
  BY DEF TypeOK
<1>2. [call[t] EXCEPT ![k] = c] \in [Kinds -> Call]
  BY <1>1
<1> QED
  BY <1>1, <1>2

LEMMA RequestTurns ==
    \A q \in Request, n \in Token :
        /\ [q EXCEPT !.st = "renew", !.again = TRUE] \in Request
        /\ [q EXCEPT !.st = "queued", !.again = TRUE] \in Request
        /\ [q EXCEPT !.st = "sent", !.tok = n] \in Request
<1> SUFFICES ASSUME NEW q \in Request, NEW n \in Token
             PROVE  /\ [q EXCEPT !.st = "renew", !.again = TRUE] \in Request
                    /\ [q EXCEPT !.st = "queued", !.again = TRUE] \in Request
                    /\ [q EXCEPT !.st = "sent", !.tok = n] \in Request
  OBVIOUS
<1>1. q = [st |-> q.st, tok |-> q.tok, again |-> q.again] /\ q.tok \in Token /\ q.again \in BOOLEAN
  BY DEF Request
<1> QED
  BY <1>1 DEF Request

LEMMA StartRenewalType == ASSUME TypeOK, NEW t \in Tabs, NEW r \in Reqs, StartRenewal(t, r) PROVE TypeOK'
<1> DEFINE q == [req[t][r] EXCEPT !.st = "renew", !.again = TRUE]
<1>1. req \in [Tabs -> [Reqs -> Request]] /\ req[t][r] \in Request /\ "renew" \in Kinds
  BY DEF TypeOK, Kinds
<1>2. q \in Request
  BY <1>1, RequestTurns DEF Request
<1>3. req' = [req EXCEPT ![t][r] = q]
  BY <1>1 DEF StartRenewal, Request
<1>4. Presented(t, disk[t]) \in Call
  BY PresentedType DEF TypeOK
<1> HIDE DEF q
<1>5. req' \in [Tabs -> [Reqs -> Request]]
  BY <1>2, <1>3, OneRequest
<1>6. call' \in [Tabs -> [Kinds -> Call]]
  BY <1>1, <1>4, OneCall DEF StartRenewal
<1>7. renewing' \in [Tabs -> BOOLEAN]
  BY DEF StartRenewal, TypeOK
<1>8. UNCHANGED <<sess, jar, disk, mem, shown, page, goal, gone, left>>
  BY DEF StartRenewal
<1> QED
  BY <1>5, <1>6, <1>7, <1>8, SameSessions, TypeOfTabStep DEF TabsOK, TypeOK

LEMMA JoinQueueType == ASSUME TypeOK, NEW t \in Tabs, NEW r \in Reqs, JoinQueue(t, r) PROVE TypeOK'
<1> DEFINE q == [req[t][r] EXCEPT !.st = "queued", !.again = TRUE]
<1>1. req \in [Tabs -> [Reqs -> Request]] /\ req[t][r] \in Request
  BY DEF TypeOK
<1>2. q \in Request
  BY <1>1, RequestTurns DEF Request
<1>3. req' = [req EXCEPT ![t][r] = q]
  BY <1>1 DEF JoinQueue, Request
<1>4. UNCHANGED <<sess, jar, disk, mem, shown, page, goal, renewing, call, gone, left>>
  BY DEF JoinQueue, callVars
<1> HIDE DEF q
<1>5. req' \in [Tabs -> [Reqs -> Request]]
  BY <1>2, <1>3, OneRequest
<1> QED
  BY <1>4, <1>5, SameSessions, TypeOfTabStep DEF TabsOK, TypeOK

LEMMA RenewalWonType == ASSUME TypeOK, NEW t \in Tabs, RenewalWon(t) PROVE TypeOK'
<1> DEFINE c == call[t]["renew"]
<1>1. c \in Call /\ disk[t] \in Stored /\ Len(sess) \in Nat /\ "renew" \in Kinds
  BY DEF TypeOK, Kinds
<1>2. c.next \in Token /\ c.key \in Keys /\ Shared \in Keys
  BY <1>1 DEF Call, Keys
<1>3. jar' \in [Keys -> Token]
  BY <1>2 DEF RenewalWon, WithCookie, TypeOK
<1>4. disk' \in [Tabs -> Stored]
  <2>1. ApiSave(disk[t], c.next, c.next) \in Stored
    BY <1>1, <1>2, SavedStored
  <2>2. disk' = [disk EXCEPT ![t] = ApiSave(disk[t], c.next, c.next)]
    BY Zenon DEF RenewalWon
  <2>3. disk \in [Tabs -> Stored]
    BY DEF TypeOK
  <2> HIDE DEF c
  <2> QED
    BY <2>1, <2>2, <2>3
<1>5. \A r \in Reqs : Resumed(req[t][r], c.next) \in Request
  <2>1. \A r \in Reqs : req[t][r] \in Request
    BY DEF TypeOK
  <2> QED
    BY <1>2, <2>1, RequestTurns DEF Resumed
<1>6. req' \in [Tabs -> [Reqs -> Request]] /\ mem' \in [Tabs -> Token]
  BY <1>2, <1>5 DEF RenewalWon, TypeOK
<1>7. call' \in [Tabs -> [Kinds -> Call]]
  BY <1>1, NothingTypes, OneCall DEF RenewalWon
<1>8. renewing' \in [Tabs -> BOOLEAN]
  BY DEF RenewalWon, TypeOK
<1>9. UNCHANGED <<sess, shown, page, goal, gone, left>>
  BY DEF RenewalWon
<1> QED
  BY <1>3, <1>4, <1>6, <1>7, <1>8, <1>9, SameSessions, TypeOfTabStep DEF TabsOK, TypeOK

LEMMA AnswerLostType == ASSUME TypeOK, NEW t \in Tabs, NEW k \in Kinds, AnswerLost(t, k) PROVE TypeOK'
<1> DEFINE c == [call[t][k] EXCEPT !.ph = "refused"]
<1>1. call \in [Tabs -> [Kinds -> Call]]
  BY DEF TypeOK
<1>2. c \in Call
  BY <1>1 DEF Call, Phases
<1>3. call' = [call EXCEPT ![t][k] = c]
  BY DEF AnswerLost
<1>4. Fault /\ UNCHANGED <<sess, jar, tabVars, gone>>
  BY DEF AnswerLost
<1> HIDE DEF c
<1>5. call' \in [Tabs -> [Kinds -> Call]]
  BY <1>2, <1>3, OneCall
<1> QED
  BY <1>4, <1>5, SameSessions, TypeOfTabStep DEF TabsOK, TypeOK, tabVars

-----------------------------------------------------------------------------
(* The queue of the 401s.                                                   *)

\* While useAuthInit waits for its refresh call, no profile is being read.
BootFirst ==
    \A t \in Tabs : call[t]["boot"].ph # "none" => page[t] = "boot" /\ req[t][Me].st = "idle"

IInv == TypeOK /\ CheckedHasToken /\ BootFirst /\ QueueHasRenewal

LEMMA InitInv == Init => IInv
<1> SUFFICES ASSUME Init PROVE IInv
  OBVIOUS
<1>1. TypeOK
  BY TypeInit
<1>2. CheckedHasToken /\ BootFirst /\ QueueHasRenewal
  BY SessionAssumption DEF Init, NoCall, Idle, CheckedHasToken, BootFirst, QueueHasRenewal, Kinds, Reqs
<1> QED
  BY <1>1, <1>2 DEF IInv

LEMMA TypeStep == TypeOK /\ CheckedHasToken /\ [Next]_vars => TypeOK'
<1> SUFFICES ASSUME TypeOK, CheckedHasToken, [Next]_vars PROVE TypeOK'
  OBVIOUS
<1>1. ASSUME UNCHANGED vars PROVE TypeOK'
  BY <1>1, SameSessions, TypeOfTabStep DEF TypeOK, TabsOK, vars, tabVars, callVars
<1>2. ASSUME NEW i \in Ids, Expire(i) \/ GraceEnds(i) PROVE TypeOK'
  BY <1>2, ExpireType, GraceEndsType
<1>3. ASSUME NEW c \in gone, GoneCheck(c) \/ GoneRotate(c) PROVE TypeOK'
  BY <1>3, GoneCheckType, GoneRotateType
<1>4. ASSUME NEW t \in Tabs, NEW u \in Users, Login(t, u) PROVE TypeOK'
  BY <1>4, LoginType
<1>5. ASSUME NEW t \in Tabs, Open(t) \/ BootWon(t) \/ BootLost(t) \/ Logout(t) PROVE TypeOK'
  BY <1>5, OpenType, BootWonType, BootLostType, LogoutType
<1>6. ASSUME NEW t \in Tabs, ProfileAnswered(t) \/ RenewalWon(t) \/ RenewalLost(t) PROVE TypeOK'
  BY <1>6, ProfileAnsweredType, RenewalWonType, BootLostType
<1>7. ASSUME NEW t \in Tabs, NEW k \in Kinds,
             RefreshCheck(t, k) \/ RefreshRotate(t, k) \/ AnswerLost(t, k)
      PROVE  TypeOK'
  BY <1>7, RefreshCheckType, RefreshRotateType, AnswerLostType
<1>8. ASSUME NEW t \in Tabs, NEW r \in Reqs,
             \/ Send(t, r) \/ DataAnswered(t, r) \/ GivenUp(t, r)
             \/ StartRenewal(t, r) \/ JoinQueue(t, r)
      PROVE  TypeOK'
  BY <1>8, SendType, GivenUpType, StartRenewalType, JoinQueueType
<1> QED
  BY <1>1, <1>2, <1>3, <1>4, <1>5, <1>6, <1>7, <1>8 DEF Next

\* The three parts, tab by tab.
QueueOf(t) ==
    /\ renewing[t] <=> call[t]["renew"].ph # "none"
    /\ renewing[t] <=> \E r \in Reqs : req[t][r].st = "renew"
    /\ \A r, q \in Reqs : req[t][r].st = "renew" /\ req[t][q].st = "renew" => r = q
    /\ \A r \in Reqs : req[t][r].st = "queued" => renewing[t]

CallsOf(t) ==
    /\ \A k \in Kinds : call[t][k].ph = "checked" => call[t][k].tok # 0
    /\ call[t]["boot"].ph # "none" => page[t] = "boot" /\ req[t][Me].st = "idle"
    /\ QueueOf(t)

GoneOK == \A c \in gone : c.ph = "checked" => c.tok # 0

LEMMA ByTab ==
    CheckedHasToken /\ BootFirst /\ QueueHasRenewal <=> GoneOK /\ \A t \in Tabs : CallsOf(t)
  BY DEF CheckedHasToken, BootFirst, QueueHasRenewal, GoneOK, CallsOf, QueueOf

LEMMA CheckedPhase ==
    ASSUME TypeOK, NEW c \in Call
    PROVE  Checked(c).tok = c.tok /\ (Checked(c).ph = "checked" => c.tok # 0)
  BY DEF Checked, Call, Phases

\* What one tab does is nothing to another.
Others(t) ==
    \A u \in Tabs \ {t} :
        /\ call'[u] = call[u] /\ page'[u] = page[u] /\ req'[u] = req[u] /\ renewing'[u] = renewing[u]

LEMMA OtherTabs ==
    ASSUME NEW t \in Tabs, Others(t), \A u \in Tabs : CallsOf(u), CallsOf(t)'
    PROVE  \A u \in Tabs : CallsOf(u)'
<1> SUFFICES ASSUME NEW u \in Tabs, u # t PROVE CallsOf(u)'
  OBVIOUS
<1>1. call'[u] = call[u] /\ page'[u] = page[u] /\ req'[u] = req[u] /\ renewing'[u] = renewing[u]
  BY DEF Others
<1>2. CallsOf(u)
  OBVIOUS
<1> QED
  BY <1>1, <1>2 DEF CallsOf, QueueOf

\* The queue of a tab changes only with its flag, its call or who waits.
LEMMA SameQueue ==
    ASSUME NEW t \in Tabs, QueueOf(t),
           renewing'[t] = renewing[t],
           call'[t]["renew"].ph # "none" <=> call[t]["renew"].ph # "none",
           \A r \in Reqs : /\ req'[t][r].st = "renew" <=> req[t][r].st = "renew"
                           /\ req'[t][r].st = "queued" <=> req[t][r].st = "queued"
    PROVE  QueueOf(t)'
<1>1. renewing'[t] <=> call'[t]["renew"].ph # "none"
  BY Zenon DEF QueueOf
<1>2. renewing'[t] <=> \E r \in Reqs : req'[t][r].st = "renew"
  BY Zenon DEF QueueOf
<1>3. \A r, q \in Reqs : req'[t][r].st = "renew" /\ req'[t][q].st = "renew" => r = q
  BY Zenon DEF QueueOf
<1>4. \A r \in Reqs : req'[t][r].st = "queued" => renewing'[t]
  BY Zenon DEF QueueOf
<1> QED
  BY <1>1, <1>2, <1>3, <1>4 DEF QueueOf

\* Calls that lose their caller are what they were.
LEMMA UnloadGone ==
    ASSUME GoneOK, NEW t \in Tabs, CallsOf(t), Unload(t)
    PROVE  GoneOK'
  BY DEF GoneOK, CallsOf, Unload, InFlight

LEMMA ToLoginCalls ==
    ASSUME TypeOK, GoneOK, NEW t \in Tabs, \A u \in Tabs : CallsOf(u), ToLogin(t)
    PROVE  GoneOK' /\ \A u \in Tabs : CallsOf(u)'
<1>1. GoneOK'
  BY UnloadGone DEF ToLogin
<1>2. Others(t)
  BY DEF ToLogin, Unload, TypeOK, Others
<1>3. /\ call'[t] = [k \in Kinds |-> NoCall] /\ req'[t] = [r \in Reqs |-> Idle]
      /\ renewing'[t] = FALSE
  BY DEF ToLogin, Unload, TypeOK
<1>4. CallsOf(t)'
  BY <1>3 DEF CallsOf, QueueOf, NoCall, Idle, Kinds
<1> QED
  BY <1>1, <1>2, <1>4, OtherTabs

LEMMA CallsStep ==
    ASSUME TypeOK, GoneOK, \A t \in Tabs : CallsOf(t), [Next]_vars
    PROVE  GoneOK' /\ \A t \in Tabs : CallsOf(t)'
<1> DEFINE Goal == GoneOK' /\ \A t \in Tabs : CallsOf(t)'
<1>0. /\ Me \in Reqs /\ "renew" \in Kinds /\ "boot" \in Kinds
      /\ page \in [Tabs -> {"login", "boot", "main"}]
      /\ req \in [Tabs -> [Reqs -> Request]]
      /\ renewing \in [Tabs -> BOOLEAN]
      /\ call \in [Tabs -> [Kinds -> Call]]
  BY DEF Reqs, Kinds, TypeOK
<1>1. ASSUME UNCHANGED <<call, gone, page, req, renewing>> PROVE Goal
  BY <1>1 DEF GoneOK, CallsOf, QueueOf
<1>2. ASSUME UNCHANGED vars PROVE Goal
  BY <1>1, <1>2 DEF vars, tabVars, callVars
<1>3. ASSUME NEW i \in Ids, Expire(i) \/ GraceEnds(i) PROVE Goal
  BY <1>1, <1>3 DEF Expire, GraceEnds, tabVars, callVars
<1>4. ASSUME NEW c \in gone, GoneCheck(c) \/ GoneRotate(c) PROVE Goal
  <2>1. UNCHANGED <<call, page, req, renewing>>
    BY <1>4 DEF GoneCheck, GoneRotate, tabVars
  <2>2. c \in Call
    BY DEF TypeOK
  <2>3. GoneOK'
    BY <1>4, <2>2, CheckedPhase DEF GoneOK, GoneCheck, GoneRotate
  <2> QED
    BY <2>1, <2>3 DEF CallsOf, QueueOf
<1>5. ASSUME NEW t \in Tabs, NEW u \in Users, Login(t, u) PROVE Goal
  <2>1. req[t][Me].st = "idle" /\ UNCHANGED <<page, renewing, call, gone>>
    BY <1>5 DEF Login, callVars
  <2>2. /\ req' = [req EXCEPT ![t][Me] = Asked(Len(sess) + 1)]
    BY <1>5 DEF Login
  <2>3. Others(t) /\ GoneOK'
    BY <1>0, <2>1, <2>2 DEF Others, GoneOK
  <2>4. /\ req'[t][Me].st = "sent"
        /\ \A r \in Reqs \ {Me} : req'[t][r] = req[t][r]
    BY <1>0, <2>2 DEF Asked
  <2>5. page[t] = "login"
    BY <1>5 DEF Login
  <2>6. QueueOf(t)'
    BY <2>1, <2>4, SameQueue DEF CallsOf
  <2>7. CallsOf(t)'
    BY <1>0, <2>1, <2>5, <2>6 DEF CallsOf
  <2> QED
    BY <2>3, <2>7, OtherTabs
<1>6. ASSUME NEW t \in Tabs, Open(t) PROVE Goal
  <2>1. GoneOK' /\ Others(t) /\ renewing'[t] = FALSE
    BY <1>0, <1>6, UnloadGone DEF Open, Unload, Others
  <2>2. CASE Whole(disk[t])
    <3>1. /\ call'[t] = [k \in Kinds |-> NoCall]
          /\ req'[t] = [[r \in Reqs |-> Idle] EXCEPT ![Me] = Asked(disk[t].at)]
      BY <1>0, <1>6, <2>2 DEF Open
    <3>2. CallsOf(t)'
      BY <2>1, <3>1 DEF CallsOf, QueueOf, NoCall, Idle, Asked, Kinds
    <3> QED
      BY <2>1, <3>2, OtherTabs
  <2>3. CASE ~Whole(disk[t])
    <3>1. /\ call'[t] = [[k \in Kinds |-> NoCall] EXCEPT !["boot"] = Presented(t, disk[t])]
          /\ req'[t] = [r \in Reqs |-> Idle] /\ page'[t] = "boot"
      BY <1>0, <1>6, <2>3 DEF Open
    <3>2. Presented(t, disk[t]).ph = "sent"
      BY DEF Presented
    <3>3. CallsOf(t)'
      BY <1>0, <2>1, <3>1, <3>2 DEF CallsOf, QueueOf, NoCall, Idle, Kinds
    <3> QED
      BY <2>1, <3>3, OtherTabs
  <2> QED
    BY <2>2, <2>3
<1>7. ASSUME NEW t \in Tabs, BootWon(t) PROVE Goal
  <2>1. /\ req' = [req EXCEPT ![t][Me] = Asked(call[t]["boot"].next)]
        /\ call' = [call EXCEPT ![t]["boot"] = NoCall]
        /\ UNCHANGED <<page, renewing, gone>> /\ call[t]["boot"].ph = "won"
    BY <1>7 DEF BootWon
  <2>2. Others(t) /\ GoneOK'
    BY <1>0, <2>1 DEF Others, GoneOK
  <2>3. /\ req'[t][Me].st = "sent" /\ \A r \in Reqs \ {Me} : req'[t][r] = req[t][r]
        /\ call'[t]["boot"].ph = "none" /\ call'[t]["renew"] = call[t]["renew"]
    BY <1>0, <2>1 DEF Asked, NoCall
  <2>4. req[t][Me].st = "idle"
    BY <2>1 DEF CallsOf
  <2>5. QueueOf(t)'
    BY <2>1, <2>3, <2>4, SameQueue DEF CallsOf
  <2>6. CallsOf(t)'
    BY <2>1, <2>3, <2>5 DEF CallsOf, Kinds
  <2> QED
    BY <2>2, <2>6, OtherTabs
<1>8. ASSUME NEW t \in Tabs, BootLost(t) \/ Logout(t) \/ RenewalLost(t) PROVE Goal
  BY <1>8, ToLoginCalls DEF BootLost, Logout, RenewalLost
<1>9. ASSUME NEW t \in Tabs, NEW k \in Kinds,
             RefreshCheck(t, k) \/ RefreshRotate(t, k) \/ AnswerLost(t, k)
      PROVE  Goal
  <2>1. UNCHANGED <<page, req, renewing, gone>>
    BY <1>9 DEF RefreshCheck, RefreshRotate, AnswerLost, tabVars
  <2>2. PICK c : /\ call' = [call EXCEPT ![t][k] = c] /\ c.ph # "none" /\ call[t][k].ph # "none"
                 /\ c.ph = "checked" => c.tok # 0
    <3>0. call[t][k] \in Call
      BY DEF TypeOK
    <3>1. CASE RefreshCheck(t, k)
      <4> DEFINE c == Checked(call[t][k])
      <4>1. c.ph # "none" /\ (c.ph = "checked" => c.tok # 0)
        BY <3>0, CheckedType, CheckedPhase
      <4>2. call' = [call EXCEPT ![t][k] = c] /\ call[t][k].ph # "none"
        BY <3>1 DEF RefreshCheck
      <4> HIDE DEF c
      <4> QED
        BY <4>1, <4>2
    <3>2. CASE RefreshRotate(t, k)
      <4> DEFINE c == Rotated(call[t][k])
      <4>1. c.ph = "won"
        BY <3>0 DEF Rotated, Call
      <4>2. call' = [call EXCEPT ![t][k] = c] /\ call[t][k].ph # "none"
        BY <3>2 DEF RefreshRotate
      <4> HIDE DEF c
      <4> QED
        BY <4>1, <4>2
    <3>3. CASE AnswerLost(t, k)
      <4> DEFINE c == [call[t][k] EXCEPT !.ph = "refused"]
      <4>1. call[t][k] \in Call
        BY DEF TypeOK
      <4>2. c.ph = "refused"
        BY <4>1 DEF Call
      <4>3. call' = [call EXCEPT ![t][k] = c] /\ call[t][k].ph # "none"
        BY <3>3 DEF AnswerLost
      <4> HIDE DEF c
      <4> QED
        BY <4>2, <4>3
    <3> QED
      BY <1>9, <3>1, <3>2, <3>3
  <2>3. Others(t) /\ GoneOK'
    BY <1>0, <2>1, <2>2 DEF Others, GoneOK
  <2>4. /\ call'[t][k] = c
        /\ \A j \in Kinds \ {k} : call'[t][j] = call[t][j]
    BY <1>0, <2>2
  <2>5. \A j \in Kinds : call'[t][j].ph # "none" <=> call[t][j].ph # "none"
    BY <2>2, <2>4
  <2>6. QueueOf(t)'
    BY <1>0, <2>1, <2>5, SameQueue DEF CallsOf
  <2>7. CallsOf(t)'
    BY <1>0, <2>1, <2>2, <2>4, <2>5, <2>6 DEF CallsOf
  <2> QED
    BY <2>3, <2>7, OtherTabs
<1>10. ASSUME NEW t \in Tabs, ProfileAnswered(t) PROVE Goal
  <2>1. PICK q : /\ req' = [req EXCEPT ![t][Me] = q] /\ q.st \in {"idle", "sent"}
                 /\ req[t][Me].st = "sent"
    BY <1>10 DEF ProfileAnswered, Asked, Idle
  <2>2. UNCHANGED <<renewing, call, gone>> /\ page' = [page EXCEPT ![t] = "main"]
    BY <1>10 DEF ProfileAnswered, callVars
  <2>3. Others(t) /\ GoneOK'
    BY <1>0, <2>1, <2>2 DEF Others, GoneOK
  <2>4. req'[t][Me].st \in {"idle", "sent"} /\ \A r \in Reqs \ {Me} : req'[t][r] = req[t][r]
    BY <1>0, <2>1
  <2>5. QueueOf(t)'
    BY <2>1, <2>2, <2>4, SameQueue DEF CallsOf
  <2>6. call[t]["boot"].ph = "none"
    BY <2>1 DEF CallsOf
  <2>7. CallsOf(t)'
    BY <2>2, <2>5, <2>6 DEF CallsOf
  <2> QED
    BY <2>3, <2>7, OtherTabs
<1>11. ASSUME NEW t \in Tabs, NEW r \in Reqs, Send(t, r) \/ DataAnswered(t, r) PROVE Goal
  <2>1. PICK q : /\ req' = [req EXCEPT ![t][r] = q] /\ q.st \in {"idle", "sent"}
                 /\ req[t][r].st \in {"idle", "sent"} /\ r # Me
    BY <1>11, SessionAssumption DEF Send, DataAnswered, Asked, Idle
  <2>2. UNCHANGED <<renewing, call, gone, page>>
    BY <1>11 DEF Send, DataAnswered, callVars
  <2>3. Others(t) /\ GoneOK'
    BY <1>0, <2>1, <2>2 DEF Others, GoneOK
  <2>4. req'[t][r].st \in {"idle", "sent"} /\ \A p \in Reqs \ {r} : req'[t][p] = req[t][p]
    BY <1>0, <2>1
  <2>5. QueueOf(t)'
    BY <2>1, <2>2, <2>4, SameQueue DEF CallsOf
  <2>6. CallsOf(t)'
    BY <1>0, <2>1, <2>2, <2>4, <2>5 DEF CallsOf
  <2> QED
    BY <2>3, <2>6, OtherTabs
<1>12. ASSUME NEW t \in Tabs, NEW r \in Reqs, GivenUp(t, r) PROVE Goal
  <2>1. CASE ToLogin(t)
    BY <2>1, ToLoginCalls
  <2>2. CASE /\ req' = [req EXCEPT ![t][r] = Idle]
             /\ UNCHANGED <<disk, mem, shown, page, goal, renewing, callVars>>
    <3>1. req[t][r].st = "sent" /\ UNCHANGED <<renewing, call, gone, page>>
      BY <1>12, <2>2 DEF GivenUp, callVars
    <3>2. Others(t) /\ GoneOK'
      BY <1>0, <2>2, <3>1 DEF Others, GoneOK
    <3>3. req'[t][r].st = "idle" /\ \A p \in Reqs \ {r} : req'[t][p] = req[t][p]
      BY <1>0, <2>2 DEF Idle
    <3>4. QueueOf(t)'
      BY <3>1, <3>3, SameQueue DEF CallsOf
    <3>5. CallsOf(t)'
      BY <1>0, <3>1, <3>3, <3>4 DEF CallsOf
    <3> QED
      BY <3>2, <3>5, OtherTabs
  <2> QED
    BY <1>12, <2>1, <2>2 DEF GivenUp
<1>13. ASSUME NEW t \in Tabs, NEW r \in Reqs, StartRenewal(t, r) PROVE Goal
  <2>1. /\ req[t][r].st = "sent" /\ ~renewing[t]
        /\ renewing' = [renewing EXCEPT ![t] = TRUE]
        /\ req' = [req EXCEPT ![t][r].st = "renew", ![t][r].again = TRUE]
        /\ call' = [call EXCEPT ![t]["renew"] = Presented(t, disk[t])]
        /\ UNCHANGED <<page, gone>>
    BY <1>13 DEF StartRenewal, Unauthorised
  <2>2. Others(t) /\ GoneOK'
    BY <1>0, <2>1 DEF Others, GoneOK
  <2>3. /\ req'[t][r].st = "renew" /\ \A p \in Reqs \ {r} : req'[t][p] = req[t][p]
        /\ renewing'[t] = TRUE
    BY <1>0, <2>1 DEF Request
  <2>4. call'[t]["renew"].ph = "sent" /\ call'[t]["boot"] = call[t]["boot"]
    BY <1>0, <2>1 DEF Presented
  <2>5. \A p \in Reqs : req[t][p].st \notin {"renew", "queued"}
    BY <2>1 DEF CallsOf, QueueOf
  <2>6. QueueOf(t)'
    BY <2>3, <2>4, <2>5 DEF QueueOf
  <2>7. call[t]["boot"].ph # "none" => r # Me
    BY <2>1 DEF CallsOf
  <2>8. CallsOf(t)'
    BY <1>0, <2>1, <2>3, <2>4, <2>6, <2>7 DEF CallsOf, Kinds
  <2> QED
    BY <2>2, <2>8, OtherTabs
<1>14. ASSUME NEW t \in Tabs, NEW r \in Reqs, JoinQueue(t, r) PROVE Goal
  <2>1. /\ req[t][r].st = "sent" /\ renewing[t]
        /\ req' = [req EXCEPT ![t][r].st = "queued", ![t][r].again = TRUE]
        /\ UNCHANGED <<page, gone, call, renewing>>
    BY <1>14 DEF JoinQueue, Unauthorised, callVars
  <2>2. Others(t) /\ GoneOK'
    BY <1>0, <2>1 DEF Others, GoneOK
  <2>3. req'[t][r].st = "queued" /\ \A p \in Reqs \ {r} : req'[t][p] = req[t][p]
    BY <1>0, <2>1 DEF Request
  <2>4. QueueOf(t)'
    <3>1. \A p \in Reqs : req'[t][p].st = "renew" <=> req[t][p].st = "renew"
      BY <2>1, <2>3
    <3>2. renewing'[t] <=> \E p \in Reqs : req'[t][p].st = "renew"
      BY <2>1, <3>1, Zenon DEF CallsOf, QueueOf
    <3>3. renewing'[t] <=> call'[t]["renew"].ph # "none"
      BY <2>1, Zenon DEF CallsOf, QueueOf
    <3>4. \A p, q \in Reqs : req'[t][p].st = "renew" /\ req'[t][q].st = "renew" => p = q
      BY <3>1, Zenon DEF CallsOf, QueueOf
    <3> QED
      BY <2>1, <3>2, <3>3, <3>4 DEF QueueOf
  <2>5. call[t]["boot"].ph # "none" => r # Me
    BY <2>1 DEF CallsOf
  <2>6. CallsOf(t)'
    BY <1>0, <2>1, <2>3, <2>4, <2>5 DEF CallsOf
  <2> QED
    BY <2>2, <2>6, OtherTabs
<1>15. ASSUME NEW t \in Tabs, RenewalWon(t) PROVE Goal
  <2>1. /\ req' = [req EXCEPT ![t] = [r \in Reqs |-> Resumed(req[t][r], call[t]["renew"].next)]]
        /\ renewing' = [renewing EXCEPT ![t] = FALSE]
        /\ call' = [call EXCEPT ![t]["renew"] = NoCall]
        /\ UNCHANGED <<page, gone>>
    BY <1>15 DEF RenewalWon
  <2>2. Others(t) /\ GoneOK'
    BY <1>0, <2>1 DEF Others, GoneOK
  <2>3. renewing'[t] = FALSE /\ call'[t]["renew"].ph = "none" /\ call'[t]["boot"] = call[t]["boot"]
    BY <1>0, <2>1 DEF NoCall
  <2>4. \A r \in Reqs : /\ req'[t][r].st \notin {"renew", "queued"}
                        /\ req[t][r].st = "idle" => req'[t][r].st = "idle"
    <3> SUFFICES ASSUME NEW r \in Reqs
                 PROVE  /\ req'[t][r].st \notin {"renew", "queued"}
                        /\ req[t][r].st = "idle" => req'[t][r].st = "idle"
      OBVIOUS
    <3>1. req[t][r] \in Request
      BY <1>0
    <3>2. req'[t][r] = Resumed(req[t][r], call[t]["renew"].next)
      BY <1>0, <2>1
    <3> QED
      BY <3>1, <3>2 DEF Resumed, Request
  <2>5. QueueOf(t)'
    BY <2>3, <2>4 DEF QueueOf
  <2>6. CallsOf(t)'
    BY <1>0, <2>1, <2>3, <2>4, <2>5 DEF CallsOf, Kinds
  <2> QED
    BY <2>2, <2>6, OtherTabs
<1> QED
  BY <1>2, <1>3, <1>4, <1>5, <1>6, <1>7, <1>8, <1>9, <1>10, <1>11, <1>12, <1>13, <1>14, <1>15 DEF Next

LEMMA StepInv == IInv /\ [Next]_vars => IInv'
<1> SUFFICES ASSUME IInv, [Next]_vars PROVE IInv'
  OBVIOUS
<1>1. TypeOK /\ CheckedHasToken /\ GoneOK /\ \A t \in Tabs : CallsOf(t)
  BY ByTab DEF IInv
<1>2. TypeOK'
  BY <1>1, TypeStep
<1>3. GoneOK' /\ \A t \in Tabs : CallsOf(t)'
  BY <1>1, CallsStep
<1>4. CheckedHasToken' /\ BootFirst' /\ QueueHasRenewal'
  BY <1>3 DEF CheckedHasToken, BootFirst, QueueHasRenewal, GoneOK, CallsOf, QueueOf
<1> QED
  BY <1>2, <1>4 DEF IInv

-----------------------------------------------------------------------------
(* Whose session a renewal answers with.                                    *)

\* A successor belongs to the user of the session it succeeds.
Heirs(s) == \A i \in 1..Len(s) : s[i].next # 0 => s[s[i].next].user = s[i].user

\* Sessions never change hands.
SameUsers(s, s2) == Len(s2) >= Len(s) /\ \A i \in 1..Len(s) : s2[i].user = s[i].user

\* An answer names a session of the user whose token was presented.
WonFor(s, c) ==
    c.ph = "won" => c.tok # 0 /\ c.next # 0 /\ s[c.next].user = s[c.tok].user

\* Between two steps a tab has one session, and none of a user at the login page.
OwnSession(t) ==
    /\ disk[t].rt # 0 => disk[t].rt = disk[t].at /\ disk[t].at = mem[t]
    /\ page[t] = "login" => disk[t].user = NoUser

UserInv ==
    /\ IInv
    /\ Heirs(sess)
    /\ \A t \in Tabs, k \in Kinds : WonFor(sess, call[t][k])
    /\ \A t \in Tabs : OwnSession(t)

LEMMA StillFor ==
    ASSUME NEW s, NEW s2, Len(s) \in Nat, SameUsers(s, s2),
           NEW c, c.tok \in 0..Len(s), c.next \in 0..Len(s), WonFor(s, c)
    PROVE  WonFor(s2, c)
<1> SUFFICES ASSUME c.ph = "won" PROVE c.tok # 0 /\ c.next # 0 /\ s2[c.next].user = s2[c.tok].user
  BY DEF WonFor
<1>1. c.tok \in 1..Len(s) /\ c.next \in 1..Len(s) /\ s[c.next].user = s[c.tok].user
  BY DEF WonFor
<1> QED
  BY <1>1 DEF SameUsers

\* A step that creates no session and sets no successor.
LEMMA HeirsStay ==
    ASSUME NEW s, NEW s2, Len(s) \in Nat, Len(s2) = Len(s), Heirs(s), SameUsers(s, s2),
           \A i \in 1..Len(s) : s[i].next \in 0..Len(s),
           \A i \in 1..Len(s) : s2[i].next = s[i].next \/ s2[i].next = 0
    PROVE  Heirs(s2)
<1> SUFFICES ASSUME NEW i \in 1..Len(s), s2[i].next # 0
             PROVE  s2[s2[i].next].user = s2[i].user
  BY DEF Heirs
<1>1. s2[i].next = s[i].next /\ s[i].next \in 1..Len(s)
  OBVIOUS
<1>2. s[s[i].next].user = s[i].user
  BY <1>1 DEF Heirs
<1> QED
  BY <1>1, <1>2 DEF SameUsers

\* One session more, which succeeds at most the one named, of the same user.
LEMMA HeirsGrow ==
    ASSUME NEW s, NEW s2, NEW n, Len(s) \in Nat, Len(s2) = Len(s) + 1, Heirs(s), SameUsers(s, s2),
           \A i \in 1..Len(s) : s[i].next \in 0..Len(s),
           s2[Len(s) + 1].next = 0,
           n \in 1..Len(s) => s2[Len(s) + 1].user = s[n].user,
           \A i \in 1..Len(s) : s2[i].next = IF i = n THEN Len(s) + 1 ELSE s[i].next
    PROVE  Heirs(s2)
<1> SUFFICES ASSUME NEW i \in 1..Len(s) + 1, s2[i].next # 0
             PROVE  s2[s2[i].next].user = s2[i].user
  BY DEF Heirs
<1>1. i \in 1..Len(s)
  OBVIOUS
<1>2. CASE i = n
  BY <1>1, <1>2 DEF SameUsers
<1>3. CASE i # n
  <2>1. s2[i].next = s[i].next /\ s[i].next \in 1..Len(s)
    BY <1>1, <1>3
  <2>2. s[s[i].next].user = s[i].user
    BY <1>1, <2>1 DEF Heirs
  <2> QED
    BY <1>1, <2>1, <2>2 DEF SameUsers
<1> QED
  BY <1>2, <1>3

\* One mark of one session changes: its freshness or its successor.
LEMMA MarkUsers ==
    ASSUME TypeOK, Heirs(sess), NEW i \in Ids, NEW v \in Session,
           v.user = sess[i].user, v.next = sess[i].next \/ v.next = 0,
           sess' = [sess EXCEPT ![i] = v]
    PROVE  SameUsers(sess, sess') /\ Heirs(sess')
<1>1. sess \in Seq(Session) /\ i \in 1..Len(sess) /\ Len(sess) \in Nat
  BY DEF TypeOK, Ids
<1>2. /\ Len(sess') = Len(sess)
      /\ \A j \in 1..Len(sess) : sess'[j] = IF j = i THEN v ELSE sess[j]
  BY <1>1, Updated
<1>3. SameUsers(sess, sess')
  BY <1>1, <1>2 DEF SameUsers
<1>4. \A j \in 1..Len(sess) : sess'[j].next = sess[j].next \/ sess'[j].next = 0
  BY <1>1, <1>2
<1>5. \A j \in 1..Len(sess) : sess[j].next \in 0..Len(sess)
  BY DEF TypeOK, Ids, Token
<1> QED
  BY <1>1, <1>2, <1>3, <1>4, <1>5, HeirsStay

LEMMA RotationUsers ==
    ASSUME TypeOK, Heirs(sess), NEW c \in Call, c.tok # 0
    PROVE  /\ SameUsers(sess, Rotation(c)) /\ Heirs(Rotation(c))
           /\ Rotation(c)[Len(sess) + 1].user = Rotation(c)[c.tok].user
<1>1. /\ Len(sess) \in Nat /\ c.tok \in 1..Len(sess)
      /\ \A j \in 1..Len(sess) : sess[j].next \in 0..Len(sess)
  BY DEF TypeOK, Ids, Token, Call
<1>2. /\ Len(Rotation(c)) = Len(sess) + 1
      /\ \A i \in 1..Len(sess) : /\ Rotation(c)[i].user = sess[i].user
                                 /\ Rotation(c)[i].next = IF i = c.tok THEN Len(sess) + 1 ELSE sess[i].next
      /\ Rotation(c)[Len(sess) + 1].user = sess[c.tok].user
      /\ Rotation(c)[Len(sess) + 1].next = 0
  BY RotationType DEF Ids
<1>3. SameUsers(sess, Rotation(c))
  BY <1>1, <1>2 DEF SameUsers
<1> DEFINE r == Rotation(c)
<1>4. /\ Len(r) = Len(sess) + 1 /\ SameUsers(sess, r)
      /\ \A i \in 1..Len(sess) : r[i].next = IF i = c.tok THEN Len(sess) + 1 ELSE sess[i].next
      /\ r[Len(sess) + 1].user = sess[c.tok].user /\ r[Len(sess) + 1].next = 0
  BY <1>2, <1>3
<1> HIDE DEF r
<1>5. Heirs(r)
  BY <1>1, <1>4, HeirsGrow
<1> QED
  BY <1>1, <1>2, <1>3, <1>5 DEF r

\* Whatever happens, sessions keep their users and successors theirs.
LEMMA SessionsStep ==
    ASSUME TypeOK, CheckedHasToken, Heirs(sess), [Next]_vars
    PROVE  SameUsers(sess, sess') /\ Heirs(sess')
<1> DEFINE Goal == SameUsers(sess, sess') /\ Heirs(sess')
<1>0. /\ sess \in Seq(Session) /\ Len(sess) \in Nat
      /\ \A j \in 1..Len(sess) : sess[j].next \in 0..Len(sess)
  BY DEF TypeOK, Ids, Token
<1>1. ASSUME UNCHANGED sess PROVE Goal
  BY <1>0, <1>1 DEF SameUsers, Heirs
<1>2. ASSUME NEW i \in Ids, Expire(i) \/ GraceEnds(i) PROVE Goal
  <2>1. sess[i] \in Session
    BY <1>0 DEF Ids
  <2>2. PICK v \in Session : /\ sess' = [sess EXCEPT ![i] = v] /\ v.user = sess[i].user
                             /\ v.next = sess[i].next \/ v.next = 0
    <3>1. CASE Expire(i)
      <4> DEFINE v == [sess[i] EXCEPT !.fresh = FALSE]
      <4>1. v \in Session /\ v.user = sess[i].user /\ v.next = sess[i].next
        BY <2>1 DEF Session
      <4>2. sess' = [sess EXCEPT ![i] = v]
        BY <3>1 DEF Expire
      <4> HIDE DEF v
      <4> QED
        BY <4>1, <4>2
    <3>2. CASE GraceEnds(i)
      <4> DEFINE v == [sess[i] EXCEPT !.next = 0]
      <4>1. v \in Session /\ v.user = sess[i].user /\ v.next = 0
        BY <2>1 DEF Session
      <4>2. sess' = [sess EXCEPT ![i] = v]
        BY <3>2 DEF GraceEnds
      <4> HIDE DEF v
      <4> QED
        BY <4>1, <4>2
    <3> QED
      BY <1>2, <3>1, <3>2
  <2> QED
    BY <2>2, MarkUsers
<1>3. ASSUME NEW c \in gone, GoneCheck(c) \/ GoneRotate(c) PROVE Goal
  <2>1. CASE GoneCheck(c)
    BY <1>1, <2>1 DEF GoneCheck
  <2>2. CASE GoneRotate(c)
    <3>1. c \in Call /\ c.tok # 0 /\ sess' = Rotation(c)
      BY <2>2 DEF TypeOK, GoneRotate, CheckedHasToken
    <3> QED
      BY <3>1, RotationUsers
  <2> QED
    BY <1>3, <2>1, <2>2
<1>4. ASSUME NEW t \in Tabs, NEW u \in Users, Login(t, u) PROVE Goal
  <2>1. sess' = Issued(sess, u)
    BY <1>4 DEF Login
  <2>2. /\ Len(sess') = Len(sess) + 1
        /\ \A i \in 1..Len(sess) : sess'[i].next = sess[i].next /\ sess'[i].user = sess[i].user
        /\ sess'[Len(sess) + 1].next = 0
    BY <1>0, <2>1, IssuedType
  <2>3. SameUsers(sess, sess')
    BY <1>0, <2>2 DEF SameUsers
  <2>4. 0 \notin 1..Len(sess)
    OBVIOUS
  <2>5. \A i \in 1..Len(sess) : sess'[i].next = IF i = 0 THEN Len(sess) + 1 ELSE sess[i].next
    BY <1>0, <2>2
  <2>6. Heirs(sess')
    BY <1>0, <2>2, <2>3, <2>4, <2>5, HeirsGrow
  <2> QED
    BY <2>3, <2>6
<1>5. ASSUME NEW t \in Tabs, Logout(t) PROVE Goal
  <2> DEFINE tok == Presented(t, disk[t]).tok
  <2>1. sess' = sess \/ sess' = Ended(sess, tok)
    BY <1>5 DEF Logout
  <2> HIDE DEF tok
  <2>2. CASE sess' = Ended(sess, tok)
    <3>1. /\ Len(sess') = Len(sess)
          /\ \A i \in 1..Len(sess) : sess'[i].next = sess[i].next /\ sess'[i].user = sess[i].user
      BY <1>0, <2>2, EndedType
    <3>2. SameUsers(sess, sess')
      BY <1>0, <3>1 DEF SameUsers
    <3> QED
      BY <1>0, <3>1, <3>2, HeirsStay
  <2> QED
    BY <1>1, <2>1, <2>2
<1>6. ASSUME NEW t \in Tabs,
             \/ Open(t) \/ BootWon(t) \/ BootLost(t)
             \/ ProfileAnswered(t) \/ RenewalWon(t) \/ RenewalLost(t)
      PROVE  Goal
  BY <1>1, <1>6 DEF Open, BootWon, BootLost, ProfileAnswered, RenewalWon, RenewalLost
<1>7. ASSUME NEW t \in Tabs, NEW k \in Kinds,
             RefreshCheck(t, k) \/ RefreshRotate(t, k) \/ AnswerLost(t, k)
      PROVE  Goal
  <2>1. CASE RefreshCheck(t, k) \/ AnswerLost(t, k)
    BY <1>1, <2>1 DEF RefreshCheck, AnswerLost
  <2>2. CASE RefreshRotate(t, k)
    <3>1. call[t][k] \in Call /\ call[t][k].tok # 0 /\ sess' = Rotation(call[t][k])
      BY <2>2 DEF TypeOK, RefreshRotate, CheckedHasToken
    <3> QED
      BY <3>1, RotationUsers
  <2> QED
    BY <1>7, <2>1, <2>2
<1>8. ASSUME NEW t \in Tabs, NEW r \in Reqs,
             \/ Send(t, r) \/ DataAnswered(t, r) \/ GivenUp(t, r)
             \/ StartRenewal(t, r) \/ JoinQueue(t, r)
      PROVE  Goal
  BY <1>1, <1>8 DEF Send, DataAnswered, GivenUp, StartRenewal, JoinQueue
<1>9. ASSUME UNCHANGED vars PROVE Goal
  BY <1>1, <1>9 DEF vars
<1> QED
  BY <1>2, <1>3, <1>4, <1>5, <1>6, <1>7, <1>8, <1>9 DEF Next

\* The grace entry answers with the successor, and nobody else's.
LEMMA CheckedFor ==
    ASSUME TypeOK, Heirs(sess), NEW c \in Call, c.ph = "sent"
    PROVE  WonFor(sess, Checked(c))
<1>1. CASE c.tok = 0
  BY <1>1 DEF Checked, WonFor, Call
<1>2. CASE c.tok # 0 /\ sess[c.tok].next # 0
  <2>1. c.tok \in 1..Len(sess)
    BY <1>2 DEF Call, Token
  <2>2. sess[sess[c.tok].next].user = sess[c.tok].user
    BY <1>2, <2>1 DEF Heirs
  <2>3. Checked(c).tok = c.tok /\ Checked(c).next = sess[c.tok].next
    BY <1>2 DEF Checked, Call
  <2> QED
    BY <1>2, <2>2, <2>3 DEF WonFor
<1>3. CASE c.tok # 0 /\ sess[c.tok].next = 0
  BY <1>3 DEF Checked, WonFor, Call
<1> QED
  BY <1>1, <1>2, <1>3

\* What a step may do with a call: leave it, forget it, send a new one, end it
\* without an answer, or let the server answer it.
Answered(c, d) ==
    \/ d = c
    \/ d.ph \in {"none", "sent", "refused"}
    \/ c.ph = "sent" /\ d = Checked(c)
    \/ c.ph = "checked" /\ d = Rotated(c) /\ sess' = Rotation(c)

LEMMA CallsTurn ==
    ASSUME TypeOK, [Next]_vars, NEW u \in Tabs, NEW j \in Kinds
    PROVE  Answered(call[u][j], call'[u][j])
<1> DEFINE Goal == Answered(call[u][j], call'[u][j])
<1>0. call \in [Tabs -> [Kinds -> Call]] /\ "boot" \in Kinds /\ "renew" \in Kinds
  BY DEF TypeOK, Kinds
<1>1. ASSUME UNCHANGED call PROVE Goal
  BY <1>1 DEF Answered
<1>2. ASSUME NEW t \in Tabs, ToLogin(t) PROVE Goal
  BY <1>0, <1>2 DEF ToLogin, Answered, NoCall
<1>3. ASSUME NEW t \in Tabs, Open(t) PROVE Goal
  <2>1. NoCall.ph = "none" /\ Presented(t, disk[t]).ph = "sent"
    BY DEF NoCall, Presented
  <2>2. PICK f \in {[k \in Kinds |-> NoCall],
                   [[k \in Kinds |-> NoCall] EXCEPT !["boot"] = Presented(t, disk[t])]} :
            call' = [call EXCEPT ![t] = f]
    BY <1>3 DEF Open
  <2>3. f[j].ph \in {"none", "sent"}
    BY <1>0, <2>1, <2>2
  <2> QED
    BY <1>0, <2>2, <2>3 DEF Answered
<1>4. ASSUME NEW t \in Tabs, BootWon(t) \/ RenewalWon(t) PROVE Goal
  <2>1. PICK k \in Kinds : call' = [call EXCEPT ![t][k] = NoCall]
    BY <1>0, <1>4 DEF BootWon, RenewalWon
  <2> QED
    BY <1>0, <2>1 DEF Answered, NoCall
<1>5. ASSUME NEW t \in Tabs, NEW k \in Kinds, RefreshCheck(t, k) PROVE Goal
  <2>1. call[t][k].ph = "sent" /\ call' = [call EXCEPT ![t][k] = Checked(call[t][k])]
    BY <1>5 DEF RefreshCheck
  <2> QED
    BY <1>0, <2>1 DEF Answered
<1>6. ASSUME NEW t \in Tabs, NEW k \in Kinds, RefreshRotate(t, k) PROVE Goal
  <2>1. /\ call[t][k].ph = "checked" /\ call' = [call EXCEPT ![t][k] = Rotated(call[t][k])]
        /\ sess' = Rotation(call[t][k])
    BY <1>6 DEF RefreshRotate
  <2> QED
    BY <1>0, <2>1 DEF Answered
<1>7. ASSUME NEW t \in Tabs, NEW k \in Kinds, AnswerLost(t, k) PROVE Goal
  <2>1. call' = [call EXCEPT ![t][k].ph = "refused"] /\ call[t][k] \in Call
    BY <1>0, <1>7 DEF AnswerLost
  <2> QED
    BY <1>0, <2>1 DEF Answered, Call
<1>8. ASSUME NEW t \in Tabs, NEW r \in Reqs, StartRenewal(t, r) PROVE Goal
  <2>1. call' = [call EXCEPT ![t]["renew"] = Presented(t, disk[t])]
    BY <1>8 DEF StartRenewal
  <2> QED
    BY <1>0, <2>1 DEF Answered, Presented
<1>9. ASSUME NEW t \in Tabs, NEW r \in Reqs,
             Send(t, r) \/ DataAnswered(t, r) \/ GivenUp(t, r) \/ JoinQueue(t, r)
      PROVE  Goal
  BY <1>1, <1>2, <1>9 DEF Send, DataAnswered, GivenUp, JoinQueue, callVars
<1>10. ASSUME NEW t \in Tabs, BootLost(t) \/ RenewalLost(t) \/ Logout(t) PROVE Goal
  BY <1>2, <1>10 DEF BootLost, RenewalLost, Logout
<1>11. ASSUME NEW t \in Tabs, ProfileAnswered(t) \/ \E v \in Users : Login(t, v) PROVE Goal
  BY <1>1, <1>11 DEF ProfileAnswered, Login, callVars
<1>12. ASSUME NEW i \in Ids, Expire(i) \/ GraceEnds(i) PROVE Goal
  BY <1>1, <1>12 DEF Expire, GraceEnds, callVars
<1>13. ASSUME NEW c \in gone, GoneCheck(c) \/ GoneRotate(c) PROVE Goal
  BY <1>1, <1>13 DEF GoneCheck, GoneRotate
<1>14. ASSUME UNCHANGED vars PROVE Goal
  BY <1>1, <1>14 DEF vars, callVars
<1> QED
  BY <1>3, <1>4, <1>5, <1>6, <1>7, <1>8, <1>9, <1>10, <1>11, <1>12, <1>13, <1>14 DEF Next

LEMMA AnsweredFor ==
    ASSUME TypeOK, CheckedHasToken, Heirs(sess), SameUsers(sess, sess'),
           NEW t \in Tabs, NEW k \in Kinds,
           WonFor(sess, call[t][k]), Answered(call[t][k], call'[t][k])
    PROVE  WonFor(sess', call'[t][k])
<1> DEFINE c == call[t][k]
<1>1. c \in Call /\ c.tok \in 0..Len(sess) /\ c.next \in 0..Len(sess) /\ Len(sess) \in Nat
  BY DEF TypeOK, Call, Token
<1>2. CASE call'[t][k] = c
  BY <1>1, <1>2, StillFor
<1>3. CASE call'[t][k].ph \in {"none", "sent", "refused"}
  BY <1>3 DEF WonFor
<1>4. CASE c.ph = "sent" /\ call'[t][k] = Checked(c)
  <2>1. Checked(c) \in Call /\ WonFor(sess, Checked(c))
    BY <1>1, <1>4, CheckedType, CheckedFor
  <2>2. Checked(c).tok \in 0..Len(sess) /\ Checked(c).next \in 0..Len(sess)
    BY <2>1 DEF Call, Token
  <2> QED
    BY <1>1, <1>4, <2>1, <2>2, StillFor
<1>5. CASE c.ph = "checked" /\ call'[t][k] = Rotated(c) /\ sess' = Rotation(c)
  <2>1. c.tok # 0
    BY <1>5 DEF CheckedHasToken
  <2>2. Rotation(c)[Len(sess) + 1].user = Rotation(c)[c.tok].user
    BY <1>1, <2>1, RotationUsers
  <2>3. Rotated(c).tok = c.tok /\ Rotated(c).next = Len(sess) + 1
    BY <1>1 DEF Rotated, Call
  <2> QED
    BY <1>1, <1>5, <2>1, <2>2, <2>3 DEF WonFor
<1> QED
  BY <1>2, <1>3, <1>4, <1>5 DEF Answered

\* What the merges of the stored session keep of its tokens and its user.
LEMMA SavedTokens ==
    ASSUME NEW n \in Nat, NEW d \in [at : 0..n, rt : 0..n, user : Users \cup {NoUser}],
           NEW tok \in 0..n, NEW rt \in 0..n
    PROVE  /\ ApiSave(d, tok, rt).at = tok
           /\ rt # 0 => ApiSave(d, tok, rt).rt \in {0, rt}
           /\ rt = 0 => ApiSave(d, tok, rt).rt \in {0, d.rt}
           /\ d.user = NoUser => ApiSave(d, tok, rt).user = NoUser /\ ApiSave(d, tok, rt).rt = 0
<1> DEFINE e == [d EXCEPT !.at = tok, !.rt = IF rt = 0 THEN @ ELSE rt]
           f == Kept(e)
<1>1. /\ e.at = tok /\ e.rt = (IF rt = 0 THEN d.rt ELSE rt) /\ e.user = d.user
      /\ e \in [at : 0..n, rt : 0..n, user : Users \cup {NoUser}]
  OBVIOUS
<1> HIDE DEF e
<1>2. f = e \/ f = Empty
  BY DEF Kept
<1>3. d.user = NoUser => f = Empty
  BY <1>1 DEF Kept, Whole
<1>4. ApiSave(d, tok, rt) = [f EXCEPT !.at = tok, !.rt = f.rt]
  BY DEF ApiSave, StoreSave, e
<1>5. f \in [at : Nat, rt : Nat, user : Users \cup {NoUser}]
  BY <1>1, <1>2 DEF Empty
<1> HIDE DEF f
<1>6. /\ ApiSave(d, tok, rt).at = tok
      /\ ApiSave(d, tok, rt).rt = f.rt /\ ApiSave(d, tok, rt).user = f.user
  BY <1>4, <1>5
<1> QED
  BY <1>1, <1>2, <1>3, <1>6 DEF Empty

LEMMA SyncedTokens ==
    ASSUME NEW n \in Nat, NEW d \in [at : 0..n, rt : 0..n, user : Users \cup {NoUser}],
           NEW tok \in 0..n, NEW rt \in 0..n
    PROVE  /\ SyncSave(d, tok, rt).at = tok
           /\ rt # 0 => SyncSave(d, tok, rt).rt = rt
           /\ rt = 0 => SyncSave(d, tok, rt).rt \in {0, d.rt}
           /\ rt = 0 /\ d.user = NoUser => SyncSave(d, tok, rt).rt = 0
           /\ d.user = NoUser => SyncSave(d, tok, rt).user = NoUser
<1> DEFINE e == ApiSave(d, tok, rt)
           f == Kept(e)
<1>1. /\ e \in [at : 0..n, rt : 0..n, user : Users \cup {NoUser}]
      /\ rt = 0 => e.rt \in {0, d.rt}
      /\ d.user = NoUser => e.user = NoUser /\ e.rt = 0
  <2>1. e \in [at : 0..n, rt : 0..n, user : Users \cup {NoUser}]
    BY SavedTypes
  <2>2. /\ rt = 0 => e.rt \in {0, d.rt}
        /\ d.user = NoUser => e.user = NoUser /\ e.rt = 0
    BY SavedTokens
  <2> QED
    BY <2>1, <2>2
<1> HIDE DEF e
<1>2. f = e \/ f = Empty
  BY DEF Kept
<1>3. SyncSave(d, tok, rt) = [f EXCEPT !.at = tok, !.rt = IF rt = 0 THEN f.rt ELSE rt]
  BY DEF SyncSave, StoreSave, e
<1>4. f \in [at : Nat, rt : Nat, user : Users \cup {NoUser}]
  BY <1>1, <1>2 DEF Empty
<1>5. f.rt \in {0, e.rt} /\ f.user \in {NoUser, e.user}
  BY <1>2 DEF Empty
<1> HIDE DEF f
<1>6. /\ SyncSave(d, tok, rt).at = tok
      /\ SyncSave(d, tok, rt).rt = (IF rt = 0 THEN f.rt ELSE rt)
      /\ SyncSave(d, tok, rt).user = f.user
  BY <1>3, <1>4
<1> QED
  BY <1>1, <1>5, <1>6

LEMMA OwnSessionStep ==
    ASSUME IInv, \A t \in Tabs : OwnSession(t), TypeOK', [Next]_vars,
           \A t \in Tabs, k \in Kinds : WonFor(sess, call[t][k])
    PROVE  \A t \in Tabs : OwnSession(t)'
<1> DEFINE Goal == \A t \in Tabs : OwnSession(t)'
           n == Len(sess')
<1>0. /\ disk \in [Tabs -> Stored] /\ mem \in [Tabs -> Token]
      /\ page \in [Tabs -> {"login", "boot", "main"}]
      /\ \A t \in Tabs : disk[t] \in [at : 0..Len(sess), rt : 0..Len(sess), user : Users \cup {NoUser}]
      /\ Len(sess) \in Nat /\ NoUser \notin Users
  <2>1. /\ disk \in [Tabs -> Stored] /\ mem \in [Tabs -> Token]
        /\ page \in [Tabs -> {"login", "boot", "main"}] /\ Len(sess) \in Nat
    BY DEF IInv, TypeOK
  <2>2. \A t \in Tabs : disk[t] \in Stored
    BY <2>1
  <2> QED
    BY <2>1, <2>2, SessionAssumption DEF Stored, Token
<1>1. ASSUME NEW t \in Tabs, OwnSession(t)',
             \A u \in Tabs \ {t} : disk'[u] = disk[u] /\ mem'[u] = mem[u] /\ page'[u] = page[u]
      PROVE  Goal
  BY <1>1 DEF OwnSession
<1>2. ASSUME UNCHANGED <<disk, mem, page>> PROVE Goal
  BY <1>2 DEF OwnSession
<1>3. ASSUME NEW t \in Tabs, ToLogin(t) PROVE Goal
  <2>1. /\ disk' = [disk EXCEPT ![t] = Empty] /\ mem' = [mem EXCEPT ![t] = 0]
        /\ page' = [page EXCEPT ![t] = "login"]
    BY <1>3 DEF ToLogin
  <2>2. OwnSession(t)'
    BY <1>0, <2>1 DEF OwnSession, Empty
  <2> QED
    BY <1>0, <1>1, <2>1, <2>2
<1>4. ASSUME NEW t \in Tabs, NEW u \in Users, Login(t, u) PROVE Goal
  <2> DEFINE id == Len(sess) + 1
             rt == IF u \in MfaUsers THEN 0 ELSE id
             d == SyncSave(disk[t], id, rt)
  <2>1. /\ disk' = [disk EXCEPT ![t] = d] /\ mem' = [mem EXCEPT ![t] = id]
        /\ page' = page /\ page[t] = "login"
    BY <1>4 DEF Login
  <2>2. /\ disk[t] \in [at : 0..id, rt : 0..id, user : Users \cup {NoUser}]
        /\ id \in 0..id /\ rt \in 0..id /\ id \in Nat /\ rt \in {0, id}
    BY <1>0
  <2>3. disk[t].user = NoUser
    BY <2>1 DEF OwnSession
  <2> HIDE DEF id, rt
  <2>4. d.at = id /\ d.rt \in {0, id} /\ d.user = NoUser
    BY <2>2, <2>3, SyncedTokens
  <2> HIDE DEF d
  <2>5. OwnSession(t)'
    BY <1>0, <2>1, <2>4 DEF OwnSession
  <2> QED
    BY <1>0, <1>1, <2>1, <2>5
<1>5. ASSUME NEW t \in Tabs, Open(t) PROVE Goal
  <2> DEFINE d == disk[t]
             e == SyncSave(d, d.at, 0)
  <2>1. d.at \in 0..Len(sess) /\ 0 \in 0..Len(sess)
    BY <1>0
  <2>2. e.at = d.at /\ e.rt \in {0, d.rt}
    BY <1>0, <2>1, SyncedTokens
  <2>3. mem' = [mem EXCEPT ![t] = d.at]
    BY <1>5 DEF Open
  <2>4. \/ disk' = [disk EXCEPT ![t] = e] /\ page' = [page EXCEPT ![t] = "main"]
        \/ disk' = disk /\ page' = [page EXCEPT ![t] = "boot"]
    BY <1>5 DEF Open
  <2> HIDE DEF e
  <2>5. OwnSession(t)'
    BY <1>0, <2>2, <2>3, <2>4 DEF OwnSession
  <2> QED
    BY <1>0, <1>1, <2>3, <2>4, <2>5
<1>6. ASSUME NEW t \in Tabs, BootWon(t) PROVE Goal
  <2> DEFINE next == call[t]["boot"].next
             e == SyncSave(disk[t], next, next)
  <2>1. next \in 0..Len(sess) /\ next # 0
    BY <1>6 DEF BootWon, IInv, TypeOK, Call, Token, Kinds, WonFor
  <2>2. /\ disk' = [disk EXCEPT ![t] = e] /\ mem' = [mem EXCEPT ![t] = next]
        /\ page' = page
    BY <1>6 DEF BootWon
  <2> HIDE DEF next
  <2>3. e.at = next /\ e.rt = next /\ (disk[t].user = NoUser => e.user = NoUser)
    <3> DEFINE l == Len(sess)
               d == disk[t]
    <3>1. l \in Nat /\ next \in 0..l /\ d \in [at : 0..l, rt : 0..l, user : Users \cup {NoUser}]
      BY <1>0, <2>1
    <3> HIDE DEF l, d
    <3>2. /\ SyncSave(d, next, next).at = next /\ SyncSave(d, next, next).rt = next
          /\ d.user = NoUser => SyncSave(d, next, next).user = NoUser
      BY <2>1, <3>1, SyncedTokens
    <3> QED
      BY <3>2 DEF d
  <2> HIDE DEF e
  <2>4. OwnSession(t)'
    BY <1>0, <2>2, <2>3 DEF OwnSession
  <2> QED
    BY <1>0, <1>1, <2>2, <2>4
<1>7. ASSUME NEW t \in Tabs, RenewalWon(t) PROVE Goal
  <2> DEFINE next == call[t]["renew"].next
             e == ApiSave(disk[t], next, next)
  <2>1. next \in 0..Len(sess) /\ next # 0
    BY <1>7 DEF RenewalWon, IInv, TypeOK, Call, Token, Kinds, WonFor
  <2>2. /\ disk' = [disk EXCEPT ![t] = e] /\ mem' = [mem EXCEPT ![t] = next]
        /\ page' = page
    BY <1>7 DEF RenewalWon
  <2> HIDE DEF next
  <2>3. e.at = next /\ e.rt \in {0, next} /\ (disk[t].user = NoUser => e.user = NoUser)
    BY <1>0, <2>1, SavedTokens
  <2> HIDE DEF e
  <2>4. OwnSession(t)'
    BY <1>0, <2>2, <2>3 DEF OwnSession
  <2> QED
    BY <1>0, <1>1, <2>2, <2>4
<1>8. ASSUME NEW t \in Tabs, ProfileAnswered(t) PROVE Goal
  <2> DEFINE u == sess[req[t][Me].tok].user
             d == UserSave(disk[t], u)
             e == SyncSave(d, mem[t], 0)
  <2>1. u \in Users
    <3>1. req[t][Me].tok \in 1..Len(sess) /\ sess \in Seq(Session)
      BY <1>8 DEF ProfileAnswered, Accepts, IInv, TypeOK, Request, Token, Reqs
    <3>2. sess[req[t][Me].tok] \in Session
      BY <3>1
    <3> QED
      BY <3>2 DEF Session
  <2>2. /\ mem' = mem /\ page' = [page EXCEPT ![t] = "main"]
        /\ disk' = [disk EXCEPT ![t] = e] \/ disk' = [disk EXCEPT ![t] = d]
    BY <1>8 DEF ProfileAnswered
  <2> HIDE DEF u
  <2>3. Kept(disk[t]) = disk[t] \/ Kept(disk[t]) = Empty
    BY DEF Kept
  <2>4. d \in [at : 0..Len(sess), rt : 0..Len(sess), user : Users \cup {NoUser}]
    <3>1. disk[t] \in [at : 0..Len(sess), rt : 0..Len(sess), user : Users \cup {NoUser}] /\ 0 \in 0..Len(sess)
      BY <1>0
    <3> QED
      BY <1>0, <2>1, <3>1, SavedTypes
  <2>5. d.rt # 0 => d.rt = disk[t].rt /\ d.at = disk[t].at
    BY <1>0, <2>3 DEF UserSave, Empty
  <2> HIDE DEF d
  <2>6. mem[t] \in 0..Len(sess) /\ 0 \in 0..Len(sess)
    BY <1>0 DEF Token
  <2>7. e.at = mem[t] /\ e.rt \in {0, d.rt}
    <3> DEFINE m == mem[t]
               l == Len(sess)
    <3>1. /\ l \in Nat /\ m \in 0..l /\ 0 \in 0..l
          /\ d \in [at : 0..l, rt : 0..l, user : Users \cup {NoUser}]
      BY <1>0, <2>4, <2>6
    <3> HIDE DEF m, l
    <3>2. SyncSave(d, m, 0).at = m /\ SyncSave(d, m, 0).rt \in {0, d.rt}
      BY <3>1, SyncedTokens
    <3> QED
      BY <3>2 DEF m
  <2> HIDE DEF e
  <2>8. OwnSession(t)'
    BY <1>0, <2>2, <2>5, <2>7 DEF OwnSession
  <2> QED
    BY <1>0, <1>1, <2>2, <2>8
<1>9. ASSUME NEW t \in Tabs, BootLost(t) \/ RenewalLost(t) \/ Logout(t) PROVE Goal
  BY <1>3, <1>9 DEF BootLost, RenewalLost, Logout
<1>10. ASSUME NEW t \in Tabs, NEW r \in Reqs,
              \/ Send(t, r) \/ DataAnswered(t, r) \/ GivenUp(t, r)
              \/ StartRenewal(t, r) \/ JoinQueue(t, r)
       PROVE  Goal
  BY <1>2, <1>3, <1>10 DEF Send, DataAnswered, GivenUp, StartRenewal, JoinQueue
<1>11. ASSUME NEW t \in Tabs, NEW k \in Kinds,
              RefreshCheck(t, k) \/ RefreshRotate(t, k) \/ AnswerLost(t, k)
       PROVE  Goal
  BY <1>2, <1>11 DEF RefreshCheck, RefreshRotate, AnswerLost, tabVars
<1>12. ASSUME NEW i \in Ids, Expire(i) \/ GraceEnds(i) PROVE Goal
  BY <1>2, <1>12 DEF Expire, GraceEnds, tabVars
<1>13. ASSUME NEW c \in gone, GoneCheck(c) \/ GoneRotate(c) PROVE Goal
  BY <1>2, <1>13 DEF GoneCheck, GoneRotate, tabVars
<1>14. ASSUME UNCHANGED vars PROVE Goal
  BY <1>2, <1>14 DEF vars, tabVars
<1> QED
  BY <1>4, <1>5, <1>6, <1>7, <1>8, <1>9, <1>10, <1>11, <1>12, <1>13, <1>14 DEF Next

LEMMA UserInit == Init => UserInv
<1> SUFFICES ASSUME Init PROVE UserInv
  OBVIOUS
<1>1. IInv
  BY InitInv
<1>2. Len(sess) = 0
  BY DEF Init
<1>3. Heirs(sess)
  BY <1>2 DEF Heirs
<1>4. \A t \in Tabs, k \in Kinds : WonFor(sess, call[t][k])
  BY DEF Init, WonFor, NoCall
<1>5. \A t \in Tabs : OwnSession(t)
  BY DEF Init, OwnSession, Empty
<1> QED
  BY <1>1, <1>3, <1>4, <1>5 DEF UserInv

LEMMA UserStep == UserInv /\ [Next]_vars => UserInv'
<1> SUFFICES ASSUME UserInv, [Next]_vars PROVE UserInv'
  OBVIOUS
<1>1. IInv /\ IInv' /\ TypeOK /\ TypeOK' /\ CheckedHasToken
  BY StepInv DEF UserInv, IInv
<1>2. SameUsers(sess, sess') /\ Heirs(sess')
  BY <1>1, SessionsStep DEF UserInv
<1>3. \A t \in Tabs, k \in Kinds : WonFor(sess', call'[t][k])
  BY <1>1, <1>2, CallsTurn, AnsweredFor DEF UserInv
<1>4. \A t \in Tabs : OwnSession(t)'
  BY <1>1, OwnSessionStep DEF UserInv
<1> QED
  BY <1>1, <1>2, <1>3, <1>4 DEF UserInv

-----------------------------------------------------------------------------
(* The user a tab acts for.                                                 *)

\* The answer of call k is for the user tab t acts for: the token that was
\* presented belongs to the user of its stored session, if that names one, and
\* in a renewal to the user of the session its requests run under.
OwnAnswer(t, k) ==
    LET user == sess[call[t][k].tok].user IN
    /\ disk[t].user # NoUser => user = disk[t].user
    /\ k = "renew" /\ mem[t] # 0 => user = sess[mem[t]].user

\* No step lets a tab continue with the answer for another user's cookie.
OwnAnswers ==
    \A t \in Tabs : /\ BootWon(t) => OwnAnswer(t, "boot")
                    /\ RenewalWon(t) => OwnAnswer(t, "renew")

\* Between two steps the stored session, the access token, the profile being
\* read and the pages are about one user.
OwnUser(t) ==
    /\ disk[t].at \in {0, mem[t]}
    /\ mem[t] # 0 /\ disk[t].user # NoUser => sess[mem[t]].user = disk[t].user
    /\ req[t][Me].st # "idle" => mem[t] # 0
    /\ req[t][Me].st = "sent" =>
          req[t][Me].tok # 0 /\ sess[req[t][Me].tok].user = sess[mem[t]].user
    /\ page[t] = "main" => mem[t] # 0 /\ shown[t] = sess[mem[t]].user

\* What OwnUser says of a tab is the same before and after.
SameTab(t) ==
    /\ disk'[t] = disk[t] /\ mem'[t] = mem[t] /\ page'[t] = page[t] /\ shown'[t] = shown[t]
    /\ req'[t][Me] = req[t][Me]

LEMMA OwnUserStays ==
    ASSUME TypeOK, SameUsers(sess, sess'), NEW t \in Tabs, OwnUser(t), SameTab(t)
    PROVE  OwnUser(t)'
<1>1. Len(sess) \in Nat /\ mem[t] \in 0..Len(sess) /\ req[t][Me].tok \in 0..Len(sess)
  BY DEF TypeOK, Token, Request, Reqs
<1>2. /\ mem[t] # 0 => sess'[mem[t]].user = sess[mem[t]].user
      /\ req[t][Me].tok # 0 => sess'[req[t][Me].tok].user = sess[req[t][Me].tok].user
  BY <1>1 DEF SameUsers
<1> QED
  BY <1>2 DEF OwnUser, SameTab

\* The merges of the stored session keep its user or drop it.
LEMMA SavedUsers ==
    ASSUME TypeOK, NEW d \in Stored, NEW tok \in Token, NEW rt \in Token
    PROVE  /\ ApiSave(d, tok, rt).at = tok /\ ApiSave(d, tok, rt).user \in {NoUser, d.user}
           /\ SyncSave(d, tok, rt).at = tok /\ SyncSave(d, tok, rt).user \in {NoUser, d.user}
<1> DEFINE Merge(e, r) == [e EXCEPT !.at = tok, !.rt = IF r = 0 THEN e.rt ELSE r]
<1>1. 0 \in Token
  BY DEF TypeOK, Token
<1>2. ASSUME NEW e \in Stored, NEW r \in Token
      PROVE  Merge(e, r) \in Stored /\ Merge(e, r).at = tok /\ Merge(e, r).user = e.user
  BY DEF Stored
<1>3. ASSUME NEW e \in Stored
      PROVE  Kept(e) \in Stored /\ Kept(e).user \in {NoUser, e.user}
  BY <1>1 DEF Kept, Empty, Stored
<1>4. \A e, r : StoreSave(e, tok, r) = Merge(Kept(e), r)
  BY DEF StoreSave
<1>5. ApiSave(d, tok, rt) = StoreSave(Merge(d, rt), tok, 0)
  BY DEF ApiSave
<1> HIDE DEF Merge
<1>6. ASSUME NEW e \in Stored, NEW r \in Token
      PROVE  /\ StoreSave(e, tok, r) \in Stored /\ StoreSave(e, tok, r).at = tok
             /\ StoreSave(e, tok, r).user \in {NoUser, e.user}
  <2> DEFINE k == Kept(e)
  <2>1. StoreSave(e, tok, r) = Merge(k, r)
    BY <1>4
  <2>2. k \in Stored /\ k.user \in {NoUser, e.user}
    BY <1>3
  <2> HIDE DEF k
  <2>3. Merge(k, r) \in Stored /\ Merge(k, r).at = tok /\ Merge(k, r).user = k.user
    BY <1>2, <2>2
  <2> QED
    BY <2>1, <2>2, <2>3
<1>7. /\ ApiSave(d, tok, rt) \in Stored /\ ApiSave(d, tok, rt).at = tok
      /\ ApiSave(d, tok, rt).user \in {NoUser, d.user}
  <2> DEFINE e == Merge(d, rt)
  <2>1. e \in Stored /\ e.user = d.user
    BY <1>2
  <2>2. ApiSave(d, tok, rt) = StoreSave(e, tok, 0)
    BY <1>5
  <2> HIDE DEF e
  <2>3. /\ StoreSave(e, tok, 0) \in Stored /\ StoreSave(e, tok, 0).at = tok
        /\ StoreSave(e, tok, 0).user \in {NoUser, e.user}
    BY <1>1, <1>6, <2>1
  <2> QED
    BY <2>1, <2>2, <2>3
<1> DEFINE a == ApiSave(d, tok, rt)
<1>8. SyncSave(d, tok, rt) = StoreSave(a, tok, rt)
  BY DEF SyncSave
<1> HIDE DEF a
<1>9. /\ StoreSave(a, tok, rt).at = tok /\ StoreSave(a, tok, rt).user \in {NoUser, a.user}
  BY <1>6, <1>7 DEF a
<1> QED
  BY <1>7, <1>8, <1>9 DEF a

LEMMA TabTypes ==
    ASSUME TypeOK, NEW t \in Tabs
    PROVE  /\ disk \in [Tabs -> Stored] /\ mem \in [Tabs -> Token]
           /\ shown \in [Tabs -> Users \cup {NoUser}] /\ page \in [Tabs -> {"login", "boot", "main"}]
           /\ req \in [Tabs -> [Reqs -> Request]]
           /\ disk[t] \in Stored /\ disk[t].at \in Token /\ disk[t].user \in Users \cup {NoUser}
           /\ mem[t] \in Token /\ req[t][Me] \in Request /\ req[t][Me].tok \in Token
           /\ Len(sess) \in Nat /\ 0 \in Token /\ Me \in Reqs /\ NoUser \notin Users
<1>1. /\ disk \in [Tabs -> Stored] /\ mem \in [Tabs -> Token]
      /\ shown \in [Tabs -> Users \cup {NoUser}] /\ page \in [Tabs -> {"login", "boot", "main"}]
      /\ req \in [Tabs -> [Reqs -> Request]] /\ Len(sess) \in Nat
  BY DEF TypeOK
<1>2. 0 \in Token /\ Me \in Reqs /\ NoUser \notin Users
  BY <1>1, SessionAssumption DEF Token, Reqs
<1>3. disk[t] \in Stored /\ mem[t] \in Token /\ req[t][Me] \in Request
  BY <1>1, <1>2
<1>4. disk[t].at \in Token /\ disk[t].user \in Users \cup {NoUser} /\ req[t][Me].tok \in Token
  BY <1>3 DEF Stored, Request
<1> QED
  BY <1>1, <1>2, <1>3, <1>4

LEMMA ToLoginOwn ==
    ASSUME TypeOK, NEW t \in Tabs, ToLogin(t)
    PROVE  OwnUser(t)' /\ \A v \in Tabs \ {t} : SameTab(v)
<1>1. /\ mem' = [mem EXCEPT ![t] = 0] /\ disk' = [disk EXCEPT ![t] = Empty]
      /\ shown' = [shown EXCEPT ![t] = NoUser] /\ page' = [page EXCEPT ![t] = "login"]
      /\ req' = [req EXCEPT ![t] = [r \in Reqs |-> Idle]]
  BY DEF ToLogin
<1>2. /\ mem'[t] = 0 /\ disk'[t] = Empty /\ page'[t] = "login" /\ req'[t][Me] = Idle
      /\ \A v \in Tabs \ {t} : SameTab(v)
  BY <1>1, TabTypes DEF SameTab
<1> QED
  BY <1>2 DEF OwnUser, Empty, Idle

\* A sign-in: everything is the new session's.
LEMMA LoginOwn ==
    ASSUME TypeOK, NEW t \in Tabs, NEW u \in Users, Login(t, u), OwnSession(t)
    PROVE  OwnUser(t)' /\ \A v \in Tabs \ {t} : SameTab(v)
<1> DEFINE id == Len(sess) + 1
           rt == IF u \in MfaUsers THEN 0 ELSE id
           d == SyncSave(disk[t], id, rt)
<1>1. /\ disk' = [disk EXCEPT ![t] = d] /\ mem' = [mem EXCEPT ![t] = id]
      /\ req' = [req EXCEPT ![t][Me] = Asked(id)]
      /\ page' = page /\ shown' = shown /\ page[t] = "login"
  BY DEF Login
<1>2. /\ disk[t] \in [at : 0..id, rt : 0..id, user : Users \cup {NoUser}]
      /\ id \in 0..id /\ rt \in 0..id /\ id \in Nat /\ id # 0
  BY TabTypes DEF Stored, Token
<1>3. disk[t].user = NoUser
  BY <1>1 DEF OwnSession
<1> HIDE DEF id, rt
<1>4. d.at = id /\ d.user = NoUser
  BY <1>2, <1>3, SyncedTokens
<1> HIDE DEF d
<1>5. /\ mem'[t] = id /\ disk'[t] = d /\ page'[t] = "login" /\ req'[t][Me] = Asked(id)
      /\ \A v \in Tabs \ {t} : SameTab(v)
  BY <1>1, TabTypes DEF SameTab
<1> QED
  BY <1>2, <1>4, <1>5 DEF OwnUser, Asked

\* A page that is opened starts from what its tab had stored.
LEMMA OpenOwn ==
    ASSUME TypeOK, NEW t \in Tabs, Open(t), OwnUser(t)
    PROVE  OwnUser(t)' /\ \A v \in Tabs \ {t} : SameTab(v)
<1> DEFINE d == disk[t]
           e == SyncSave(d, d.at, 0)
<1>1. mem' = [mem EXCEPT ![t] = d.at] /\ UNCHANGED sess
  BY Zenon DEF Open
<1>2. e.at = d.at /\ e.user \in {NoUser, d.user}
  <2>1. d \in Stored /\ d.at \in Token /\ 0 \in Token
    BY TabTypes
  <2> HIDE DEF d
  <2> QED
    BY <2>1, SavedUsers
<1>3. CASE Whole(d)
  <2>1. /\ disk' = [disk EXCEPT ![t] = e] /\ shown' = [shown EXCEPT ![t] = d.user]
        /\ page' = [page EXCEPT ![t] = "main"]
        /\ req' = [req EXCEPT ![t] = [[r \in Reqs |-> Idle] EXCEPT ![Me] = Asked(d.at)]]
    BY <1>3, Zenon DEF Open
  <2>2. d.at # 0 /\ d.user # NoUser /\ d.at = mem[t] /\ sess[d.at].user = d.user
    BY <1>3 DEF Whole, OwnUser
  <2> HIDE DEF e
  <2>3. /\ mem'[t] = d.at /\ disk'[t] = e /\ shown'[t] = d.user /\ page'[t] = "main"
        /\ req'[t][Me] = Asked(d.at)
        /\ \A v \in Tabs \ {t} : SameTab(v)
    BY <1>1, <2>1, TabTypes DEF SameTab
  <2> QED
    BY <1>1, <1>2, <2>2, <2>3 DEF OwnUser, Asked
<1>4. CASE ~Whole(d)
  <2>1. /\ disk' = disk /\ shown' = [shown EXCEPT ![t] = NoUser]
        /\ page' = [page EXCEPT ![t] = "boot"]
        /\ req' = [req EXCEPT ![t] = [r \in Reqs |-> Idle]]
    BY <1>4, Zenon DEF Open
  <2>2. /\ mem'[t] = d.at /\ disk'[t] = d /\ page'[t] = "boot" /\ req'[t][Me] = Idle
        /\ \A v \in Tabs \ {t} : SameTab(v)
    BY <1>1, <2>1, TabTypes DEF SameTab
  <2> QED
    BY <1>4, <2>2 DEF OwnUser, Idle, Whole
<1> QED
  BY <1>3, <1>4

\* What is won is a session of the user the answer is for.
LEMMA AnswerTypes ==
    ASSUME TypeOK, NEW t \in Tabs, NEW k \in Kinds, call[t][k].ph = "won",
           WonFor(sess, call[t][k]), OwnAnswer(t, k)
    PROVE  /\ call[t][k].next \in Token /\ call[t][k].next # 0
           /\ disk[t].user # NoUser => sess[call[t][k].next].user = disk[t].user
           /\ k = "renew" /\ mem[t] # 0 => sess[call[t][k].next].user = sess[mem[t]].user
<1>1. call[t][k] \in Call
  BY DEF TypeOK
<1>2. call[t][k].next \in Token
  BY <1>1 DEF Call
<1> QED
  BY <1>2 DEF WonFor, OwnAnswer

LEMMA BootWonOwn ==
    ASSUME TypeOK, BootFirst, NEW t \in Tabs, BootWon(t), OwnUser(t),
           WonFor(sess, call[t]["boot"]), OwnAnswer(t, "boot")
    PROVE  OwnUser(t)' /\ \A v \in Tabs \ {t} : SameTab(v)
<1> DEFINE next == call[t]["boot"].next
           e == SyncSave(disk[t], next, next)
<1>1. /\ mem' = [mem EXCEPT ![t] = next] /\ disk' = [disk EXCEPT ![t] = e]
      /\ req' = [req EXCEPT ![t][Me] = Asked(next)]
      /\ UNCHANGED <<sess, shown, page>> /\ call[t]["boot"].ph = "won"
  BY Zenon DEF BootWon
<1>2. page[t] = "boot"
  BY <1>1 DEF BootFirst
<1>3. next \in Token /\ next # 0 /\ (disk[t].user # NoUser => sess[next].user = disk[t].user)
  BY <1>1, AnswerTypes DEF Kinds
<1> HIDE DEF next
<1>4. e.at = next /\ e.user \in {NoUser, disk[t].user}
  BY <1>3, TabTypes, SavedUsers
<1> HIDE DEF e
<1>5. /\ mem'[t] = next /\ disk'[t] = e /\ page'[t] = "boot" /\ req'[t][Me] = Asked(next)
      /\ \A v \in Tabs \ {t} : SameTab(v)
  BY <1>1, <1>2, TabTypes DEF SameTab
<1> QED
  BY <1>1, <1>3, <1>4, <1>5 DEF OwnUser, Asked

LEMMA RenewalWonOwn ==
    ASSUME TypeOK, NEW t \in Tabs, RenewalWon(t), OwnUser(t),
           WonFor(sess, call[t]["renew"]), OwnAnswer(t, "renew")
    PROVE  OwnUser(t)' /\ \A v \in Tabs \ {t} : SameTab(v)
<1> DEFINE next == call[t]["renew"].next
           e == ApiSave(disk[t], next, next)
           me == Resumed(req[t][Me], next)
<1>1. /\ mem' = [mem EXCEPT ![t] = next] /\ disk' = [disk EXCEPT ![t] = e]
      /\ req' = [req EXCEPT ![t] = [r \in Reqs |-> Resumed(req[t][r], next)]]
      /\ UNCHANGED <<sess, shown, page>> /\ call[t]["renew"].ph = "won"
  BY Zenon DEF RenewalWon
<1>2. /\ next \in Token /\ next # 0
      /\ disk[t].user # NoUser => sess[next].user = disk[t].user
      /\ mem[t] # 0 => sess[next].user = sess[mem[t]].user
  BY <1>1, AnswerTypes DEF Kinds
<1> HIDE DEF next
<1>3. e.at = next /\ e.user \in {NoUser, disk[t].user}
  BY <1>2, TabTypes, SavedUsers
<1>4. \/ me = req[t][Me]
      \/ me.st = "sent" /\ me.tok = next /\ req[t][Me].st # "idle"
  BY TabTypes DEF Resumed, Request
<1> HIDE DEF e, me
<1>5. /\ mem'[t] = next /\ disk'[t] = e /\ page'[t] = page[t] /\ shown'[t] = shown[t]
      /\ req'[t][Me] = me
      /\ \A v \in Tabs \ {t} : SameTab(v)
  BY <1>1, TabTypes DEF SameTab, me
<1>6. /\ disk'[t].at = mem'[t]
      /\ disk'[t].user # NoUser => sess'[mem'[t]].user = disk'[t].user
      /\ page'[t] = "main" => mem'[t] # 0 /\ shown'[t] = sess'[mem'[t]].user
  BY <1>1, <1>2, <1>3, <1>5 DEF OwnUser
<1>7. me.st = "sent" => me.tok # 0 /\ sess[me.tok].user = sess[next].user
  BY <1>2, <1>4 DEF OwnUser
<1> QED
  BY <1>1, <1>2, <1>5, <1>6, <1>7 DEF OwnUser

\* The profile that arrives is that of the session the tab goes on with.
LEMMA ProfileOwn ==
    ASSUME TypeOK, NEW t \in Tabs, ProfileAnswered(t), OwnUser(t)
    PROVE  OwnUser(t)' /\ \A v \in Tabs \ {t} : SameTab(v)
<1> DEFINE u == sess[req[t][Me].tok].user
           d == UserSave(disk[t], u)
           e == SyncSave(d, mem[t], 0)
<1>1. /\ shown' = [shown EXCEPT ![t] = u] /\ page' = [page EXCEPT ![t] = "main"]
      /\ UNCHANGED <<sess, mem>> /\ req[t][Me].st = "sent"
  BY Zenon DEF ProfileAnswered
<1>2. \/ disk' = [disk EXCEPT ![t] = e] /\ req' = [req EXCEPT ![t][Me] = Asked(mem[t])]
      \/ disk' = [disk EXCEPT ![t] = d] /\ req' = [req EXCEPT ![t][Me] = Idle]
  BY Zenon DEF ProfileAnswered
<1>3. mem[t] # 0 /\ u = sess[mem[t]].user /\ req[t][Me].tok # 0
  BY <1>1 DEF OwnUser
<1>4. u \in Users
  <2>1. mem[t] \in 1..Len(sess) /\ sess \in Seq(Session)
    BY <1>3, TabTypes DEF TypeOK, Token
  <2>2. sess[mem[t]] \in Session
    BY <2>1
  <2> QED
    BY <1>3, <2>2 DEF Session
<1> HIDE DEF u
<1>5. d \in Stored /\ d.at \in {0, disk[t].at} /\ d.user = u
  <2>1. Kept(disk[t]) = disk[t] \/ Kept(disk[t]) = Empty
    BY DEF Kept
  <2>2. disk[t] \in Stored /\ Empty \in Stored /\ 0 \in Token
    BY TabTypes DEF Empty, Stored
  <2> QED
    BY <1>4, <2>1, <2>2 DEF UserSave, Stored, Empty
<1> HIDE DEF d
<1>6. e.at = mem[t] /\ e.user \in {NoUser, u}
  BY <1>5, TabTypes, SavedUsers
<1> HIDE DEF e
<1>7. /\ mem'[t] = mem[t] /\ shown'[t] = u /\ page'[t] = "main" /\ disk'[t] \in {d, e}
      /\ req'[t][Me] \in {Asked(mem[t]), Idle}
      /\ \A v \in Tabs \ {t} : SameTab(v)
  BY <1>1, <1>2, TabTypes DEF SameTab
<1>8. disk'[t].at \in {0, mem[t]} /\ disk'[t].user \in {NoUser, u}
  BY <1>5, <1>6, <1>7 DEF OwnUser
<1> QED
  BY <1>1, <1>3, <1>7, <1>8 DEF OwnUser, Asked, Idle

\* A request that has to wait for a renewal was sent.
LEMMA Waits ==
    ASSUME TypeOK, NEW t \in Tabs, NEW r \in Reqs, StartRenewal(t, r) \/ JoinQueue(t, r)
    PROVE  \E q : /\ req' = [req EXCEPT ![t][r] = q]
                  /\ q.st \in {"renew", "queued"} /\ req[t][r].st = "sent"
<1>1. req \in [Tabs -> [Reqs -> Request]] /\ req[t][r] \in Request
  BY DEF TypeOK
<1>2. CASE StartRenewal(t, r)
  <2> DEFINE q == [req[t][r] EXCEPT !.st = "renew", !.again = TRUE]
  <2>1. req' = [req EXCEPT ![t][r] = q]
    BY <1>1, <1>2 DEF StartRenewal, Request
  <2>2. q.st = "renew" /\ req[t][r].st = "sent"
    BY <1>1, <1>2 DEF StartRenewal, Unauthorised, Request
  <2> HIDE DEF q
  <2> QED
    BY <2>1, <2>2
<1>3. CASE JoinQueue(t, r)
  <2> DEFINE q == [req[t][r] EXCEPT !.st = "queued", !.again = TRUE]
  <2>1. req' = [req EXCEPT ![t][r] = q]
    BY <1>1, <1>3 DEF JoinQueue, Request
  <2>2. q.st = "queued" /\ req[t][r].st = "sent"
    BY <1>1, <1>3 DEF JoinQueue, Unauthorised, Request
  <2> HIDE DEF q
  <2> QED
    BY <2>1, <2>2
<1> QED
  BY <1>2, <1>3

\* The requests of a tab, and the profile's among them.
LEMMA RequestOwn ==
    ASSUME TypeOK, NEW t \in Tabs, NEW r \in Reqs, OwnUser(t),
           \/ Send(t, r) \/ DataAnswered(t, r) \/ GivenUp(t, r)
           \/ StartRenewal(t, r) \/ JoinQueue(t, r)
    PROVE  OwnUser(t)' /\ \A v \in Tabs \ {t} : SameTab(v)
<1>1. CASE ToLogin(t)
  BY <1>1, ToLoginOwn
<1>2. CASE ~ToLogin(t)
  <2>1. UNCHANGED <<sess, disk, mem, page, shown>>
    BY <1>2, Zenon DEF Send, DataAnswered, GivenUp, StartRenewal, JoinQueue
  <2>2. PICK q : /\ req' = [req EXCEPT ![t][r] = q]
                 /\ r = Me => \/ q.st = "idle"
                              \/ q.st \in {"renew", "queued"} /\ req[t][Me].st = "sent"
    <3>1. CASE Send(t, r) \/ DataAnswered(t, r)
      <4>1. r # Me
        BY <3>1, SessionAssumption DEF Send, DataAnswered
      <4>2. \E q : req' = [req EXCEPT ![t][r] = q]
        BY <3>1, Zenon DEF Send, DataAnswered
      <4> QED
        BY <4>1, <4>2
    <3>2. CASE GivenUp(t, r)
      <4>1. req' = [req EXCEPT ![t][r] = Idle]
        BY <1>2, <3>2, Zenon DEF GivenUp
      <4>2. Idle.st = "idle"
        BY DEF Idle
      <4> QED
        BY <4>1, <4>2
    <3>3. CASE StartRenewal(t, r) \/ JoinQueue(t, r)
      <4>1. PICK q : /\ req' = [req EXCEPT ![t][r] = q]
                     /\ q.st \in {"renew", "queued"} /\ req[t][r].st = "sent"
        BY <3>3, Waits
      <4> QED
        BY <4>1
    <3> QED
      BY <3>1, <3>2, <3>3
  <2>3. /\ \A v \in Tabs \ {t} : SameTab(v)
        /\ req'[t][Me] = IF r = Me THEN q ELSE req[t][Me]
    BY <2>1, <2>2, TabTypes DEF SameTab
  <2> QED
    BY <2>1, <2>2, <2>3 DEF OwnUser
<1> QED
  BY <1>1, <1>2

LEMMA OwnUserStep ==
    ASSUME UserInv, \A t \in Tabs : OwnUser(t), OwnAnswers, Next
    PROVE  \A t \in Tabs : OwnUser(t)'
<1> DEFINE Goal == \A t \in Tabs : OwnUser(t)'
<1>1. /\ TypeOK /\ CheckedHasToken /\ BootFirst /\ Heirs(sess)
      /\ \A t \in Tabs, k \in Kinds : WonFor(sess, call[t][k])
      /\ \A t \in Tabs : OwnSession(t)
  BY DEF UserInv, IInv
<1>2. SameUsers(sess, sess')
  BY <1>1, SessionsStep
<1>3. ASSUME NEW t \in Tabs, OwnUser(t)' /\ \A v \in Tabs \ {t} : SameTab(v) PROVE Goal
  BY <1>1, <1>2, <1>3, OwnUserStays
<1>4. ASSUME UNCHANGED tabVars PROVE Goal
  <2>1. \A t \in Tabs : SameTab(t)
    BY <1>4 DEF tabVars, SameTab
  <2> QED
    BY <1>1, <1>2, <2>1, OwnUserStays
<1>5. ASSUME NEW t \in Tabs, NEW u \in Users, Login(t, u) PROVE Goal
  BY <1>1, <1>3, <1>5, LoginOwn
<1>6. ASSUME NEW t \in Tabs, Open(t) PROVE Goal
  BY <1>1, <1>3, <1>6, OpenOwn
<1>7. ASSUME NEW t \in Tabs, BootWon(t) PROVE Goal
  BY <1>1, <1>3, <1>7, BootWonOwn DEF OwnAnswers, Kinds
<1>8. ASSUME NEW t \in Tabs, RenewalWon(t) PROVE Goal
  BY <1>1, <1>3, <1>8, RenewalWonOwn DEF OwnAnswers, Kinds
<1>9. ASSUME NEW t \in Tabs, ProfileAnswered(t) PROVE Goal
  BY <1>1, <1>3, <1>9, ProfileOwn
<1>10. ASSUME NEW t \in Tabs, BootLost(t) \/ RenewalLost(t) \/ Logout(t) PROVE Goal
  <2>1. ToLogin(t)
    BY <1>10 DEF BootLost, RenewalLost, Logout
  <2> QED
    BY <1>1, <1>3, <2>1, ToLoginOwn
<1>11. ASSUME NEW t \in Tabs, NEW r \in Reqs,
              \/ Send(t, r) \/ DataAnswered(t, r) \/ GivenUp(t, r)
              \/ StartRenewal(t, r) \/ JoinQueue(t, r)
       PROVE  Goal
  BY <1>1, <1>3, <1>11, RequestOwn
<1>12. ASSUME NEW t \in Tabs, NEW k \in Kinds,
              RefreshCheck(t, k) \/ RefreshRotate(t, k) \/ AnswerLost(t, k)
       PROVE  Goal
  BY <1>4, <1>12 DEF RefreshCheck, RefreshRotate, AnswerLost
<1>13. ASSUME NEW i \in Ids, Expire(i) \/ GraceEnds(i) PROVE Goal
  BY <1>4, <1>13 DEF Expire, GraceEnds
<1>14. ASSUME NEW c \in gone, GoneCheck(c) \/ GoneRotate(c) PROVE Goal
  BY <1>4, <1>14 DEF GoneCheck, GoneRotate
<1> HIDE DEF Goal
<1>15. Goal
  BY <1>5, <1>6, <1>7, <1>8, <1>9, <1>10, <1>11, <1>12, <1>13, <1>14 DEF Next
<1> QED
  BY <1>15 DEF Goal

\* Every tab acts for one user, as long as the answers are its own.
OwnInv == UserInv /\ \A t \in Tabs : OwnUser(t)

LEMMA OwnInit == Init => OwnInv
<1> SUFFICES ASSUME Init PROVE OwnInv
  OBVIOUS
<1>1. UserInv
  BY UserInit
<1>2. \A t \in Tabs : OwnUser(t)
  BY SessionAssumption DEF Init, OwnUser, Empty, Idle, Reqs
<1> QED
  BY <1>1, <1>2 DEF OwnInv

LEMMA OwnStep == OwnInv /\ [Next]_vars /\ [OwnAnswers]_vars => OwnInv'
<1> SUFFICES ASSUME OwnInv, [Next]_vars, [OwnAnswers]_vars PROVE OwnInv'
  OBVIOUS
<1>1. UserInv'
  BY UserStep DEF OwnInv
<1>2. CASE UNCHANGED vars
  <2>1. \A t \in Tabs : SameTab(t)
    BY <1>2 DEF vars, tabVars, SameTab
  <2>2. TypeOK /\ SameUsers(sess, sess')
    <3>1. TypeOK /\ sess' = sess
      BY <1>2 DEF OwnInv, UserInv, IInv, vars
    <3>2. Len(sess) \in Nat
      BY <3>1 DEF TypeOK
    <3> QED
      BY <3>1, <3>2 DEF SameUsers
  <2>3. \A t \in Tabs : OwnUser(t)'
    BY <2>1, <2>2, OwnUserStays DEF OwnInv
  <2> QED
    BY <1>1, <2>3 DEF OwnInv
<1>3. CASE Next /\ OwnAnswers
  <2>1. \A t \in Tabs : OwnUser(t)'
    BY <1>3, OwnUserStep DEF OwnInv
  <2> QED
    BY <1>1, <2>1 DEF OwnInv
<1> QED
  BY <1>2, <1>3

-----------------------------------------------------------------------------
(* A browser with one tab.                                                  *)

\* Only one tab of the portals is open in the browser.
OneTab == \A t, v \in Tabs : t = v

\* All that could speak for user of tab t is of user u: its access token, its
\* portal's cookie, the tokens its calls presented and its stored session.
SpeaksFor(t, u) ==
    /\ mem[t] # 0 => sess[mem[t]].user = u
    /\ jar[PortalOf[t]] # 0 => sess[jar[PortalOf[t]]].user = u
    /\ \A k \in Kinds :
        call[t][k].ph # "none" /\ call[t][k].tok # 0 => sess[call[t][k].tok].user = u
    /\ disk[t].user \in {NoUser, u}

\* The tab alone writes the cookies: its portal's, and the shared one never
\* without it.  The shared one may be a former user's, but is not reached.
OwnJar(t) ==
    /\ jar[PortalOf[t]] = 0 => jar[Shared] = 0
    /\ \A k \in Keys \ {PortalOf[t], Shared} : jar[k] = 0

Alone(t) ==
    /\ OwnJar(t)
    /\ \E u \in Users \cup {NoUser} : SpeaksFor(t, u)
    /\ \A k \in Kinds : call[t][k].ph # "none" => call[t][k].key = PortalOf[t]
    /\ page[t] = "login" => \A r \in Data : req[t][r].st = "idle"

\* The cookie it reads is its portal's, and an answer goes back there.
LEMMA OwnCookie ==
    ASSUME TypeOK, NEW t \in Tabs, OwnJar(t)
    PROVE  CookieKey(PortalOf[t]) = PortalOf[t] /\ AnswerKey(PortalOf[t]) = PortalOf[t]
<1> DEFINE p == PortalOf[t]
<1>1. p \in Keys /\ Shared \in Keys /\ p # Shared
  BY SessionAssumption DEF Keys
<1>2. CASE jar[p] # 0
  BY <1>1, <1>2 DEF CookieKey, AnswerKey
<1>3. CASE jar[p] = 0
  <2>1. \A k \in Keys : jar[k] = 0
    BY <1>1, <1>3 DEF OwnJar
  <2>2. Found = {}
    <3>1. \A i \in 1..Len(CookieOrder) : CookieOrder[i] \in Keys
      BY SessionAssumption
    <3> QED
      BY <2>1, <3>1 DEF Found
  <2> QED
    BY <1>1, <2>2 DEF CookieKey, AnswerKey
<1> QED
  BY <1>2, <1>3

\* What it presents speaks for the same user.
LEMMA OwnPresented ==
    ASSUME TypeOK, NEW t \in Tabs, OwnJar(t), OwnSession(t), NEW u, SpeaksFor(t, u)
    PROVE  LET c == Presented(t, disk[t])
           IN  /\ c.key = PortalOf[t] /\ c.ph = "sent"
               /\ c.tok # 0 => sess[c.tok].user = u
               /\ c.tok \in {disk[t].rt, jar[PortalOf[t]]}
<1>1. /\ Presented(t, disk[t]).key = PortalOf[t] /\ Presented(t, disk[t]).ph = "sent"
      /\ Presented(t, disk[t]).tok = IF disk[t].rt # 0 THEN disk[t].rt ELSE jar[PortalOf[t]]
  BY OwnCookie DEF Presented
<1>2. disk[t].rt # 0 => disk[t].rt = mem[t]
  BY DEF OwnSession
<1> HIDE DEF Presented
<1> QED
  BY <1>1, <1>2 DEF SpeaksFor

\* So what it wins is for its own user.
LEMMA OwnWon ==
    ASSUME NEW t \in Tabs, NEW k \in Kinds, Alone(t), WonFor(sess, call[t][k]),
           call[t][k].ph = "won"
    PROVE  OwnAnswer(t, k)
<1>1. PICK u : SpeaksFor(t, u)
  BY DEF Alone
<1>2. sess[call[t][k].tok].user = u
  BY <1>1 DEF SpeaksFor, WonFor
<1> QED
  BY <1>1, <1>2 DEF OwnAnswer, SpeaksFor

LEMMA LoneAnswers ==
    ASSUME UserInv, \A t \in Tabs : Alone(t)
    PROVE  OwnAnswers
<1>1. "boot" \in Kinds /\ "renew" \in Kinds /\ \A t \in Tabs, k \in Kinds : WonFor(sess, call[t][k])
  BY DEF UserInv, Kinds
<1>2. ASSUME NEW t \in Tabs, BootWon(t) PROVE OwnAnswer(t, "boot")
  <2>1. call[t]["boot"].ph = "won"
    BY <1>2 DEF BootWon
  <2> QED
    BY <1>1, <2>1, OwnWon
<1>3. ASSUME NEW t \in Tabs, RenewalWon(t) PROVE OwnAnswer(t, "renew")
  <2>1. call[t]["renew"].ph = "won"
    BY <1>3 DEF RenewalWon
  <2> QED
    BY <1>1, <2>1, OwnWon
<1> QED
  BY <1>2, <1>3 DEF OwnAnswers

\* A token the tab has: its own, its cookie, or one of its calls.
Heard(t, i) ==
    \/ i \in {0, mem[t], jar[PortalOf[t]]}
    \/ \E k \in Kinds : \/ call[t][k].ph # "none" /\ i = call[t][k].tok
                        \/ call[t][k].ph = "won" /\ i = call[t][k].next

LEMMA HeardSpeaks ==
    ASSUME TypeOK, SameUsers(sess, sess'), NEW t \in Tabs, NEW u, SpeaksFor(t, u),
           \A k \in Kinds : WonFor(sess, call[t][k])
    PROVE  \A i : Heard(t, i) /\ i # 0 => sess'[i].user = u
<1> SUFFICES ASSUME NEW i, Heard(t, i), i # 0 PROVE sess'[i].user = u
  OBVIOUS
<1>1. PortalOf[t] \in Keys /\ Len(sess) \in Nat
  BY SessionAssumption DEF TypeOK, Keys
<1>2. ASSUME i \in Token, sess[i].user = u PROVE sess'[i].user = u
  BY <1>1, <1>2 DEF Token, SameUsers
<1>3. CASE i \in {mem[t], jar[PortalOf[t]]}
  <2>1. i \in Token
    BY <1>1, <1>3 DEF TypeOK
  <2>2. sess[i].user = u
    BY <1>3 DEF SpeaksFor
  <2> QED
    BY <1>2, <2>1, <2>2
<1>4. ASSUME NEW k \in Kinds, \/ call[t][k].ph # "none" /\ i = call[t][k].tok
                              \/ call[t][k].ph = "won" /\ i = call[t][k].next
      PROVE  sess'[i].user = u
  <2>1. call[t][k] \in Call
    BY DEF TypeOK
  <2>2. i \in Token
    BY <1>4, <2>1 DEF Call
  <2>3. call[t][k].tok # 0 => sess[call[t][k].tok].user = u
    BY <1>4 DEF SpeaksFor
  <2>4. sess[i].user = u
    BY <1>4, <2>3 DEF WonFor
  <2> QED
    BY <1>2, <2>2, <2>4
<1>5. CASE i \notin {mem[t], jar[PortalOf[t]]}
  <2>1. PICK k \in Kinds : \/ call[t][k].ph # "none" /\ i = call[t][k].tok
                           \/ call[t][k].ph = "won" /\ i = call[t][k].next
    BY <1>5, Zenon DEF Heard
  <2> QED
    BY <1>4, <2>1, Zenon
<1> QED
  BY <1>3, <1>5

\* What a step leaves the tab with: tokens it had, and what it is known to be.
LoneStep(t) ==
    /\ OwnJar(t)'
    /\ Heard(t, mem'[t]) /\ Heard(t, jar'[PortalOf[t]])
    /\ \A k \in Kinds : call'[t][k].ph # "none" => Heard(t, call'[t][k].tok)
    /\ \A u : SpeaksFor(t, u) => disk'[t].user \in {NoUser, u}
    /\ \A k \in Kinds : call'[t][k].ph # "none" => call'[t][k].key = PortalOf[t]
    /\ page'[t] = "login" => \A r \in Data : req'[t][r].st = "idle"

LEMMA AloneOn ==
    ASSUME TypeOK, SameUsers(sess, sess'), NEW t \in Tabs, Alone(t), LoneStep(t),
           \A k \in Kinds : WonFor(sess, call[t][k])
    PROVE  Alone(t)'
<1>1. PICK u \in Users \cup {NoUser} : SpeaksFor(t, u)
  BY DEF Alone
<1>2. \A i : Heard(t, i) /\ i # 0 => sess'[i].user = u
  BY <1>1, HeardSpeaks
<1>3. /\ mem'[t] # 0 => sess'[mem'[t]].user = u
      /\ jar'[PortalOf[t]] # 0 => sess'[jar'[PortalOf[t]]].user = u
      /\ \A k \in Kinds : call'[t][k].ph # "none" /\ call'[t][k].tok # 0
                           => sess'[call'[t][k].tok].user = u
  BY <1>2 DEF LoneStep
<1>4. SpeaksFor(t, u)'
  BY <1>1, <1>3 DEF SpeaksFor, LoneStep
<1> QED
  BY <1>4 DEF Alone, LoneStep

\* The cookies of an answer.
LEMMA CookieSet ==
    ASSUME TypeOK, NEW t \in Tabs, OwnJar(t), NEW x,
           \/ jar' = WithCookie(PortalOf[t], x)
           \/ x # 0 /\ jar' = [jar EXCEPT ![PortalOf[t]] = x]
    PROVE  OwnJar(t)' /\ jar'[PortalOf[t]] = x
<1>1. PortalOf[t] \in Keys /\ Shared \in Keys /\ PortalOf[t] # Shared /\ jar \in [Keys -> Token]
  BY SessionAssumption DEF Keys, TypeOK
<1> QED
  BY <1>1 DEF OwnJar, WithCookie

\* The calls of a tab that forgets them, keeps them or sends one more.
Quieter(t) ==
    \A k \in Kinds :
        \/ call'[t][k] = NoCall
        \/ call'[t][k] = Presented(t, disk[t])
        \/ /\ call[t][k].ph # "none"
           /\ call'[t][k].tok = call[t][k].tok /\ call'[t][k].key = call[t][k].key
        \/ call'[t][k] = call[t][k]

LEMMA QuieterCalls ==
    ASSUME TypeOK, NEW t \in Tabs, Alone(t), OwnSession(t), Quieter(t)
    PROVE  /\ \A k \in Kinds : call'[t][k].ph # "none" => Heard(t, call'[t][k].tok)
           /\ \A k \in Kinds : call'[t][k].ph # "none" => call'[t][k].key = PortalOf[t]
<1> SUFFICES ASSUME NEW k \in Kinds
             PROVE  /\ call'[t][k].ph # "none" => Heard(t, call'[t][k].tok)
                    /\ call'[t][k].ph # "none" => call'[t][k].key = PortalOf[t]
  OBVIOUS
<1>1. CASE call'[t][k] = NoCall
  BY <1>1 DEF NoCall, Heard
<1>2. CASE call'[t][k] = Presented(t, disk[t])
  <2>1. PICK u : SpeaksFor(t, u)
    BY DEF Alone
  <2>2. /\ Presented(t, disk[t]).key = PortalOf[t]
        /\ Presented(t, disk[t]).tok \in {disk[t].rt, jar[PortalOf[t]]}
    BY <2>1, OwnPresented DEF Alone
  <2>3. disk[t].rt \in {0, mem[t]}
    BY DEF OwnSession
  <2> QED
    BY <1>2, <2>2, <2>3 DEF Heard
<1>3. CASE /\ call[t][k].ph # "none"
           /\ call'[t][k].tok = call[t][k].tok /\ call'[t][k].key = call[t][k].key
  BY <1>3 DEF Heard, Alone
<1>4. CASE call'[t][k] = call[t][k]
  BY <1>4 DEF Heard, Alone
<1> QED
  BY <1>1, <1>2, <1>3, <1>4 DEF Quieter

\* The tab's own steps, one by one.
LEMMA LoneTypes ==
    ASSUME TypeOK, NEW t \in Tabs
    PROVE  /\ jar \in [Keys -> Token] /\ call \in [Tabs -> [Kinds -> Call]]
           /\ "boot" \in Kinds /\ "renew" \in Kinds /\ PortalOf[t] \in Keys
           /\ \A k \in Kinds : call[t][k] \in Call
  BY SessionAssumption DEF TypeOK, Kinds, Keys

LEMMA LoneToLogin ==
    ASSUME TypeOK, NEW t \in Tabs, Alone(t), ToLogin(t),
           UNCHANGED jar \/ jar' = WithCookie(PortalOf[t], 0)
    PROVE  LoneStep(t)
<1>1. OwnJar(t)' /\ jar'[PortalOf[t]] \in {0, jar[PortalOf[t]]}
  BY CookieSet DEF Alone, OwnJar
<1>2. /\ mem'[t] = 0 /\ disk'[t] = Empty /\ req'[t] = [r \in Reqs |-> Idle]
      /\ call'[t] = [k \in Kinds |-> NoCall]
  BY TabTypes, LoneTypes DEF ToLogin
<1>3. \A k \in Kinds : call'[t][k].ph = "none"
  BY <1>2 DEF NoCall
<1> QED
  BY <1>1, <1>2, <1>3 DEF LoneStep, Heard, Empty, Idle, Reqs

LEMMA LoneOpen ==
    ASSUME TypeOK, NEW t \in Tabs, Alone(t), OwnSession(t), OwnUser(t), Open(t)
    PROVE  LoneStep(t)
<1> DEFINE d == disk[t]
           e == SyncSave(d, d.at, 0)
<1>1. mem' = [mem EXCEPT ![t] = d.at] /\ UNCHANGED jar
  BY Zenon DEF Open
<1>2. mem'[t] \in {0, mem[t]} /\ OwnJar(t)'
  BY <1>1, TabTypes DEF OwnUser, Alone, OwnJar
<1>3. e.user \in {NoUser, d.user}
  <2>1. d \in Stored /\ d.at \in Token /\ 0 \in Token
    BY TabTypes
  <2> HIDE DEF d
  <2> QED
    BY <2>1, SavedUsers
<1>4. /\ disk'[t].user \in {NoUser, d.user} /\ page'[t] \in {"main", "boot"} /\ Quieter(t)
  <2>1. CASE Whole(d)
    <3>1. /\ disk' = [disk EXCEPT ![t] = e] /\ page' = [page EXCEPT ![t] = "main"]
          /\ call' = [call EXCEPT ![t] = [k \in Kinds |-> NoCall]]
      BY <2>1, Zenon DEF Open
    <3> HIDE DEF e
    <3>2. /\ disk'[t] = e /\ page'[t] = "main" /\ call'[t] = [k \in Kinds |-> NoCall]
      BY <3>1, TabTypes, LoneTypes
    <3> QED
      BY <1>3, <3>2 DEF Quieter
  <2>2. CASE ~Whole(d)
    <3> DEFINE c == Presented(t, d)
    <3>1. /\ disk' = disk /\ page' = [page EXCEPT ![t] = "boot"]
          /\ call' = [call EXCEPT ![t] = [[k \in Kinds |-> NoCall] EXCEPT !["boot"] = c]]
      BY <2>2, Zenon DEF Open
    <3> HIDE DEF c
    <3>2. /\ disk'[t] = d /\ page'[t] = "boot"
          /\ call'[t] = [[k \in Kinds |-> NoCall] EXCEPT !["boot"] = c]
      BY <3>1, TabTypes, LoneTypes
    <3>3. \A k \in Kinds : call'[t][k] \in {NoCall, c}
      BY <3>2
    <3> QED
      BY <3>2, <3>3 DEF Quieter, c
  <2> QED
    BY <2>1, <2>2
<1>5. /\ \A k \in Kinds : call'[t][k].ph # "none" => Heard(t, call'[t][k].tok)
      /\ \A k \in Kinds : call'[t][k].ph # "none" => call'[t][k].key = PortalOf[t]
  BY <1>4, QuieterCalls
<1>6. \A u : SpeaksFor(t, u) => disk'[t].user \in {NoUser, u}
  BY <1>4 DEF SpeaksFor
<1> QED
  BY <1>1, <1>2, <1>4, <1>5, <1>6 DEF LoneStep, Heard

\* The tab goes on with an answer.
LEMMA LoneWon ==
    ASSUME TypeOK, NEW t \in Tabs, Alone(t), NEW k \in Kinds, call[t][k].ph = "won",
           jar' = WithCookie(call[t][k].key, call[t][k].next),
           mem' = [mem EXCEPT ![t] = call[t][k].next],
           call' = [call EXCEPT ![t][k] = NoCall]
    PROVE  /\ OwnJar(t)' /\ Heard(t, mem'[t]) /\ Heard(t, jar'[PortalOf[t]])
           /\ \A j \in Kinds : call'[t][j].ph # "none" => Heard(t, call'[t][j].tok)
           /\ \A j \in Kinds : call'[t][j].ph # "none" => call'[t][j].key = PortalOf[t]
<1>1. call[t][k].key = PortalOf[t]
  BY DEF Alone
<1>2. OwnJar(t)' /\ jar'[PortalOf[t]] = call[t][k].next
  BY <1>1, CookieSet DEF Alone
<1>3. mem'[t] = call[t][k].next
  BY TabTypes
<1>4. \A j \in Kinds : call'[t][j] = IF j = k THEN NoCall ELSE call[t][j]
  BY LoneTypes
<1>5. NoCall.ph = "none"
  BY DEF NoCall
<1> QED
  BY <1>2, <1>3, <1>4, <1>5 DEF Heard, Alone

LEMMA LoneBootWon ==
    ASSUME TypeOK, BootFirst, NEW t \in Tabs, Alone(t), BootWon(t)
    PROVE  LoneStep(t)
<1> DEFINE next == call[t]["boot"].next
           e == SyncSave(disk[t], next, next)
<1>1. /\ jar' = WithCookie(call[t]["boot"].key, next)
      /\ mem' = [mem EXCEPT ![t] = next] /\ disk' = [disk EXCEPT ![t] = e]
      /\ call' = [call EXCEPT ![t]["boot"] = NoCall]
      /\ page' = page /\ call[t]["boot"].ph = "won"
  BY Zenon DEF BootWon
<1>2. page'[t] = "boot"
  BY <1>1 DEF BootFirst
<1>3. /\ OwnJar(t)' /\ Heard(t, mem'[t]) /\ Heard(t, jar'[PortalOf[t]])
      /\ \A j \in Kinds : call'[t][j].ph # "none" => Heard(t, call'[t][j].tok)
      /\ \A j \in Kinds : call'[t][j].ph # "none" => call'[t][j].key = PortalOf[t]
  BY <1>1, LoneTypes, LoneWon
<1>4. next \in Token
  BY LoneTypes DEF Call
<1> HIDE DEF next
<1>5. e.user \in {NoUser, disk[t].user}
  BY <1>4, TabTypes, SavedUsers
<1> HIDE DEF e
<1>6. disk'[t] = e
  BY <1>1, TabTypes
<1>7. \A u : SpeaksFor(t, u) => disk'[t].user \in {NoUser, u}
  BY <1>5, <1>6 DEF SpeaksFor
<1> QED
  BY <1>2, <1>3, <1>7 DEF LoneStep

LEMMA LoneRenewalWon ==
    ASSUME TypeOK, NEW t \in Tabs, Alone(t), RenewalWon(t)
    PROVE  LoneStep(t)
<1> DEFINE next == call[t]["renew"].next
           e == ApiSave(disk[t], next, next)
<1>1. /\ jar' = WithCookie(call[t]["renew"].key, next)
      /\ mem' = [mem EXCEPT ![t] = next] /\ disk' = [disk EXCEPT ![t] = e]
      /\ call' = [call EXCEPT ![t]["renew"] = NoCall]
      /\ req' = [req EXCEPT ![t] = [r \in Reqs |-> Resumed(req[t][r], next)]]
      /\ page' = page /\ call[t]["renew"].ph = "won"
  BY Zenon DEF RenewalWon
<1>2. /\ OwnJar(t)' /\ Heard(t, mem'[t]) /\ Heard(t, jar'[PortalOf[t]])
      /\ \A j \in Kinds : call'[t][j].ph # "none" => Heard(t, call'[t][j].tok)
      /\ \A j \in Kinds : call'[t][j].ph # "none" => call'[t][j].key = PortalOf[t]
  BY <1>1, LoneTypes, LoneWon
<1>3. next \in Token
  BY LoneTypes DEF Call
<1> HIDE DEF next
<1>4. e.user \in {NoUser, disk[t].user}
  BY <1>3, TabTypes, SavedUsers
<1> HIDE DEF e
<1>5. disk'[t] = e
  BY <1>1, TabTypes
<1>6. \A u : SpeaksFor(t, u) => disk'[t].user \in {NoUser, u}
  BY <1>4, <1>5 DEF SpeaksFor
<1>7. \A r \in Data : req[t][r].st = "idle" => req'[t][r].st = "idle"
  <2>1. req'[t] = [r \in Reqs |-> Resumed(req[t][r], next)]
    BY <1>1, TabTypes
  <2>2. \A r \in Data : r \in Reqs
    BY DEF Reqs
  <2> QED
    BY <2>1, <2>2 DEF Resumed
<1>8. page'[t] = "login" => \A r \in Data : req'[t][r].st = "idle"
  BY <1>1, <1>7 DEF Alone
<1> QED
  BY <1>2, <1>6, <1>8 DEF LoneStep

LEMMA LoneProfile ==
    ASSUME TypeOK, NEW t \in Tabs, Alone(t), OwnUser(t), ProfileAnswered(t)
    PROVE  LoneStep(t)
<1> DEFINE w == sess[req[t][Me].tok].user
           d == UserSave(disk[t], w)
           e == SyncSave(d, mem[t], 0)
<1>1. /\ page' = [page EXCEPT ![t] = "main"] /\ req[t][Me].st = "sent"
      /\ UNCHANGED <<jar, mem, call>>
      /\ disk' = [disk EXCEPT ![t] = e] \/ disk' = [disk EXCEPT ![t] = d]
  <2>1. /\ page' = [page EXCEPT ![t] = "main"] /\ req[t][Me].st = "sent"
        /\ UNCHANGED <<jar, mem, call>>
    BY DEF ProfileAnswered, callVars
  <2>2. disk' = [disk EXCEPT ![t] = e] \/ disk' = [disk EXCEPT ![t] = d]
    BY Zenon DEF ProfileAnswered
  <2> QED
    BY <2>1, <2>2
<1>2. mem[t] # 0 /\ w = sess[mem[t]].user /\ w \in Users
  <2>1. mem[t] # 0 /\ w = sess[mem[t]].user
    BY <1>1 DEF OwnUser
  <2>2. sess[mem[t]] \in Session
    BY <2>1, TabTypes DEF TypeOK, Token
  <2> QED
    BY <2>1, <2>2 DEF Session
<1> HIDE DEF w
<1>3. d \in Stored /\ d.user = w
  <2>1. Kept(disk[t]) \in Stored
    BY TabTypes DEF Kept, Empty, Stored
  <2> QED
    BY <1>2, <2>1 DEF UserSave, Stored
<1> HIDE DEF d
<1>4. e.user \in {NoUser, w}
  BY <1>3, TabTypes, SavedUsers
<1> HIDE DEF e
<1>5. disk'[t].user \in {NoUser, w} /\ page'[t] = "main"
  BY <1>1, <1>3, <1>4, TabTypes
<1>6. \A u : SpeaksFor(t, u) => disk'[t].user \in {NoUser, u}
  BY <1>2, <1>5 DEF SpeaksFor
<1>7. OwnJar(t)'
  BY <1>1 DEF Alone, OwnJar
<1>8. /\ \A k \in Kinds : call'[t][k].ph # "none" => Heard(t, call'[t][k].tok)
      /\ \A k \in Kinds : call'[t][k].ph # "none" => call'[t][k].key = PortalOf[t]
  BY <1>1 DEF Alone, Heard
<1> QED
  BY <1>1, <1>5, <1>6, <1>7, <1>8 DEF LoneStep, Heard

\* A step that leaves the cookies and what the tab stores alone.
LEMMA LoneQuiet ==
    ASSUME TypeOK, NEW t \in Tabs, Alone(t), OwnSession(t), Quieter(t),
           UNCHANGED jar, mem'[t] = mem[t], disk'[t] = disk[t],
           page'[t] = "login" => \A r \in Data : req'[t][r].st = "idle"
    PROVE  LoneStep(t)
<1>1. OwnJar(t)'
  BY DEF Alone, OwnJar
<1>2. /\ \A k \in Kinds : call'[t][k].ph # "none" => Heard(t, call'[t][k].tok)
      /\ \A k \in Kinds : call'[t][k].ph # "none" => call'[t][k].key = PortalOf[t]
  BY QuieterCalls
<1>3. \A u : SpeaksFor(t, u) => disk'[t].user \in {NoUser, u}
  BY DEF SpeaksFor
<1> QED
  BY <1>1, <1>2, <1>3 DEF LoneStep, Heard

LEMMA LoneRequest ==
    ASSUME TypeOK, NEW t \in Tabs, NEW r \in Reqs, Alone(t), OwnSession(t),
           \/ Send(t, r) \/ DataAnswered(t, r) \/ GivenUp(t, r)
           \/ StartRenewal(t, r) \/ JoinQueue(t, r)
    PROVE  LoneStep(t)
<1>1. CASE ToLogin(t)
  <2>1. UNCHANGED jar
    BY Zenon DEF Send, DataAnswered, GivenUp, StartRenewal, JoinQueue
  <2> QED
    BY <1>1, <2>1, LoneToLogin
<1>2. CASE ~ToLogin(t)
  <2>1. UNCHANGED <<jar, disk, mem, page>>
    BY <1>2, Zenon DEF Send, DataAnswered, GivenUp, StartRenewal, JoinQueue
  <2>2. Quieter(t)
    <3>1. CASE StartRenewal(t, r)
      <4>1. call' = [call EXCEPT ![t]["renew"] = Presented(t, disk[t])]
        BY <3>1, Zenon DEF StartRenewal
      <4>2. \A k \in Kinds : call'[t][k] \in {call[t][k], Presented(t, disk[t])}
        BY <4>1, LoneTypes
      <4> QED
        BY <4>2 DEF Quieter
    <3>2. CASE ~StartRenewal(t, r)
      <4>1. UNCHANGED call
        BY <1>2, <3>2, Zenon DEF Send, DataAnswered, GivenUp, JoinQueue, callVars
      <4> QED
        BY <4>1 DEF Quieter
    <3> QED
      BY <3>1, <3>2
  <2>3. page[t] = "login" =>
            \E q : req' = [req EXCEPT ![t][r] = q] /\ (r # Me => q.st = "idle")
    <3> HAVE page[t] = "login"
    <3>1. r # Me => req[t][r].st = "idle"
      BY DEF Alone, Reqs
    <3>2. CASE Send(t, r)
      BY <3>2 DEF Send
    <3>3. CASE DataAnswered(t, r)
      BY <3>1, <3>3, SessionAssumption DEF DataAnswered
    <3>4. CASE GivenUp(t, r)
      <4>1. req' = [req EXCEPT ![t][r] = Idle]
        BY <1>2, <3>4, Zenon DEF GivenUp
      <4>2. Idle.st = "idle"
        BY DEF Idle
      <4> QED
        BY <4>1, <4>2
    <3>5. CASE StartRenewal(t, r) \/ JoinQueue(t, r)
      <4>1. r = Me
        BY <3>1, <3>5 DEF StartRenewal, JoinQueue, Unauthorised
      <4>2. \E q : req' = [req EXCEPT ![t][r] = q]
        BY <3>5, Waits
      <4> QED
        BY <4>1, <4>2
    <3> QED
      BY <3>2, <3>3, <3>4, <3>5
  <2>4. page'[t] = "login" => \A q \in Data : req'[t][q].st = "idle"
    <3> SUFFICES ASSUME page[t] = "login", NEW q \in Data PROVE req'[t][q].st = "idle"
      BY <2>1
    <3>1. req[t][q].st = "idle" /\ q \in Reqs /\ q # Me
      BY SessionAssumption DEF Alone, Reqs
    <3>2. PICK x : req' = [req EXCEPT ![t][r] = x] /\ (r # Me => x.st = "idle")
      BY <2>3
    <3> QED
      BY <3>1, <3>2, TabTypes
  <2> QED
    BY <2>1, <2>2, <2>4, LoneQuiet
<1> QED
  BY <1>1, <1>2

LEMMA LoneAnswer ==
    ASSUME TypeOK, NEW t \in Tabs, NEW k \in Kinds, Alone(t), OwnSession(t),
           RefreshCheck(t, k) \/ RefreshRotate(t, k) \/ AnswerLost(t, k)
    PROVE  LoneStep(t)
<1> DEFINE c == call[t][k]
<1>1. /\ UNCHANGED <<jar, disk, mem, page, req>>
      /\ c.ph # "none"
      /\ \E d \in {Checked(c), Rotated(c), [c EXCEPT !.ph = "refused"]} :
            call' = [call EXCEPT ![t][k] = d]
  <2>1. CASE RefreshCheck(t, k)
    BY <2>1 DEF RefreshCheck, tabVars
  <2>2. CASE RefreshRotate(t, k)
    BY <2>2 DEF RefreshRotate, tabVars
  <2>3. CASE AnswerLost(t, k)
    BY <2>3 DEF AnswerLost, tabVars
  <2> QED
    BY <2>1, <2>2, <2>3
<1>2. c \in Call
  BY LoneTypes
<1> HIDE DEF c
<1>3. ASSUME NEW d \in {Checked(c), Rotated(c), [c EXCEPT !.ph = "refused"]}
      PROVE  d.tok = c.tok /\ d.key = c.key
  BY <1>2, <1>3 DEF Checked, Rotated, Call
<1>4. PICK d : call' = [call EXCEPT ![t][k] = d] /\ d.tok = c.tok /\ d.key = c.key
  BY <1>1, <1>3
<1>5. \A j \in Kinds : call'[t][j] = IF j = k THEN d ELSE call[t][j]
  BY <1>4, LoneTypes
<1>6. Quieter(t)
  BY <1>1, <1>4, <1>5 DEF Quieter, c
<1> QED
  BY <1>1, <1>6, LoneQuiet DEF Alone

\* A sign-in starts over: whoever it is, the tab has nothing of anybody else.
LEMMA LoneLogin ==
    ASSUME TypeOK, BootFirst, QueueHasRenewal, NEW t \in Tabs, NEW u \in Users,
           Alone(t), OwnSession(t), Login(t, u)
    PROVE  Alone(t)'
<1> DEFINE id == Len(sess) + 1
           rt == IF u \in MfaUsers THEN 0 ELSE id
           d == SyncSave(disk[t], id, rt)
<1>1. /\ sess' = Issued(sess, u) /\ jar' = LoginJar(t, u, id)
      /\ mem' = [mem EXCEPT ![t] = id] /\ disk' = [disk EXCEPT ![t] = d]
      /\ req' = [req EXCEPT ![t][Me] = Asked(id)]
      /\ UNCHANGED <<page, call>> /\ page[t] = "login" /\ req[t][Me].st = "idle"
  BY DEF Login, callVars
<1>2. /\ disk[t] \in [at : 0..id, rt : 0..id, user : Users \cup {NoUser}]
      /\ id \in 0..id /\ rt \in 0..id /\ id \in Nat /\ id # 0
  BY TabTypes DEF Stored, Token
<1>3. sess'[id].user = u
  BY <1>1, IssuedType DEF TypeOK
<1>4. disk[t].user = NoUser
  BY <1>1 DEF OwnSession
<1> HIDE DEF id, rt
<1>5. d.user = NoUser
  BY <1>2, <1>4, SyncedTokens
<1> HIDE DEF d
<1>6. OwnJar(t)' /\ jar'[PortalOf[t]] = id
  <2>1. \/ jar' = WithCookie(PortalOf[t], id)
        \/ id # 0 /\ jar' = [jar EXCEPT ![PortalOf[t]] = id]
    BY <1>1, <1>2 DEF LoginJar
  <2> QED
    BY <2>1, CookieSet DEF Alone
<1>7. \A r \in Data : req[t][r].st = "idle" /\ req'[t][r] = req[t][r]
  <2>1. \A r \in Data : r \in Reqs /\ r # Me
    BY SessionAssumption DEF Reqs
  <2> QED
    BY <1>1, <2>1, TabTypes DEF Alone
<1>8. \A k \in Kinds : call'[t][k].ph = "none"
  <2>1. call[t]["boot"].ph = "none"
    BY <1>1 DEF BootFirst
  <2>2. \A r \in Reqs : req[t][r].st = "idle"
    BY <1>1, <1>7 DEF Reqs
  <2>3. call[t]["renew"].ph = "none"
    BY <2>2 DEF QueueHasRenewal
  <2> QED
    BY <1>1, <2>1, <2>3 DEF Kinds
<1>9. mem'[t] = id /\ disk'[t].user = NoUser
  BY <1>1, <1>5, TabTypes
<1>10. SpeaksFor(t, u)'
  BY <1>3, <1>6, <1>8, <1>9 DEF SpeaksFor
<1>11. page'[t] = "login" => \A r \in Data : req'[t][r].st = "idle"
  BY <1>7
<1> QED
  BY <1>6, <1>8, <1>10, <1>11 DEF Alone

\* Whatever happens in a browser with one tab, all it holds is of one user.
LoneInv == OwnInv /\ \A t \in Tabs : Alone(t)

LEMMA LoneInit == Init => LoneInv
<1> SUFFICES ASSUME Init PROVE LoneInv
  OBVIOUS
<1>1. \A t \in Tabs : PortalOf[t] \in Keys /\ Shared \in Keys
  BY SessionAssumption DEF Keys
<1>2. \A t \in Tabs : OwnJar(t)
  BY <1>1 DEF Init, OwnJar
<1>3. \A t \in Tabs, k \in Kinds : call[t][k].ph = "none"
  BY DEF Init, NoCall
<1>4. \A t \in Tabs : SpeaksFor(t, NoUser)
  BY <1>1, <1>3 DEF Init, SpeaksFor, Empty
<1>5. \A t \in Tabs, r \in Data : req[t][r].st = "idle"
  BY DEF Init, Idle, Reqs
<1>6. \A t \in Tabs : Alone(t)
  BY <1>2, <1>3, <1>4, <1>5 DEF Alone
<1> QED
  BY <1>6, OwnInit DEF LoneInv

LEMMA AloneStep ==
    ASSUME OneTab, LoneInv, [Next]_vars, NEW v \in Tabs
    PROVE  Alone(v)'
<1>1. /\ TypeOK /\ CheckedHasToken /\ BootFirst /\ QueueHasRenewal /\ Heirs(sess)
      /\ \A t \in Tabs, k \in Kinds : WonFor(sess, call[t][k])
      /\ \A t \in Tabs : OwnSession(t) /\ OwnUser(t) /\ Alone(t)
  BY DEF LoneInv, OwnInv, UserInv, IInv
<1>2. SameUsers(sess, sess')
  BY <1>1, SessionsStep
<1>3. ASSUME NEW t \in Tabs, LoneStep(t) PROVE Alone(v)'
  <2>1. Alone(t)'
    BY <1>1, <1>2, <1>3, AloneOn
  <2>2. t = v
    BY DEF OneTab
  <2> QED
    BY <2>1, <2>2
<1>4. ASSUME UNCHANGED <<jar, tabVars, call>> PROVE Alone(v)'
  <2>1. Quieter(v) /\ jar' = jar /\ mem'[v] = mem[v] /\ disk'[v] = disk[v]
        /\ page' = page /\ req' = req
    BY <1>4 DEF Quieter, tabVars
  <2>2. page'[v] = "login" => \A r \in Data : req'[v][r].st = "idle"
    BY <1>1, <2>1 DEF Alone
  <2>3. LoneStep(v)
    BY <1>1, <2>1, <2>2, LoneQuiet
  <2> QED
    BY <1>3, <2>3
<1>5. ASSUME NEW t \in Tabs, NEW u \in Users, Login(t, u) PROVE Alone(v)'
  <2>1. Alone(t)'
    BY <1>1, <1>5, LoneLogin
  <2>2. t = v
    BY DEF OneTab
  <2> QED
    BY <2>1, <2>2
<1>6. ASSUME NEW t \in Tabs, Open(t) \/ BootWon(t) \/ RenewalWon(t) \/ ProfileAnswered(t)
      PROVE  Alone(v)'
  BY <1>1, <1>3, <1>6, LoneOpen, LoneBootWon, LoneRenewalWon, LoneProfile
<1>7. ASSUME NEW t \in Tabs, BootLost(t) \/ RenewalLost(t) PROVE Alone(v)'
  BY <1>1, <1>3, <1>7, LoneToLogin DEF BootLost, RenewalLost
<1>8. ASSUME NEW t \in Tabs, Logout(t) PROVE Alone(v)'
  <2>1. ToLogin(t) /\ (UNCHANGED jar \/ jar' = WithCookie(Presented(t, disk[t]).key, 0))
    BY <1>8, Zenon DEF Logout
  <2>2. PICK u : SpeaksFor(t, u)
    BY <1>1 DEF Alone
  <2>3. Presented(t, disk[t]).key = PortalOf[t]
    BY <1>1, <2>2, OwnPresented DEF Alone
  <2> QED
    BY <1>1, <1>3, <2>1, <2>3, LoneToLogin
<1>9. ASSUME NEW t \in Tabs, NEW r \in Reqs,
             \/ Send(t, r) \/ DataAnswered(t, r) \/ GivenUp(t, r)
             \/ StartRenewal(t, r) \/ JoinQueue(t, r)
      PROVE  Alone(v)'
  BY <1>1, <1>3, <1>9, LoneRequest
<1>10. ASSUME NEW t \in Tabs, NEW k \in Kinds,
              RefreshCheck(t, k) \/ RefreshRotate(t, k) \/ AnswerLost(t, k)
       PROVE  Alone(v)'
  BY <1>1, <1>3, <1>10, LoneAnswer
<1>11. ASSUME NEW i \in Ids, Expire(i) \/ GraceEnds(i) PROVE Alone(v)'
  BY <1>4, <1>11 DEF Expire, GraceEnds, callVars
<1>12. ASSUME NEW c \in gone, GoneCheck(c) \/ GoneRotate(c) PROVE Alone(v)'
  BY <1>4, <1>12 DEF GoneCheck, GoneRotate
<1>13. ASSUME UNCHANGED vars PROVE Alone(v)'
  BY <1>4, <1>13 DEF vars, callVars
<1> QED
  BY <1>5, <1>6, <1>7, <1>8, <1>9, <1>10, <1>11, <1>12, <1>13 DEF Next

LEMMA LoneInvStep == ASSUME OneTab PROVE LoneInv /\ [Next]_vars => LoneInv'
<1> SUFFICES ASSUME LoneInv, [Next]_vars PROVE LoneInv'
  OBVIOUS
<1>1. OwnAnswers
  BY LoneAnswers DEF LoneInv, OwnInv
<1>2. OwnInv'
  BY <1>1, OwnStep DEF LoneInv
<1>3. \A t \in Tabs : Alone(t)'
  BY AloneStep
<1> QED
  BY <1>2, <1>3 DEF LoneInv

\* What a sign-out ends is the session of the token it presents.
LEMMA LoneLogout ==
    ASSUME LoneInv, NEW t \in Tabs, Logout(t), NEW i \in Ids, sess[i].live, ~sess'[i].live
    PROVE  sess[i].user = shown[t]
<1> DEFINE c == Presented(t, disk[t])
<1>1. /\ TypeOK /\ OwnSession(t) /\ OwnUser(t) /\ Alone(t)
  BY DEF LoneInv, OwnInv, UserInv, IInv
<1>2. page[t] = "main" /\ (sess' = sess \/ (c.tok # 0 /\ sess' = Ended(sess, c.tok)))
  BY Zenon DEF Logout
<1>3. PICK u : SpeaksFor(t, u)
  BY <1>1 DEF Alone
<1>4. c.tok # 0 => sess[c.tok].user = u
  BY <1>1, <1>3, OwnPresented DEF Alone
<1>5. shown[t] = u
  BY <1>1, <1>2, <1>3 DEF OwnUser, SpeaksFor
<1> HIDE DEF c
<1>6. c.tok # 0 /\ sess' = Ended(sess, c.tok)
  BY <1>2
<1>7. i = c.tok
  <2>1. sess \in Seq(Session) /\ i \in 1..Len(sess)
    BY <1>1 DEF TypeOK, Ids
  <2> SUFFICES ASSUME i # c.tok PROVE FALSE
    OBVIOUS
  <2>2. sess'[i] = sess[i]
    BY <1>6, <2>1 DEF Ended
  <2> QED
    BY <2>2
<1> QED
  BY <1>4, <1>5, <1>6, <1>7

-----------------------------------------------------------------------------
(* The theorems.                                                            *)

\* Every reachable state is well typed: no token, cookie or answer ever
\* names a session that was not created.
THEOREM TypeCorrect == Spec => []TypeOK
<1>1. IInv => TypeOK
  BY DEF IInv
<1> QED
  BY <1>1, InitInv, StepInv, PTL DEF Spec

\* The flag isRefreshing, the refresh call and failedQueue always agree, so
\* that every request that waits has a call that will release it.
THEOREM QueueHasRenewalHolds == Spec => []QueueHasRenewal
<1>1. IInv => QueueHasRenewal
  BY DEF IInv
<1> QED
  BY <1>1, InitInv, StepInv, PTL DEF Spec

\* A renewal stays with the user it is for: a tab's own refresh token is that of
\* the session its requests run under (authStore's merges), and the server
\* answers with a session of the user whose token it was sent, by rotation or
\* out of the grace of an earlier one, whoever signs in and out.
THEOREM RenewalKeepsUserHolds == Spec => []RenewalKeepsUser
<1>1. UserInv => RenewalKeepsUser
  BY DEF UserInv, RenewalKeepsUser, WonFor, OwnSession
<1> QED
  BY <1>1, UserInit, UserStep, PTL DEF Spec

\* What can make a tab act for somebody else: nothing but an answer to another
\* user's cookie.  Whatever the other tabs do, through reloads, renewals, lost
\* answers and expiry, a tab keeps its user in every run in which no tab goes on
\* with a refresh whose token was another user's.
THEOREM TabKeepsItsUserHolds == Spec /\ [][OwnAnswers]_vars => []TabKeepsItsUser
<1>1. OwnInv => TabKeepsItsUser
  BY DEF OwnInv, OwnUser, TabKeepsItsUser
<1> QED
  BY <1>1, OwnInit, OwnStep, PTL DEF Spec

\* In a browser with a single tab nothing makes it: the tab acts for the user
\* its pages show, whoever signed in before in it, however often its page is
\* reloaded and whichever of its refresh calls overlap, are late or get lost.
THEOREM LoneTabKeepsItsUser == ASSUME OneTab PROVE Spec => []TabKeepsItsUser
<1>1. LoneInv => TabKeepsItsUser
  BY DEF LoneInv, OwnInv, OwnUser, TabKeepsItsUser
<1> QED
  BY <1>1, LoneInit, LoneInvStep, PTL DEF Spec

\* And there signing out ends a session of nobody but the user the tab shows:
\* the refresh token or cookie that says which session ends is that user's.
THEOREM LoneTabLogoutHolds == ASSUME OneTab PROVE Spec => LogoutEndsOwnSession
<1> DEFINE Own == \A t \in Tabs : Logout(t) =>
                    \A i \in Ids : sess[i].live /\ ~sess'[i].live => sess[i].user = shown[t]
<1>1. LoneInv => Own
  BY LoneLogout
<1> HIDE DEF Own
<1>2. Spec => [][Own]_vars
  BY <1>1, LoneInit, LoneInvStep, PTL DEF Spec
<1> QED
  BY <1>2 DEF LogoutEndsOwnSession, Own
=============================================================================
