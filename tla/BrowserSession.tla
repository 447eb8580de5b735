---------------------------- MODULE BrowserSession ----------------------------
(***************************************************************************)
(* One browser signed in to the portals, and the authentication service    *)
(* behind it.  Every tab runs a copy of packages/utils/src/api.ts: it      *)
(* keeps an access token in memory and a session in its sessionStorage,    *)
(* and answers a 401 by one refresh call while the other requests wait in  *)
(* failedQueue.  All tabs share the cookies of the API's host.  The server *)
(* rotates the refresh token on every call; the check of the old token and *)
(* the rotation are two steps, because the handler awaits Redis and the    *)
(* database in between.                                                    *)
(***************************************************************************)
EXTENDS Integers, Sequences, FiniteSets

CONSTANTS
    Users, NoUser,
    Suppliers,   \* users with is_supplier_user
    Super,       \* users with the SUPERADMIN role
    MfaUsers,    \* users who sign in through /auth/mfa/verify
    Portals,     \* portal ids, each also the key of its refresh cookie
    SupplierPortal,
    Shared,      \* the cookie "refresh_token" without a portal
    CookieOrder, \* the keys tried, in order, when the portal's is absent
    Tabs, PortalOf,
    Data, Me,    \* a tab's requests: some data, and its user's profile
    MaxLive,     \* MAX_CONCURRENT_SESSIONS
    Acts,        \* bound: logins, page loads, requests and logouts
    Lapses,      \* bound: access tokens and grace entries that expire
    Faults       \* bound: requests and answers that are lost or fail

Keys == Portals \cup {Shared}
Reqs == Data \cup {Me}

ASSUME SessionAssumption ==
    /\ NoUser \notin Users /\ Shared \notin Portals /\ Me \notin Data
    /\ PortalOf \in [Tabs -> Portals]
    /\ CookieOrder \in Seq(Keys)
    /\ MaxLive \in Nat \ {0} /\ Acts \in Nat /\ Lapses \in Nat /\ Faults \in Nat

VARIABLES
    sess,     \* user_sessions with their Redis marks, in order of creation
    jar,      \* the browser's cookies: session of the refresh token, or 0
    disk,     \* disk[t]: hkt_auth_session in the tab's sessionStorage
    mem,      \* mem[t]: api.ts accessToken, as the session it belongs to
    shown,    \* shown[t]: user of the auth store, whom the pages show
    page,     \* page[t]: "login", "boot" (isInitializing) or "main"
    goal,     \* goal[t]: what the profile is being read for
    req,      \* req[t][r]: a request of the tab
    renewing, \* renewing[t]: api.ts isRefreshing
    call,     \* call[t][k]: refresh calls of the tab in flight
    gone,     \* refresh calls whose page was unloaded before the answer
    left      \* what remains of the three bounds

Spend == left.acts > 0 /\ left' = [left EXCEPT !.acts = @ - 1]
Lapse == left.lapses > 0 /\ left' = [left EXCEPT !.lapses = @ - 1]
Fault == left.faults > 0 /\ left' = [left EXCEPT !.faults = @ - 1]

tabVars == <<disk, mem, shown, page, goal, req, renewing>>
callVars == <<call, gone>>
vars == <<sess, jar, tabVars, callVars, left>>

Kinds == {"renew", "boot"}   \* of the interceptor, of useAuthInit
Phases == {"none", "sent", "checked", "won", "refused"}
NoCall == [ph |-> "none", tok |-> 0, next |-> 0, key |-> Shared, portal |-> CHOOSE p \in Portals : TRUE]
Idle == [st |-> "idle", tok |-> 0, again |-> FALSE]
Empty == [at |-> 0, rt |-> 0, user |-> NoUser]

Ids == 1..Len(sess)
Token == 0..Len(sess)
Session == [user : Users, live : BOOLEAN, fresh : BOOLEAN, spent : BOOLEAN, next : Nat]
Stored == [at : Token, rt : Token, user : Users \cup {NoUser}]
Request == [st : {"idle", "sent", "queued", "renew"}, tok : Token, again : BOOLEAN]
Call == [ph : Phases, tok : Token, next : Token, key : Keys, portal : Portals]

TypeOK ==
    /\ sess \in Seq(Session)
    /\ \A i \in Ids : sess[i].next \in Token
    /\ jar \in [Keys -> Token]
    /\ disk \in [Tabs -> Stored]
    /\ mem \in [Tabs -> Token]
    /\ shown \in [Tabs -> Users \cup {NoUser}]
    /\ page \in [Tabs -> {"login", "boot", "main"}]
    /\ goal \in [Tabs -> {"login", "boot", "mount"}]
    /\ req \in [Tabs -> [Reqs -> Request]]
    /\ renewing \in [Tabs -> BOOLEAN]
    /\ call \in [Tabs -> [Kinds -> Call]]
    /\ gone \subseteq Call
    /\ left \in [acts : 0..Acts, lapses : 0..Lapses, faults : 0..Faults]

Init ==
    /\ sess = <<>>
    /\ jar = [k \in Keys |-> 0]
    /\ disk = [t \in Tabs |-> Empty]
    /\ mem = [t \in Tabs |-> 0]
    /\ shown = [t \in Tabs |-> NoUser]
    /\ page = [t \in Tabs |-> "login"]
    /\ goal = [t \in Tabs |-> "login"]
    /\ req = [t \in Tabs |-> [r \in Reqs |-> Idle]]
    /\ renewing = [t \in Tabs |-> FALSE]
    /\ call = [t \in Tabs |-> [k \in Kinds |-> NoCall]]
    /\ gone = {}
    /\ left = [acts |-> Acts, lapses |-> Lapses, faults |-> Faults]

-----------------------------------------------------------------------------
(* The session a tab keeps in its sessionStorage.                          *)

\* loadSessionFromStorage: a stored session counts only with token and user.
Whole(d) == d.at # 0 /\ d.user # NoUser

\* saveSessionToStorage merges into what loadSessionFromStorage returns, so
\* that a stored session without a user, or without a token, is dropped.
Kept(d) == IF Whole(d) THEN d ELSE Empty

StoreSave(d, tok, rt) ==
    [Kept(d) EXCEPT !.at = tok, !.rt = IF rt = 0 THEN @ ELSE rt]

\* setAccessToken of api.ts writes the token beside what is there; its
\* listener then saves the access token alone through the store.
ApiSave(d, tok, rt) ==
    StoreSave([d EXCEPT !.at = tok, !.rt = IF rt = 0 THEN @ ELSE rt], tok, 0)

\* syncUserProfile calls both, before it reads the profile ...
SyncSave(d, tok, rt) == StoreSave(ApiSave(d, tok, rt), tok, rt)

\* ... and setUser when it has it.
UserSave(d, u) == [Kept(d) EXCEPT !.user = u]

-----------------------------------------------------------------------------
(* The cookies, and the refresh token a call presents.                     *)

Found == {i \in 1..Len(CookieOrder) : jar[CookieOrder[i]] # 0}

\* Mutant: only the cookie without a portal is read.
CookieKeyUnscoped(p) == Shared

\* The cookie read for portal p, and the key the answer is stored under.
CookieKey(p) ==
    IF jar[p] # 0 \/ Found = {} THEN p
    ELSE CookieOrder[CHOOSE i \in Found : \A j \in Found : i <= j]
AnswerKey(p) == IF CookieKey(p) = Shared THEN Shared ELSE p

\* Mutant: the browser's cookie goes before the tab's own token.
PresentedShared(t, d) ==
    [ph |-> "sent", tok |-> jar[Shared], next |-> 0, key |-> PortalOf[t], portal |-> PortalOf[t]]

\* The tab's own refresh token goes in the body and a header; without one
\* the browser's cookies decide.
Presented(t, d) ==
    [ph |-> "sent",
     tok |-> IF d.rt # 0 THEN d.rt ELSE jar[CookieKey(PortalOf[t])],
     next |-> 0,
     key |-> IF d.rt # 0 THEN PortalOf[t] ELSE AnswerKey(PortalOf[t]),
     portal |-> PortalOf[t]]

WithCookie(key, tok) == [jar EXCEPT ![key] = tok, ![Shared] = tok]

\* A sign-in with a password sets both; /auth/mfa/verify the portal's alone,
\* so that an earlier user's shared cookie outlives it.
LoginJar(t, u, id) ==
    IF u \in MfaUsers THEN [jar EXCEPT ![PortalOf[t]] = id] ELSE WithCookie(PortalOf[t], id)

-----------------------------------------------------------------------------
(* The authentication service.                                             *)

\* get_current_user: the JWT has not expired, its session is not revoked.
Accepts(tok) == tok # 0 /\ sess[tok].live /\ sess[tok].fresh

MayUse(u, p) == u \in Super \/ (u \in Suppliers <=> p = SupplierPortal)

LiveOf(s, u) == {i \in 1..Len(s) : s[i].user = u /\ s[i].live}
Oldest(S) == CHOOSE i \in S : \A j \in S : i <= j

\* _issue_tokens: at the limit the user's oldest session makes room.
Issued(s, u) ==
    Append(IF Cardinality(LiveOf(s, u)) >= MaxLive
           THEN [s EXCEPT ![Oldest(LiveOf(s, u))].live = FALSE] ELSE s,
           [user |-> u, live |-> TRUE, fresh |-> TRUE, spent |-> FALSE, next |-> 0])

\* The revoked_token mark in Redis and the session row together.
Ended(s, tok) == [s EXCEPT ![tok].live = FALSE, ![tok].spent = TRUE]

\* Mutant: the grace entry answers with the newest session of all.
CheckedNewest(c) ==
    CASE c.tok = 0 -> [c EXCEPT !.ph = "refused"]
      [] c.tok # 0 /\ sess[c.tok].next # 0 -> [c EXCEPT !.ph = "won", !.next = Len(sess)]
      [] c.tok # 0 /\ sess[c.tok].next = 0 ->
            [c EXCEPT !.ph = IF sess[c.tok].spent \/ ~MayUse(sess[c.tok].user, c.portal)
                             THEN "refused" ELSE "checked"]

\* First half of refresh_token: the grace entry of a token rotated within
\* the last ten seconds answers by itself, a spent one is refused.  The
\* refusal also runs revoke_all, which the rollback of get_db undoes.
Checked(c) ==
    CASE c.tok = 0 -> [c EXCEPT !.ph = "refused"]
      [] c.tok # 0 /\ sess[c.tok].next # 0 -> [c EXCEPT !.ph = "won", !.next = sess[c.tok].next]
      [] c.tok # 0 /\ sess[c.tok].next = 0 ->
            [c EXCEPT !.ph = IF sess[c.tok].spent \/ ~MayUse(sess[c.tok].user, c.portal)
                             THEN "refused" ELSE "checked"]

\* Mutant: the answer names the session after the new one.
RotatedOffByOne(c) == [c EXCEPT !.ph = "won", !.next = Len(sess) + 2]

\* Second half: the old token is spent, a successor issued and remembered.
Rotated(c) == [c EXCEPT !.ph = "won", !.next = Len(sess) + 1]
Rotation(c) == [Issued(Ended(sess, c.tok), sess[c.tok].user) EXCEPT ![c.tok].next = Len(sess) + 1]

RefreshCheck(t, k) ==
    /\ call[t][k].ph = "sent"
    /\ call' = [call EXCEPT ![t][k] = Checked(@)]
    /\ UNCHANGED <<sess, jar, tabVars, gone, left>>

RefreshRotate(t, k) ==
    /\ call[t][k].ph = "checked"
    /\ sess' = Rotation(call[t][k])
    /\ call' = [call EXCEPT ![t][k] = Rotated(@)]
    /\ UNCHANGED <<jar, tabVars, gone, left>>

\* The server goes on with a call nobody waits for any more.
GoneCheck(c) ==
    /\ c \in gone /\ c.ph = "sent"
    /\ gone' = IF Checked(c).ph = "checked" THEN (gone \ {c}) \cup {Checked(c)} ELSE gone \ {c}
    /\ UNCHANGED <<sess, jar, tabVars, call, left>>

GoneRotate(c) ==
    /\ c \in gone /\ c.ph = "checked"
    /\ sess' = Rotation(c)
    /\ gone' = gone \ {c}
    /\ UNCHANGED <<jar, tabVars, call, left>>

\* The access token expires after 15 minutes, the grace entry after 10 s.
Expire(i) ==
    /\ sess[i].fresh /\ sess[i].live   \* of a revoked session it does not matter
    /\ \A j \in Ids : sess[j].next # i
    /\ Lapse
    /\ sess' = [sess EXCEPT ![i].fresh = FALSE]
    /\ UNCHANGED <<jar, tabVars, callVars>>

GraceEnds(i) ==
    /\ sess[i].next # 0
    /\ Lapse
    /\ sess' = [sess EXCEPT ![i].next = 0]
    /\ UNCHANGED <<jar, tabVars, callVars>>

-----------------------------------------------------------------------------
(* A tab: pages.                                                           *)

\* Calls whose answer will find the page gone.
InFlight(t) == {call[t][k] : k \in {j \in Kinds : call[t][j].ph \in {"sent", "checked"}}}
\* Mutant: isRefreshing outlives the call it stands for.
UnloadKeepsFlag(t) ==
    /\ UNCHANGED renewing
    /\ gone' = gone \cup InFlight(t)

\* The page is unloaded: its requests and refresh calls lose their caller.
Unload(t) ==
    /\ renewing' = [renewing EXCEPT ![t] = FALSE]
    /\ gone' = gone \cup InFlight(t)

\* setAccessToken(null), the store's logout and location.href = "/login".
ToLogin(t) ==
    /\ Unload(t)
    /\ mem' = [mem EXCEPT ![t] = 0]
    /\ disk' = [disk EXCEPT ![t] = Empty]
    /\ shown' = [shown EXCEPT ![t] = NoUser]
    /\ page' = [page EXCEPT ![t] = "login"]
    /\ goal' = [goal EXCEPT ![t] = "login"]
    /\ req' = [req EXCEPT ![t] = [r \in Reqs |-> Idle]]
    /\ call' = [call EXCEPT ![t] = [k \in Kinds |-> NoCall]]

Asked(tok) == [st |-> "sent", tok |-> tok, again |-> FALSE]

\* useLogin or useMFAVerify, answered, up to the profile request.
Login(t, u) ==
    LET id == Len(sess) + 1
        d == SyncSave(disk[t], id, IF u \in MfaUsers THEN 0 ELSE id)
    IN  /\ page[t] = "login" /\ req[t][Me].st = "idle" /\ MayUse(u, PortalOf[t])
        /\ Spend
        /\ sess' = Issued(sess, u)
        /\ jar' = LoginJar(t, u, id)
        /\ mem' = [mem EXCEPT ![t] = id]
        /\ disk' = [disk EXCEPT ![t] = d]
        /\ req' = [req EXCEPT ![t][Me] = Asked(id)]
        /\ goal' = [goal EXCEPT ![t] = "login"]
        /\ UNCHANGED <<shown, page, renewing, callVars>>

\* A page of the portal is opened or reloaded: api.ts and the store start
\* from sessionStorage, useAuthInit verifies the stored session in the
\* background or, without one, tries a silent refresh.
Open(t) ==
    LET d == disk[t] IN
    /\ Spend
    /\ Unload(t)
    /\ mem' = [mem EXCEPT ![t] = d.at]
    /\ IF Whole(d)
       THEN /\ shown' = [shown EXCEPT ![t] = d.user]
            /\ page' = [page EXCEPT ![t] = "main"]
            /\ goal' = [goal EXCEPT ![t] = "mount"]
            /\ disk' = [disk EXCEPT ![t] = SyncSave(d, d.at, 0)]
            /\ req' = [req EXCEPT ![t] = [[r \in Reqs |-> Idle] EXCEPT ![Me] = Asked(d.at)]]
            /\ call' = [call EXCEPT ![t] = [k \in Kinds |-> NoCall]]
       ELSE /\ shown' = [shown EXCEPT ![t] = NoUser]
            /\ page' = [page EXCEPT ![t] = "boot"]
            /\ goal' = [goal EXCEPT ![t] = "boot"]
            /\ req' = [req EXCEPT ![t] = [r \in Reqs |-> Idle]]
            /\ call' = [call EXCEPT ![t] = [[k \in Kinds |-> NoCall] EXCEPT !["boot"] = Presented(t, d)]]
            /\ UNCHANGED disk
    /\ UNCHANGED <<sess, jar>>

BootWon(t) ==
    LET c == call[t]["boot"] IN
    /\ c.ph = "won"
    /\ jar' = WithCookie(c.key, c.next)
    /\ mem' = [mem EXCEPT ![t] = c.next]
    /\ disk' = [disk EXCEPT ![t] = SyncSave(disk[t], c.next, c.next)]
    /\ req' = [req EXCEPT ![t][Me] = Asked(c.next)]
    /\ call' = [call EXCEPT ![t]["boot"] = NoCall]
    /\ UNCHANGED <<sess, shown, page, goal, renewing, gone, left>>

BootLost(t) ==
    /\ call[t]["boot"].ph = "refused"
    /\ ToLogin(t)
    /\ UNCHANGED <<sess, jar, left>>

\* useLogout: the access token authenticates the call, the tab's refresh
\* token or the cookie says which session ends; whatever the answer, the
\* tab clears its own state.
Logout(t) ==
    LET c == Presented(t, disk[t]) IN
    /\ page[t] = "main"
    /\ Spend
    /\ IF Accepts(mem[t])
       THEN /\ sess' = IF c.tok = 0 THEN sess ELSE Ended(sess, c.tok)
            /\ jar' = WithCookie(c.key, 0)
       ELSE UNCHANGED <<sess, jar>>   \* 401, which useLogout ignores
    /\ ToLogin(t)

-----------------------------------------------------------------------------
(* A tab: requests and the response interceptor of api.ts.                 *)

Send(t, r) ==
    /\ r \in Data /\ page[t] \in {"boot", "main"} /\ req[t][r].st = "idle"
    /\ Spend
    /\ req' = [req EXCEPT ![t][r] = Asked(mem[t])]
    /\ UNCHANGED <<sess, jar, disk, mem, shown, page, goal, renewing, callVars>>

DataAnswered(t, r) ==
    /\ r \in Data /\ req[t][r].st = "sent" /\ Accepts(req[t][r].tok)
    /\ req' = [req EXCEPT ![t][r] = Idle]
    /\ UNCHANGED <<sess, jar, disk, mem, shown, page, goal, renewing, callVars, left>>

\* The profile arrives: setUser.  After a login the portal's layout mounts
\* and verifies the session once more.
ProfileAnswered(t) ==
    LET u == sess[req[t][Me].tok].user
        d == UserSave(disk[t], u)
    IN  /\ req[t][Me].st = "sent" /\ Accepts(req[t][Me].tok)
        /\ shown' = [shown EXCEPT ![t] = u]
        /\ page' = [page EXCEPT ![t] = "main"]
        /\ IF goal[t] = "login"
           THEN /\ disk' = [disk EXCEPT ![t] = SyncSave(d, mem[t], 0)]
                /\ req' = [req EXCEPT ![t][Me] = Asked(mem[t])]
                /\ goal' = [goal EXCEPT ![t] = "mount"]
           ELSE /\ disk' = [disk EXCEPT ![t] = d]
                /\ req' = [req EXCEPT ![t][Me] = Idle]
                /\ UNCHANGED goal
        /\ UNCHANGED <<sess, jar, mem, renewing, callVars, left>>

\* A request is given up: an error other than 401, or a second 401.
GivenUp(t, r) ==
    /\ req[t][r].st = "sent"
    /\ \/ Fault
       \/ ~Accepts(req[t][r].tok) /\ req[t][r].again /\ UNCHANGED left
    /\ IF r = Me /\ goal[t] = "boot" THEN ToLogin(t)
       ELSE /\ req' = [req EXCEPT ![t][r] = Idle]
            /\ UNCHANGED <<disk, mem, shown, page, goal, renewing, callVars>>
    /\ UNCHANGED <<sess, jar>>

Unauthorised(t, r) == req[t][r].st = "sent" /\ ~Accepts(req[t][r].tok) /\ ~req[t][r].again

\* The first 401 while no refresh is under way starts one ...
StartRenewal(t, r) ==
    /\ Unauthorised(t, r) /\ ~renewing[t]
    /\ renewing' = [renewing EXCEPT ![t] = TRUE]
    /\ req' = [req EXCEPT ![t][r].st = "renew", ![t][r].again = TRUE]
    /\ call' = [call EXCEPT ![t]["renew"] = Presented(t, disk[t])]
    /\ UNCHANGED <<sess, jar, disk, mem, shown, page, goal, gone, left>>

\* ... and every later one waits for it in failedQueue.
JoinQueue(t, r) ==
    /\ Unauthorised(t, r) /\ renewing[t]
    /\ req' = [req EXCEPT ![t][r].st = "queued", ![t][r].again = TRUE]
    /\ UNCHANGED <<sess, jar, disk, mem, shown, page, goal, renewing, callVars, left>>

\* Mutant: processQueue is forgotten.
ResumedAlone(q, tok) == IF q.st = "renew" THEN [q EXCEPT !.st = "sent", !.tok = tok] ELSE q

\* processQueue and the retry of the request that started the renewal.
Resumed(q, tok) == IF q.st \in {"queued", "renew"} THEN [q EXCEPT !.st = "sent", !.tok = tok] ELSE q

RenewalWon(t) ==
    LET c == call[t]["renew"] IN
    /\ c.ph = "won"
    /\ jar' = WithCookie(c.key, c.next)
    /\ mem' = [mem EXCEPT ![t] = c.next]
    /\ disk' = [disk EXCEPT ![t] = ApiSave(disk[t], c.next, c.next)]
    /\ req' = [req EXCEPT ![t] = [r \in Reqs |-> Resumed(req[t][r], c.next)]]
    /\ renewing' = [renewing EXCEPT ![t] = FALSE]
    /\ call' = [call EXCEPT ![t]["renew"] = NoCall]
    /\ UNCHANGED <<sess, shown, page, goal, gone, left>>

RenewalLost(t) ==
    /\ call[t]["renew"].ph = "refused"
    /\ ToLogin(t)
    /\ UNCHANGED <<sess, jar, left>>

\* A refresh call or its answer is lost: for the tab that is a refusal.
AnswerLost(t, k) ==
    /\ call[t][k].ph \in {"sent", "won"}
    /\ Fault
    /\ call' = [call EXCEPT ![t][k].ph = "refused"]
    /\ UNCHANGED <<sess, jar, tabVars, gone>>

Next ==
    \/ \E i \in Ids : Expire(i) \/ GraceEnds(i)
    \/ \E c \in gone : GoneCheck(c) \/ GoneRotate(c)
    \/ \E t \in Tabs :
        \/ \E u \in Users : Login(t, u)
        \/ Open(t) \/ BootWon(t) \/ BootLost(t) \/ Logout(t)
        \/ ProfileAnswered(t) \/ RenewalWon(t) \/ RenewalLost(t)
        \/ \E k \in Kinds : RefreshCheck(t, k) \/ RefreshRotate(t, k) \/ AnswerLost(t, k)
        \/ \E r \in Reqs : \/ Send(t, r) \/ DataAnswered(t, r) \/ GivenUp(t, r)
                           \/ StartRenewal(t, r) \/ JoinQueue(t, r)

Spec == Init /\ [][Next]_vars

\* The network and the server answer every call in the end; what people do,
\* and when tokens expire, is not fair.
Answers(t) ==
    \/ BootWon(t) \/ BootLost(t) \/ ProfileAnswered(t) \/ RenewalWon(t) \/ RenewalLost(t)
    \/ \E k \in Kinds : RefreshCheck(t, k) \/ RefreshRotate(t, k)
    \/ \E r \in Reqs : DataAnswered(t, r) \/ GivenUp(t, r) \/ StartRenewal(t, r) \/ JoinQueue(t, r)
FairSpec == Spec /\ WF_vars(\E t \in Tabs : Answers(t))
-----------------------------------------------------------------------------
(* Properties                                                              *)

\* A tab never acts for anybody but the user its pages show: once the
\* profile has been read, the access token is that user's, whatever the
\* other tabs did to the cookies and however many renewals there were.
TabKeepsItsUser ==
    \A t \in Tabs : page[t] = "main" /\ req[t][Me].st = "idle" /\ mem[t] # 0
                        => sess[mem[t]].user = shown[t]

\* A renewal stays with the user it is for.  The refresh token a tab has of
\* its own is that of the session its requests run under, through every merge
\* of what it stores; and what a call answers is a session of the user whose
\* token it was sent, whether the server rotated that token or found it in the
\* grace of an earlier rotation, and whoever signed in, out or was pushed out
\* since.
RenewalKeepsUser ==
    /\ \A t \in Tabs : disk[t].rt # 0 => disk[t].rt = disk[t].at /\ disk[t].at = mem[t]
    /\ \A t \in Tabs, k \in Kinds :
        call[t][k].ph = "won" => sess[call[t][k].next].user = sess[call[t][k].tok].user

\* isRefreshing is set exactly while one refresh call of the interceptor is
\* under way for exactly one request, so that every request in failedQueue
\* has a call that will release it.
QueueHasRenewal ==
    \A t \in Tabs :
        /\ renewing[t] <=> call[t]["renew"].ph # "none"
        /\ renewing[t] <=> \E r \in Reqs : req[t][r].st = "renew"
        /\ \A r, q \in Reqs : req[t][r].st = "renew" /\ req[t][q].st = "renew" => r = q
        /\ \A r \in Reqs : req[t][r].st = "queued" => renewing[t]

\* Every request ends: whatever the mix of 401s, renewals and lost answers,
\* the browser comes to rest with nothing waiting in a failedQueue.
Quiet == \A t \in Tabs, r \in Reqs : req[t][r].st = "idle"
RequestsEnd == ~Quiet ~> Quiet

\* Signing out in a tab ends no session of anybody but the user it shows.
LogoutEndsOwnSession ==
    [][\A t \in Tabs : Logout(t) =>
            \A i \in Ids : sess[i].live /\ ~sess'[i].live => sess[i].user = shown[t]]_vars
=============================================================================
