------------------------------ MODULE Sessions ------------------------------
(***************************************************************************)
(* Login sessions of one user: TokenService on the server, which rotates   *)
(* refresh tokens within a family and revokes families, and the tabs of a  *)
(* browser (WebClient UserApi), which share one session in localStorage    *)
(* and refresh it under a Web Lock.                                        *)
(*                                                                         *)
(* A refresh token is its family and generation; the access token minted   *)
(* with it has the same name.  The server handles one request per tab and  *)
(* one password change at a time, in one step per Redis command whose      *)
(* order another request can see.                                          *)
(*                                                                         *)
(* A Redis command that fails may have been carried out, with its answer   *)
(* lost.  TokenService ignores the errors of the commands that keep the    *)
(* family sets and the reverse index (SADD, SREM, SMEMBERS, DEL) and of    *)
(* SET spent, so for those only the failure that had no effect differs.    *)
(***************************************************************************)
EXTENDS Naturals

CONSTANTS
    Tabs,        \* browser tabs
    Admin,       \* the password change (RevokeAllForSubject)
    NoToken,     \* nothing in localStorage, or no tab holds the lock
    WebLocks,    \* the browser has navigator.locks
    Faults,      \* which failures this instance allows
    MaxLogins,   \* bound: logins
    MaxGen,      \* bound: rotations of a family
    MaxFaults    \* bound: failures

FaultKinds == {"lost", "redis", "expire"}

ASSUME SessionsAssumption ==
    /\ Admin \notin Tabs /\ NoToken \notin Tabs
    /\ WebLocks \in BOOLEAN
    /\ Faults \subseteq FaultKinds
    /\ MaxLogins \in Nat /\ MaxGen \in Nat /\ MaxFaults \in Nat

VARIABLES
    logins,   \* families issued so far: 1 .. logins
    refresh,  \* Redis: refresh tokens that exist
    access,   \* Redis: access tokens that exist
    tracked,  \* Redis: members of the family sets
    index,    \* Redis: user_families, the user's reverse index
    spent,    \* Redis: rotated refresh tokens
    srv,      \* server: the request each tab, and Admin, has running
    store,    \* browser: the session in localStorage
    tab,      \* browser: what each tab is doing
    lock,     \* browser: the tab that holds quickdesk-user-refresh
    dead,     \* history: families revoked while none of their tokens changed
    raced,    \* history: families of which a token may be outside the family set
    quit,     \* history: the user logged out or changed the password
    faults    \* failures so far

redis == <<refresh, access, tracked, index, spent>>
browser == <<store, tab, lock>>
vars == <<logins, refresh, access, tracked, index, spent, srv, store, tab,
          lock, dead, raced, quit, faults>>

Family == 1 .. MaxLogins
Token == [fam : Family, gen : 0 .. MaxGen]
MaybeToken == Token \cup {NoToken}

ASSUME NoTokenAssumption == NoToken \notin Token

\* kind: what was asked for; tok: the token it came with, or has minted; todo:
\* families still to revoke; fam, members: the family being revoked and
\* its tokens as read.
Request == [kind : {"none", "rotate", "logout", "all"},
            pc : {"idle", "getdel", "spend", "mint", "track", "reuse", "members",
                  "delete", "list", "unlist", "ok", "401"},
            tok : MaybeToken, todo : SUBSET Family, members : SUBSET Token,
            fam : Family \cup {0}]

Idle == [kind |-> "none", pc |-> "idle", tok |-> NoToken, todo |-> {},
         members |-> {}, fam |-> 0]

TypeOK ==
    /\ logins \in 0 .. MaxLogins
    /\ refresh \subseteq Token /\ access \subseteq Token
    /\ tracked \subseteq Token /\ spent \subseteq Token
    /\ index \subseteq Family
    /\ srv \in [Tabs \cup {Admin} -> Request]
    /\ store \in MaybeToken
    /\ tab \in [Tabs -> [pc : {"idle", "waiting", "sent", "leaving"}, orig : MaybeToken]]
    /\ lock \in Tabs \cup {NoToken}
    /\ dead \subseteq Family /\ raced \subseteq Family /\ quit \in BOOLEAN /\ faults \in Nat

Quiet == [pc |-> "idle", orig |-> NoToken]

Init ==
    /\ logins = 0
    /\ refresh = {} /\ access = {} /\ tracked = {} /\ index = {} /\ spent = {}
    /\ srv = [r \in Tabs \cup {Admin} |-> Idle]
    /\ store = NoToken
    /\ tab = [t \in Tabs |-> Quiet]
    /\ lock = NoToken
    /\ dead = {} /\ raced = {} /\ quit = FALSE /\ faults = 0

Fault(f) ==
    /\ f \in Faults
    /\ faults < MaxFaults
    /\ faults' = faults + 1

Goto(r, s) == srv' = [srv EXCEPT ![r] = [@ EXCEPT !.pc = s]]

\* The request r is answered 401; its token matters to nobody any more.
Refuse(r) == srv' = [srv EXCEPT ![r] = [@ EXCEPT !.pc = "401", !.tok = NoToken]]

----------------------------------------------------------------------------
(***************************************************************************)
(* The server: RotateRefreshToken.                                         *)
(***************************************************************************)

\* Mutation: GET in place of GETDEL.
GetWithoutDel(r) ==
    /\ srv[r].pc = "getdel"
    /\ Goto(r, IF srv[r].tok \in refresh THEN "spend" ELSE "reuse")
    /\ UNCHANGED <<logins, redis, browser, dead, raced, quit, faults>>

\* GETDEL: one of several requests with the same token gets it.
GetDel(r) ==
    /\ srv[r].pc = "getdel"
    /\ Goto(r, IF srv[r].tok \in refresh THEN "spend" ELSE "reuse")
    /\ refresh' = refresh \ {srv[r].tok}
    /\ UNCHANGED <<logins, access, tracked, index, spent, browser, dead, raced, quit, faults>>

\* RefreshToken answers every error with 401, a failure of Redis too.
GetDelFails(r) ==
    /\ srv[r].pc = "getdel"
    /\ Fault("redis")
    /\ Refuse(r)
    /\ refresh' \in {refresh, refresh \ {srv[r].tok}}
    /\ UNCHANGED <<logins, access, tracked, index, spent, browser, dead, raced, quit>>

\* SREM from the family set, SET spent.
Spend(r) ==
    /\ srv[r].pc = "spend"
    /\ Goto(r, "mint")
    /\ tracked' = tracked \ {srv[r].tok}
    /\ spent' = spent \cup {srv[r].tok}
    /\ UNCHANGED <<logins, refresh, access, index, browser, dead, raced, quit, faults>>

\* One of them fails, or both.
SpendFails(r) ==
    /\ srv[r].pc = "spend"
    /\ Fault("redis")
    /\ Goto(r, "mint")
    /\ tracked' \in {tracked, tracked \ {srv[r].tok}}
    /\ spent' \in {spent, spent \cup {srv[r].tok}}
    /\ UNCHANGED <<logins, refresh, access, index, browser, dead, raced, quit>>

\* The token that follows k in its family.
Successor(k) == [k EXCEPT !.gen = @ + 1]

\* SET access and SET refresh of the next generation.
Mint(r) ==
    LET new == Successor(srv[r].tok) IN
    /\ srv[r].pc = "mint"
    /\ refresh' = refresh \cup {new}
    /\ access' = access \cup {new}
    /\ srv' = [srv EXCEPT ![r] = [@ EXCEPT !.pc = "track", !.tok = new]]
    /\ UNCHANGED <<logins, tracked, index, spent, browser, dead, raced, quit, faults>>

\* When one of them fails the answer is 401 and the old token is gone; new
\* ones that were stored all the same are known to nobody and in no family set.
MintFails(r) ==
    LET new == Successor(srv[r].tok) IN
    /\ srv[r].pc = "mint"
    /\ Fault("redis")
    /\ Refuse(r)
    /\ \/ UNCHANGED <<refresh, access, raced>>
       \/ /\ access' = access \cup {new}
          /\ refresh' = refresh \cup {new}
          /\ raced' = raced \cup {new.fam}
    /\ UNCHANGED <<logins, tracked, index, spent, browser, dead, quit>>

\* Mutation: the new token does not join the family set.
TrackNothing(r) ==
    /\ srv[r].pc = "track"
    /\ Goto(r, "ok")
    /\ UNCHANGED <<logins, redis, browser, dead, raced, quit, faults>>

\* SADD to the family set.
Track(r) ==
    /\ srv[r].pc = "track"
    /\ Goto(r, "ok")
    /\ tracked' = tracked \cup {srv[r].tok}
    /\ UNCHANGED <<logins, refresh, access, index, spent, browser, dead, raced, quit, faults>>

\* When it fails the new token works, but its family set lacks it.
TrackFails(r) ==
    /\ srv[r].pc = "track"
    /\ Fault("redis")
    /\ Goto(r, "ok")
    /\ raced' = raced \cup {srv[r].tok.fam}
    /\ UNCHANGED <<logins, redis, browser, dead, quit>>

\* GET spent.  The token is unknown: 401, after revoking the family if it was
\* spent.
Reuse(r) ==
    /\ srv[r].pc = "reuse"
    /\ IF srv[r].tok \in spent
       THEN srv' = [srv EXCEPT ![r] = [@ EXCEPT !.pc = "members", !.fam = srv[r].tok.fam]]
       ELSE Refuse(r)
    /\ UNCHANGED <<logins, redis, browser, dead, raced, quit, faults>>

\* A GET that fails reads as never spent.
ReuseFails(r) ==
    /\ srv[r].pc = "reuse"
    /\ Fault("redis")
    /\ Refuse(r)
    /\ UNCHANGED <<logins, redis, browser, dead, raced, quit>>

----------------------------------------------------------------------------
(***************************************************************************)
(* The server: RevokeFamily and the requests that end in it.               *)
(***************************************************************************)

\* A rotation of family f has taken its token and not yet tracked the next.
Rotating(f) ==
    \E t \in Tabs : srv[t].pc \in {"spend", "mint", "track"} /\ srv[t].tok.fam = f

\* The family set of f.
FamilySet(f) == {k \in tracked : k.fam = f}

\* The family that request r revokes next: RevokeAllForSubject takes any of
\* the list it read.
ToRevoke(r) == IF srv[r].pc = "list" THEN srv[r].todo ELSE {srv[r].fam}

\* SMEMBERS of the family set; when it fails RevokeFamily goes on without
\* members.
Members(r) ==
    /\ srv[r].pc \in {"members", "list"}
    /\ \E f \in ToRevoke(r) : \E read \in {FamilySet(f), {}} :
          /\ \/ read = FamilySet(f) /\ UNCHANGED faults
             \/ read = {} /\ Fault("redis")
          /\ srv' = [srv EXCEPT ![r] = [@ EXCEPT !.pc = "delete", !.fam = f,
                                              !.members = read,
                                              !.todo = srv[r].todo \ {f}]]
    /\ UNCHANGED <<logins, redis, browser, dead, raced, quit>>

\* What follows RevokeFamily.
AfterRevoke(r) ==
    LET next == IF srv[r].kind = "rotate" THEN "401"
                ELSE IF srv[r].kind = "logout" THEN "ok"
                ELSE IF srv[r].todo = {} THEN "unlist" ELSE "list"
    IN srv' = [srv EXCEPT ![r] = [Idle EXCEPT !.kind = srv[r].kind, !.pc = next,
                                              !.todo = srv[r].todo]]

\* The pipeline: DEL of every member read, and of the family set.  The
\* revocation is final unless a rotation was under way or joined the set since.
Delete(r) ==
    /\ srv[r].pc = "delete"
    /\ refresh' = refresh \ srv[r].members
    /\ tracked' = {k \in tracked : k.fam # srv[r].fam}
    /\ AfterRevoke(r)
    /\ IF Rotating(srv[r].fam) \/ srv[r].members # FamilySet(srv[r].fam)
       THEN raced' = raced \cup ({srv[r].fam} \ dead) /\ UNCHANGED dead
       ELSE dead' = dead \cup ({srv[r].fam} \ raced) /\ UNCHANGED raced
    /\ UNCHANGED <<logins, access, index, spent, browser, quit, faults>>

\* The pipeline fails: some of the members are gone, the family set stays.
DeleteFails(r) ==
    /\ srv[r].pc = "delete"
    /\ Fault("redis")
    /\ \E gone \in SUBSET srv[r].members : refresh' = refresh \ gone
    /\ AfterRevoke(r)
    /\ UNCHANGED <<logins, access, tracked, index, spent, browser, dead, raced, quit>>

\* RevokeAllForSubject deletes the reverse index in the end.
Unlist(r) ==
    /\ srv[r].pc = "unlist"
    /\ \/ index' = {} /\ UNCHANGED faults
       \/ UNCHANGED index /\ Fault("redis")
    /\ srv' = [srv EXCEPT ![r] = Idle]
    /\ UNCHANGED <<logins, refresh, access, tracked, spent, browser, dead, raced, quit>>

\* MeHandler.ChangePassword: RevokeAllForSubject reads the reverse index; when
\* that fails it revokes nothing and goes on to delete the index.
ChangePassword ==
    /\ srv[Admin].pc = "idle" /\ logins > 0
    /\ \E read \in {index, {}} :
          /\ \/ read = index /\ UNCHANGED faults
             \/ read = {} /\ Fault("redis")
          /\ srv' = [srv EXCEPT ![Admin] = [Idle EXCEPT !.kind = "all", !.todo = read,
                                            !.pc = IF read = {} THEN "unlist" ELSE "list"]]
    /\ quit' = TRUE
    /\ UNCHANGED <<logins, redis, browser, dead, raced>>

\* The reverse index lives for 30 days after the last login; rotation renews
\* the family's own keys only.
IndexExpire ==
    /\ index # {}
    /\ Fault("expire")
    /\ index' = {}
    /\ UNCHANGED <<logins, refresh, access, tracked, spent, srv, browser, dead, raced, quit>>

----------------------------------------------------------------------------
(***************************************************************************)
(* The browser: UserApi.                                                   *)
(***************************************************************************)

\* login: IssueSession, then _saveSession.  Nobody knows the new tokens
\* before the answer, so it is one step; when it fails nobody ever knows them,
\* but an SADD to the reverse index that fails is ignored.
Login(t) ==
    /\ tab[t].pc = "idle" /\ srv[t].pc = "idle"
    /\ store = NoToken
    /\ logins < MaxLogins
    /\ logins' = logins + 1
    /\ LET new == [fam |-> logins + 1, gen |-> 0] IN
       /\ refresh' = refresh \cup {new}
       /\ access' = access \cup {new}
       /\ tracked' = tracked \cup {new}
       /\ store' = new
    /\ \/ index' = index \cup {logins + 1} /\ UNCHANGED faults
       \/ UNCHANGED index /\ Fault("redis")
    /\ UNCHANGED <<spent, srv, tab, lock, dead, raced, quit>>

\* _refreshSingleFlight: remember the token and ask for the lock.
StartRefresh(t) ==
    /\ tab[t].pc = "idle" /\ srv[t].pc = "idle"
    /\ store # NoToken
    /\ store.gen < MaxGen
    /\ tab' = [tab EXCEPT ![t] = [pc |-> "waiting", orig |-> store]]
    /\ UNCHANGED <<logins, redis, srv, store, lock, dead, raced, quit, faults>>

\* The tab holds the lock, or the browser has none.
MayRefresh(t) == ~WebLocks \/ lock = NoToken

\* Mutation: the tab sends the token it read before it waited.
RefreshUnchecked(t) ==
    /\ tab[t].pc = "waiting" /\ MayRefresh(t)
    /\ lock' = IF WebLocks THEN t ELSE lock
    /\ tab' = [tab EXCEPT ![t] = [@ EXCEPT !.pc = "sent"]]
    /\ srv' = [srv EXCEPT ![t] = [Idle EXCEPT !.kind = "rotate", !.pc = "getdel",
                                              !.tok = tab[t].orig]]
    /\ UNCHANGED <<logins, redis, store, dead, raced, quit, faults>>

\* Under the lock: another tab may have rotated meanwhile; otherwise
\* _refreshOnce posts the token.
Refresh(t) ==
    /\ tab[t].pc = "waiting" /\ MayRefresh(t)
    /\ IF store # tab[t].orig /\ store # NoToken
       THEN /\ tab' = [tab EXCEPT ![t] = Quiet]
            /\ UNCHANGED <<srv, lock>>
       ELSE /\ lock' = IF WebLocks THEN t ELSE lock
            /\ tab' = [tab EXCEPT ![t] = [@ EXCEPT !.pc = "sent"]]
            /\ srv' = [srv EXCEPT ![t] = [Idle EXCEPT !.kind = "rotate", !.pc = "getdel",
                                                      !.tok = tab[t].orig]]
    /\ UNCHANGED <<logins, redis, store, dead, raced, quit, faults>>

\* Mutation: a refresh that is refused forgets to release the lock.
ReleaseOnSuccess(t) ==
    /\ tab' = [tab EXCEPT ![t] = Quiet]
    /\ lock' = IF lock = t /\ srv[t].pc = "ok" THEN NoToken ELSE lock

\* Tab t's refresh is over and the lock is released.
Release(t) ==
    /\ tab' = [tab EXCEPT ![t] = Quiet]
    /\ lock' = IF lock = t THEN NoToken ELSE lock

\* _refreshOnce without an answer (the connection breaks, or a proxy answers
\* 5xx, while the server carries on): the credentials are kept.
RefreshFails(t) ==
    /\ tab[t].pc = "sent"
    /\ Fault("lost")
    /\ Release(t)
    /\ UNCHANGED <<logins, redis, srv, store, dead, raced, quit>>

\* 200: _saveSession; 401: _sessionEnded.
RefreshAnswered(t) ==
    /\ tab[t].pc = "sent"
    /\ srv[t].pc \in {"ok", "401"}
    /\ store' = IF srv[t].pc = "ok" THEN srv[t].tok ELSE NoToken
    /\ srv' = [srv EXCEPT ![t] = Idle]
    /\ Release(t)
    /\ UNCHANGED <<logins, redis, dead, raced, quit, faults>>

\* An answer that no tab is waiting for.
AnswerDropped(t) ==
    /\ tab[t].pc \notin {"sent", "leaving"}
    /\ srv[t].pc \in {"ok", "401"}
    /\ srv' = [srv EXCEPT ![t] = Idle]
    /\ UNCHANGED <<logins, redis, browser, dead, raced, quit, faults>>

\* The requests of a logout: to revoke the family, or with nothing left to do.
Revoking(f) == [Idle EXCEPT !.kind = "logout", !.pc = "members", !.fam = f]
LoggedOut == [Idle EXCEPT !.kind = "logout", !.pc = "ok"]

\* The reverse index lists the family of the stored access token.
Listed == store \in access /\ store.fam \in index

\* logout: DELETE /v1/me/sessions/current with the access token, which the
\* server drops; the family is revoked if the reverse index lists it.
Logout(t) ==
    /\ tab[t].pc = "idle" /\ srv[t].pc = "idle"
    /\ store # NoToken
    /\ tab' = [tab EXCEPT ![t] = [@ EXCEPT !.pc = "leaving"]]
    /\ quit' = TRUE
    /\ \/ /\ srv' = [srv EXCEPT ![t] = IF Listed THEN Revoking(store.fam) ELSE LoggedOut]
          /\ index' = IF Listed THEN index \ {store.fam} ELSE index
          /\ access' = access \ {store}
          /\ UNCHANGED faults
       \/ /\ Fault("redis")
          /\ access' \in {access, access \ {store}}
          /\ \/ /\ srv' = [srv EXCEPT ![t] = LoggedOut]
                /\ UNCHANGED index
             \/ /\ Listed
                /\ srv' = [srv EXCEPT ![t] = Revoking(store.fam)]
                /\ index' \in {index, index \ {store.fam}}
    /\ UNCHANGED <<logins, refresh, tracked, spent, store, lock, dead, raced>>

\* clearSession when the logout request is over.
LogoutDone(t) ==
    /\ tab[t].pc = "leaving" /\ srv[t].pc = "ok"
    /\ store' = NoToken
    /\ srv' = [srv EXCEPT ![t] = Idle]
    /\ tab' = [tab EXCEPT ![t] = Quiet]
    /\ UNCHANGED <<logins, redis, lock, dead, raced, quit, faults>>

----------------------------------------------------------------------------
Serve(r) ==
    \/ GetDel(r) \/ Spend(r) \/ Mint(r) \/ Track(r) \/ Reuse(r)
    \/ GetDelFails(r) \/ SpendFails(r) \/ MintFails(r) \/ TrackFails(r) \/ ReuseFails(r)
    \/ Members(r) \/ Delete(r) \/ DeleteFails(r) \/ Unlist(r)

Answer(t) == RefreshAnswered(t) \/ RefreshFails(t) \/ AnswerDropped(t) \/ LogoutDone(t)

Next ==
    \/ \E r \in Tabs \cup {Admin} : Serve(r)
    \/ \E t \in Tabs : Answer(t)
    \/ \E t \in Tabs : Refresh(t)
    \/ \E t \in Tabs : StartRefresh(t)
    \/ \E t \in Tabs : Login(t)
    \/ \E t \in Tabs : Logout(t)
    \/ ChangePassword
    \/ IndexExpire

Spec == Init /\ [][Next]_vars

\* A tab's requests are served and answered, and a waiting tab is granted the
\* lock in its turn (Web Locks queue requests); nobody is obliged to start
\* anything.
Fairness ==
    \A t \in Tabs : WF_vars(Serve(t) \/ Answer(t)) /\ SF_vars(Refresh(t))

FairSpec == Spec /\ Fairness

----------------------------------------------------------------------------
(***************************************************************************)
(* Properties.                                                             *)
(***************************************************************************)

\* Tab t's request has taken a refresh token out of Redis and not yet put the
\* next one there.
Holds(t) == srv[t].pc \in {"spend", "mint"}

\* Rotation is exclusive: however many tabs and retries present a token at
\* once, a family has one refresh token, or one rotation that is about to make
\* the next one, and never two that both work.
OneTokenPerFamily ==
    /\ \A k, m \in refresh : k.fam = m.fam => k = m
    /\ \A t \in Tabs, k \in refresh : Holds(t) => k.fam # srv[t].tok.fam
    /\ \A t, u \in Tabs : Holds(t) /\ Holds(u) /\ srv[t].tok.fam = srv[u].tok.fam => t = u

\* A revocation that is carried out and that no rotation overlaps is final,
\* whatever requests were already on their way: the family has no refresh token
\* afterwards and never gets one again.  RevokeFamily promises it of every
\* revocation ("kills every refresh token in the family"); it does not hold for
\* a family with a token that an SADD failed to track, that was stored although
\* its SET failed, or whose SMEMBERS or DEL an earlier revocation lost (raced).
RevokedStaysDead ==
    \A f \in dead : ~Rotating(f) /\ \A k \in refresh : k.fam # f

\* Tabs that share a session do not log each other out: as long as nobody logs
\* out or changes the password, the browser keeps its session through any
\* number of simultaneous refreshes.  That needs Web Locks, and answers that
\* arrive: a lost one is retried with the spent token, and a failure of Redis is
\* answered 401.
TabsKeepSession ==
    WebLocks /\ logins > 0 /\ store = NoToken => quit \/ faults > 0

\* Every refresh a tab starts comes to an end, also after another tab's
\* refresh was refused; requests queue up behind it in _req.
RefreshEnds == \A t \in Tabs : tab[t].pc \in {"waiting", "sent"} ~> tab[t].pc = "idle"
=============================================================================
