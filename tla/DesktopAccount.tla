--------------------------- MODULE DesktopAccount ---------------------------
(***************************************************************************)
(* The desktop client's login: AuthManager.  A request that meets a 401    *)
(* joins the refresh under way or starts one, is sent once more, and ends  *)
(* the session when it meets a second 401.  A timer refreshes before the   *)
(* access token expires, logout takes two calls, and a restart picks the   *)
(* session up from the stored tokens.                                      *)
(*                                                                         *)
(* Every call is answered by the server at one moment and its callback     *)
(* runs at a later one; logins, logouts and restarts fall in between.  The *)
(* server (families of refresh tokens, each used once, reuse revokes the   *)
(* family) and the realtime socket are external, by how AuthManager and    *)
(* CloudDeviceManager use them.                                            *)
(***************************************************************************)
EXTENDS Naturals, FiniteSets

CONSTANTS
    MaxLogins,  \* bound: logins in a run
    MaxGen,     \* bound: tokens of one family
    MaxFaults   \* bound: lost calls, errors of the server, expiries, revocations and restarts

ASSUME AccountAssumption == MaxLogins \in Nat /\ MaxGen \in Nat \ {0} /\ MaxFaults \in Nat

Families == 1 .. MaxLogins
Gens == 0 .. MaxGen
Reqs == {"me", "get"}            \* GET /v1/me of fetchUserInfo, and any other request
Waiters == Reqs \cup {"timer", "restore"}
Token == [fam : 0 .. MaxLogins, gen : Gens]
NoToken == [fam |-> 0, gen |-> 0]

VARIABLES
    cur,      \* server: the newest generation of a family, 0 before its login
    live,     \* server: the families that are not revoked
    lapsed,   \* server: access tokens up to this generation have expired
    acc,      \* m_accessToken
    ref,      \* m_refreshToken
    logged,   \* m_isLoggedIn
    timer,    \* m_accessRefreshTimer is armed
    refr,     \* refresh calls in flight
    waiting,  \* m_refreshQueue
    req,      \* the requests under way
    login,    \* a login call
    out,      \* a logout under way
    sync,     \* the realtime socket, started by loginSuccess
    faults,   \* faults so far
    lost,     \* history: a token was spent and no newer one reached the client
    reused,   \* history: the server saw a spent refresh token
    stranded  \* history: logged in, but no loginSuccess will start the socket

server == <<cur, live, lapsed>>
session == <<acc, ref, logged, timer, sync>>
history == <<lost, reused, stranded>>
vars == <<cur, live, lapsed, acc, ref, logged, timer, refr, waiting, req, login, out, sync,
          faults, lost, reused, stranded>>

\* "denied" and "refused" are both a 401: what the token deserves, or an error
\* of the server's Redis, which it answers in the same way.
Answers == {"ok", "denied", "refused", "failed"}
Call(s, t) == [stage |-> s, tok |-> t]
Idle == Call("idle", NoToken)

TypeOK ==
    /\ cur \in [Families -> Gens] /\ lapsed \in [Families -> Gens] /\ live \subseteq Families
    /\ acc \in Token /\ ref \in Token
    /\ logged \in BOOLEAN /\ timer \in BOOLEAN
    /\ \A c \in refr : c.stage \in {"sent"} \cup Answers /\ c.tok \in Token
    /\ waiting \subseteq Waiters
    /\ waiting # {} => refr # {}
    /\ \A r \in Reqs : req[r].stage \in {"idle", "sent", "wait", "resent", "ok", "denied",
                                         "failed", "denied2", "refused2"}
    /\ \A r \in Reqs : (req[r].stage = "wait") <=> (r \in waiting)
    /\ login \in [stage : {"idle", "ok", "failed"}, fam : 0 .. MaxLogins]
    /\ out.stage \in {"idle", "device", "session", "session_done"}
    /\ sync \in {"off", "opening", "open"}
    /\ faults \in 0 .. MaxFaults
    /\ lost \in BOOLEAN /\ reused \in BOOLEAN /\ stranded \in BOOLEAN

Init ==
    /\ cur = [f \in Families |-> 0] /\ lapsed = [f \in Families |-> 0] /\ live = {}
    /\ acc = NoToken /\ ref = NoToken /\ logged = FALSE /\ timer = FALSE
    /\ refr = {} /\ waiting = {} /\ req = [r \in Reqs |-> Idle]
    /\ login = [stage |-> "idle", fam |-> 0] /\ out = Idle /\ sync = "off"
    /\ faults = 0 /\ lost = FALSE /\ reused = FALSE /\ stranded = FALSE

Accepts(t) == t.fam \in live /\ t.gen > lapsed[t.fam]
Fault == faults < MaxFaults /\ faults' = faults + 1

(***************************************************************************)
(* Parts of the handlers.                                                  *)
(***************************************************************************)
\* loggedOut stops the realtime socket.
clearSession ==
    /\ acc' = NoToken /\ ref' = NoToken /\ logged' = FALSE /\ timer' = FALSE /\ sync' = "off"

\* scheduleAccessTokenRefresh is part of it.
applyTokens(t) == acc' = t /\ ref' = t /\ logged' = TRUE /\ timer' = TRUE

\* Mutant: every 401 starts a refresh of its own.
RefreshEach(w) ==
    /\ refr' = refr \cup {[stage |-> "sent", tok |-> ref]}
    /\ waiting' = waiting \cup {w}

\* Concurrent refreshes are one call.
joinRefresh(w) ==
    /\ refr' = IF refr # {} THEN refr ELSE {[stage |-> "sent", tok |-> ref]}
    /\ waiting' = waiting \cup {w}

(***************************************************************************)
(* The server.                                                             *)
(***************************************************************************)
ServeRequest(r) ==
    /\ req[r].stage \in {"sent", "resent"}
    /\ req' = [req EXCEPT ![r].stage =
                  IF Accepts(req[r].tok) THEN "ok"
                  ELSE IF req[r].stage = "resent" THEN "denied2" ELSE "denied"]
    /\ UNCHANGED <<server, session, refr, waiting, login, out, faults, history>>

\* A refresh token is good for one use; a spent one revokes its family.
ServeRefresh(c) ==
    LET f == c.tok.fam
        ans(s, t) == (refr \ {c}) \cup {[stage |-> s, tok |-> t]}
    IN  /\ c.stage = "sent"
        /\ \/ /\ f \in live /\ c.tok.gen = cur[f] /\ cur[f] < MaxGen
              /\ cur' = [cur EXCEPT ![f] = @ + 1]
              /\ refr' = ans("ok", [fam |-> f, gen |-> cur[f] + 1])
              /\ UNCHANGED <<live, reused>>
           \/ /\ f \in live /\ c.tok.gen = cur[f] /\ cur[f] = MaxGen   \* the bound: a 503
              /\ refr' = ans("failed", c.tok) /\ UNCHANGED <<cur, live, reused>>
           \/ /\ ~(f \in live /\ c.tok.gen = cur[f])
              /\ refr' = ans("denied", c.tok)
              /\ live' = live \ {f} /\ reused' = (reused \/ f \in live) /\ UNCHANGED cur
        /\ UNCHANGED <<lapsed, session, waiting, req, login, out, faults, lost, stranded>>

\* The lookup of the access token fails.
RequestRefused(r) ==
    /\ req[r].stage \in {"sent", "resent"} /\ Fault
    /\ req' = [req EXCEPT ![r].stage = IF @ = "resent" THEN "refused2" ELSE "denied"]
    /\ UNCHANGED <<server, session, refr, waiting, login, out, history>>

\* A command of the rotation fails, before the token is spent or after that.
RefreshRefused(c) ==
    LET f == c.tok.fam
    IN  /\ c.stage = "sent" /\ Fault
        /\ refr' = (refr \ {c}) \cup {[stage |-> "refused", tok |-> c.tok]}
        /\ \/ UNCHANGED <<cur, lost>>
           \/ /\ f \in live /\ c.tok.gen = cur[f] /\ cur[f] < MaxGen
              /\ cur' = [cur EXCEPT ![f] = @ + 1] /\ lost' = TRUE
        /\ UNCHANGED <<live, lapsed, session, waiting, req, login, out, reused, stranded>>

\* DELETE of the current session.
ServeLogout ==
    /\ out.stage = "session" /\ out' = [out EXCEPT !.stage = "session_done"]
    /\ live' = IF Accepts(out.tok) THEN live \ {out.tok.fam} ELSE live
    /\ UNCHANGED <<cur, lapsed, session, refr, waiting, req, login, faults, history>>

\* The access token of a family expires; one that was just minted outlives the
\* answer that brings it and the request that is sent with it.
AccessExpires(f) ==
    /\ lapsed[f] < cur[f] /\ cur[f] < MaxGen
    /\ \A r \in Reqs : req[r].stage # "resent"
    /\ \A c \in refr : c.stage # "ok"
    /\ lapsed' = [lapsed EXCEPT ![f] = cur[f]] /\ Fault
    /\ UNCHANGED <<cur, live, session, refr, waiting, req, login, out, history>>

FamilyRevoked(f) ==
    /\ f \in live /\ live' = live \ {f} /\ Fault
    /\ UNCHANGED <<cur, lapsed, session, refr, waiting, req, login, out, history>>

\* A call times out, before or after the server has processed it.
CallLost ==
    /\ Fault
    /\ \/ \E r \in Reqs :
             /\ req[r].stage \in {"sent", "resent"}
             /\ req' = [req EXCEPT ![r].stage = "failed"]
             /\ UNCHANGED <<refr, login, out, lost>>
       \/ \E c \in refr :
             /\ c.stage # "failed"
             /\ refr' = (refr \ {c}) \cup {[stage |-> "failed", tok |-> c.tok]}
             /\ lost' = (lost \/ c.stage = "ok")
             /\ UNCHANGED <<req, login, out>>
       \/ /\ login.stage = "ok" /\ login' = [login EXCEPT !.stage = "failed"]
          /\ UNCHANGED <<refr, req, out, lost>>
       \/ /\ out.stage = "session" /\ out' = [out EXCEPT !.stage = "session_done"]
          /\ UNCHANGED <<refr, req, login, lost>>
    /\ UNCHANGED <<server, session, waiting, reused, stranded>>

(***************************************************************************)
(* Requests and refreshes.                                                 *)
(***************************************************************************)
request(r) == [req EXCEPT ![r] = Call("sent", acc)]

\* A call of CloudDeviceManager.
Request ==
    /\ logged /\ req["get"].stage = "idle" /\ req' = request("get")
    /\ UNCHANGED <<server, session, refr, waiting, login, out, faults, history>>

\* Mutant: the restored session is not announced.
RestoredQuietly(r, status) ==
    /\ IF r = "me" /\ status = "denied" THEN clearSession ELSE UNCHANGED session
    /\ stranded' = (stranded \/ (r = "me" /\ status = "failed"))

\* fetchUserInfo's callback: loginSuccess starts the realtime socket; a 401
\* ends the session; any other failure is only logged.  Other callers change
\* nothing here.
callback(r, status) ==
    /\ CASE r = "me" /\ status = "ok" -> /\ logged' = TRUE /\ sync' = "opening"
                                         /\ UNCHANGED <<acc, ref, timer>>
         [] r = "me" /\ status = "denied" -> clearSession
         [] OTHER -> UNCHANGED session
    /\ stranded' = (stranded \/ (r = "me" /\ status = "failed"))

\* A second 401, after a successful refresh, ends the session.
secondDenied == clearSession /\ UNCHANGED stranded

Reply(r) ==
    LET s == req[r].stage
    IN  /\ s \in {"ok", "failed", "denied", "denied2", "refused2"}
        /\ IF s = "denied" /\ logged /\ ref # NoToken
           THEN /\ joinRefresh(r) /\ req' = [req EXCEPT ![r].stage = "wait"]
                /\ UNCHANGED <<session, stranded>>
           ELSE /\ req' = [req EXCEPT ![r] = Idle]
                /\ UNCHANGED <<refr, waiting>>
                /\ IF s \in {"denied2", "refused2"} THEN secondDenied
                   ELSE IF s = "denied" /\ logged THEN clearSession /\ UNCHANGED stranded
                   ELSE callback(r, s)
        /\ UNCHANGED <<server, login, out, faults, lost, reused>>

\* The callers of a refresh that succeeded: requests are sent again with the
\* new token, a restored session asks for its user.
resent(t) == [r \in Reqs |-> IF r \in waiting THEN Call("resent", t)
                             ELSE IF r = "me" /\ "restore" \in waiting THEN Call("sent", t)
                             ELSE req[r]]

released == [r \in Reqs |-> IF r \in waiting THEN Idle ELSE req[r]]

\* The answer is applied to whatever session the client is in by now.
RefreshGranted(c) ==
    /\ c.stage = "ok" /\ refr' = refr \ {c} /\ waiting' = {}
    /\ applyTokens(c.tok) /\ req' = resent(c.tok)
    /\ stranded' = (stranded \/ (~logged /\ "restore" \notin waiting))
    /\ UNCHANGED <<server, sync, login, out, faults, lost, reused>>

RefreshDenied(c) ==
    /\ c.stage \in {"denied", "refused"} /\ refr' = refr \ {c} /\ waiting' = {}
    /\ clearSession /\ req' = released
    /\ UNCHANGED <<server, login, out, faults, history>>

\* Mutant: a refresh that got no answer ends the session.
UnavailableEnds(c) ==
    /\ c.stage = "failed" /\ refr' = refr \ {c} /\ waiting' = {} /\ req' = released
    /\ clearSession /\ UNCHANGED <<server, login, out, faults, history>>

\* The session is preserved and the timer retries; but every request that
\* waited is told 401, and fetchUserInfo ends the session on it.
RefreshUnavailable(c) ==
    /\ c.stage = "failed" /\ refr' = refr \ {c} /\ waiting' = {} /\ req' = released
    /\ IF "me" \in waiting THEN clearSession
       ELSE /\ timer' = (timer \/ ("timer" \in waiting /\ logged /\ ref # NoToken))
            /\ UNCHANGED <<acc, ref, logged, sync>>
    /\ UNCHANGED <<server, login, out, faults, history>>

TimerFires ==
    /\ timer /\ timer' = FALSE
    /\ IF logged /\ ref # NoToken THEN joinRefresh("timer") ELSE UNCHANGED <<refr, waiting>>
    /\ UNCHANGED <<server, acc, ref, logged, sync, req, login, out, faults, history>>

(***************************************************************************)
(* Login, logout, restart.                                                 *)
(***************************************************************************)
\* login, loginWithSms, registerUser; the server opens a family at once, its
\* answer comes later.
Login ==
    /\ ~logged /\ login.stage = "idle"
    /\ \E f \in Families :
          /\ cur[f] = 0 /\ \A g \in 1 .. f - 1 : cur[g] > 0
          /\ cur' = [cur EXCEPT ![f] = 1] /\ live' = live \cup {f}
          /\ login' = [stage |-> "ok", fam |-> f]
    /\ UNCHANGED <<lapsed, session, refr, waiting, req, out, faults, history>>

LoginReply ==
    /\ login.stage \in {"ok", "failed"} /\ login' = [stage |-> "idle", fam |-> 0]
    /\ IF login.stage = "ok"
       THEN applyTokens([fam |-> login.fam, gen |-> 1]) /\ sync' = "opening" /\ stranded' = FALSE
       ELSE UNCHANGED <<session, stranded>>
    /\ UNCHANGED <<server, refr, waiting, req, out, faults, lost, reused>>

\* Step 1: DELETE of the device's session, whose answer is not looked at.
Logout ==
    /\ out.stage = "idle" /\ acc # NoToken
    /\ out' = Call("device", acc)
    /\ UNCHANGED <<server, session, refr, waiting, req, login, faults, history>>

\* Step 2 is sent with the access token of that moment, and the session is
\* cleared whatever the server says.
LogoutReply ==
    /\ \/ out.stage = "device" /\ out' = Call("session", acc) /\ UNCHANGED session
       \/ out.stage = "session_done" /\ out' = Idle /\ clearSession
    /\ UNCHANGED <<server, refr, waiting, req, login, faults, history>>

\* The program starts again and restores the session from the stored tokens:
\* an access token that has not expired is used at once, otherwise it is
\* refreshed first.
Restart ==
    /\ Fault
    /\ login' = [stage |-> "idle", fam |-> 0] /\ out' = Idle /\ timer' = FALSE /\ sync' = "off"
    /\ lost' = (lost \/ \E c \in refr : c.stage = "ok") /\ stranded' = FALSE
    /\ UNCHANGED <<server, acc, ref, reused>>
    /\ \/ /\ acc = NoToken /\ logged' = FALSE /\ req' = [r \in Reqs |-> Idle]
          /\ refr' = {} /\ waiting' = {}
       \/ /\ acc # NoToken /\ acc.gen > lapsed[acc.fam] /\ logged' = TRUE
          /\ req' = [r \in Reqs |-> IF r = "me" THEN Call("sent", acc) ELSE Idle]
          /\ refr' = {} /\ waiting' = {}
       \/ /\ acc # NoToken /\ acc.gen <= lapsed[acc.fam] /\ logged' = FALSE
          /\ req' = [r \in Reqs |-> Idle]
          /\ refr' = {[stage |-> "sent", tok |-> ref]} /\ waiting' = {"restore"}

(***************************************************************************)
(* The realtime socket.                                                    *)
(***************************************************************************)
\* The auth frame is accepted, or the error frame makes CloudDeviceManager
\* send a request, and the socket is opened again; here too an error of Redis
\* counts against the token.
SyncAuth ==
    /\ sync = "opening"
    /\ \/ Accepts(acc) /\ sync' = "open" /\ UNCHANGED <<req, faults>>
       \/ /\ (~Accepts(acc) /\ UNCHANGED faults) \/ (Accepts(acc) /\ Fault)
          /\ req["get"].stage = "idle" /\ req' = request("get") /\ UNCHANGED sync
    /\ UNCHANGED <<server, acc, ref, logged, timer, refr, waiting, login, out, history>>

\* session.revoked of this family, or the loss of the socket.
SyncEnds ==
    /\ sync = "open"
    /\ \/ acc.fam \notin live /\ clearSession /\ UNCHANGED faults
       \/ Fault /\ sync' = "opening" /\ UNCHANGED <<acc, ref, logged, timer>>
    /\ UNCHANGED <<server, refr, waiting, req, login, out, history>>

Next ==
    \/ \E r \in Reqs : ServeRequest(r) \/ RequestRefused(r) \/ Reply(r)
    \/ \E c \in refr : \/ ServeRefresh(c) \/ RefreshRefused(c) \/ RefreshGranted(c)
                       \/ RefreshDenied(c) \/ RefreshUnavailable(c)
    \/ ServeLogout \/ LoginReply \/ LogoutReply
    \/ \E f \in Families : AccessExpires(f) \/ FamilyRevoked(f)
    \/ CallLost \/ Request \/ TimerFires \/ Login \/ Logout \/ Restart
    \/ SyncAuth \/ SyncEnds

Spec == Init /\ [][Next]_vars

RefreshStep == \E c \in refr : ServeRefresh(c) \/ RefreshGranted(c) \/ RefreshDenied(c)
                               \/ RefreshUnavailable(c)

\* Calls are answered, their callbacks run, timers fire; the realtime socket
\* keeps trying and hears of a revocation.
FairSpec ==
    /\ Spec /\ WF_vars(RefreshStep) /\ WF_vars(TimerFires)
    /\ \A r \in Reqs : WF_vars(ServeRequest(r)) /\ WF_vars(Reply(r))
    /\ WF_vars(LoginReply) /\ WF_vars(ServeLogout) /\ WF_vars(LogoutReply)
    /\ SF_vars(SyncAuth) /\ WF_vars(SyncEnds)

(***************************************************************************)
(* Properties.                                                             *)
(***************************************************************************)
\* The client never presents a spent refresh token, which would revoke its
\* family, unless the answer with the new one was lost or never written
\* (AuthManager::refreshAccessToken, m_refreshInFlight and m_refreshQueue).
SpentOnlyAfterLoss == reused => lost

\* A call of an earlier session is still under way.
Foreign ==
    \/ \E c \in refr : c.tok.fam # acc.fam
    \/ \E r \in Reqs : req[r].tok.fam \notin {0, acc.fam}

\* The server has answered 401 for an error of its own, where the client takes
\* a 401 as final.
Refused ==
    \/ \E c \in refr : c.stage = "refused"
    \/ \E r \in Reqs : req[r].stage = "refused2"

\* A session ends because the server ended it or the user did: an expired
\* access token, a lost call, a refusal to refresh for the moment or a 401 that
\* a refresh can mend never log the user out.  Three exceptions are the code's:
\* a refresh, or a request that was sent again, meets an error of Redis, which
\* is a 401 as well; a call of an earlier session is answered late; and GET
\* /v1/me takes a refresh that was unavailable for a refusal (AuthManager::
\* request, refreshAccessToken, fetchUserInfo; AuthHandler.RefreshToken).
EndsForCause ==
    [][ logged /\ ~logged' =>
          \/ acc.fam \notin live
          \/ out.stage = "session_done"
          \/ faults' > faults            \* the program was started again
          \/ Foreign \/ Refused \/ "me" \in waiting ]_vars

\* A client whose family the server has revoked does not stay logged in, if
\* its realtime socket was ever started (AuthManager: the timer, request and
\* handleServerSessionRevoked).
DeadSessionEnds ==
    (logged /\ acc.fam \notin live) ~> (~logged \/ acc.fam \in live \/ stranded)

\* A session ends when, and only when, there is a cause.
SessionEndsForCause == EndsForCause /\ DeadSessionEnds

\* A login or a restored session brings up the realtime socket, or ends; the
\* exceptions are a restored session whose GET /v1/me got no answer, and one
\* that a refresh answered after the logout brought back (AuthManager::
\* fetchUserInfo, refreshAccessToken; CloudDeviceManager::startSync).
ComesOnline == logged ~> (sync = "open" \/ ~logged \/ stranded)
=============================================================================
