--------------------------- MODULE DesktopProofs ----------------------------
(***************************************************************************)
(* Proofs about DesktopAccount, for any number of logins, tokens and       *)
(* faults: the types, that the client presents a spent refresh token only  *)
(* after an answer with a new one was lost (SpentOnlyAfterLoss), and that  *)
(* a session ends only for a cause (EndsForCause).                         *)
(*                                                                         *)
(* Both rest on one refresh being under way at a time (OneSession) and on  *)
(* every token having been issued by a login (Issued).  The first follows  *)
(* from the token held being the newest of its family, or the newest being *)
(* on its way (Newest); the second from what a refusal says of the family  *)
(* it was given to (Verdicts).                                             *)
(*                                                                         *)
(* The second part is about ClientSessions, for any devices, connections   *)
(* and messages: the types, that everything kept beside the table of       *)
(* connections follows it (TablesAgree), and that with both pipes empty    *)
(* the table shows what the native program has (ViewConverges).  A table   *)
(* and a program that never look at each other agree in the end because    *)
(* of what the pipes hold: a connection that the table does not show as    *)
(* alive is ended or about to be (Doom), no command ends the one that it   *)
(* shows (Kept), and what the table shows of a connection, after the       *)
(* messages on their way, is what the native program has (Story).          *)
(***************************************************************************)
EXTENDS DesktopAccount, ClientSessions, SequenceTheorems, WellFoundedInduction, TLAPS

RequestStages == {"idle", "sent", "wait", "resent", "ok", "denied", "failed", "denied2",
                  "refused2"}
RequestCall == [stage : RequestStages, tok : Token]
RefreshCall == [stage : {"sent"} \cup Answers, tok : Token]

Typed ==
    /\ cur \in [Families -> Gens] /\ lapsed \in [Families -> Gens] /\ live \subseteq Families
    /\ acc \in Token /\ ref \in Token
    /\ logged \in BOOLEAN /\ timer \in BOOLEAN
    /\ refr \subseteq RefreshCall
    /\ waiting \subseteq Waiters
    /\ req \in [Reqs -> RequestCall]
    /\ login \in [stage : {"idle", "ok", "failed"}, fam : 0 .. MaxLogins]
    /\ out \in [stage : {"idle", "device", "session", "session_done"}, tok : Token]
    /\ sync \in {"off", "opening", "open"}
    /\ faults \in 0 .. MaxFaults
    /\ lost \in BOOLEAN /\ reused \in BOOLEAN /\ stranded \in BOOLEAN

\* One session, one refresh, and whoever waits waits for it.
OneSession ==
    /\ acc = ref
    /\ \A c, d \in refr : c = d
    /\ waiting # {} => refr # {}
    /\ \A r \in Reqs : req[r].stage = "wait" <=> r \in waiting

\* Every token belongs to a family that some login opened; the family of a
\* login whose answer is on its way is nobody's yet.
Known(t) == t.fam # 0 => cur[t.fam] > 0
Issued ==
    /\ Known(ref) /\ (\A c \in refr : Known(c.tok)) /\ (\A r \in Reqs : Known(req[r].tok))
    /\ \A f \in Families : lapsed[f] <= cur[f]
    /\ login.stage = "ok" =>
          /\ login.fam \in Families /\ cur[login.fam] = 1
          /\ ref.fam # login.fam
          /\ \A c \in refr : c.tok.fam # login.fam

\* A refusal to refresh, and a second 401, is given to a dead family only.
Verdicts ==
    /\ \A c \in refr :
          /\ c.stage = "ok" => c.tok.fam # 0 /\ c.tok.gen > lapsed[c.tok.fam]
          /\ c.stage = "denied" => c.tok.fam \notin live
    /\ \A r \in Reqs :
          /\ req[r].stage = "resent" => req[r].tok.fam # 0 /\ req[r].tok.gen > lapsed[req[r].tok.fam]
          /\ req[r].stage = "denied2" => req[r].tok.fam # 0 /\ req[r].tok.fam \notin live

\* Unless an answer was lost, the client holds the newest token of its family,
\* or the newest is on its way to it.
Newest(t) == t.fam \in live => t.gen = cur[t.fam]
Unspent ==
    /\ reused => lost
    /\ ~lost =>
          /\ Newest(ref) \/ \E c \in refr : c.stage = "ok" /\ c.tok.fam = ref.fam
          /\ \A c \in refr : c.stage \in {"sent", "ok"} => Newest(c.tok)

IInv == Typed /\ OneSession /\ Issued /\ Verdicts /\ Unspent

(***************************************************************************)
(* Facts about the parts of the state.                                     *)
(***************************************************************************)
\* NoToken is a token, of no family, and a call has no token but one of its own
\* (NoToken, Call).
LEMMA NoTokenFacts == NoToken \in Token /\ NoToken.fam = 0 /\ Idle = [stage |-> "idle", tok |-> NoToken]
BY AccountAssumption, SMT DEF NoToken, Token, Gens, Idle, Call

\* A request whose stage changes keeps its token, and the others stay as they
\* are (AuthManager::request).
LEMMA Marked ==
    ASSUME req \in [Reqs -> RequestCall], NEW r \in Reqs, NEW s \in RequestStages,
           req' = [req EXCEPT ![r].stage = s]
    PROVE  /\ req' \in [Reqs -> RequestCall]
           /\ req'[r].stage = s /\ req'[r].tok = req[r].tok
           /\ \A q \in Reqs : q # r => req'[q] = req[q]
<1>1. req[r] \in RequestCall
  OBVIOUS
<1>2. [req[r] EXCEPT !.stage = s] \in RequestCall
  BY <1>1 DEF RequestCall
<1>3. req' = [req EXCEPT ![r] = [req[r] EXCEPT !.stage = s]]
  OBVIOUS
<1>4. /\ [req[r] EXCEPT !.stage = s].stage = s
      /\ [req[r] EXCEPT !.stage = s].tok = req[r].tok
  BY <1>1 DEF RequestCall
<1> QED
  BY <1>2, <1>3, <1>4

\* A request that is replaced by another call (AuthManager::request).
LEMMA Replaced ==
    ASSUME req \in [Reqs -> RequestCall], NEW r \in Reqs, NEW v \in RequestCall,
           req' = [req EXCEPT ![r] = v]
    PROVE  /\ req' \in [Reqs -> RequestCall] /\ req'[r] = v
           /\ \A q \in Reqs : q # r => req'[q] = req[q]
OBVIOUS

\* A call that carries a token (Call, request).
LEMMA CallTyped ==
    ASSUME NEW s \in RequestStages, NEW t \in Token
    PROVE  Call(s, t) \in RequestCall /\ Call(s, t).stage = s /\ Call(s, t).tok = t
BY DEF Call, RequestCall

\* The requests that took part in no change keep what Issued and Verdicts say
\* of them; a request that is answered or sent says no more than its token does.
LEMMA IdleCall == Idle \in RequestCall /\ Idle.stage = "idle" /\ Idle.tok = NoToken
BY NoTokenFacts DEF Idle, Call, RequestCall, RequestStages

\* A token of the state is of a family in 0 .. MaxLogins, and family 0 is dead.
LEMMA TokenFacts ==
    ASSUME Typed, NEW t \in Token
    PROVE  /\ t.fam \in 0 .. MaxLogins /\ t.gen \in Nat /\ (t.fam # 0 <=> t.fam \in Families)
           /\ t.fam \in live => t.fam \in Families
           /\ t.fam # 0 => cur[t.fam] \in Nat /\ lapsed[t.fam] \in Nat
<1>1. t.fam \in 0 .. MaxLogins /\ t.gen \in 0 .. MaxGen
  BY DEF Token, Gens
<1>2. live \subseteq Families /\ cur \in [Families -> Gens] /\ lapsed \in [Families -> Gens]
  BY DEF Typed
<1>3. t.gen \in Nat /\ (t.fam # 0 <=> t.fam \in Families)
  BY <1>1, AccountAssumption DEF Families
<1>4. t.fam # 0 => cur[t.fam] \in Nat /\ lapsed[t.fam] \in Nat
  BY <1>2, <1>3, AccountAssumption DEF Gens
<1> QED
  BY <1>1, <1>2, <1>3, <1>4

\* With one call at most, removing it leaves none.
LEMMA LastCall ==
    ASSUME OneSession, NEW c \in refr
    PROVE  refr \ {c} = {} /\ refr = {c}
BY DEF OneSession

(***************************************************************************)
(* The initial state.                                                      *)
(***************************************************************************)
\* Before the first login there is no session, no call and no family
\* (AuthManager's constructor).
LEMMA InitInv == Init => IInv
<1> SUFFICES ASSUME Init PROVE IInv
  OBVIOUS
<1> USE NoTokenFacts, IdleCall
<1>1. Typed
  <2>1. cur \in [Families -> Gens] /\ lapsed \in [Families -> Gens]
    BY AccountAssumption DEF Init, Gens
  <2>2. req \in [Reqs -> RequestCall]
    BY DEF Init
  <2>3. faults \in 0 .. MaxFaults /\ login \in [stage : {"idle", "ok", "failed"}, fam : 0 .. MaxLogins]
    BY AccountAssumption DEF Init
  <2>4. out \in [stage : {"idle", "device", "session", "session_done"}, tok : Token]
    BY DEF Init
  <2> QED
    BY <2>1, <2>2, <2>3, <2>4 DEF Init, Typed
<1>2. OneSession
  BY DEF Init, OneSession
<1>3. Issued
  <2>1. \A f \in Families : lapsed[f] <= cur[f]
    BY DEF Init
  <2> QED
    BY <2>1 DEF Init, Issued, Known
<1>4. Verdicts
  BY DEF Init, Verdicts
<1>5. Unspent
  BY DEF Init, Unspent, Newest
<1> QED
  BY <1>1, <1>2, <1>3, <1>4, <1>5 DEF IInv

(***************************************************************************)
(* The server's steps.                                                     *)
(***************************************************************************)
\* A served request is refused for good only if its token is of a dead family:
\* a request sent again has a token that has not expired (AuthManager::request).
LEMMA ServeRequestInv ==
    ASSUME IInv, NEW r \in Reqs, ServeRequest(r)
    PROVE  IInv'
<1> DEFINE s == IF Accepts(req[r].tok) THEN "ok"
                ELSE IF req[r].stage = "resent" THEN "denied2" ELSE "denied"
<1>0. Typed /\ OneSession /\ Issued /\ Verdicts /\ Unspent
  BY DEF IInv
<1>1. /\ UNCHANGED <<cur, live, lapsed, acc, ref, logged, timer, sync, refr, waiting, login, out,
                     faults, lost, reused, stranded>>
      /\ req' = [req EXCEPT ![r].stage = s] /\ req[r].stage \in {"sent", "resent"}
  BY DEF ServeRequest, server, session, history
<1>2. s \in {"ok", "denied", "denied2"} /\ s \in RequestStages
  BY DEF RequestStages
<1>3. s = "denied2" => req[r].stage = "resent" /\ ~Accepts(req[r].tok)
  OBVIOUS
<1> HIDE DEF s
<1>4. /\ req' \in [Reqs -> RequestCall]
      /\ req'[r].stage = s /\ req'[r].tok = req[r].tok
      /\ \A q \in Reqs : q # r => req'[q] = req[q]
  BY <1>0, <1>1, <1>2, Marked DEF Typed
<1>5. Typed'
  BY <1>0, <1>1, <1>4 DEF Typed
<1>6. OneSession'
  BY <1>0, <1>1, <1>2, <1>4 DEF OneSession
<1>7. Issued'
  <2>1. \A q \in Reqs : req'[q].tok = req[q].tok
    BY <1>4
  <2> QED
    BY <1>0, <1>1, <2>1 DEF Issued, Known
<1>8. s = "denied2" => req[r].tok.fam # 0 /\ req[r].tok.fam \notin live
  BY <1>0, <1>3 DEF Verdicts, Accepts
<1>9. Verdicts'
  <2>1. \A q \in Reqs : req'[q] = req[q] \/ (q = r /\ req'[q].stage = s /\ req'[q].tok = req[r].tok)
    BY <1>4
  <2> QED
    BY <1>0, <1>1, <1>2, <1>8, <2>1 DEF Verdicts
<1>10. Unspent'
  BY <1>0, <1>1 DEF Unspent, Newest
<1> QED
  BY <1>5, <1>6, <1>7, <1>9, <1>10 DEF IInv

\* The refresh under way is answered (AuthManager::refreshAccessToken): what
\* its new state d must be for the invariant to hold.
LEMMA Answered ==
    ASSUME Typed, OneSession, NEW c \in refr, NEW d \in RefreshCall,
           refr' = (refr \ {c}) \cup {d}
    PROVE  refr' = {d}
BY LastCall

\* A refresh is answered: the newest token of its family is replaced by a
\* newer one, which is on its way, and a refused token was not the newest of a
\* live family.
LEMMA ServeRefreshInv ==
    ASSUME IInv, NEW c \in refr, ServeRefresh(c)
    PROVE  IInv'
<1> DEFINE f == c.tok.fam
<1>0. Typed /\ OneSession /\ Issued /\ Verdicts /\ Unspent
  BY DEF IInv
<1>1. /\ UNCHANGED <<lapsed, acc, ref, logged, timer, sync, waiting, req, login, out, faults,
                     lost, stranded>>
      /\ c.stage = "sent"
  BY DEF ServeRefresh, session
<1>2. c \in RefreshCall /\ c.tok \in Token /\ refr = {c} /\ c.tok.fam \in 0 .. MaxLogins
  BY <1>0, LastCall DEF Typed, RefreshCall, Token
<1>3. CASE f \in live /\ c.tok.gen = cur[f] /\ cur[f] < MaxGen
  <2> DEFINE d == [stage |-> "ok", tok |-> [fam |-> f, gen |-> cur[f] + 1]]
  <2>1. /\ cur' = [cur EXCEPT ![f] = cur[f] + 1] /\ UNCHANGED <<live, reused>>
        /\ refr' = (refr \ {c}) \cup {d}
    <3>1. cur[f] # MaxGen
      BY <1>3, AccountAssumption
    <3> QED
      BY <1>3, <3>1 DEF ServeRefresh
  <2>2. f \in Families /\ f # 0 /\ cur[f] \in Nat /\ cur[f] + 1 \in Gens /\ cur[f] \in Gens
    <3>1. f \in Families /\ f # 0 /\ cur[f] \in Nat
      BY <1>0, <1>2, <1>3, TokenFacts
    <3> QED
      BY <3>1, <1>3, AccountAssumption DEF Gens
  <2>3. d \in RefreshCall /\ d.stage = "ok" /\ d.tok.fam = f /\ d.tok.gen = cur[f] + 1
    BY <1>2, <2>2 DEF RefreshCall, Token, Answers
  <2> HIDE DEF d
  <2>4. refr' = {d}
    BY <1>0, <2>1, <2>3, Answered
  <2>5. /\ cur' \in [Families -> Gens] /\ cur'[f] = cur[f] + 1
        /\ \A g \in Families : g # f => cur'[g] = cur[g]
        /\ \A g \in Families : cur[g] <= cur'[g]
    <3>1. cur \in [Families -> Gens]
      BY <1>0 DEF Typed
    <3>2. \A g \in Families : cur[g] \in Nat
      BY <3>1, AccountAssumption DEF Gens
    <3> QED
      BY <2>1, <2>2, <3>1, <3>2
  <2>6. Typed'
    BY <1>0, <1>1, <2>1, <2>3, <2>4, <2>5 DEF Typed
  <2>7. OneSession'
    BY <1>0, <1>1, <2>4 DEF OneSession
  <2>8. \A t \in Token : Known(t) => Known(t)'
    <3> SUFFICES ASSUME NEW t \in Token, t.fam # 0, cur[t.fam] > 0
                 PROVE  cur'[t.fam] > 0
      BY DEF Known
    <3>1. t.fam \in Families /\ cur[t.fam] \in Nat
      BY <1>0, TokenFacts
    <3> QED
      BY <2>2, <2>5, <3>1
  <2>9. Issued'
    <3>1. Known(ref)' /\ \A q \in Reqs : Known(req[q].tok)'
      BY <1>0, <1>1, <2>8 DEF Issued, Typed, RequestCall, Known
    <3>2. \A x \in refr' : Known(x.tok)'
      BY <2>2, <2>3, <2>4, <2>5 DEF Known
    <3>3. \A g \in Families : lapsed'[g] <= cur'[g]
      <4> SUFFICES ASSUME NEW g \in Families PROVE lapsed[g] <= cur'[g]
        BY <1>1
      <4>1. lapsed[g] <= cur[g] /\ cur[g] <= cur'[g]
        BY <1>0, <2>5 DEF Issued
      <4>2. lapsed[g] \in Nat /\ cur[g] \in Nat /\ cur'[g] \in Nat
        BY <1>0, <2>5, AccountAssumption DEF Typed, Gens
      <4> QED
        BY <4>1, <4>2
    <3>4. login.stage = "ok" => f # login.fam /\ login.fam \in Families
      BY <1>0 DEF Issued
    <3>5. (login.stage = "ok" => /\ login.fam \in Families /\ cur[login.fam] = 1
                                 /\ ref.fam # login.fam
                                 /\ \A x \in refr : x.tok.fam # login.fam)'
      BY <1>0, <1>1, <2>3, <2>4, <2>5, <3>4 DEF Issued
    <3> QED
      BY <3>1, <3>2, <3>3, <3>5 DEF Issued
  <2>10. Verdicts'
    <3>1. d.tok.gen > lapsed[f]
      <4>1. lapsed[f] <= cur[f] /\ lapsed[f] \in Nat
        BY <1>0, <2>2, AccountAssumption DEF Issued, Typed, Gens
      <4> QED
        BY <2>2, <2>3, <4>1
    <3> QED
      BY <1>0, <1>1, <2>1, <2>2, <2>3, <2>4, <3>1 DEF Verdicts
  <2>11. Unspent'
    <3>1. reused' => lost'
      BY <1>0, <1>1, <2>1 DEF Unspent
    <3>2. d.tok.gen = cur'[d.tok.fam]
      BY <2>3, <2>5
    <3>3. ASSUME ~lost, ref.fam # f PROVE Newest(ref)'
      <4>1. Newest(ref)
        BY <1>0, <1>1, <1>2, <3>3 DEF Unspent
      <4>2. ref.fam \in live => ref.fam \in Families
        BY <1>0 DEF Typed
      <4> QED
        BY <1>1, <2>1, <2>5, <3>3, <4>1, <4>2 DEF Newest
    <3>4. (~lost)' => (Newest(ref) \/ \E x \in refr : x.stage = "ok" /\ x.tok.fam = ref.fam)'
      BY <1>1, <2>3, <2>4, <3>3
    <3>5. \A x \in refr' : x.tok.gen = cur'[x.tok.fam]
      BY <2>4, <3>2
    <3> QED
      BY <3>1, <3>4, <3>5 DEF Unspent, Newest
  <2> QED
    BY <2>6, <2>7, <2>9, <2>10, <2>11 DEF IInv
<1>4. CASE f \in live /\ c.tok.gen = cur[f] /\ cur[f] = MaxGen
  <2> DEFINE d == [stage |-> "failed", tok |-> c.tok]
  <2>1. UNCHANGED <<cur, live, reused>> /\ refr' = (refr \ {c}) \cup {d}
    <3>1. ~(cur[f] < MaxGen)
      BY <1>4, AccountAssumption
    <3> QED
      BY <1>4, <3>1 DEF ServeRefresh
  <2>2. d \in RefreshCall /\ d.stage = "failed" /\ d.tok = c.tok
    BY <1>2 DEF RefreshCall, Answers
  <2> HIDE DEF d
  <2>3. refr' = {d}
    BY <1>0, <2>1, <2>2, Answered
  <2>4. Typed'
    BY <1>0, <1>1, <2>1, <2>2, <2>3 DEF Typed
  <2>5. OneSession'
    BY <1>0, <1>1, <2>3 DEF OneSession
  <2>6. Issued'
    BY <1>0, <1>1, <1>2, <2>1, <2>2, <2>3 DEF Issued, Known
  <2>7. Verdicts'
    BY <1>0, <1>1, <2>1, <2>2, <2>3 DEF Verdicts
  <2>8. Unspent'
    BY <1>0, <1>1, <1>2, <2>1, <2>2, <2>3 DEF Unspent, Newest
  <2> QED
    BY <2>4, <2>5, <2>6, <2>7, <2>8 DEF IInv
<1>5. CASE ~(f \in live /\ c.tok.gen = cur[f])
  <2> DEFINE d == [stage |-> "denied", tok |-> c.tok]
  <2>1. /\ UNCHANGED cur /\ live' = live \ {f} /\ refr' = (refr \ {c}) \cup {d}
        /\ reused' = (reused \/ f \in live)
    BY <1>5 DEF ServeRefresh
  <2>2. d \in RefreshCall /\ d.stage = "denied" /\ d.tok = c.tok
    BY <1>2 DEF RefreshCall, Answers
  <2> HIDE DEF d
  <2>3. refr' = {d}
    BY <1>0, <2>1, <2>2, Answered
  <2>4. Typed'
    <3>1. live' \subseteq Families /\ refr' \subseteq RefreshCall
      BY <1>0, <2>1, <2>2, <2>3 DEF Typed
    <3>2. reused' \in BOOLEAN
      BY <2>1
    <3> QED
      BY <1>0, <1>1, <2>1, <3>1, <3>2 DEF Typed
  <2>5. OneSession'
    BY <1>0, <1>1, <2>3 DEF OneSession
  <2>6. Issued'
    BY <1>0, <1>1, <1>2, <2>1, <2>2, <2>3 DEF Issued, Known
  <2>7. Verdicts'
    BY <1>0, <1>1, <2>1, <2>2, <2>3 DEF Verdicts
  <2>8. Unspent'
    <3>1. f \in live => lost
      BY <1>0, <1>1, <1>5 DEF Unspent, Newest
    <3>2. reused' => lost'
      <4>1. CASE f \in live
        BY <1>1, <3>1, <4>1
      <4>2. CASE f \notin live
        BY <1>0, <1>1, <2>1, <4>2 DEF Unspent
      <4> QED
        BY <4>1, <4>2
    <3>3. ~lost => Newest(ref)
      BY <1>0, <1>1, <1>2 DEF Unspent
    <3>4. (~lost)' => Newest(ref)'
      BY <1>1, <2>1, <3>3 DEF Newest
    <3> QED
      BY <2>2, <2>3, <3>2, <3>4 DEF Unspent
  <2> QED
    BY <2>4, <2>5, <2>6, <2>7, <2>8 DEF IInv
<1> QED
  <2>1. \/ f \in live /\ c.tok.gen = cur[f] /\ cur[f] < MaxGen
        \/ f \in live /\ c.tok.gen = cur[f] /\ cur[f] = MaxGen
        \/ ~(f \in live /\ c.tok.gen = cur[f])
    BY DEF ServeRefresh
  <2> QED
    BY <1>3, <1>4, <1>5, <2>1

(***************************************************************************)
(* Most steps of the client issue no token and bring none: they drop the   *)
(* session or keep it, drop the refresh or ask for one with the token      *)
(* held, and answer, send or release requests.                             *)
(***************************************************************************)
Quiet ==
    /\ UNCHANGED <<cur, lapsed, reused>> /\ live' \subseteq live /\ (lost => lost')
    /\ acc' = ref' /\ ref' \in {ref, NoToken}
    /\ login' = login \/ login'.stage # "ok"
    /\ refr' \subseteq refr \cup {[stage |-> "sent", tok |-> ref]}
    /\ \A c, d \in refr' : c = d
    /\ \A c \in refr : c.stage = "ok" /\ c \notin refr' => lost'
    /\ waiting' # {} => refr' # {}
    /\ \A r \in Reqs :
          /\ req'[r].stage = "wait" <=> r \in waiting'
          /\ req'[r].tok \in {req[r].tok, ref, NoToken}
          /\ req'[r].stage \in {"resent", "denied2"} => req'[r] = req[r]

\* A step that brings no token keeps the invariant: a refresh is asked for only
\* when no newer token is on its way, or the newer token is lost (AuthManager).
LEMMA QuietInv ==
    ASSUME IInv, Typed', Quiet
    PROVE  IInv'
<1> DEFINE new == [stage |-> "sent", tok |-> ref]
<1>0. Typed /\ OneSession /\ Issued /\ Verdicts /\ Unspent
  BY DEF IInv
<1>1. new.stage = "sent" /\ new.tok = ref
  OBVIOUS
<1>2. /\ \A c \in refr' : c \in refr \/ c = new
      /\ live \subseteq Families /\ NoToken.fam = 0 /\ 0 \notin live
  BY <1>0, NoTokenFacts, AccountAssumption DEF Quiet, Typed, Families
<1> HIDE DEF new
<1>3. OneSession'
  BY DEF Quiet, OneSession
<1>4. Issued'
  <2>1. Known(ref)'
    BY <1>0, <1>2 DEF Quiet, Issued, Known
  <2>2. \A c \in refr' : Known(c.tok)'
    BY <1>0, <1>1, <1>2 DEF Quiet, Issued, Known
  <2>3. \A r \in Reqs : Known(req[r].tok)'
    BY <1>0, <1>2 DEF Quiet, Issued, Known
  <2>4. (\A f \in Families : lapsed[f] <= cur[f])'
    BY <1>0 DEF Quiet, Issued
  <2>5. (login.stage = "ok" =>
            /\ login.fam \in Families /\ cur[login.fam] = 1
            /\ ref.fam # login.fam
            /\ \A c \in refr : c.tok.fam # login.fam)'
    <3>1. login.stage = "ok" => login.fam # 0
      BY <1>0, AccountAssumption DEF Issued, Families
    <3> QED
      BY <1>0, <1>1, <1>2, <3>1 DEF Quiet, Issued
  <2> QED
    BY <2>1, <2>2, <2>3, <2>4, <2>5 DEF Issued
<1>5. Verdicts'
  <2>1. (\A c \in refr :
            /\ c.stage = "ok" => c.tok.fam # 0 /\ c.tok.gen > lapsed[c.tok.fam]
            /\ c.stage = "denied" => c.tok.fam \notin live)'
    BY <1>0, <1>1, <1>2 DEF Quiet, Verdicts
  <2>2. (\A r \in Reqs :
            /\ req[r].stage = "resent" =>
                  req[r].tok.fam # 0 /\ req[r].tok.gen > lapsed[req[r].tok.fam]
            /\ req[r].stage = "denied2" => req[r].tok.fam # 0 /\ req[r].tok.fam \notin live)'
    BY <1>0 DEF Quiet, Verdicts
  <2> QED
    BY <2>1, <2>2 DEF Verdicts
<1>6. Unspent'
  <2>1. reused' => lost'
    BY <1>0 DEF Quiet, Unspent
  <2>2. ASSUME ~lost' PROVE (Newest(ref) \/ \E c \in refr : c.stage = "ok" /\ c.tok.fam = ref.fam)'
    <3>1. ~lost
      BY <2>2 DEF Quiet
    <3>2. CASE ref' = NoToken
      BY <1>2, <3>2 DEF Quiet, Newest
    <3>3. CASE ref' = ref
      <4>1. CASE Newest(ref)
        BY <3>3, <4>1 DEF Quiet, Newest
      <4>2. CASE \E c \in refr : c.stage = "ok" /\ c.tok.fam = ref.fam
        BY <2>2, <3>3, <4>2 DEF Quiet
      <4> QED
        BY <1>0, <3>1, <4>1, <4>2 DEF Unspent
    <3> QED
      BY <3>2, <3>3 DEF Quiet
  <2>3. ASSUME ~lost', NEW c \in refr', c.stage \in {"sent", "ok"} PROVE Newest(c.tok)'
    <3>1. ~lost
      BY <2>3 DEF Quiet
    <3>2. CASE c \in refr
      BY <1>0, <2>3, <3>1, <3>2 DEF Quiet, Unspent, Newest
    <3>3. CASE c = new
      <4>1. \A d \in refr : d.stage # "ok"
        BY <1>1, <2>3, <3>3 DEF Quiet
      <4>2. Newest(ref)
        BY <1>0, <3>1, <4>1 DEF Unspent
      <4> QED
        BY <1>1, <3>3, <4>2 DEF Quiet, Newest
    <3> QED
      BY <1>2, <3>2, <3>3
  <2> QED
    BY <2>1, <2>2, <2>3 DEF Unspent
<1> QED
  BY <1>3, <1>4, <1>5, <1>6 DEF IInv

\* A step that leaves tokens and calls alone keeps the invariant, whatever
\* session of no token or of this one it leaves (clearSession, startSync).
LEMMA Aside ==
    ASSUME IInv, Typed', UNCHANGED <<cur, lapsed, reused, lost, refr, waiting, req>>,
           live' \subseteq live, login' = login \/ login'.stage # "ok",
           acc' = ref', ref' \in {ref, NoToken}
    PROVE  IInv'
<1>1. Quiet
  BY DEF IInv, OneSession, Verdicts, Quiet
<1> QED
  BY <1>1, QuietInv

\* A session that is cleared, and one that is not (clearSession).
LEMMA Cleared ==
    ASSUME Typed, acc = ref, clearSession \/ UNCHANGED session
    PROVE  /\ acc' = ref' /\ ref' \in {ref, NoToken} /\ acc' \in Token /\ ref' \in Token
           /\ logged' \in BOOLEAN /\ timer' \in BOOLEAN /\ sync' \in {"off", "opening", "open"}
BY NoTokenFacts DEF Typed, clearSession, session

\* A revocation by the server or a logout that reaches it (session.revoked,
\* DELETE /v1/sessions/current): less is live, nothing else changes.
LEMMA ServerEndsInv ==
    ASSUME IInv, ServeLogout \/ \E f \in Families : FamilyRevoked(f)
    PROVE  IInv'
<1>0. Typed /\ acc = ref
  BY DEF IInv, OneSession
<1>1. CASE ServeLogout
  <2>1. /\ UNCHANGED <<cur, lapsed, reused, lost, refr, waiting, req, login, acc, ref, logged,
                       timer, sync, faults, stranded>>
        /\ live' \subseteq live /\ out' = [out EXCEPT !.stage = "session_done"]
    BY <1>1 DEF ServeLogout, session, history
  <2>2. out' \in [stage : {"idle", "device", "session", "session_done"}, tok : Token]
    BY <1>0, <2>1 DEF Typed
  <2>3. Typed'
    BY <1>0, <2>1, <2>2 DEF Typed
  <2> QED
    BY <1>0, <2>1, <2>3, Aside
<1>2. CASE \E f \in Families : FamilyRevoked(f)
  <2>1. /\ UNCHANGED <<cur, lapsed, reused, lost, refr, waiting, req, login, acc, ref, logged,
                       timer, sync, out, stranded>>
        /\ live' \subseteq live /\ Fault
    BY <1>2 DEF FamilyRevoked, session, history
  <2>2. faults' \in 0 .. MaxFaults
    BY <1>0, <2>1, AccountAssumption DEF Fault, Typed
  <2>3. Typed'
    BY <1>0, <2>1, <2>2 DEF Typed
  <2> QED
    BY <1>0, <2>1, <2>3, Aside
<1> QED
  BY <1>1, <1>2

(***************************************************************************)
(* Logout and the realtime socket.                                         *)
(***************************************************************************)
\* Logging out takes two calls, of which the second clears the session
\* (AuthManager::logout).
LEMMA LogoutInv ==
    ASSUME IInv, Logout \/ LogoutReply
    PROVE  IInv'
<1>0. Typed /\ acc = ref /\ acc \in Token
  BY DEF IInv, OneSession, Typed
<1>1. /\ UNCHANGED <<cur, live, lapsed, reused, lost, refr, waiting, req, login, faults, stranded>>
      /\ clearSession \/ UNCHANGED session
  BY DEF Logout, LogoutReply, server, history
<1>2. out' \in [stage : {"idle", "device", "session", "session_done"}, tok : Token]
  BY <1>0, IdleCall, NoTokenFacts DEF Logout, LogoutReply, Call, Idle
<1>3. /\ acc' = ref' /\ ref' \in {ref, NoToken} /\ acc' \in Token /\ ref' \in Token
      /\ logged' \in BOOLEAN /\ timer' \in BOOLEAN /\ sync' \in {"off", "opening", "open"}
  BY <1>0, <1>1, Cleared
<1>4. Typed'
  BY <1>0, <1>1, <1>2, <1>3 DEF Typed
<1> QED
  BY <1>1, <1>3, <1>4, Aside

\* A request is sent with the token held (AuthManager::request,
\* CloudDeviceManager).
LEMMA Sent ==
    ASSUME IInv, req["get"].stage = "idle", req' = request("get"), faults' \in 0 .. MaxFaults,
           UNCHANGED <<cur, live, lapsed, reused, lost, acc, ref, refr, waiting, login, out,
                       logged, timer, sync, stranded>>
    PROVE  IInv'
<1>0. Typed /\ OneSession /\ acc \in Token /\ "get" \in Reqs
  BY DEF IInv, Typed, Reqs
<1>1. /\ Call("sent", acc) \in RequestCall /\ Call("sent", acc).stage = "sent"
      /\ Call("sent", acc).tok = acc
  BY <1>0, CallTyped DEF RequestStages
<1>2. /\ req' \in [Reqs -> RequestCall] /\ req'["get"] = Call("sent", acc)
      /\ \A q \in Reqs : q # "get" => req'[q] = req[q]
  BY <1>0, <1>1, Replaced DEF request, Typed
<1>3. Typed'
  BY <1>0, <1>2 DEF Typed
<1>4. \A r \in Reqs :
          /\ req'[r].stage = "wait" <=> r \in waiting'
          /\ req'[r].tok \in {req[r].tok, ref, NoToken}
          /\ req'[r].stage \in {"resent", "denied2"} => req'[r] = req[r]
  <2> SUFFICES ASSUME NEW r \in Reqs
               PROVE  /\ req'[r].stage = "wait" <=> r \in waiting
                      /\ req'[r].tok \in {req[r].tok, ref, NoToken}
                      /\ req'[r].stage \in {"resent", "denied2"} => req'[r] = req[r]
    OBVIOUS
  <2>1. CASE r = "get"
    BY <1>0, <1>1, <1>2, <2>1 DEF OneSession
  <2>2. CASE r # "get"
    BY <1>0, <1>2, <2>2 DEF OneSession
  <2> QED
    BY <2>1, <2>2
<1>5. Quiet
  BY <1>0, <1>4 DEF Quiet, OneSession
<1> QED
  BY <1>3, <1>5, QuietInv

\* Requests and the realtime socket's authentication (CloudDeviceManager).
LEMMA SendInv ==
    ASSUME IInv, Request \/ SyncAuth
    PROVE  IInv'
<1>0. faults \in 0 .. MaxFaults
  BY DEF IInv, Typed
<1>1. CASE Request
  BY <1>0, <1>1, Sent DEF Request, server, session, history
<1>2. CASE SyncAuth
  <2>0. UNCHANGED <<cur, live, lapsed, reused, lost, acc, ref, refr, waiting, login, out,
                    logged, timer, stranded>>
    BY <1>2 DEF SyncAuth, server, history
  <2>3. faults' \in 0 .. MaxFaults
    BY <1>0, <1>2, AccountAssumption DEF SyncAuth, Fault
  <2>1. CASE req["get"].stage = "idle" /\ req' = request("get") /\ UNCHANGED sync
    BY <2>0, <2>1, <2>3, Sent
  <2>2. CASE sync' = "open" /\ UNCHANGED <<req, faults>>
    <3>0. Typed /\ acc = ref
      BY DEF IInv, OneSession
    <3>1. sync' \in {"off", "opening", "open"} /\ UNCHANGED req /\ UNCHANGED faults
      BY <2>2
    <3>2. Typed'
      BY <2>0, <3>0, <3>1 DEF Typed
    <3> QED
      BY <2>0, <3>0, <3>1, <3>2, Aside
  <2> QED
    BY <1>2, <2>1, <2>2 DEF SyncAuth
<1> QED
  BY <1>1, <1>2

\* The realtime socket ends with the family, or is lost
\* (handleServerSessionRevoked).
LEMMA SyncEndsInv ==
    ASSUME IInv, SyncEnds
    PROVE  IInv'
<1>0. Typed /\ acc = ref
  BY DEF IInv, OneSession
<1>1. UNCHANGED <<cur, live, lapsed, reused, lost, refr, waiting, req, login, out, stranded>>
  BY DEF SyncEnds, server, history
<1>2. /\ acc' = ref' /\ ref' \in {ref, NoToken} /\ acc' \in Token /\ ref' \in Token
      /\ logged' \in BOOLEAN /\ timer' \in BOOLEAN /\ sync' \in {"off", "opening", "open"}
  <2>1. CASE clearSession
    BY <1>0, <2>1, Cleared
  <2>2. CASE sync' = "opening" /\ UNCHANGED <<acc, ref, logged, timer>>
    BY <1>0, <2>2 DEF Typed
  <2> QED
    BY <2>1, <2>2 DEF SyncEnds
<1>3. faults' \in 0 .. MaxFaults
  BY <1>0, AccountAssumption DEF SyncEnds, Fault, Typed
<1>4. Typed'
  BY <1>0, <1>1, <1>2, <1>3 DEF Typed
<1> QED
  BY <1>1, <1>2, <1>4, Aside

(***************************************************************************)
(* Refreshes and the requests that wait for them.                          *)
(***************************************************************************)
\* A refresh that is joined is the one under way, or a new one with the token
\* held (AuthManager::refreshAccessToken).
LEMMA Joined ==
    ASSUME Typed, OneSession, NEW w \in Waiters, joinRefresh(w)
    PROVE  /\ refr' \subseteq refr \cup {[stage |-> "sent", tok |-> ref]}
           /\ refr' \subseteq RefreshCall
           /\ \A c, d \in refr' : c = d
           /\ \A c \in refr : c \in refr'
           /\ refr' # {} /\ waiting' = waiting \cup {w} /\ waiting' \subseteq Waiters
<1>1. [stage |-> "sent", tok |-> ref] \in RefreshCall
  BY DEF Typed, RefreshCall
<1>2. refr \subseteq RefreshCall /\ waiting \subseteq Waiters
  BY DEF Typed
<1>3. \A c, d \in refr : c = d
  BY DEF OneSession
<1> QED
  BY <1>1, <1>2, <1>3 DEF joinRefresh

\* The timer refreshes before the access token expires
\* (scheduleAccessTokenRefresh).
LEMMA TimerInv ==
    ASSUME IInv, TimerFires
    PROVE  IInv'
<1>0. Typed /\ OneSession /\ acc = ref /\ "timer" \in Waiters /\ "timer" \notin Reqs
  BY DEF IInv, OneSession, Waiters, Reqs
<1>1. /\ UNCHANGED <<cur, live, lapsed, reused, lost, acc, ref, logged, sync, req, login, out,
                     faults, stranded>>
      /\ timer' = FALSE
  BY DEF TimerFires, server, history
<1>2. CASE joinRefresh("timer")
  <2>1. /\ refr' \subseteq refr \cup {[stage |-> "sent", tok |-> ref]}
        /\ refr' \subseteq RefreshCall
        /\ \A c, d \in refr' : c = d
        /\ \A c \in refr : c \in refr'
        /\ refr' # {} /\ waiting' = waiting \cup {"timer"} /\ waiting' \subseteq Waiters
    BY <1>0, <1>2, Joined
  <2>2. Typed'
    BY <1>0, <1>1, <2>1 DEF Typed
  <2>3. Quiet
    BY <1>0, <1>1, <2>1 DEF Quiet, OneSession
  <2> QED
    BY <2>2, <2>3, QuietInv
<1>3. CASE UNCHANGED <<refr, waiting>>
  <2>1. Typed'
    BY <1>0, <1>1, <1>3 DEF Typed
  <2> QED
    BY <1>0, <1>1, <1>3, <2>1, Aside
<1> QED
  BY <1>2, <1>3 DEF TimerFires

\* A request that meets a 401 joins a refresh; any other answer is told to the
\* caller, which may end the session (AuthManager::request, fetchUserInfo).
LEMMA ReplyInv ==
    ASSUME IInv, NEW r \in Reqs, Reply(r)
    PROVE  IInv'
<1>0. Typed /\ OneSession /\ acc = ref /\ r \in Waiters
  BY DEF IInv, OneSession, Waiters
<1>1. /\ UNCHANGED <<cur, live, lapsed, reused, lost, login, out, faults>>
      /\ req[r].stage \in {"ok", "failed", "denied", "denied2", "refused2"}
  BY DEF Reply, server
<1>2. CASE req[r].stage = "denied" /\ logged /\ ref # NoToken
  <2>1. /\ joinRefresh(r) /\ req' = [req EXCEPT ![r].stage = "wait"]
        /\ UNCHANGED <<acc, ref, logged, timer, sync, stranded>>
    BY <1>2 DEF Reply, session
  <2>2. /\ refr' \subseteq refr \cup {[stage |-> "sent", tok |-> ref]}
        /\ refr' \subseteq RefreshCall
        /\ \A c, d \in refr' : c = d
        /\ \A c \in refr : c \in refr'
        /\ refr' # {} /\ waiting' = waiting \cup {r} /\ waiting' \subseteq Waiters
    BY <1>0, <2>1, Joined
  <2>3. /\ req' \in [Reqs -> RequestCall]
        /\ req'[r].stage = "wait" /\ req'[r].tok = req[r].tok
        /\ \A q \in Reqs : q # r => req'[q] = req[q]
    BY <1>0, <2>1, Marked DEF RequestStages, Typed
  <2>4. Typed'
    BY <1>0, <1>1, <2>1, <2>2, <2>3 DEF Typed
  <2>5. \A q \in Reqs :
          /\ req'[q].stage = "wait" <=> q \in waiting'
          /\ req'[q].tok \in {req[q].tok, ref, NoToken}
          /\ req'[q].stage \in {"resent", "denied2"} => req'[q] = req[q]
    BY <1>0, <2>2, <2>3 DEF OneSession
  <2>6. Quiet
    BY <1>0, <1>1, <2>1, <2>2, <2>5 DEF Quiet
  <2> QED
    BY <2>4, <2>6, QuietInv
<1>3. CASE ~(req[r].stage = "denied" /\ logged /\ ref # NoToken)
  <2>1. /\ req' = [req EXCEPT ![r] = Idle] /\ UNCHANGED <<refr, waiting>>
        /\ \/ secondDenied
           \/ clearSession /\ UNCHANGED stranded
           \/ callback(r, req[r].stage)
    BY <1>3 DEF Reply
  <2>2. /\ acc' = ref' /\ ref' \in {ref, NoToken} /\ acc' \in Token /\ ref' \in Token
        /\ logged' \in BOOLEAN /\ timer' \in BOOLEAN /\ sync' \in {"off", "opening", "open"}
        /\ stranded' \in BOOLEAN
    <3>1. CASE (clearSession \/ UNCHANGED session) /\ stranded' \in BOOLEAN
      BY <1>0, <3>1, Cleared
    <3>2. CASE /\ logged' = TRUE /\ sync' = "opening" /\ UNCHANGED <<acc, ref, timer>>
               /\ stranded' \in BOOLEAN
      BY <1>0, <3>2 DEF Typed
    <3>3. stranded' \in BOOLEAN
      BY <1>0, <2>1 DEF callback, secondDenied, Typed
    <3>4. CASE secondDenied \/ (clearSession /\ UNCHANGED stranded)
      BY <3>1, <3>3, <3>4 DEF secondDenied
    <3>5. CASE callback(r, req[r].stage)
      BY <3>1, <3>2, <3>3, <3>5 DEF callback
    <3> QED
      BY <2>1, <3>4, <3>5
  <2>3. /\ req' \in [Reqs -> RequestCall] /\ req'[r] = Idle
        /\ \A q \in Reqs : q # r => req'[q] = req[q]
    BY <1>0, <2>1, IdleCall, Replaced DEF Typed
  <2>4. Typed'
    BY <1>0, <1>1, <2>1, <2>2, <2>3 DEF Typed
  <2>5. \A q \in Reqs :
          /\ req'[q].stage = "wait" <=> q \in waiting'
          /\ req'[q].tok \in {req[q].tok, ref, NoToken}
          /\ req'[q].stage \in {"resent", "denied2"} => req'[q] = req[q]
    BY <1>0, <1>1, <2>1, <2>3, IdleCall DEF OneSession
  <2>6. Quiet
    BY <1>0, <1>1, <2>1, <2>2, <2>5 DEF Quiet, OneSession
  <2> QED
    BY <2>4, <2>6, QuietInv
<1> QED
  BY <1>2, <1>3

\* Requests that are released wait no more, and say no more than their token
\* did (AuthManager::refreshAccessToken's queue).
LEMMA Released ==
    ASSUME Typed, OneSession, req' = released, waiting' = {}
    PROVE  /\ req' \in [Reqs -> RequestCall]
           /\ \A r \in Reqs :
                 /\ req'[r].stage = "wait" <=> r \in waiting'
                 /\ req'[r].tok \in {req[r].tok, ref, NoToken}
                 /\ req'[r].stage \in {"resent", "denied2"} => req'[r] = req[r]
BY IdleCall DEF released, Typed, OneSession

\* A refresh that is refused ends the session, one that is not answered keeps
\* it, unless fetchUserInfo waited for it (AuthManager::refreshAccessToken).
LEMMA RefusedInv ==
    ASSUME IInv, NEW c \in refr, RefreshDenied(c) \/ RefreshUnavailable(c)
    PROVE  IInv'
<1>0. Typed /\ OneSession /\ acc = ref
  BY DEF IInv, OneSession
<1>1. /\ UNCHANGED <<cur, live, lapsed, reused, lost, login, out, faults, stranded>>
      /\ refr' = refr \ {c} /\ waiting' = {} /\ req' = released /\ c.stage # "ok"
  BY DEF RefreshDenied, RefreshUnavailable, server, history
<1>2. refr' = {} /\ refr = {c}
  BY <1>0, <1>1, LastCall
<1>3. /\ acc' = ref' /\ ref' \in {ref, NoToken} /\ acc' \in Token /\ ref' \in Token
      /\ logged' \in BOOLEAN /\ timer' \in BOOLEAN /\ sync' \in {"off", "opening", "open"}
  <2>1. CASE clearSession
    BY <1>0, <2>1, Cleared
  <2>2. CASE /\ timer' = (timer \/ ("timer" \in waiting /\ logged /\ ref # NoToken))
             /\ UNCHANGED <<acc, ref, logged, sync>>
    <3>1. timer' \in BOOLEAN
      BY <2>2
    <3> QED
      BY <1>0, <2>2, <3>1 DEF Typed
  <2> QED
    BY <2>1, <2>2 DEF RefreshDenied, RefreshUnavailable
<1>4. /\ req' \in [Reqs -> RequestCall]
      /\ \A r \in Reqs :
            /\ req'[r].stage = "wait" <=> r \in waiting'
            /\ req'[r].tok \in {req[r].tok, ref, NoToken}
            /\ req'[r].stage \in {"resent", "denied2"} => req'[r] = req[r]
  BY <1>0, <1>1, Released
<1>5. Typed'
  BY <1>0, <1>1, <1>2, <1>3, <1>4 DEF Typed
<1>6. Quiet
  BY <1>0, <1>1, <1>2, <1>3, <1>4 DEF Quiet
<1> QED
  BY <1>5, <1>6, QuietInv

\* A refresh that is granted replaces the session's token, and its callers go
\* on with the new one (applyTokens).
LEMMA GrantedInv ==
    ASSUME IInv, NEW c \in refr, RefreshGranted(c)
    PROVE  IInv'
<1> DEFINE t == c.tok
<1>0. Typed /\ OneSession /\ Issued /\ Verdicts /\ Unspent
  BY DEF IInv
<1>1. /\ UNCHANGED <<cur, live, lapsed, reused, lost, login, out, faults, sync>>
      /\ refr' = refr \ {c} /\ waiting' = {} /\ c.stage = "ok" /\ req' = resent(t)
      /\ acc' = t /\ ref' = t /\ logged' = TRUE /\ timer' = TRUE
      /\ stranded' = (stranded \/ (~logged /\ "restore" \notin waiting))
  BY DEF RefreshGranted, server, applyTokens
<1>2. refr' = {} /\ t \in Token /\ Known(t) /\ t.fam # 0 /\ t.gen > lapsed[t.fam]
  BY <1>0, <1>1, LastCall DEF Issued, Verdicts, Typed, RefreshCall
<1>3. /\ Call("resent", t) \in RequestCall /\ Call("sent", t) \in RequestCall
      /\ Call("resent", t).stage = "resent" /\ Call("resent", t).tok = t
      /\ Call("sent", t).stage = "sent" /\ Call("sent", t).tok = t
  BY <1>2, CallTyped DEF RequestStages
<1>4. \A r \in Reqs : \/ req'[r] = Call("resent", t)
                      \/ req'[r] = Call("sent", t)
                      \/ req'[r] = req[r] /\ req[r].stage # "wait"
  <2> HIDE DEF t
  <2> SUFFICES ASSUME NEW r \in Reqs
               PROVE  \/ req'[r] = Call("resent", t)
                      \/ req'[r] = Call("sent", t)
                      \/ req'[r] = req[r] /\ req[r].stage # "wait"
    OBVIOUS
  <2> QED
    BY <1>0, <1>1 DEF resent, OneSession
<1>5. req' \in [Reqs -> RequestCall]
  <2>1. \A r \in Reqs : req'[r] \in RequestCall
    BY <1>0, <1>3, <1>4 DEF Typed
  <2>2. req' = [r \in Reqs |-> req'[r]]
    BY <1>1 DEF resent
  <2> QED
    BY <2>1, <2>2
<1>6. Typed'
  <2>1. stranded' \in BOOLEAN
    BY <1>1
  <2> QED
    BY <1>0, <1>1, <1>2, <1>5, <2>1 DEF Typed
<1>7. OneSession'
  BY <1>0, <1>1, <1>2, <1>3, <1>4 DEF OneSession
<1>8. Issued'
  <2>1. Known(ref)' /\ \A x \in refr' : Known(x.tok)'
    BY <1>1, <1>2 DEF Known
  <2>2. \A r \in Reqs : Known(req[r].tok)'
    BY <1>0, <1>1, <1>2, <1>3, <1>4 DEF Issued, Known
  <2>3. (\A f \in Families : lapsed[f] <= cur[f])'
    BY <1>0, <1>1 DEF Issued
  <2>4. (login.stage = "ok" =>
            /\ login.fam \in Families /\ cur[login.fam] = 1
            /\ ref.fam # login.fam
            /\ \A x \in refr : x.tok.fam # login.fam)'
    BY <1>0, <1>1, <1>2 DEF Issued
  <2> QED
    BY <2>1, <2>2, <2>3, <2>4 DEF Issued
<1>9. Verdicts'
  BY <1>0, <1>1, <1>2, <1>3, <1>4 DEF Verdicts
<1>10. Unspent'
  BY <1>0, <1>1, <1>2 DEF Unspent, Newest
<1> QED
  BY <1>6, <1>7, <1>8, <1>9, <1>10 DEF IInv

\* An access token expires; none that has just been minted does.
LEMMA ExpiresInv ==
    ASSUME IInv, NEW f \in Families, AccessExpires(f)
    PROVE  IInv'
<1>0. Typed /\ OneSession /\ Issued /\ Verdicts /\ Unspent
  BY DEF IInv
<1>1. /\ UNCHANGED <<cur, live, acc, ref, logged, timer, sync, refr, waiting, req, login, out,
                     lost, reused, stranded>>
      /\ lapsed' = [lapsed EXCEPT ![f] = cur[f]] /\ Fault
      /\ \A r \in Reqs : req[r].stage # "resent"
      /\ \A c \in refr : c.stage # "ok"
  BY DEF AccessExpires, session, history
<1>2. Typed'
  <2>1. faults' \in 0 .. MaxFaults
    BY <1>0, <1>1, AccountAssumption DEF Fault, Typed
  <2>2. lapsed' \in [Families -> Gens]
    BY <1>0, <1>1 DEF Typed
  <2> QED
    BY <1>0, <1>1, <2>1, <2>2 DEF Typed
<1>3. OneSession'
  BY <1>0, <1>1 DEF OneSession
<1>4. Issued'
  <2>1. (\A g \in Families : lapsed[g] <= cur[g])'
    <3>1. \A g \in Families : cur[g] \in Nat
      BY <1>0, AccountAssumption DEF Typed, Gens
    <3>2. \A g \in Families : lapsed'[g] \in {lapsed[g], cur[g]}
      BY <1>0, <1>1 DEF Typed
    <3> QED
      BY <1>0, <1>1, <3>1, <3>2 DEF Issued
  <2> QED
    BY <1>0, <1>1, <2>1 DEF Issued, Known
<1>5. Verdicts'
  BY <1>0, <1>1 DEF Verdicts
<1>6. Unspent'
  BY <1>0, <1>1 DEF Unspent, Newest
<1> QED
  BY <1>2, <1>3, <1>4, <1>5, <1>6 DEF IInv

(***************************************************************************)
(* Logins.                                                                 *)
(***************************************************************************)
\* A login opens a family that no token is of (AuthManager::login).
LEMMA LoginInv ==
    ASSUME IInv, Login
    PROVE  IInv'
<1>0. Typed /\ OneSession /\ Issued /\ Verdicts /\ Unspent
  BY DEF IInv
<1>1. UNCHANGED <<lapsed, acc, ref, logged, timer, sync, refr, waiting, req, out, faults, lost,
                  reused, stranded>>
  BY DEF Login, session, history
<1>2. PICK f \in Families :
         /\ cur[f] = 0 /\ cur' = [cur EXCEPT ![f] = 1] /\ live' = live \cup {f}
         /\ login' = [stage |-> "ok", fam |-> f]
  BY DEF Login
<1>3. f # 0 /\ f \in 0 .. MaxLogins /\ login'.stage = "ok" /\ login'.fam = f
  BY <1>2, AccountAssumption DEF Families
<1>4. cur' \in [Families -> Gens] /\ cur'[f] = 1 /\ \A g \in Families : g # f => cur'[g] = cur[g]
  BY <1>0, <1>2, AccountAssumption DEF Typed, Gens
<1>5. Typed'
  BY <1>0, <1>1, <1>2, <1>3, <1>4 DEF Typed
<1>6. OneSession'
  BY <1>0, <1>1 DEF OneSession
<1>7. \A t \in Token : Known(t) => /\ t.fam # f /\ Known(t)'
                                   /\ (t.fam \in live' <=> t.fam \in live)
                                   /\ t.fam \in live => cur'[t.fam] = cur[t.fam]
  <2> SUFFICES ASSUME NEW t \in Token, Known(t)
               PROVE  /\ t.fam # f /\ (t.fam # 0 => cur'[t.fam] > 0)
                      /\ (t.fam \in live' <=> t.fam \in live)
                      /\ t.fam \in live => cur'[t.fam] = cur[t.fam]
    BY DEF Known
  <2>1. t.fam # 0 => t.fam \in Families
    BY <1>0, TokenFacts
  <2>2. t.fam # f
    BY <1>2, <1>3 DEF Known
  <2>3. t.fam \in live => t.fam \in Families
    BY <1>0 DEF Typed
  <2> QED
    BY <1>2, <1>4, <2>1, <2>2, <2>3 DEF Known
<1>8. /\ ref \in Token /\ Known(ref)
      /\ \A c \in refr : c.tok \in Token /\ Known(c.tok)
      /\ \A r \in Reqs : req[r].tok \in Token /\ Known(req[r].tok)
  BY <1>0 DEF Typed, Issued, RefreshCall, RequestCall
<1>9. Issued'
  <2>1. Known(ref)' /\ (\A c \in refr : Known(c.tok))' /\ (\A r \in Reqs : Known(req[r].tok))'
    BY <1>1, <1>7, <1>8 DEF Known
  <2>2. (\A g \in Families : lapsed[g] <= cur[g])'
    BY <1>0, <1>1, <1>2, <1>4, AccountAssumption DEF Issued, Typed, Gens
  <2>3. ref'.fam # f /\ \A c \in refr' : c.tok.fam # f
    BY <1>1, <1>7, <1>8
  <2> QED
    BY <1>3, <1>4, <2>1, <2>2, <2>3 DEF Issued
<1>10. Verdicts'
  BY <1>0, <1>1, <1>7, <1>8 DEF Verdicts
<1>11. Unspent'
  <2>1. \A t \in Token : Known(t) /\ Newest(t) => Newest(t)'
    BY <1>7 DEF Newest
  <2>2. Newest(ref) => Newest(ref)'
    BY <1>1, <1>8, <2>1 DEF Newest
  <2>3. \A c \in refr : Newest(c.tok) => Newest(c.tok)'
    BY <1>8, <2>1
  <2> QED
    BY <1>0, <1>1, <2>2, <2>3 DEF Unspent
<1> QED
  BY <1>5, <1>6, <1>9, <1>10, <1>11 DEF IInv

\* The answer of a login brings the newest token of its family (applyTokens).
LEMMA LoginReplyInv ==
    ASSUME IInv, LoginReply
    PROVE  IInv'
<1> DEFINE t == [fam |-> login.fam, gen |-> 1]
<1>0. Typed /\ OneSession /\ Issued /\ Verdicts /\ Unspent
  BY DEF IInv
<1>1. /\ UNCHANGED <<cur, live, lapsed, refr, waiting, req, out, faults, lost, reused>>
      /\ login' = [stage |-> "idle", fam |-> 0]
  BY DEF LoginReply, server
<1>2. /\ login'.stage = "idle"
      /\ login' \in [stage : {"idle", "ok", "failed"}, fam : 0 .. MaxLogins]
  BY <1>1, AccountAssumption
<1>3. CASE login.stage # "ok"
  <2>1. UNCHANGED <<acc, ref, logged, timer, sync, stranded>>
    BY <1>3 DEF LoginReply, session
  <2>2. Typed'
    BY <1>0, <1>1, <1>2, <2>1 DEF Typed
  <2> QED
    BY <1>0, <1>1, <1>2, <2>1, <2>2, Aside DEF OneSession
<1>4. CASE login.stage = "ok"
  <2>1. /\ acc' = t /\ ref' = t /\ logged' = TRUE /\ timer' = TRUE /\ sync' = "opening"
        /\ stranded' = FALSE
    BY <1>4 DEF LoginReply, applyTokens
  <2>2. login.fam \in Families /\ cur[login.fam] = 1 /\ login.fam \in 0 .. MaxLogins
    BY <1>0, <1>4 DEF Issued, Typed
  <2>3. t \in Token /\ t.fam = login.fam /\ t.gen = 1
    BY <2>2, AccountAssumption DEF Token, Gens
  <2> HIDE DEF t
  <2>4. Typed'
    BY <1>0, <1>1, <1>2, <2>1, <2>3 DEF Typed
  <2>5. OneSession'
    BY <1>0, <1>1, <2>1 DEF OneSession
  <2>6. Issued'
    BY <1>0, <1>1, <1>2, <2>1, <2>2, <2>3 DEF Issued, Known
  <2>7. Verdicts'
    BY <1>0, <1>1 DEF Verdicts
  <2>8. Unspent'
    BY <1>0, <1>1, <2>1, <2>2, <2>3 DEF Unspent, Newest
  <2> QED
    BY <2>4, <2>5, <2>6, <2>7, <2>8 DEF IInv
<1> QED
  BY <1>3, <1>4

(***************************************************************************)
(* Lost calls and restarts.                                                *)
(***************************************************************************)
\* A lost call is one that failed; when it was the answer to a refresh, the
\* newest token went with it (HttpRequest's timeout).
LEMMA CallLostInv ==
    ASSUME IInv, CallLost
    PROVE  IInv'
<1>0. Typed /\ OneSession /\ Issued /\ Verdicts /\ Unspent /\ acc = ref
  BY DEF IInv, OneSession
<1>1. UNCHANGED <<cur, live, lapsed, acc, ref, logged, timer, sync, waiting, reused, stranded>>
  BY DEF CallLost, server, session
<1>2. faults' \in 0 .. MaxFaults
  BY <1>0, AccountAssumption DEF CallLost, Fault, Typed
<1>3. ASSUME NEW r \in Reqs,
             req[r].stage \in {"sent", "resent"}, req' = [req EXCEPT ![r].stage = "failed"],
             UNCHANGED <<refr, login, out, lost>>
      PROVE  IInv'
  <2>1. /\ req' \in [Reqs -> RequestCall]
        /\ req'[r].stage = "failed" /\ req'[r].tok = req[r].tok
        /\ \A q \in Reqs : q # r => req'[q] = req[q]
    BY <1>0, <1>3, Marked DEF RequestStages, Typed
  <2>2. Typed'
    BY <1>0, <1>1, <1>2, <1>3, <2>1 DEF Typed
  <2>3. \A q \in Reqs :
          /\ req'[q].stage = "wait" <=> q \in waiting'
          /\ req'[q].tok \in {req[q].tok, ref, NoToken}
          /\ req'[q].stage \in {"resent", "denied2"} => req'[q] = req[q]
    BY <1>0, <1>1, <1>3, <2>1 DEF OneSession
  <2>4. Quiet
    BY <1>0, <1>1, <1>3, <2>3 DEF Quiet, OneSession
  <2> QED
    BY <2>2, <2>4, QuietInv
<1>4. ASSUME NEW c \in refr,
             c.stage # "failed",
             refr' = (refr \ {c}) \cup {[stage |-> "failed", tok |-> c.tok]},
             lost' = (lost \/ c.stage = "ok"),
             UNCHANGED <<req, login, out>>
      PROVE  IInv'
  <2> DEFINE d == [stage |-> "failed", tok |-> c.tok]
  <2>1. c \in RefreshCall /\ refr = {c}
    BY <1>0, LastCall DEF Typed
  <2>2. d \in RefreshCall /\ d.stage = "failed" /\ d.tok = c.tok
    BY <2>1 DEF RefreshCall, Answers
  <2>3. refr' = {d}
    BY <1>4, <2>1
  <2> HIDE DEF d
  <2>4. Typed'
    <3>1. lost' \in BOOLEAN
      BY <1>4
    <3>2. refr' \subseteq RefreshCall
      BY <2>2, <2>3
    <3> QED
      BY <1>0, <1>1, <1>2, <1>4, <3>1, <3>2 DEF Typed
  <2>5. OneSession'
    BY <1>0, <1>1, <1>4, <2>3 DEF OneSession
  <2>6. Issued'
    BY <1>0, <1>1, <1>4, <2>1, <2>2, <2>3 DEF Issued, Known
  <2>7. Verdicts'
    BY <1>0, <1>1, <1>4, <2>2, <2>3 DEF Verdicts
  <2>8. Unspent'
    <3>1. lost => lost'
      BY <1>4
    <3>2. reused' => lost'
      BY <1>0, <1>1, <3>1 DEF Unspent
    <3>3. ~lost' => ~lost /\ c.stage # "ok"
      BY <1>4
    <3>4. ~lost' => Newest(ref)
      BY <1>0, <2>1, <3>3 DEF Unspent
    <3>5. ~lost' => Newest(ref)'
      BY <1>1, <3>4 DEF Newest
    <3> QED
      BY <2>2, <2>3, <3>2, <3>5 DEF Unspent
  <2> QED
    BY <2>4, <2>5, <2>6, <2>7, <2>8 DEF IInv
<1>5. CASE login' = [login EXCEPT !.stage = "failed"] /\ UNCHANGED <<refr, req, out, lost>>
  <2>1. /\ login' \in [stage : {"idle", "ok", "failed"}, fam : 0 .. MaxLogins]
        /\ login'.stage = "failed"
    BY <1>0, <1>5 DEF Typed
  <2>2. Typed'
    BY <1>0, <1>1, <1>2, <1>5, <2>1 DEF Typed
  <2> QED
    BY <1>0, <1>1, <1>5, <2>1, <2>2, Aside
<1>6. CASE out' = [out EXCEPT !.stage = "session_done"] /\ UNCHANGED <<refr, req, login, lost>>
  <2>1. out' \in [stage : {"idle", "device", "session", "session_done"}, tok : Token]
    BY <1>0, <1>6 DEF Typed
  <2>2. Typed'
    BY <1>0, <1>1, <1>2, <1>6, <2>1 DEF Typed
  <2> QED
    BY <1>0, <1>1, <1>6, <2>2, Aside
<1> QED
  BY <1>3, <1>4, <1>5, <1>6 DEF CallLost

\* An error of the server's Redis is answered with a 401: a request is refused,
\* and a refresh too, whose token may be spent by then (AuthHandler.RefreshToken).
LEMMA RequestRefusedInv ==
    ASSUME IInv, NEW r \in Reqs, RequestRefused(r)
    PROVE  IInv'
<1> DEFINE s == IF req[r].stage = "resent" THEN "refused2" ELSE "denied"
<1>0. Typed /\ OneSession /\ acc = ref
  BY DEF IInv, OneSession
<1>1. /\ UNCHANGED <<cur, live, lapsed, acc, ref, logged, timer, sync, refr, waiting, login, out,
                     lost, reused, stranded>>
      /\ req' = [req EXCEPT ![r].stage = s] /\ req[r].stage \in {"sent", "resent"}
  BY DEF RequestRefused, server, session, history
<1>2. faults' \in 0 .. MaxFaults
  BY <1>0, AccountAssumption DEF RequestRefused, Fault, Typed
<1>3. s \in {"denied", "refused2"} /\ s \in RequestStages
  BY DEF RequestStages
<1> HIDE DEF s
<1>4. /\ req' \in [Reqs -> RequestCall]
      /\ req'[r].stage = s /\ req'[r].tok = req[r].tok
      /\ \A q \in Reqs : q # r => req'[q] = req[q]
  BY <1>0, <1>1, <1>3, Marked DEF Typed
<1>5. Typed'
  BY <1>0, <1>1, <1>2, <1>4 DEF Typed
<1>6. \A q \in Reqs :
        /\ req'[q].stage = "wait" <=> q \in waiting'
        /\ req'[q].tok \in {req[q].tok, ref, NoToken}
        /\ req'[q].stage \in {"resent", "denied2"} => req'[q] = req[q]
  BY <1>0, <1>1, <1>3, <1>4 DEF OneSession
<1>7. Quiet
  BY <1>0, <1>1, <1>6 DEF Quiet, OneSession
<1> QED
  BY <1>5, <1>7, QuietInv

LEMMA RefreshRefusedInv ==
    ASSUME IInv, NEW c \in refr, RefreshRefused(c)
    PROVE  IInv'
<1> DEFINE f == c.tok.fam
           d == [stage |-> "refused", tok |-> c.tok]
<1>0. Typed /\ OneSession /\ Issued /\ Verdicts /\ Unspent
  BY DEF IInv
<1>1. /\ UNCHANGED <<lapsed, live, acc, ref, logged, timer, sync, waiting, req, login, out,
                     reused, stranded>>
      /\ c.stage = "sent" /\ refr' = (refr \ {c}) \cup {d}
  BY DEF RefreshRefused, session
<1>2. c \in RefreshCall /\ c.tok \in Token /\ refr = {c} /\ faults' \in 0 .. MaxFaults
  BY <1>0, LastCall, AccountAssumption DEF Typed, RefreshCall, RefreshRefused, Fault
<1>3. d \in RefreshCall /\ d.stage = "refused" /\ d.tok = c.tok
  BY <1>2 DEF RefreshCall, Answers
<1>4. \/ UNCHANGED <<cur, lost>>
      \/ f \in live /\ cur[f] < MaxGen /\ cur' = [cur EXCEPT ![f] = @ + 1] /\ lost' = TRUE
  BY DEF RefreshRefused
<1> HIDE DEF d
<1>5. refr' = {d}
  BY <1>0, <1>1, <1>3, Answered
<1>6. cur \in [Families -> Gens] /\ f \in 0 .. MaxLogins /\ \A g \in Families : cur[g] \in Nat
  BY <1>0, <1>2, AccountAssumption DEF Typed, Gens, Token
<1>7. /\ cur' \in [Families -> Gens] /\ (\A g \in Families : g # f => cur'[g] = cur[g])
      /\ \A g \in Families : cur[g] <= cur'[g]
      /\ lost' \in BOOLEAN /\ (lost => lost')
  <2>1. CASE UNCHANGED <<cur, lost>>
    BY <1>0, <1>6, <2>1 DEF Typed
  <2>2. CASE f \in live /\ cur[f] < MaxGen /\ cur' = [cur EXCEPT ![f] = @ + 1] /\ lost' = TRUE
    <3>1. f \in Families /\ cur[f] + 1 \in Gens /\ cur[f] \in Nat
      BY <1>0, <1>6, <2>2, AccountAssumption DEF Typed, Gens
    <3> QED
      BY <1>6, <2>2, <3>1
  <2> QED
    BY <1>4, <2>1, <2>2
<1>8. Typed'
  <2>1. refr' \subseteq RefreshCall
    BY <1>3, <1>5
  <2> QED
    BY <1>0, <1>1, <1>2, <1>7, <2>1 DEF Typed
<1>9. OneSession'
  BY <1>0, <1>1, <1>5 DEF OneSession
<1>10. \A t \in Token : Known(t) => Known(t)'
  <2> SUFFICES ASSUME NEW t \in Token, t.fam # 0, cur[t.fam] > 0
               PROVE  cur'[t.fam] > 0
    BY DEF Known
  <2>1. t.fam \in Families /\ cur[t.fam] \in Nat /\ cur'[t.fam] \in Nat
    BY <1>0, <1>7, TokenFacts, AccountAssumption DEF Gens
  <2> QED
    BY <1>7, <2>1
<1>11. Issued'
  <2>1. Known(ref)' /\ \A q \in Reqs : Known(req[q].tok)'
    BY <1>0, <1>1, <1>10 DEF Issued, Typed, RequestCall, Known
  <2>2. \A x \in refr' : Known(x.tok)'
    BY <1>0, <1>2, <1>3, <1>5, <1>10 DEF Issued, Known
  <2>3. \A g \in Families : lapsed'[g] <= cur'[g]
    <3> SUFFICES ASSUME NEW g \in Families PROVE lapsed[g] <= cur'[g]
      BY <1>1
    <3>1. lapsed[g] <= cur[g] /\ cur[g] <= cur'[g]
      BY <1>0, <1>7 DEF Issued
    <3>2. lapsed[g] \in Nat /\ cur[g] \in Nat /\ cur'[g] \in Nat
      BY <1>0, <1>6, <1>7, AccountAssumption DEF Typed, Gens
    <3> QED
      BY <3>1, <3>2
  <2>4. login.stage = "ok" => f # login.fam /\ login.fam \in Families
    BY <1>0 DEF Issued
  <2>5. (login.stage = "ok" => /\ login.fam \in Families /\ cur[login.fam] = 1
                               /\ ref.fam # login.fam
                               /\ \A x \in refr : x.tok.fam # login.fam)'
    BY <1>0, <1>1, <1>3, <1>5, <1>7, <2>4 DEF Issued
  <2> QED
    BY <2>1, <2>2, <2>3, <2>5 DEF Issued
<1>12. Verdicts'
  BY <1>0, <1>1, <1>3, <1>5 DEF Verdicts
<1>13. Unspent'
  <2>1. CASE UNCHANGED <<cur, lost>>
    BY <1>0, <1>1, <1>2, <1>3, <1>5, <2>1 DEF Unspent, Newest
  <2>2. CASE lost' = TRUE
    BY <2>2 DEF Unspent
  <2> QED
    BY <1>4, <2>1, <2>2
<1> QED
  BY <1>8, <1>9, <1>11, <1>12, <1>13 DEF IInv

\* The program forgets its calls; a granted refresh is lost with them, and the
\* token it replaced is the one stored (AuthManager::restoreSession).
LEMMA RestartInv ==
    ASSUME IInv, Restart
    PROVE  IInv'
<1>0. Typed /\ OneSession /\ acc = ref /\ acc \in Token
  BY DEF IInv, OneSession, Typed
<1>1. /\ UNCHANGED <<cur, live, lapsed, acc, ref, reused>>
      /\ timer' = FALSE /\ sync' = "off" /\ stranded' = FALSE /\ out' = Idle
  BY DEF Restart, server
<1>2. /\ login' \in [stage : {"idle", "ok", "failed"}, fam : 0 .. MaxLogins]
      /\ login'.stage # "ok"
  BY AccountAssumption DEF Restart
<1>3. faults' \in 0 .. MaxFaults
  BY <1>0, AccountAssumption DEF Restart, Fault, Typed
<1>4. lost' \in BOOLEAN /\ (lost => lost') /\ ((\E c \in refr : c.stage = "ok") => lost')
  BY DEF Restart
<1>5. /\ Call("sent", acc) \in RequestCall /\ Call("sent", acc).stage = "sent"
      /\ Call("sent", acc).tok = acc
  BY <1>0, CallTyped DEF RequestStages
<1>6. /\ req' \in [Reqs -> RequestCall]
      /\ \A r \in Reqs : req'[r] = Idle \/ req'[r] = Call("sent", acc)
  BY <1>5, IdleCall DEF Restart
<1>7. /\ logged' \in BOOLEAN
      /\ \/ refr' = {} /\ waiting' = {}
         \/ refr' = {[stage |-> "sent", tok |-> ref]} /\ waiting' = {"restore"}
  BY DEF Restart
<1>8. refr' \subseteq RefreshCall /\ waiting' \subseteq Waiters /\ \A r \in Reqs : r \notin waiting'
  <2>1. [stage |-> "sent", tok |-> ref] \in RefreshCall
    BY <1>0 DEF RefreshCall
  <2> QED
    BY <1>7, <2>1 DEF Waiters, Reqs
<1>9. Typed'
  BY <1>0, <1>1, <1>2, <1>3, <1>4, <1>6, <1>7, <1>8, IdleCall, NoTokenFacts DEF Typed
<1>10. Quiet
  <2>1. \A r \in Reqs :
          /\ req'[r].stage = "wait" <=> r \in waiting'
          /\ req'[r].tok \in {req[r].tok, ref, NoToken}
          /\ req'[r].stage \in {"resent", "denied2"} => req'[r] = req[r]
    BY <1>0, <1>5, <1>6, <1>8, IdleCall
  <2>2. /\ refr' \subseteq refr \cup {[stage |-> "sent", tok |-> ref]}
        /\ \A c, d \in refr' : c = d
        /\ waiting' # {} => refr' # {}
    BY <1>7
  <2> QED
    BY <1>0, <1>1, <1>2, <1>4, <2>1, <2>2 DEF Quiet
<1> QED
  BY <1>9, <1>10, QuietInv

(***************************************************************************)
(* The theorems.                                                           *)
(***************************************************************************)
\* A step that changes nothing keeps the invariant.
LEMMA StutterInv ==
    ASSUME IInv, UNCHANGED vars
    PROVE  IInv'
BY DEF IInv, vars, Typed, OneSession, Issued, Known, Verdicts, Unspent, Newest

\* IInv is inductive: one lemma per action of AuthManager and of the server.
LEMMA NextInv ==
    ASSUME IInv, [Next]_vars
    PROVE  IInv'
<1>1. ASSUME NEW r \in Reqs, ServeRequest(r) \/ RequestRefused(r) \/ Reply(r) PROVE IInv'
  BY <1>1, ServeRequestInv, RequestRefusedInv, ReplyInv
<1>2. ASSUME NEW c \in refr,
             \/ ServeRefresh(c) \/ RefreshRefused(c) \/ RefreshGranted(c)
             \/ RefreshDenied(c) \/ RefreshUnavailable(c)
      PROVE  IInv'
  BY <1>2, ServeRefreshInv, RefreshRefusedInv, GrantedInv, RefusedInv
<1>3. CASE ServeLogout \/ \E f \in Families : FamilyRevoked(f)
  BY <1>3, ServerEndsInv
<1>4. CASE LoginReply
  BY <1>4, LoginReplyInv
<1>5. CASE Logout \/ LogoutReply
  BY <1>5, LogoutInv
<1>6. ASSUME NEW f \in Families, AccessExpires(f) PROVE IInv'
  BY <1>6, ExpiresInv
<1>7. CASE CallLost
  BY <1>7, CallLostInv
<1>8. CASE Request \/ SyncAuth
  BY <1>8, SendInv
<1>9. CASE TimerFires
  BY <1>9, TimerInv
<1>10. CASE Login
  BY <1>10, LoginInv
<1>11. CASE Restart
  BY <1>11, RestartInv
<1>12. CASE SyncEnds
  BY <1>12, SyncEndsInv
<1>13. CASE UNCHANGED vars
  BY <1>13, StutterInv
<1> QED
  BY <1>1, <1>2, <1>3, <1>4, <1>5, <1>6, <1>7, <1>8, <1>9, <1>10, <1>11, <1>12, <1>13 DEF Next

\* IInv holds in every behaviour (AuthManager).
LEMMA Inductive == Spec => []IInv
<1>1. Init => IInv
  BY InitInv
<1>2. IInv /\ [Next]_vars => IInv'
  BY NextInv
<1> QED
  BY <1>1, <1>2, PTL DEF Spec

\* The types of the client's and the server's state; in particular whoever
\* waits in m_refreshQueue has a refresh to wait for (AuthManager).
THEOREM AccountTypeCorrect == Spec => []TypeOK
<1>1. IInv => TypeOK
  <2> SUFFICES ASSUME IInv PROVE TypeOK
    OBVIOUS
  <2>1. Typed /\ OneSession
    BY DEF IInv
  <2>2. \A c \in refr : c.stage \in {"sent"} \cup Answers /\ c.tok \in Token
    BY <2>1 DEF Typed, RefreshCall
  <2>3. /\ \A r \in Reqs : req[r].stage \in RequestStages
        /\ out.stage \in {"idle", "device", "session", "session_done"}
    BY <2>1 DEF Typed, RequestCall
  <2> QED
    BY <2>1, <2>2, <2>3 DEF TypeOK, Typed, OneSession, RequestStages
<1> QED
  BY <1>1, Inductive, PTL

\* The client presents a spent refresh token, which would revoke its family,
\* only after an answer with a new one was lost or never written (AuthManager::
\* refreshAccessToken: concurrent refreshes are one call).
THEOREM OneUsePerToken == Spec => []SpentOnlyAfterLoss
<1>1. IInv => SpentOnlyAfterLoss
  BY DEF IInv, Unspent, SpentOnlyAfterLoss
<1> QED
  BY <1>1, Inductive, PTL

\* What a step that ends a session has as its cause (EndsForCause).
Cause ==
    \/ acc.fam \notin live \/ out.stage = "session_done" \/ faults' > faults
    \/ Foreign \/ Refused \/ "me" \in waiting

\* Whoever ends the session has a cause: a refusal is of a dead family or of
\* another session's, or an error of Redis (AuthManager::refreshAccessToken,
\* request).
LEMMA CauseOfEnd ==
    ASSUME IInv, Next, logged, ~logged'
    PROVE  Cause
<1>0. Typed /\ OneSession /\ Issued /\ Verdicts /\ acc = ref /\ 0 \notin live
  BY AccountAssumption DEF IInv, OneSession, Typed, Families
<1>1. ASSUME NEW c \in refr, RefreshDenied(c) PROVE Cause
  <2>1. c.stage = "refused" \/ c.tok.fam \notin live
    BY <1>0, <1>1 DEF RefreshDenied, Verdicts
  <2> QED
    BY <2>1 DEF Cause, Foreign, Refused
<1>2. ASSUME NEW c \in refr, RefreshUnavailable(c) PROVE Cause
  BY <1>2 DEF RefreshUnavailable, Cause
<1>3. ASSUME NEW r \in Reqs, Reply(r) PROVE Cause
  <2>1. CASE req[r].stage = "denied2"
    <3>1. req[r].tok.fam # 0 /\ req[r].tok.fam \notin live
      BY <1>0, <2>1 DEF Verdicts
    <3> QED
      BY <3>1 DEF Cause, Foreign
  <2>2. CASE req[r].stage = "denied"
    <3>1. ref = NoToken
      BY <1>3, <2>2 DEF Reply, session
    <3> QED
      BY <1>0, <3>1, NoTokenFacts DEF Cause
  <2>3. CASE req[r].stage \in {"ok", "failed"}
    BY <1>3, <2>3 DEF Reply, callback, session
  <2>4. CASE req[r].stage = "refused2"
    BY <2>4 DEF Cause, Refused
  <2> QED
    BY <1>3, <2>1, <2>2, <2>3, <2>4 DEF Reply
<1>4. CASE LogoutReply
  BY <1>4 DEF LogoutReply, session, Cause
<1>5. CASE Restart
  BY <1>0, <1>5 DEF Restart, Fault, Typed, Cause
<1>6. CASE SyncEnds
  BY <1>6 DEF SyncEnds, Cause
<1>7. /\ \A r \in Reqs : ~ServeRequest(r) /\ ~RequestRefused(r)
      /\ \A c \in refr : ~ServeRefresh(c) /\ ~RefreshRefused(c) /\ ~RefreshGranted(c)
      /\ ~ServeLogout /\ \A f \in Families : ~AccessExpires(f) /\ ~FamilyRevoked(f)
  BY DEF ServeRequest, RequestRefused, ServeRefresh, RefreshRefused, RefreshGranted, applyTokens, ServeLogout, AccessExpires,
         FamilyRevoked, session
<1>8. /\ ~CallLost /\ ~Request /\ ~Login /\ ~Logout /\ ~SyncAuth
  BY DEF CallLost, Request, Login, Logout, SyncAuth, session
<1>9. ~TimerFires /\ ~LoginReply
  BY DEF TimerFires, LoginReply, applyTokens, session
<1> QED
  BY <1>1, <1>2, <1>3, <1>4, <1>5, <1>6, <1>7, <1>8, <1>9 DEF Next

\* A session ends because the server ended it, the user did or the program was
\* started again; the exceptions are the code's, a 401 for an error of Redis, a
\* call of an earlier session answered late and GET /v1/me taking an unavailable
\* refresh for a refusal (AuthManager::request, refreshAccessToken,
\* fetchUserInfo; AuthHandler.RefreshToken).
THEOREM SessionsEndForCause == Spec => EndsForCause
<1>1. IInv /\ [Next]_vars =>
        [ logged /\ ~logged' =>
            \/ acc.fam \notin live
            \/ out.stage = "session_done"
            \/ faults' > faults
            \/ Foreign \/ Refused \/ "me" \in waiting ]_vars
  BY CauseOfEnd DEF Cause
<1> QED
  BY <1>1, Inductive, PTL DEF Spec, EndsForCause

-----------------------------------------------------------------------------
(***************************************************************************)
(* Remote sessions: the invariant.                                         *)
(***************************************************************************)

States == Live \cup {"disconnected"}
Kinds == {"state", "signal", "frame", "disconnected", "failed", "hostFailed", "up"}
Event == [type : Kinds, conn : Ids, state : States] \cup
         [type : {"list"}, conn : {0}, list : UNION {[S -> Live] : S \in SUBSET Ids}]
Command == [type : {"connect", "disconnect"}, conn : Ids] \cup [type : {"all"}, conn : {0}]

\* The types: of the client's table and what follows it, and of the rest.
TableTypes ==
    /\ known \subseteq Devices /\ overtaken \subseteq Devices /\ leftover \subseteq Devices
    /\ conn \in [Devices -> 0 .. MaxConns] /\ shm \in [Devices -> 0 .. MaxConns]
    /\ rtc \in [Devices -> RtcStates] /\ sig \in [Devices -> SigStates]
    /\ route \in [Ids -> Devices \cup {None}]
    /\ active \in Devices \cup {None} /\ primary \in Devices \cup {None}
    /\ status \in SigStates /\ sessions \subseteq Ids /\ retired \subseteq Ids

ControlTypes ==
    /\ ready \in BOOLEAN /\ counter \in 0 .. MaxConns
    /\ verify \in [Devices -> {"none", "first", "refresh", "again"}]

PipeTypes ==
    /\ native \in [Ids -> Live \cup {"none", "asked", "gone"}]
    /\ device \in [Ids -> Devices \cup {None}]
    /\ inbox \in Seq(Command) /\ events \in Seq(Event)
    /\ \A i \in 1 .. Len(events) : /\ events[i].type = "signal" => events[i].state # "connecting"
                                   /\ events[i].type = "up" => events[i].state = "connected"

ClientTyped == TableTypes /\ ControlTypes /\ PipeTypes

\* Connections are numbered as they are made; the table and the routes name
\* each under its own device.
Made ==
    /\ \A c \in Ids : (device[c] = None) <=> c > counter
    /\ \A c \in Ids : (native[c] = "none") <=> c > counter
    /\ \A d \in Devices : conn[d] # 0 => d \in known /\ device[conn[d]] = d /\ route[conn[d]] = d
    /\ \A c \in Ids : route[c] # None => route[c] = device[c]
    /\ \A d \in known \ overtaken : conn[d] # 0

\* The connection in the table is the last one made for its device.
Latest ==
    \A d \in Devices \ overtaken : \A c \in Ids :
        conn[d] # 0 /\ device[c] = d => c <= conn[d]

\* The connections the native program has yet to hear of are those whose
\* commands are in the pipe, in the order they were made.
Asked ==
    /\ \A i \in 1 .. Len(inbox) : inbox[i].type = "connect" => native[inbox[i].conn] = "asked"
    /\ \A i, j \in 1 .. Len(inbox) :
          i < j /\ inbox[i].type = "connect" /\ inbox[j].type = "connect" => inbox[i].conn < inbox[j].conn
    /\ \A c \in Ids : native[c] = "asked" =>
          \E i \in 1 .. Len(inbox) : inbox[i].type = "connect" /\ inbox[i].conn = c
    /\ \A c, e \in Ids : c < e /\ native[c] = "asked" => native[e] \in {"asked", "none"}

Kills(m, c) == m.type = "all" \/ (m.type = "disconnect" /\ m.conn = c)

\* A command to end the connection is in the pipe, before any to make another
\* for its device.
Doomed(c) ==
    \E k \in 1 .. Len(inbox) :
        /\ Kills(inbox[k], c)
        /\ \A j \in 1 .. Len(inbox) :
              inbox[j].type = "connect" /\ device[inbox[j].conn] = device[c] =>
                  (j < k <=> inbox[j].conn <= c)

\* A connection that the table does not have, or has as dead, is ended or
\* about to be.
Doom ==
    \A c \in Ids :
        /\ native[c] \in Live \cup {"asked"} /\ device[c] \notin overtaken
        /\ ~(conn[device[c]] = c /\ rtc[device[c]] \in Live)
        => Doomed(c)

\* No command ends the connection that the table has.
Kept ==
    \A d \in Devices \ overtaken : \A k \in 1 .. Len(inbox) :
        conn[d] # 0 /\ Kills(inbox[k], conn[d]) =>
            \E j \in k + 1 .. Len(inbox) : inbox[j].type = "connect" /\ inbox[j].conn = conn[d]

\* The native program has one connection of a device, and lists one.
OneLive ==
    \A c, e \in Ids :
        /\ native[c] \in Live /\ native[e] \in Live
        /\ device[c] = device[e] /\ device[c] \notin overtaken
        => c = e

Listed ==
    \A i \in 1 .. Len(events) : events[i].type = "list" =>
        \A c, e \in DOMAIN events[i].list :
            /\ native[c] \in Live \cup {"gone"}
            /\ device[c] = device[e] /\ device[c] \notin overtaken => c = e

Ends(m) == \/ m.type \in {"disconnected", "failed", "hostFailed"}
           \/ m.type = "state" /\ m.state \notin Live

\* A message is about a connection that was made, and its end is final.
Heard ==
    \A i \in 1 .. Len(events) : events[i].type # "list" =>
        /\ native[events[i].conn] \in Live \cup {"gone"}
        /\ Ends(events[i]) => native[events[i].conn] = "gone"

Tells(m, c) == IF m.type = "list" THEN c \in DOMAIN m.list
               ELSE m.conn = c /\ m.type \notin {"signal", "frame"}
Says(m, c) == IF m.type = "list" THEN m.list[c] ELSE m.state
Seen(s) == IF s \in Live THEN s ELSE IF s = "asked" THEN "connecting" ELSE "disconnected"

\* What the table shows of a connection, after the messages about it that are
\* on their way, is what the native program has.
Story ==
    \A d \in Devices \ overtaken : conn[d] # 0 =>
        \/ /\ rtc[d] = Seen(native[conn[d]])
           /\ \A i \in 1 .. Len(events) : ~Tells(events[i], conn[d])
        \/ \E i \in 1 .. Len(events) :
              /\ Tells(events[i], conn[d]) /\ Says(events[i], conn[d]) = Seen(native[conn[d]])
              /\ \A j \in i + 1 .. Len(events) : ~Tells(events[j], conn[d])

Table ==
    /\ Made /\ Latest
    /\ RoutesAgree /\ SessionsFollowState /\ FramesAreCurrent /\ ActiveIsShown

Pipes == Asked /\ Doom /\ Kept /\ OneLive /\ Listed /\ Heard /\ Story

ClientInv == ClientTyped /\ Table /\ Pipes

LEMMA EventFacts ==
    ASSUME NEW m \in Event
    PROVE  /\ m.type = "list" => /\ DOMAIN m.list \subseteq Ids
                                 /\ \A c \in DOMAIN m.list : m.list[c] \in Live
           /\ m.type # "list" => m.conn \in Ids /\ m.state \in States /\ m.type \in Kinds
  <1>1. CASE m \in [type : Kinds, conn : Ids, state : States]
    BY <1>1 DEF Kinds
  <1>2. CASE m \in [type : {"list"}, conn : {0}, list : UNION {[S -> Live] : S \in SUBSET Ids}]
    <2>1. m.type = "list" /\ m.list \in UNION {[S -> Live] : S \in SUBSET Ids}
      BY <1>2
    <2>2. PICK S \in SUBSET Ids : m.list \in [S -> Live]
      BY <2>1
    <2> QED BY <2>1, <2>2
  <1> QED BY <1>1, <1>2 DEF Event

LEMMA CommandFacts ==
    ASSUME NEW m \in Command
    PROVE  /\ m.type \in {"connect", "disconnect", "all"}
           /\ m.type # "all" => m.conn \in Ids
  BY DEF Command

LEMMA TypedFacts ==
    ASSUME ClientTyped
    PROVE  /\ Len(events) \in Nat /\ Len(inbox) \in Nat
           /\ \A i \in 1 .. Len(events) : events[i] \in Event
           /\ \A i \in 1 .. Len(inbox) : inbox[i] \in Command
  BY LenProperties, ElementOfSeq DEF ClientTyped, PipeTypes

\* The next message, and those behind it.
LEMMA NextMessage ==
    ASSUME ClientTyped, events # <<>>, events' = Tail(events)
    PROVE  /\ Head(events) = events[1] /\ 1 \in 1 .. Len(events) /\ Head(events) \in Event
           /\ events' \in Seq(Event) /\ Len(events') = Len(events) - 1
           /\ \A i \in 1 .. Len(events') : events'[i] = events[i + 1] /\ i + 1 \in 1 .. Len(events)
  <1>1. /\ Len(events) \in Nat \ {0} /\ events' \in Seq(Event) /\ Len(events') = Len(events) - 1
        /\ \A i \in 1 .. Len(events') : events'[i] = events[i + 1]
    BY EmptySeq, HeadTailProperties DEF ClientTyped, PipeTypes
  <1>2. Head(events) = events[1]
    BY DEF ClientTyped, PipeTypes
  <1>3. Head(events) \in Event
    BY HeadTailProperties DEF ClientTyped, PipeTypes
  <1>4. Len(events') \in Nat
    BY <1>1, LenProperties
  <1> QED BY <1>1, <1>2, <1>3, <1>4

\* What a message does to the pipes' invariants follows from what it does to the
\* table.
LEMMA HandledStep ==
    ASSUME ClientInv, events # <<>>, events' = Tail(events),
           UNCHANGED <<inbox, native, device>>, overtaken \subseteq overtaken',
           \A d \in Devices \ overtaken' :
               /\ conn'[d] \in {0, conn[d]}
               /\ conn'[d] # 0 => rtc'[d] = IF Tells(Head(events), conn[d]) THEN Says(Head(events), conn[d])
                                            ELSE rtc[d]
               /\ conn'[d] = 0 /\ conn[d] # 0 => native[conn[d]] = "gone"
    PROVE  Pipes' /\ Latest'
  <1> DEFINE m == Head(events)
             n == Len(events)
             old == Devices \ overtaken'
  <1>0. /\ n \in Nat /\ m = events[1] /\ 1 \in 1 .. n /\ m \in Event
        /\ Len(events') = n - 1
        /\ \A i \in 1 .. n - 1 : events'[i] = events[i + 1] /\ i + 1 \in 1 .. n
    BY NextMessage, TypedFacts DEF ClientInv
  <1>1. /\ \A c \in Ids : native[c] # "none" => device[c] \in Devices
        /\ \A d \in Devices : conn[d] # 0 => conn[d] \in Ids /\ device[conn[d]] = d
    <2>1. /\ device \in [Ids -> Devices \cup {None}] /\ conn \in [Devices -> 0 .. MaxConns]
      BY DEF ClientInv, ClientTyped, TableTypes, PipeTypes
    <2>2. \A d \in Devices : conn[d] # 0 => conn[d] \in Ids
      BY <2>1, ClientAssumption DEF Ids
    <2> QED BY <2>1, <2>2 DEF ClientInv, Table, Made
  <1>2. Asked'
    BY DEF ClientInv, Pipes, Asked
  <1>3. OneLive'
    BY DEF ClientInv, Pipes, OneLive
  <1>4. Latest'
    BY DEF ClientInv, Table, Latest
  <1>5. Kept'
    <2> SUFFICES ASSUME NEW d \in old, NEW k \in 1 .. Len(inbox), conn'[d] # 0, Kills(inbox[k], conn'[d])
                 PROVE  \E j \in k + 1 .. Len(inbox) : inbox[j].type = "connect" /\ inbox[j].conn = conn'[d]
      BY DEF Kept, Kills
    <2>1. conn'[d] = conn[d] /\ d \in Devices \ overtaken
      OBVIOUS
    <2> QED BY <2>1 DEF ClientInv, Pipes, Kept, Kills
  <1>6. Listed' /\ Heard'
    <2>1. Listed'
      <3>1. ASSUME NEW i \in 1 .. n - 1, events[i + 1].type = "list"
            PROVE  \A c, e \in DOMAIN events[i + 1].list :
                      /\ native[c] \in Live \cup {"gone"}
                      /\ device[c] = device[e] /\ device[c] \notin overtaken' => c = e
        BY <1>0, <3>1 DEF ClientInv, Pipes, Listed
      <3>2. ASSUME NEW i \in 1 .. Len(events'), events'[i].type = "list"
            PROVE  \A c, e \in DOMAIN events'[i].list :
                      /\ native'[c] \in Live \cup {"gone"}
                      /\ device'[c] = device'[e] /\ device'[c] \notin overtaken' => c = e
        <4>1. i \in 1 .. n - 1 /\ events'[i] = events[i + 1]
          BY <1>0
        <4> QED BY <3>1, <3>2, <4>1
      <3> QED BY <3>2 DEF Listed
    <2>2. Heard'
      <3> SUFFICES ASSUME NEW i \in 1 .. n - 1, events[i + 1].type # "list"
                   PROVE  /\ native[events[i + 1].conn] \in Live \cup {"gone"}
                          /\ Ends(events[i + 1]) => native[events[i + 1].conn] = "gone"
        BY <1>0 DEF Heard, Ends
      <3> QED BY <1>0 DEF ClientInv, Pipes, Heard
    <2> QED BY <2>1, <2>2
  <1>7. Doom'
    <2> SUFFICES ASSUME NEW c \in Ids, native[c] \in Live \cup {"asked"}, device[c] \notin overtaken',
                        ~(conn'[device[c]] = c /\ rtc'[device[c]] \in Live)
                 PROVE  Doomed(c)
      BY DEF Doom, Doomed, Kills
    <2> DEFINE d == device[c]
    <2>1. d \in old /\ d \notin overtaken /\ native[c] # "gone"
      BY <1>1 DEF Live
    <2>2. SUFFICES ASSUME conn[d] = c, rtc[d] \in Live PROVE FALSE
      BY <2>1 DEF ClientInv, Pipes, Doom
    <2>3. c # 0
      BY ClientAssumption DEF Ids
    <2>4. conn'[d] = c
      BY <2>1, <2>2, <2>3
    <2>5. Tells(m, c) /\ Says(m, c) \notin Live
      BY <2>1, <2>2, <2>3, <2>4
    <2>6. m.type # "list"
      BY <2>5, <1>0, EventFacts DEF Tells, Says
    <2>7. m.conn = c /\ m.type \notin {"signal", "frame"} /\ m.state \notin Live /\ m.type \in Kinds
      BY <2>5, <2>6, <1>0, EventFacts DEF Tells, Says
    <2>8. m.type # "up"
      BY <1>0, <2>7 DEF ClientInv, ClientTyped, PipeTypes, Live
    <2>9. Ends(m)
      BY <2>7, <2>8 DEF Ends, Kinds
    <2> QED BY <1>0, <2>1, <2>6, <2>7, <2>9 DEF ClientInv, Pipes, Heard
  <1>8. Story'
    <2> SUFFICES ASSUME NEW d \in old, conn'[d] # 0
                 PROVE  \/ /\ rtc'[d] = Seen(native[conn[d]])
                           /\ \A i \in 1 .. n - 1 : ~Tells(events'[i], conn[d])
                        \/ \E i \in 1 .. n - 1 :
                              /\ Tells(events'[i], conn[d]) /\ Says(events'[i], conn[d]) = Seen(native[conn[d]])
                              /\ \A j \in i + 1 .. n - 1 : ~Tells(events'[j], conn[d])
      <3>1. \A d \in old : conn'[d] # 0 => conn'[d] = conn[d] /\ native'[conn[d]] = native[conn[d]]
        OBVIOUS
      <3> HIDE DEF n, m
      <3> QED BY <1>0, <3>1 DEF Story
    <2> DEFINE c == conn[d]
    <2>1. /\ d \in Devices \ overtaken /\ conn'[d] = c /\ c # 0
          /\ rtc'[d] = IF Tells(m, c) THEN Says(m, c) ELSE rtc[d]
      OBVIOUS
    <2> HIDE DEF c, m
    <2>2. CASE rtc[d] = Seen(native[c]) /\ \A i \in 1 .. n : ~Tells(events[i], c)
      BY <1>0, <2>1, <2>2 DEF c
    <2>3. ASSUME NEW i \in 1 .. n, Tells(events[i], c), Says(events[i], c) = Seen(native[c]),
                 \A j \in i + 1 .. n : ~Tells(events[j], c)
          PROVE  \/ /\ rtc'[d] = Seen(native[c])
                    /\ \A k \in 1 .. n - 1 : ~Tells(events'[k], c)
                 \/ \E k \in 1 .. n - 1 :
                       /\ Tells(events'[k], c) /\ Says(events'[k], c) = Seen(native[c])
                       /\ \A j \in k + 1 .. n - 1 : ~Tells(events'[j], c)
      <3>1. CASE i = 1
        <4>1. rtc'[d] = Seen(native[c])
          BY <1>0, <2>1, <2>3, <3>1
        <4>2. \A k \in 1 .. n - 1 : k + 1 \in i + 1 .. n
          BY <1>0, <3>1
        <4> QED BY <1>0, <2>3, <4>1, <4>2
      <3>2. CASE i # 1
        <4>1. i - 1 \in 1 .. n - 1 /\ events'[i - 1] = events[i]
          BY <1>0, <3>2
        <4>2. \A j \in (i - 1) + 1 .. n - 1 : j + 1 \in i + 1 .. n /\ j \in 1 .. n - 1
          BY <1>0, <3>2
        <4> QED BY <1>0, <2>3, <4>1, <4>2
      <3> QED BY <3>1, <3>2
    <2> QED BY <2>1, <2>2, <2>3 DEF ClientInv, Pipes, Story, c
  <1> QED BY <1>2, <1>3, <1>4, <1>5, <1>6, <1>7, <1>8 DEF Pipes

----------------------------------------------------------------------------
(***************************************************************************)
(* The table and what is kept beside it.                                   *)
(***************************************************************************)

LEMMA TableFacts ==
    ASSUME ClientTyped, Table
    PROVE  /\ 0 \notin Ids /\ Ids \subseteq Nat /\ None \notin Devices
           /\ \A d \in Devices : conn[d] \in Ids \cup {0}
           /\ \A d \in Devices : conn[d] # 0 => d \in known /\ device[conn[d]] = d /\ route[conn[d]] = d
           /\ \A c \in Ids : route[c] # None => route[c] = device[c] /\ route[c] \in Devices
           /\ \A c \in Ids : (device[c] = None) <=> c > counter
           /\ \A d \in known \ overtaken : conn[d] # 0
  <1>1. Ids \subseteq Nat /\ 0 \notin Ids /\ \A x \in 0 .. MaxConns : x \in Ids \cup {0}
    BY ClientAssumption DEF Ids
  <1> QED BY <1>1, ClientAssumption DEF ClientTyped, TableTypes, Table, Made

\* removeConnection with its consequences.
LEMMA RemovedTable ==
    ASSUME ClientTyped, Table, NEW d \in Devices, Removed(d), keepSegment(d) \/ detach(d),
           overtaken = {} => d \in known,
           UNCHANGED <<device, native, counter, ready, overtaken>>
    PROVE  /\ TableTypes' /\ Made' /\ RoutesAgree' /\ SessionsFollowState' /\ FramesAreCurrent'
           /\ ActiveIsShown'
           /\ conn'[d] = 0 /\ \A e \in Devices \ {d} : conn'[e] = conn[e] /\ rtc'[e] = rtc[e]
  <1> DEFINE left == known \ {d}
             c == conn[d]
  <1>1. /\ conn \in [Devices -> 0 .. MaxConns] /\ shm \in [Devices -> 0 .. MaxConns]
        /\ rtc \in [Devices -> RtcStates] /\ sig \in [Devices -> SigStates]
        /\ route \in [Ids -> Devices \cup {None}] /\ known \subseteq Devices
        /\ sessions \subseteq Ids /\ retired \subseteq Ids
    BY DEF ClientTyped, TableTypes
  <1>2. /\ c \in Ids \cup {0} /\ 0 \notin Ids
    BY TableFacts
  <1>3. /\ sessions' = sessions \ {c} /\ retired' = retired \cup ({c} \ {0})
        /\ route' = routeWithout(c) /\ known' = left
        /\ conn' = [conn EXCEPT ![d] = 0] /\ rtc' = [rtc EXCEPT ![d] = "disconnected"]
        /\ sig' = [sig EXCEPT ![d] = "disconnected"] /\ active' = activeAfter(d, left)
        /\ IF primary # d THEN UNCHANGED shown
           ELSE /\ primary' = IF left = {} THEN None ELSE FirstKey(left)
                /\ status' = IF left = {} THEN "disconnected" ELSE sig[FirstKey(left)]
    BY DEF Removed, endSessions
  <1>4. /\ conn' \in [Devices -> 0 .. MaxConns] /\ conn'[d] = 0
        /\ rtc' \in [Devices -> RtcStates] /\ sig' \in [Devices -> SigStates]
        /\ \A e \in Devices \ {d} : conn'[e] = conn[e] /\ rtc'[e] = rtc[e]
    BY <1>1, <1>3, ClientAssumption DEF RtcStates, SigStates
  <1>5. /\ route' \in [Ids -> Devices \cup {None}]
        /\ \A x \in Ids : route'[x] = IF x = c THEN None ELSE route[x]
    BY <1>1, <1>3 DEF routeWithout
  <1>6. /\ shm' \in [Devices -> 0 .. MaxConns] /\ leftover' \subseteq Devices
        /\ \A e \in Devices \ {d} : shm'[e] = shm[e] /\ (e \in leftover' <=> e \in leftover)
        /\ d \in leftover' \/ shm'[d] = 0
    <2>1. CASE keepSegment(d)
      BY <1>1, <2>1 DEF keepSegment, ClientTyped, TableTypes
    <2>2. CASE detach(d)
      BY <1>1, <2>2, ClientAssumption DEF detach, ClientTyped, TableTypes
    <2> QED BY <2>1, <2>2
  <1>7. left # {} => FirstKey(left) \in left
    BY DEF FirstKey
  <1>8. /\ active' \in Devices \cup {None}
        /\ primary' \in Devices \cup {None} /\ status' \in SigStates
    BY <1>1, <1>3, <1>7 DEF activeAfter, shown, SigStates, ClientTyped, TableTypes
  <1>9. sessions' \subseteq Ids /\ retired' \subseteq Ids /\ known' \subseteq Devices
    BY <1>1, <1>2, <1>3
  <1> HIDE DEF left, c
  <1>10. TableTypes'
    BY <1>4, <1>5, <1>6, <1>8, <1>9 DEF TableTypes, ClientTyped
  <1>11. Made'
    BY <1>3, <1>4, <1>5, TableFacts DEF Made, Table, left, c
  <1>12. RoutesAgree'
    <2> SUFFICES ASSUME NEW x \in Ids, NEW e \in Devices \ overtaken
                 PROVE  (route'[x] = e) <=> (e \in known' /\ conn'[e] = x)
      BY DEF RoutesAgree
    <2>1. (route[x] = e) <=> (e \in known /\ conn[e] = x)
      BY DEF Table, RoutesAgree
    <2>2. CASE e = d
      BY <1>2, <1>3, <1>4, <1>5, <2>1, <2>2, TableFacts DEF left, c
    <2>3. CASE e # d
      <3>1. e \in known' <=> e \in known
        BY <1>3, <2>3 DEF left
      <3>2. conn[e] = x /\ x # 0 => x # c
        BY <2>3, TableFacts DEF c
      <3> QED BY <1>2, <1>4, <1>5, <2>1, <2>3, <3>1, <3>2, TableFacts
    <2> QED BY <2>2, <2>3
  <1>13. SessionsFollowState'
    <2> SUFFICES ASSUME NEW x \in sessions, x # c
                 PROVE  /\ ready' /\ x \notin retired'
                        /\ \E e \in known' : conn'[e] = x /\ rtc'[e] = "connected" /\ route'[x] = e
      BY <1>3 DEF SessionsFollowState
    <2>1. /\ ready /\ x \notin retired
          /\ \E e \in known : conn[e] = x /\ rtc[e] = "connected" /\ route[x] = e
      BY DEF Table, SessionsFollowState
    <2>2. PICK e \in known : conn[e] = x /\ rtc[e] = "connected" /\ route[x] = e
      BY <2>1
    <2>3. e # d /\ e \in Devices
      BY <1>1, <2>2 DEF c
    <2> QED BY <1>1, <1>3, <1>4, <1>5, <2>1, <2>2, <2>3 DEF left
  <1>14. FramesAreCurrent'
    BY <1>4, <1>6 DEF FramesAreCurrent, Table
  <1>15. ActiveIsShown'
    BY <1>3, <1>7, ClientAssumption DEF ActiveIsShown, Table, activeAfter, left
  <1> QED BY <1>4, <1>10, <1>11, <1>12, <1>13, <1>14, <1>15

\* A new connection.
LEMMA ConnectTable ==
    ASSUME ClientTyped, Table, NEW d \in Devices, connectToHost(d), counter < MaxConns,
           UNCHANGED <<shown, ready, overtaken>>
    PROVE  /\ TableTypes' /\ Table' /\ counter' \in 0 .. MaxConns
           /\ native' \in [Ids -> Live \cup {"none", "asked", "gone"}]
           /\ device' \in [Ids -> Devices \cup {None}]
           /\ counter + 1 \in Ids /\ native[counter + 1] = "none" /\ device[counter + 1] = None
           /\ native'[counter + 1] = "asked" /\ device'[counter + 1] = d
           /\ \A x \in Ids \ {counter + 1} : native'[x] = native[x] /\ device'[x] = device[x]
           /\ conn'[d] = counter + 1 /\ rtc'[d] = "connecting"
           /\ \A e \in Devices \ {d} : conn'[e] = conn[e] /\ rtc'[e] = rtc[e]
           /\ \A e \in Devices : conn[e] # counter + 1
  <1> DEFINE n == counter + 1
             c == conn[d]
  <1>1. /\ conn \in [Devices -> 0 .. MaxConns] /\ shm \in [Devices -> 0 .. MaxConns]
        /\ rtc \in [Devices -> RtcStates] /\ sig \in [Devices -> SigStates]
        /\ route \in [Ids -> Devices \cup {None}] /\ known \subseteq Devices
        /\ sessions \subseteq Ids /\ retired \subseteq Ids /\ counter \in Nat
        /\ native \in [Ids -> Live \cup {"none", "asked", "gone"}]
        /\ device \in [Ids -> Devices \cup {None}]
    BY ClientAssumption DEF ClientTyped, TableTypes, ControlTypes, PipeTypes
  <1>2. n \in Ids /\ n \in 0 .. MaxConns /\ n # 0
    BY <1>1, ClientAssumption DEF Ids
  <1>3. /\ native[n] = "none" /\ device[n] = None /\ route[n] = None
        /\ \A e \in Devices : conn[e] # n
    <2>1. native[n] = "none" /\ device[n] = None
      BY <1>1, <1>2 DEF Table, Made
    <2> QED BY <1>2, <2>1, TableFacts
  <1>4. /\ counter' = n /\ sessions' = sessions \ {c} /\ retired' = retired \cup ({c} \ {0})
        /\ known' = known \cup {d} /\ conn' = [conn EXCEPT ![d] = n]
        /\ rtc' = [rtc EXCEPT ![d] = "connecting"] /\ sig' = [sig EXCEPT ![d] = "disconnected"]
        /\ route' = [routeWithout(c) EXCEPT ![n] = d] /\ device' = [device EXCEPT ![n] = d]
        /\ native' = [native EXCEPT ![n] = "asked"]
        /\ active' = (IF active = None THEN d ELSE active) /\ keepSegment(d)
    BY DEF connectToHost, endSessions
  <1>5. c \in Ids \cup {0} /\ 0 \notin Ids /\ c # n
    BY <1>3, TableFacts
  <1> HIDE DEF n, c
  <1>6. /\ conn' \in [Devices -> 0 .. MaxConns] /\ conn'[d] = n /\ rtc'[d] = "connecting"
        /\ rtc' \in [Devices -> RtcStates] /\ sig' \in [Devices -> SigStates]
        /\ \A e \in Devices \ {d} : conn'[e] = conn[e] /\ rtc'[e] = rtc[e]
    BY <1>1, <1>2, <1>4 DEF RtcStates, SigStates
  <1>7. /\ route' \in [Ids -> Devices \cup {None}] /\ route'[n] = d
        /\ \A x \in Ids \ {n} : route'[x] = IF x = c THEN None ELSE route[x]
    BY <1>1, <1>2, <1>4 DEF routeWithout
  <1>8. /\ native' \in [Ids -> Live \cup {"none", "asked", "gone"}]
        /\ device' \in [Ids -> Devices \cup {None}]
        /\ native'[n] = "asked" /\ device'[n] = d
        /\ \A x \in Ids \ {n} : native'[x] = native[x] /\ device'[x] = device[x]
    BY <1>1, <1>2, <1>4
  <1>9. /\ shm' = shm /\ leftover' \subseteq Devices
        /\ \A e \in Devices \ {d} : e \in leftover' <=> e \in leftover
        /\ d \in leftover' \/ shm[d] = 0
    BY <1>4 DEF keepSegment, ClientTyped, TableTypes
  <1>10. TableTypes'
    <2>1. sessions' \subseteq Ids /\ retired' \subseteq Ids /\ known' \subseteq Devices
      BY <1>1, <1>4, <1>5
    <2>2. active' \in Devices \cup {None} /\ UNCHANGED <<primary, status, overtaken>>
      BY <1>4 DEF ClientTyped, TableTypes, shown
    <2> QED BY <1>1, <1>6, <1>7, <1>9, <2>1, <2>2 DEF TableTypes, ClientTyped
  <1>11. Made'
    <2>1. /\ \A x \in Ids : (device'[x] = None) <=> x > counter'
          /\ \A x \in Ids : (native'[x] = "none") <=> x > counter'
      <3> SUFFICES ASSUME NEW x \in Ids
                   PROVE  /\ (device'[x] = None) <=> x > counter'
                          /\ (native'[x] = "none") <=> x > counter'
        OBVIOUS
      <3>1. /\ (device[x] = None) <=> x > counter
            /\ (native[x] = "none") <=> x > counter
            /\ x \in Nat
        BY TableFacts DEF Table, Made
      <3>2. CASE x = n
        BY <1>2, <1>4, <1>8, <3>1, <3>2, TableFacts DEF n
      <3>3. CASE x # n
        <4>1. x \in Nat /\ counter \in Nat /\ counter' = counter + 1 /\ x # counter + 1
          BY <1>1, <1>4, <3>1, <3>3 DEF n
        <4>2. x > counter <=> x > counter'
          BY <4>1
        <4>3. native'[x] = native[x] /\ device'[x] = device[x]
          BY <1>8, <3>3
        <4> QED BY <3>1, <4>2, <4>3
      <3> QED BY <3>2, <3>3
    <2>2. \A e \in Devices : conn'[e] # 0 => e \in known' /\ device'[conn'[e]] = e /\ route'[conn'[e]] = e
      <3> SUFFICES ASSUME NEW e \in Devices, conn'[e] # 0
                   PROVE  e \in known' /\ device'[conn'[e]] = e /\ route'[conn'[e]] = e
        OBVIOUS
      <3>1. CASE e = d
        BY <1>4, <1>6, <1>7, <1>8, <3>1
      <3>2. CASE e # d
        <4>1. /\ conn'[e] = conn[e] /\ conn[e] \in Ids \ {n} /\ e \in known
              /\ device[conn[e]] = e /\ route[conn[e]] = e
          BY <1>3, <1>6, <3>2, TableFacts
        <4>2. conn[e] # c
          BY <1>5, <3>2, <4>1, TableFacts DEF c
        <4> QED BY <1>4, <1>7, <1>8, <4>1, <4>2
      <3> QED BY <3>1, <3>2
    <2>3. \A x \in Ids : route'[x] # None => route'[x] = device'[x]
      BY <1>7, <1>8, TableFacts
    <2>4. \A e \in known' \ overtaken' : conn'[e] # 0
      BY <1>1, <1>2, <1>4, <1>6, TableFacts
    <2> QED BY <2>1, <2>2, <2>3, <2>4 DEF Made
  <1>12. Latest'
    <2> SUFFICES ASSUME NEW e \in Devices \ overtaken, NEW x \in Ids, conn'[e] # 0, device'[x] = e
                 PROVE  x <= conn'[e]
      BY DEF Latest
    <2>1. CASE e = d
      <3>1. x = n \/ (x \in Nat /\ ~(x > counter))
        BY <1>8, <2>1, TableFacts
      <3> QED BY <1>1, <1>6, <2>1, <3>1 DEF n
    <2>2. CASE e # d
      <3>1. x # n /\ conn'[e] = conn[e] /\ device[x] = e
        BY <1>6, <1>8, <2>2
      <3> QED BY <3>1 DEF Table, Latest
    <2> QED BY <2>1, <2>2
  <1>13. RoutesAgree'
    <2> SUFFICES ASSUME NEW x \in Ids, NEW e \in Devices \ overtaken
                 PROVE  (route'[x] = e) <=> (e \in known' /\ conn'[e] = x)
      BY DEF RoutesAgree
    <2>1. (route[x] = e) <=> (e \in known /\ conn[e] = x)
      BY DEF Table, RoutesAgree
    <2>2. CASE x = n
      BY <1>3, <1>4, <1>6, <1>7, <2>2
    <2>3. CASE x # n /\ e = d
      BY <1>6, <1>7, <2>1, <2>3, TableFacts DEF c
    <2>4. CASE x # n /\ e # d
      <3>1. e \in known' <=> e \in known
        BY <1>4, <2>4
      <3>2. conn[e] = x => x # c
        BY <2>4, TableFacts DEF c
      <3> QED BY <1>6, <1>7, <2>1, <2>4, <3>1, <3>2, TableFacts
    <2> QED BY <2>2, <2>3, <2>4
  <1>14. SessionsFollowState'
    <2> SUFFICES ASSUME NEW x \in sessions, x # c
                 PROVE  /\ ready' /\ x \notin retired'
                        /\ \E e \in known' : conn'[e] = x /\ rtc'[e] = "connected" /\ route'[x] = e
      BY <1>4 DEF SessionsFollowState
    <2>1. /\ ready /\ x \notin retired
          /\ \E e \in known : conn[e] = x /\ rtc[e] = "connected" /\ route[x] = e
      BY DEF Table, SessionsFollowState
    <2>2. PICK e \in known : conn[e] = x /\ rtc[e] = "connected" /\ route[x] = e
      BY <2>1
    <2>3. e # d /\ e \in Devices /\ x # n /\ x \in Ids
      BY <1>1, <1>3, <2>2 DEF c
    <2> QED BY <1>4, <1>6, <1>7, <2>1, <2>2, <2>3
  <1>15. FramesAreCurrent'
    BY <1>6, <1>9 DEF FramesAreCurrent, Table
  <1>16. ActiveIsShown'
    BY <1>4, ClientAssumption DEF ActiveIsShown, Table
  <1>17. counter' \in 0 .. MaxConns
    BY <1>2, <1>4
  <1> QED BY <1>2, <1>3, <1>6, <1>8, <1>10, <1>11, <1>12, <1>13, <1>14, <1>15, <1>16, <1>17 DEF Table, n

\* disconnectAll and setMessaging(nullptr).
LEMMA RemovedAllTable ==
    ASSUME ClientTyped, Table, RemovedAll, status' \in SigStates, ready' \in BOOLEAN,
           UNCHANGED <<device, counter, overtaken>>,
           \A c \in Ids : (native'[c] = "none") <=> (native[c] = "none")
    PROVE  /\ TableTypes' /\ Table' /\ \A d \in Devices : conn'[d] = 0
  <1>1. /\ known' = {} /\ conn' = [d \in Devices |-> 0]
        /\ rtc' = [d \in Devices |-> "disconnected"] /\ sig' = [d \in Devices |-> "disconnected"]
        /\ route' = [c \in Ids |-> None] /\ active' = None
        /\ shm' = [d \in Devices |-> IF d \in known THEN 0 ELSE shm[d]]
        /\ leftover' = leftover \ known
        /\ primary' = (IF primary \in known THEN FirstKey(known) ELSE primary)
        /\ sessions' = {} /\ retired' \subseteq Ids
    <2>1. ({conn[d] : d \in known} \cup sessions) \ {0} \subseteq Ids
      BY TableFacts DEF ClientTyped, TableTypes
    <2> QED BY <2>1 DEF RemovedAll, endSessions, ClientTyped, TableTypes
  <1>2. /\ conn' \in [Devices -> 0 .. MaxConns] /\ \A d \in Devices : conn'[d] = 0
        /\ rtc' \in [Devices -> RtcStates] /\ sig' \in [Devices -> SigStates]
        /\ route' \in [Ids -> Devices \cup {None}] /\ \A c \in Ids : route'[c] = None
        /\ shm' \in [Devices -> 0 .. MaxConns]
        /\ \A d \in Devices : shm'[d] = IF d \in known THEN 0 ELSE shm[d]
    BY <1>1, ClientAssumption DEF RtcStates, SigStates, ClientTyped, TableTypes
  <1>3. primary' \in Devices \cup {None}
    BY <1>1 DEF FirstKey, ClientTyped, TableTypes
  <1>4. TableTypes'
    BY <1>1, <1>2, <1>3 DEF ClientTyped, TableTypes
  <1>5. Made'
    BY <1>1, <1>2 DEF Table, Made
  <1>6. Latest' /\ SessionsFollowState' /\ ActiveIsShown'
    BY <1>1, <1>2 DEF Latest, SessionsFollowState, ActiveIsShown
  <1>7. RoutesAgree'
    BY <1>1, <1>2, TableFacts DEF RoutesAgree
  <1>8. FramesAreCurrent'
    BY <1>1, <1>2, TableFacts DEF FramesAreCurrent, Table
  <1> QED BY <1>2, <1>4, <1>5, <1>6, <1>7, <1>8 DEF Table

\* What connectionStateChanged does to the file sessions.
LEMMA StateSessions ==
    ASSUME ClientTyped, Table, NEW d \in Devices, NEW s \in States, StateChanged(d, s),
           UNCHANGED <<conn, route, ready>>, ready, known' = known \cup {d},
           rtc' = [rtc EXCEPT ![d] = s]
    PROVE  SessionsFollowState' /\ sessions' \subseteq Ids /\ retired' \subseteq Ids
  <1> DEFINE c == conn[d]
  <1>1. /\ sessions \subseteq Ids /\ retired \subseteq Ids /\ known \subseteq Devices
        /\ c \in Ids \cup {0} /\ 0 \notin Ids /\ (c # 0 => route[c] = d)
        /\ rtc \in [Devices -> RtcStates]
    BY TableFacts DEF ClientTyped, TableTypes
  <1>2. rtc'[d] = s /\ \A e \in Devices \ {d} : rtc'[e] = rtc[e]
    BY <1>1
  <1>3. /\ \/ sessions' = sessions \ {c} /\ retired' = retired \cup ({c} \ {0})
           \/ sessions' = sessions /\ retired' = retired /\ (s = "connected" \/ c \notin sessions)
           \/ /\ s = "connected" /\ c # 0 /\ c \notin retired
              /\ sessions' = sessions \cup {c} /\ retired' = retired
    BY DEF StateChanged, endSessions
  <1>4. \A x \in sessions : /\ ready /\ x \notin retired
                            /\ \E e \in known : conn[e] = x /\ rtc[e] = "connected" /\ route[x] = e
    BY DEF Table, SessionsFollowState
  <1> HIDE DEF c
  <1>5. ASSUME NEW x \in sessions, x # c
        PROVE  \E e \in known' : conn[e] = x /\ rtc'[e] = "connected" /\ route[x] = e
    <2>1. PICK e \in known : conn[e] = x /\ rtc[e] = "connected" /\ route[x] = e
      BY <1>4
    <2>2. e # d
      BY <1>5, <2>1 DEF c
    <2> QED BY <1>1, <1>2, <2>1, <2>2
  <1>6. c # 0 /\ s = "connected" =>
           \E e \in known' : conn[e] = c /\ rtc'[e] = "connected" /\ route[c] = e
    BY <1>1, <1>2 DEF c
  <1>7. CASE sessions' = sessions \ {c} /\ retired' = retired \cup ({c} \ {0})
    BY <1>1, <1>4, <1>5, <1>7 DEF SessionsFollowState
  <1>8. CASE sessions' = sessions /\ retired' = retired /\ (s = "connected" \/ c \notin sessions)
    BY <1>1, <1>4, <1>5, <1>6, <1>8 DEF SessionsFollowState
  <1>9. CASE /\ s = "connected" /\ c # 0 /\ c \notin retired
             /\ sessions' = sessions \cup {c} /\ retired' = retired
    BY <1>1, <1>4, <1>5, <1>6, <1>9 DEF SessionsFollowState
  <1> QED BY <1>3, <1>7, <1>8, <1>9

\* A set of connections has a newest one.
LEMMA NewestConn ==
    ASSUME NEW S \in SUBSET Ids, S # {}
    PROVE  \E c \in S : \A e \in S : e <= c
  <1> DEFINE T == {MaxConns - c : c \in S}
  <1>1. Ids \subseteq Nat /\ MaxConns \in Nat /\ \A c \in Ids : c <= MaxConns
    BY ClientAssumption DEF Ids
  <1>2. T \subseteq Nat /\ T # {}
    <2>1. \A c \in Ids : MaxConns - c \in Nat
      BY <1>1
    <2> QED BY <2>1
  <1>3. PICK x \in T : \A y \in T : ~(<<y, x>> \in OpToRel(<, Nat))
    BY <1>2, NatLessThanWellFounded, WFMin
  <1>4. \A y \in T : ~(y < x)
    BY <1>2, <1>3 DEF OpToRel
  <1>5. PICK c \in S : x = MaxConns - c
    OBVIOUS
  <1>6. \A e \in S : e <= c
    <2> SUFFICES ASSUME NEW e \in S PROVE e <= c
      OBVIOUS
    <2>1. ~(MaxConns - e < MaxConns - c)
      BY <1>4, <1>5
    <2> QED BY <1>1, <2>1
  <1> QED BY <1>6

\* handleConnectionListChanged.
LEMMA ListTable ==
    ASSUME ClientInv, NEW i \in 1 .. Len(events), events[i].type = "list", ready,
           ConnectionListChanged(events[i].list), UNCHANGED <<device, native, counter, ready>>
    PROVE  /\ TableTypes' /\ Made' /\ RoutesAgree' /\ SessionsFollowState' /\ FramesAreCurrent'
           /\ ActiveIsShown' /\ overtaken \subseteq overtaken'
           /\ \A d \in Devices \ overtaken' :
                 /\ conn'[d] = conn[d]
                 /\ conn[d] # 0 => conn[d] \in DOMAIN events[i].list /\ rtc'[d] = events[i].list[conn[d]]
  <1> DEFINE L == events[i].list
             of(d) == {c \in DOMAIN L : device[c] = d}
             now == [d \in Devices |-> IF of(d) = {} THEN 0
                                       ELSE CHOOSE c \in of(d) : \A e \in of(d) : e <= c]
             listed == {d \in Devices : now[d] # 0}
             ended == listEnds(L, now)
             opened == {now[d] : d \in {e \in listed : L[now[e]] = "connected"}}
  <1>1. /\ ClientTyped /\ Table
        /\ DOMAIN L \subseteq Ids /\ \A c \in DOMAIN L : L[c] \in Live
    BY TypedFacts, EventFacts DEF ClientInv
  <1>2. \A c \in DOMAIN L : native[c] # "none"
    BY DEF ClientInv, Pipes, Listed, Live
  <1>3. /\ device \in [Ids -> Devices \cup {None}] /\ known \subseteq Devices
        /\ sessions \subseteq Ids /\ retired \subseteq Ids
        /\ shm \in [Devices -> 0 .. MaxConns] /\ conn \in [Devices -> 0 .. MaxConns]
    BY <1>1 DEF ClientTyped, TableTypes, PipeTypes
  <1>4. \A c \in DOMAIN L : device[c] \in Devices
    BY <1>1, <1>2, <1>3 DEF Table, Made
  <1>5. /\ known' = listed /\ conn' = now
        /\ rtc' = [d \in Devices |-> IF d \in listed THEN L[now[d]] ELSE "disconnected"]
        /\ sig' = [d \in Devices |-> "disconnected"]
        /\ route' = [c \in Ids |-> IF c \in DOMAIN L THEN device[c] ELSE None]
        /\ retired' = retired \cup (ended \ {0})
        /\ sessions' = (sessions \ ended) \cup (opened \ (retired \cup ended))
        /\ overtaken' = overtaken \cup {d \in Devices : now[d] # conn[d]}
        /\ leftover' = leftover \cup {d \in Devices : now[d] # conn[d] /\ shm[d] # 0}
        /\ UNCHANGED <<active, shm, shown>>
    BY DEF ConnectionListChanged
  <1>6. \A d \in Devices : \/ now[d] = 0 /\ of(d) = {}
                           \/ now[d] \in of(d) /\ now[d] # 0
    <2> SUFFICES ASSUME NEW d \in Devices, of(d) # {}
                 PROVE  now[d] \in of(d) /\ now[d] # 0
      OBVIOUS
    <2>1. of(d) \subseteq Ids
      BY <1>1
    <2>2. \E c \in of(d) : \A e \in of(d) : e <= c
      BY <2>1, NewestConn
    <2>3. now[d] \in of(d)
      BY <2>2
    <2> QED BY <1>1, <2>1, <2>3, TableFacts
  <1>7. ended = {conn[d] : d \in {e \in known : conn[e] # now[e]}} \cup
                {c \in DOMAIN L : L[c] # "connected" /\ c \in sessions}
    BY DEF listEnds
  <1> HIDE DEF now, ended
  <1>8. \A d \in Devices : now[d] # 0 => now[d] \in DOMAIN L /\ device[now[d]] = d
    BY <1>6
  <1>9. \A c \in DOMAIN L : now[device[c]] # 0
    BY <1>4, <1>6
  <1>10. now \in [Devices -> 0 .. MaxConns]
    <2>1. \A d \in Devices : now[d] \in 0 .. MaxConns
      BY <1>1, <1>8, ClientAssumption DEF Ids
    <2> QED BY <2>1 DEF now
  <1>11. /\ rtc' \in [Devices -> RtcStates] /\ \A d \in listed : rtc'[d] = L[now[d]]
    BY <1>1, <1>5, <1>8 DEF RtcStates, Live
  <1>12. /\ route' \in [Ids -> Devices \cup {None}]
         /\ \A c \in Ids : route'[c] = IF c \in DOMAIN L THEN device[c] ELSE None
    BY <1>3, <1>5
  <1>13. ended \ {0} \subseteq Ids /\ opened \subseteq Ids
    BY <1>1, <1>3, <1>7, <1>8, TableFacts
  <1> HIDE DEF of
  <1>14. TableTypes'
    <2>1. /\ known' \subseteq Devices /\ overtaken' \subseteq Devices /\ leftover' \subseteq Devices
          /\ sessions' \subseteq Ids /\ retired' \subseteq Ids
          /\ sig' \in [Devices -> SigStates]
      BY <1>1, <1>3, <1>5, <1>13 DEF ClientTyped, TableTypes, SigStates
    <2>2. /\ shm' = shm /\ active' = active /\ primary' = primary /\ status' = status
      BY <1>5 DEF shown
    <2>3. conn' \in [Devices -> 0 .. MaxConns]
      BY <1>5, <1>10
    <2> HIDE DEF listed, opened, L
    <2> QED BY <1>1, <1>11, <1>12, <2>1, <2>2, <2>3 DEF TableTypes, ClientTyped
  <1>15. Made'
    <2>1. /\ \A d \in Devices : conn'[d] # 0 => d \in known' /\ device'[conn'[d]] = d /\ route'[conn'[d]] = d
          /\ \A c \in Ids : route'[c] # None => route'[c] = device'[c]
          /\ \A d \in known' \ overtaken' : conn'[d] # 0
      BY <1>1, <1>5, <1>8, <1>12
    <2> QED BY <1>1, <2>1 DEF Made, Table
  <1>16. /\ overtaken \subseteq overtaken'
         /\ \A d \in Devices \ overtaken' :
               /\ d \notin overtaken /\ now[d] = conn[d] /\ conn'[d] = conn[d]
               /\ conn[d] # 0 => conn[d] \in DOMAIN L /\ rtc'[d] = L[conn[d]]
    BY <1>5, <1>8, <1>11
  <1>17. RoutesAgree'
    <2> SUFFICES ASSUME NEW c \in Ids, NEW d \in Devices \ overtaken'
                 PROVE  (route'[c] = d) <=> (d \in known' /\ conn'[d] = c)
      BY DEF RoutesAgree
    <2>1. c # 0
      BY TableFacts, <1>1
    <2>2. d \in known' /\ conn'[d] = c => route'[c] = d
      BY <1>5, <1>8, <1>12, <2>1
    <2>3. ASSUME route'[c] = d PROVE d \in known' /\ conn'[d] = c
      <3>1. c \in DOMAIN L /\ device[c] = d
        BY <1>1, <1>12, <2>3, TableFacts
      <3>2. now[d] # 0 /\ now[d] \in DOMAIN L /\ device[now[d]] = d
        BY <1>8, <1>9, <3>1
      <3>3. c = now[d]
        BY <1>16, <3>1, <3>2 DEF ClientInv, Pipes, Listed
      <3> QED BY <1>5, <3>2, <3>3
    <2> QED BY <2>2, <2>3
  <1>18. SessionsFollowState'
    <2> SUFFICES ASSUME NEW c \in sessions'
                 PROVE  /\ c \notin retired'
                        /\ \E d \in known' : conn'[d] = c /\ rtc'[d] = "connected" /\ route'[c] = d
      BY DEF SessionsFollowState
    <2>1. CASE c \in opened \ (retired \cup ended)
      <3>1. PICK d \in listed : c = now[d] /\ L[now[d]] = "connected"
        BY <2>1
      <3> QED BY <1>1, <1>5, <1>8, <1>11, <1>12, <2>1, <3>1
    <2>2. CASE c \in sessions \ ended
      <3>1. c \notin retired /\ \E d \in known : conn[d] = c /\ rtc[d] = "connected" /\ route[c] = d
        BY <1>1, <2>2 DEF Table, SessionsFollowState
      <3>2. PICK d \in known : conn[d] = c /\ rtc[d] = "connected" /\ route[c] = d
        BY <3>1
      <3>3. now[d] = c /\ c # 0 /\ d \in Devices
        BY <1>1, <1>3, <1>7, <2>2, <3>2, TableFacts
      <3>4. L[c] = "connected" /\ c \in DOMAIN L
        BY <1>7, <1>8, <2>2, <3>3
      <3> QED BY <1>1, <1>5, <1>8, <1>11, <1>12, <2>2, <3>1, <3>3, <3>4
    <2> QED BY <1>5, <2>1, <2>2
  <1>19. FramesAreCurrent'
    <2> SUFFICES ASSUME NEW d \in Devices \ (leftover' \cup overtaken')
                 PROVE  shm[d] \in {0, conn'[d]}
      BY <1>5 DEF FramesAreCurrent
    <2>1. d \notin leftover \cup overtaken /\ conn'[d] = conn[d]
      BY <1>5, <1>16
    <2> QED BY <1>1, <2>1 DEF Table, FramesAreCurrent
  <1>20. ActiveIsShown'
    <2> SUFFICES ASSUME overtaken' = {}
                 PROVE  IF known' = {} THEN active = None ELSE active \in known'
      BY <1>5 DEF ActiveIsShown
    <2>1. overtaken = {} /\ \A d \in Devices : now[d] = conn[d]
      BY <1>16
    <2>2. known' = known
      <3>1. \A d \in Devices : d \in known <=> conn[d] # 0
        BY <1>1, <2>1, TableFacts
      <3> QED BY <1>3, <1>5, <2>1, <3>1
    <2> QED BY <1>1, <2>1, <2>2 DEF Table, ActiveIsShown
  <1> QED BY <1>14, <1>15, <1>16, <1>17, <1>18, <1>19, <1>20

----------------------------------------------------------------------------
(***************************************************************************)
(* The messages.                                                           *)
(***************************************************************************)

\* A message is handled once the table follows it.
LEMMA MessageStep ==
    ASSUME ClientInv, ready, events # <<>>, events' = Tail(events),
           UNCHANGED <<counter, verify, ready, native, device, inbox>>, overtaken \subseteq overtaken',
           TableTypes', Made', RoutesAgree', SessionsFollowState', FramesAreCurrent', ActiveIsShown',
           \A d \in Devices \ overtaken' :
               /\ conn'[d] \in {0, conn[d]}
               /\ conn'[d] # 0 => rtc'[d] = IF Tells(Head(events), conn[d]) THEN Says(Head(events), conn[d])
                                            ELSE rtc[d]
               /\ conn'[d] = 0 /\ conn[d] # 0 => native[conn[d]] = "gone"
    PROVE  ClientInv'
  <1>1. Pipes' /\ Latest'
    BY HandledStep
  <1>2. ControlTypes'
    BY DEF ClientInv, ClientTyped, ControlTypes
  <1>3. PipeTypes'
    <2>1. /\ events' \in Seq(Event)
          /\ \A i \in 1 .. Len(events') : events'[i] = events[i + 1] /\ i + 1 \in 1 .. Len(events)
      BY NextMessage DEF ClientInv
    <2> QED BY <2>1 DEF ClientInv, ClientTyped, PipeTypes
  <1> QED BY <1>1, <1>2, <1>3 DEF ClientInv, ClientTyped, Table

\* The device of a message.
LEMMA Addressed ==
    ASSUME ClientInv, NEW m \in Event, m.type # "list", route[m.conn] # None
    PROVE  /\ route[m.conn] \in Devices /\ m.conn \in Ids /\ m.conn # 0
           /\ \A e \in Devices : e # route[m.conn] => conn[e] # m.conn
           /\ route[m.conn] \notin overtaken =>
                  route[m.conn] \in known /\ conn[route[m.conn]] = m.conn
  <1>1. ClientTyped /\ Table /\ m.conn \in Ids
    BY EventFacts DEF ClientInv
  <1> QED BY <1>1, TableFacts DEF Table, RoutesAgree

\* An entry is added, if at all, for a device whose connection an older list has
\* dropped; a segment is attached for the connection that the table has.
LEMMA EntryTable ==
    ASSUME ClientTyped, Table, NEW d \in Devices, UNCHANGED <<conn, route, active, leftover, overtaken>>,
           UNCHANGED <<device, native, counter>>,
           known' \in {known, known \cup {d}}, d \notin overtaken => d \in known,
           NEW c \in Ids, shm' = shm \/ shm' = [shm EXCEPT ![d] = c],
           d \notin overtaken => conn[d] = c
    PROVE  Made' /\ RoutesAgree' /\ FramesAreCurrent' /\ ActiveIsShown' /\ known' \subseteq Devices
           /\ shm' \in [Devices -> 0 .. MaxConns]
  <1>1. known \subseteq Devices /\ shm \in [Devices -> 0 .. MaxConns] /\ c \in 0 .. MaxConns
    BY ClientAssumption DEF ClientTyped, TableTypes, Ids
  <1>2. \A e \in Devices \ overtaken : e \in known' <=> e \in known
    OBVIOUS
  <1>3. Made'
    BY <1>1, <1>2 DEF Table, Made
  <1>4. RoutesAgree'
    BY <1>2 DEF Table, RoutesAgree
  <1>5. FramesAreCurrent'
    BY <1>1 DEF Table, FramesAreCurrent
  <1>6. ActiveIsShown'
    BY DEF Table, ActiveIsShown
  <1> QED BY <1>1, <1>3, <1>4, <1>5, <1>6

LEMMA HandleInv ==
    ASSUME ClientInv, HandleMessage
    PROVE  ClientInv'
  <1> DEFINE m == Head(events)
             d == route[m.conn]
  <1>1. /\ ready /\ events # <<>> /\ events' = Tail(events)
        /\ UNCHANGED <<counter, verify, ready, native, device, inbox>>
    BY DEF HandleMessage
  <1>2. /\ m \in Event /\ m = events[1] /\ 1 \in 1 .. Len(events) /\ ClientTyped /\ Table
    BY <1>1, NextMessage DEF ClientInv
  <1>3. CASE m.type = "list"
    <2>1. ConnectionListChanged(m.list)
      BY <1>3 DEF HandleMessage
    <2> HIDE DEF m, d
    <2>2. /\ TableTypes' /\ Made' /\ RoutesAgree' /\ SessionsFollowState' /\ FramesAreCurrent'
          /\ ActiveIsShown' /\ overtaken \subseteq overtaken'
          /\ \A e \in Devices \ overtaken' :
                /\ conn'[e] = conn[e]
                /\ conn[e] # 0 => conn[e] \in DOMAIN m.list /\ rtc'[e] = m.list[conn[e]]
      BY <1>1, <1>2, <1>3, <2>1, ListTable
    <2>3. \A e \in Devices \ overtaken' :
               /\ conn'[e] \in {0, conn[e]}
               /\ conn'[e] # 0 => rtc'[e] = IF Tells(m, conn[e]) THEN Says(m, conn[e]) ELSE rtc[e]
               /\ conn'[e] = 0 /\ conn[e] # 0 => native[conn[e]] = "gone"
      BY <1>3, <2>2 DEF Tells, Says
    <2> QED BY <1>1, <2>2, <2>3, MessageStep DEF m
  <1>4. CASE m.type # "list" /\ d = None
    <2>1. UNCHANGED <<known, conn, rtc, sig, route, active, shm, leftover, sessions, retired,
                      primary, status, overtaken>>
      BY <1>4 DEF HandleMessage, table, files, shown
    <2>2. TableTypes' /\ Table'
      BY <1>1, <1>2, <2>1 DEF TableTypes, ClientTyped, Table, Made, Latest, RoutesAgree, SessionsFollowState,
         FramesAreCurrent, ActiveIsShown
    <2>3. \A e \in Devices : conn[e] # 0 => ~Tells(m, conn[e])
      BY <1>2, <1>4, TableFacts DEF Tells
    <2> QED BY <1>1, <2>1, <2>2, <2>3, MessageStep DEF Table
  <1>5. CASE m.type # "list" /\ d # None
    <2>1. /\ d \in Devices /\ m.conn \in Ids /\ m.conn # 0 /\ \A e \in Devices \ {d} : conn[e] # m.conn
          /\ d \notin overtaken => d \in known /\ conn[d] = m.conn
      BY <1>2, <1>5, Addressed
    <2>2. /\ overtaken' = overtaken /\ m.type \in Kinds /\ m.state \in States
          /\ CASE m.type = "state" -> ConnectionStateChanged(d, m.state)
               [] m.type = "signal" -> SignalingStateChanged(d, m.state)
               [] m.type = "frame" -> VideoFrameReady(d, m.conn)
               [] m.type = "disconnected" -> HostDisconnected(d)
               [] m.type = "failed" -> ConnectionFailed(d)
               [] m.type = "hostFailed" -> HostConnectionFailed(d)
               [] m.type = "up" -> HostConnected(d)
      BY <1>2, <1>5, EventFacts DEF HandleMessage
    <2>3. m.type = "signal" => m.state # "connecting"
      BY <1>2 DEF ClientTyped, PipeTypes
    <2>4. m.type = "up" => m.state = "connected"
      BY <1>2 DEF ClientTyped, PipeTypes
    <2>5. Ends(m) => native[m.conn] = "gone"
      BY <1>2, <1>5 DEF ClientInv, Pipes, Heard
    <2> HIDE DEF m, d
    <2>6. \A e \in Devices \ {d} : ~Tells(m, conn[e])
      BY <1>5, <2>1 DEF Tells
    <2>7. CASE m.type \in {"disconnected", "failed", "hostFailed"}
      <3>1. Removed(d) /\ (keepSegment(d) \/ detach(d))
        BY <2>2, <2>7 DEF HostDisconnected, ConnectionFailed, HostConnectionFailed
      <3>2. /\ TableTypes' /\ Made' /\ RoutesAgree' /\ SessionsFollowState' /\ FramesAreCurrent'
            /\ ActiveIsShown'
            /\ conn'[d] = 0 /\ \A e \in Devices \ {d} : conn'[e] = conn[e] /\ rtc'[e] = rtc[e]
        BY <1>1, <1>2, <2>1, <2>2, <3>1, RemovedTable
      <3>3. d \notin overtaken => conn[d] = m.conn /\ native[m.conn] = "gone"
        BY <2>1, <2>5, <2>7 DEF Ends
      <3> QED BY <1>1, <2>2, <2>6, <3>2, <3>3, MessageStep DEF m
    <2>8. CASE m.type \in {"state", "up"}
      <3> DEFINE s == m.state
      <3>1. CASE m.type = "up" /\ d \notin known
        <4>1. UNCHANGED <<known, conn, rtc, sig, route, active, shm, leftover, sessions, retired,
                          primary, status, overtaken>>
          BY <2>2, <3>1 DEF HostConnected, files, shown
        <4>2. TableTypes' /\ Table'
          BY <1>1, <1>2, <4>1 DEF TableTypes, ClientTyped, Table, Made, Latest, RoutesAgree,
             SessionsFollowState, FramesAreCurrent, ActiveIsShown
        <4>3. d \in overtaken
          BY <2>1, <3>1
        <4> QED BY <1>1, <2>6, <4>1, <4>2, <4>3, MessageStep DEF Table, m
      <3>2. CASE m.type = "state" \/ d \in known
        <4>1. /\ known' = known \cup {d} /\ rtc' = [rtc EXCEPT ![d] = s] /\ StateChanged(d, s)
              /\ UNCHANGED <<conn, sig, route, active, shm, leftover, shown>>
          BY <2>2, <2>4, <2>8, <3>2 DEF ConnectionStateChanged, HostConnected
        <4>2. UNCHANGED <<conn, sig, route, active, shm, leftover, primary, status>>
          BY <4>1 DEF shown
        <4>3. SessionsFollowState' /\ sessions' \subseteq Ids /\ retired' \subseteq Ids
          BY <1>1, <1>2, <2>1, <2>2, <4>1, <4>2, StateSessions
        <4>4. /\ Made' /\ RoutesAgree' /\ FramesAreCurrent' /\ ActiveIsShown' /\ known' \subseteq Devices
              /\ shm' \in [Devices -> 0 .. MaxConns]
          BY <1>1, <1>2, <2>1, <2>2, <4>1, <4>2, EntryTable
        <4>5. /\ rtc' \in [Devices -> RtcStates] /\ rtc'[d] = s
              /\ \A e \in Devices \ {d} : rtc'[e] = rtc[e]
          BY <1>2, <2>1, <2>2, <4>1 DEF ClientTyped, TableTypes, RtcStates, States, Live
        <4>6. TableTypes'
          BY <1>2, <2>2, <4>2, <4>3, <4>4, <4>5 DEF TableTypes, ClientTyped
        <4>7. d \notin overtaken => Tells(m, conn[d]) /\ Says(m, conn[d]) = s
          BY <1>5, <2>1, <2>8 DEF Tells, Says
        <4> HIDE DEF s
        <4> QED BY <1>1, <2>2, <2>6, <4>2, <4>3, <4>4, <4>5, <4>6, <4>7, MessageStep DEF m
      <3> QED BY <2>8, <3>1, <3>2
    <2>9. CASE m.type \in {"signal", "frame"}
      <3>1. /\ UNCHANGED <<conn, rtc, route, active, leftover, sessions, retired>>
            /\ known' \in {known, known \cup {d}}
            /\ shm' = shm \/ shm' = [shm EXCEPT ![d] = m.conn]
            /\ sig' \in [Devices -> SigStates] /\ primary' \in Devices \cup {None}
            /\ status' \in SigStates
        <4>1. CASE m.type = "signal"
          <5>1. SignalingStateChanged(d, m.state) /\ m.state \in SigStates
            BY <2>2, <2>3, <4>1 DEF States, SigStates, Live
          <5> QED BY <1>2, <2>1, <5>1 DEF SignalingStateChanged, showSignaling, files, ClientTyped, TableTypes
        <4>2. CASE m.type = "frame"
          <5>1. VideoFrameReady(d, m.conn)
            BY <2>2, <4>2
          <5> QED BY <1>2, <5>1 DEF VideoFrameReady, attach, table, files, shown, ClientTyped, TableTypes
        <4> QED BY <2>9, <4>1, <4>2
      <3>2. /\ Made' /\ RoutesAgree' /\ FramesAreCurrent' /\ ActiveIsShown' /\ known' \subseteq Devices
            /\ shm' \in [Devices -> 0 .. MaxConns]
        BY <1>1, <1>2, <2>1, <2>2, <3>1, EntryTable
      <3>3. SessionsFollowState'
        BY <1>1, <1>2, <3>1 DEF SessionsFollowState, Table
      <3>4. TableTypes'
        BY <1>2, <2>2, <3>1, <3>2 DEF TableTypes, ClientTyped
      <3>5. ~Tells(m, conn[d])
        BY <1>5, <2>9 DEF Tells
      <3> QED BY <1>1, <2>2, <2>6, <3>1, <3>2, <3>3, <3>4, <3>5, MessageStep DEF m
    <2> QED BY <2>2, <2>7, <2>8, <2>9 DEF Kinds
  <1> QED BY <1>3, <1>4, <1>5

----------------------------------------------------------------------------
(***************************************************************************)
(* The controller's side of the pipes.                                     *)
(***************************************************************************)

\* The table, the pipes and the native program stay as they are.
LEMMA CalmStep ==
    ASSUME ClientInv,
           UNCHANGED <<known, conn, rtc, sig, route, active, shm, leftover, overtaken, primary, status>>,
           UNCHANGED <<device, native, counter, inbox, events>>,
           ControlTypes', SessionsFollowState', sessions' \subseteq Ids, retired' \subseteq Ids
    PROVE  ClientInv'
  <1>1. TableTypes' /\ PipeTypes'
    BY DEF ClientInv, ClientTyped, TableTypes, PipeTypes
  <1>2. Made' /\ Latest' /\ RoutesAgree' /\ FramesAreCurrent' /\ ActiveIsShown'
    BY DEF ClientInv, Table, Made, Latest, RoutesAgree, FramesAreCurrent, ActiveIsShown
  <1>3. Asked' /\ Doom' /\ Kept'
    BY DEF ClientInv, Pipes, Asked, Doom, Doomed, Kept, Kills
  <1>4. OneLive' /\ Listed' /\ Heard' /\ Story'
    BY DEF ClientInv, Pipes, OneLive, Listed, Heard, Ends, Story
  <1> QED BY <1>1, <1>2, <1>3, <1>4 DEF ClientInv, ClientTyped, Table, Pipes

LEMMA VerifyInv ==
    ASSUME ClientInv, NEW d \in Devices,
           \/ ConnectToRemoteHost(d) \/ InvalidCode(d) \/ VerifyFailed(d)
           \/ \E newer \in BOOLEAN : RefreshedCode(d, newer)
    PROVE  ClientInv'
  <1>1. /\ UNCHANGED <<known, conn, rtc, sig, route, active, shm, leftover, overtaken, primary, status>>
        /\ UNCHANGED <<device, native, counter, inbox, events, ready, sessions, retired>>
        /\ \E v \in {"none", "first", "refresh", "again"} : verify' = [verify EXCEPT ![d] = v]
    BY DEF ConnectToRemoteHost, InvalidCode, VerifyFailed, RefreshedCode, Reported, table, files, shown, pipes
  <1>2. ControlTypes'
    BY <1>1 DEF ClientInv, ClientTyped, ControlTypes
  <1>3. SessionsFollowState' /\ sessions' \subseteq Ids /\ retired' \subseteq Ids
    BY <1>1 DEF ClientInv, ClientTyped, TableTypes, Table, SessionsFollowState
  <1> QED BY <1>1, <1>2, <1>3, CalmStep

\* No file session stays open.
LEMMA SessionsEndInv ==
    ASSUME ClientInv, MessagingError \/ ClientProcessStarted
    PROVE  ClientInv'
  <1>1. /\ UNCHANGED <<known, conn, rtc, sig, route, active, shm, leftover, overtaken, primary, status>>
        /\ UNCHANGED <<device, native, counter, inbox, events, verify>>
        /\ sessions' = {} /\ retired' = retired \cup (sessions \ {0}) /\ ready' \in BOOLEAN
    BY DEF MessagingError, ClientProcessStarted, endSessions, table, shown, pipes, ClientInv, ClientTyped,
       ControlTypes
  <1>2. ControlTypes'
    BY <1>1 DEF ClientInv, ClientTyped, ControlTypes
  <1>3. SessionsFollowState' /\ sessions' \subseteq Ids /\ retired' \subseteq Ids
    BY <1>1 DEF ClientInv, ClientTyped, TableTypes, SessionsFollowState
  <1> QED BY <1>1, <1>2, <1>3, CalmStep

\* One more command in the pipe.
LEMMA OneMore ==
    ASSUME ClientTyped, NEW x \in Command, inbox' = Append(inbox, x)
    PROVE  /\ inbox' \in Seq(Command) /\ Len(inbox') = Len(inbox) + 1 /\ inbox'[Len(inbox) + 1] = x
           /\ Len(inbox) \in Nat /\ \A i \in 1 .. Len(inbox) : inbox'[i] = inbox[i]
  BY AppendProperties, LenProperties DEF ClientTyped, PipeTypes

\* A command to end connections goes out as the table drops them.
LEMMA DropStep ==
    ASSUME ClientInv, NEW x \in Command, x.type # "connect", inbox' = Append(inbox, x),
           UNCHANGED <<events, native, device, overtaken>>,
           \A d \in Devices : conn'[d] \in {0, conn[d]},
           \A d \in Devices : conn'[d] = 0 /\ conn[d] # 0 => Kills(x, conn[d]),
           \A d \in Devices : conn'[d] # 0 => ~Kills(x, conn[d]) /\ rtc'[d] = rtc[d]
    PROVE  Pipes' /\ Latest'
  <1> DEFINE n == Len(inbox)
  <1>1. /\ n \in Nat /\ Len(inbox') = n + 1 /\ inbox'[n + 1] = x
        /\ \A i \in 1 .. n : inbox'[i] = inbox[i]
        /\ \A i \in 1 .. n + 1 : i \in 1 .. n \/ i = n + 1
    BY OneMore DEF ClientInv
  <1>2. \A i \in 1 .. n : inbox[i].type = "connect" => inbox[i].conn \in Ids
    BY TypedFacts, CommandFacts DEF ClientInv
  <1>3. ClientTyped /\ Table
    BY DEF ClientInv
  <1>4. \A c \in Ids : native[c] # "none" => device[c] \in Devices
    BY DEF ClientInv, ClientTyped, PipeTypes, Table, Made
  <1> HIDE DEF n
  <1>5. Latest'
    BY <1>3 DEF Table, Latest
  <1>6. Asked'
    BY <1>1 DEF ClientInv, Pipes, Asked, n
  <1>7. Doom'
    <2> SUFFICES ASSUME NEW c \in Ids, native[c] \in Live \cup {"asked"}, device[c] \notin overtaken,
                        ~(conn'[device[c]] = c /\ rtc'[device[c]] \in Live)
                 PROVE  \E k \in 1 .. n + 1 :
                           /\ Kills(inbox'[k], c)
                           /\ \A j \in 1 .. n + 1 :
                                inbox'[j].type = "connect" /\ device[inbox'[j].conn] = device[c] =>
                                    (j < k <=> inbox'[j].conn <= c)
      BY <1>1 DEF Doom, Doomed
    <2> DEFINE d == device[c]
    <2>1. d \in Devices \ overtaken /\ c # 0
      BY <1>3, <1>4, TableFacts DEF Live
    <2>2. CASE ~(conn[d] = c /\ rtc[d] \in Live)
      <3>1. PICK k \in 1 .. n :
               /\ Kills(inbox[k], c)
               /\ \A j \in 1 .. n : inbox[j].type = "connect" /\ device[inbox[j].conn] = device[c] =>
                                        (j < k <=> inbox[j].conn <= c)
        BY <2>1, <2>2 DEF ClientInv, Pipes, Doom, Doomed, n
      <3>2. k \in 1 .. n + 1 /\ Kills(inbox'[k], c)
        BY <1>1, <3>1
      <3>3. ASSUME NEW j \in 1 .. n + 1, inbox'[j].type = "connect", device[inbox'[j].conn] = device[c]
            PROVE  j < k <=> inbox'[j].conn <= c
        <4>1. j \in 1 .. n /\ inbox'[j] = inbox[j]
          BY <1>1, <3>3
        <4> QED BY <3>1, <3>3, <4>1
      <3> QED BY <3>2, <3>3
    <2>3. CASE conn[d] = c /\ rtc[d] \in Live
      <3>1. conn'[d] = 0 /\ Kills(x, c)
        BY <2>1, <2>3
      <3>2. \A j \in 1 .. n : inbox[j].type = "connect" /\ device[inbox[j].conn] = d => inbox[j].conn <= c
        BY <1>2, <1>3, <2>1, <2>3 DEF Table, Latest
      <3>3. n + 1 \in 1 .. n + 1 /\ \A j \in 1 .. n : j < n + 1
        BY <1>1
      <3> HIDE DEF d
      <3>4. \A j \in 1 .. n + 1 : inbox'[j].type = "connect" /\ device[inbox'[j].conn] = d =>
                                      (j < n + 1 <=> inbox'[j].conn <= c)
        BY <1>1, <3>2, <3>3
      <3> QED BY <1>1, <3>1, <3>3, <3>4 DEF d
    <2> QED BY <2>2, <2>3
  <1>8. Kept'
    <2> SUFFICES ASSUME NEW d \in Devices \ overtaken, NEW k \in 1 .. n + 1, conn'[d] # 0,
                        Kills(inbox'[k], conn'[d])
                 PROVE  \E j \in k + 1 .. n + 1 : inbox'[j].type = "connect" /\ inbox'[j].conn = conn'[d]
      BY <1>1 DEF Kept
    <2>1. conn'[d] = conn[d] /\ ~Kills(x, conn[d])
      OBVIOUS
    <2>2. k \in 1 .. n /\ Kills(inbox[k], conn[d])
      BY <1>1, <2>1
    <2>3. PICK j \in k + 1 .. n : inbox[j].type = "connect" /\ inbox[j].conn = conn[d]
      BY <2>1, <2>2 DEF ClientInv, Pipes, Kept, n
    <2>4. j \in 1 .. n /\ j \in k + 1 .. n + 1
      BY <1>1, <2>2
    <2> QED BY <1>1, <2>1, <2>3, <2>4
  <1>9. OneLive' /\ Listed' /\ Heard'
    BY DEF ClientInv, Pipes, OneLive, Listed, Heard, Ends
  <1>10. Story'
    BY DEF ClientInv, Pipes, Story
  <1> QED BY <1>5, <1>6, <1>7, <1>8, <1>9, <1>10 DEF Pipes

LEMMA DisconnectInv ==
    ASSUME ClientInv, NEW d \in Devices, DisconnectFromHost(d)
    PROVE  ClientInv'
  <1> DEFINE x == [type |-> "disconnect", conn |-> conn[d]]
  <1>1. /\ d \in known /\ conn[d] # 0 /\ inbox' = Append(inbox, x) /\ Removed(d) /\ detach(d)
        /\ UNCHANGED <<counter, verify, ready, native, device, events, overtaken>>
    BY DEF DisconnectFromHost
  <1>2. ClientTyped /\ Table
    BY DEF ClientInv
  <1>3. x \in Command /\ x.type # "connect" /\ \A c \in Ids : Kills(x, c) <=> c = conn[d]
    BY <1>1, <1>2, TableFacts DEF Command, Kills
  <1> HIDE DEF x
  <1>4. /\ TableTypes' /\ Made' /\ RoutesAgree' /\ SessionsFollowState' /\ FramesAreCurrent'
        /\ ActiveIsShown'
        /\ conn'[d] = 0 /\ \A e \in Devices \ {d} : conn'[e] = conn[e] /\ rtc'[e] = rtc[e]
    BY <1>1, <1>2, RemovedTable
  <1>5. \A e \in Devices \ {d} : conn[e] # 0 => conn[e] # conn[d] /\ conn[e] \in Ids
    BY <1>2, TableFacts
  <1>6. Pipes' /\ Latest'
    <2>1. conn[d] \in Ids
      BY <1>1, <1>2, TableFacts
    <2> QED BY <1>1, <1>3, <1>4, <1>5, <2>1, DropStep
  <1>7. ControlTypes' /\ PipeTypes'
    BY <1>1, <1>2, <1>3, OneMore DEF ClientTyped, ControlTypes, PipeTypes
  <1> QED BY <1>4, <1>6, <1>7 DEF ClientInv, ClientTyped, Table

LEMMA DisconnectAllInv ==
    ASSUME ClientInv, DisconnectAll
    PROVE  ClientInv'
  <1> DEFINE x == [type |-> "all", conn |-> 0]
  <1>1. /\ inbox' = Append(inbox, x) /\ RemovedAll
        /\ status' = (IF primary \in known THEN sig[FirstKey(known)] ELSE status)
        /\ UNCHANGED <<counter, verify, ready, native, device, events, overtaken>>
    BY DEF DisconnectAll
  <1>2. ClientTyped /\ Table
    BY DEF ClientInv
  <1>3. x \in Command /\ x.type # "connect" /\ \A c \in Ids : Kills(x, c)
    BY DEF Command, Kills
  <1> HIDE DEF x
  <1>4. status' \in SigStates /\ ready' \in BOOLEAN
    BY <1>1, <1>2 DEF FirstKey, ClientTyped, TableTypes, ControlTypes
  <1>5. TableTypes' /\ Table' /\ \A d \in Devices : conn'[d] = 0
    BY <1>1, <1>2, <1>4, RemovedAllTable
  <1>6. Pipes'
    <2>1. \A d \in Devices : conn[d] # 0 => conn[d] \in Ids
      BY <1>2, TableFacts
    <2> QED BY <1>1, <1>3, <1>5, <2>1, DropStep
  <1>7. ControlTypes' /\ PipeTypes'
    BY <1>1, <1>2, <1>3, OneMore DEF ClientTyped, ControlTypes, PipeTypes
  <1> QED BY <1>5, <1>6, <1>7 DEF ClientInv, ClientTyped

LEMMA StoppedInv ==
    ASSUME ClientInv, ClientProcessStopped
    PROVE  ClientInv'
  <1>1. /\ ready' = FALSE /\ RemovedAll
        /\ status' = (IF primary \in known THEN sig[FirstKey(known)] ELSE "disconnected")
        /\ native' = [c \in Ids |-> IF native[c] = "none" THEN "none" ELSE "gone"]
        /\ inbox' = <<>> /\ events' = <<>> /\ UNCHANGED <<counter, verify, device, overtaken>>
    BY DEF ClientProcessStopped
  <1>2. ClientTyped /\ Table
    BY DEF ClientInv
  <1>3. status' \in SigStates /\ ready' \in BOOLEAN
    BY <1>1, <1>2 DEF FirstKey, ClientTyped, TableTypes, SigStates
  <1>4. /\ native' \in [Ids -> Live \cup {"none", "asked", "gone"}]
        /\ \A c \in Ids : (native'[c] = "none" <=> native[c] = "none") /\ native'[c] \in {"none", "gone"}
    BY <1>1, <1>2
  <1>5. TableTypes' /\ Table' /\ \A d \in Devices : conn'[d] = 0
    BY <1>1, <1>2, <1>3, <1>4, RemovedAllTable
  <1>6. Len(inbox') = 0 /\ Len(events') = 0
    BY <1>1
  <1>7. inbox' \in Seq(Command) /\ events' \in Seq(Event)
    BY <1>1, EmptySeq
  <1>8. ControlTypes' /\ PipeTypes'
    <2>1. ControlTypes'
      BY <1>1, <1>2 DEF ClientTyped, ControlTypes
    <2>2. device' \in [Ids -> Devices \cup {None}]
      BY <1>1, <1>2 DEF ClientTyped, PipeTypes
    <2>3. \A i \in 1 .. Len(events') : FALSE
      BY <1>6
    <2> QED BY <1>4, <1>7, <2>1, <2>2, <2>3 DEF PipeTypes
  <1>9. Asked' /\ Doom' /\ Kept'
    BY <1>4, <1>5, <1>6 DEF Asked, Doom, Kept, Live
  <1>10. OneLive' /\ Listed' /\ Heard' /\ Story'
    BY <1>4, <1>5, <1>6 DEF OneLive, Listed, Heard, Story, Live
  <1> QED BY <1>5, <1>8, <1>9, <1>10 DEF ClientInv, ClientTyped, Pipes

LEMMA VerifiedInv ==
    ASSUME ClientInv, NEW d \in Devices, Verified(d)
    PROVE  ClientInv'
  <1> DEFINE n == counter + 1
             x == [type |-> "connect", conn |-> n]
             len == Len(inbox)
  <1>1. ClientTyped /\ Table
    BY DEF ClientInv
  <1>2. /\ counter < MaxConns /\ verify' = [verify EXCEPT ![d] = "none"]
        /\ UNCHANGED <<ready, events, overtaken, primary, status>> /\ UNCHANGED shown
    BY DEF Verified, shown
  <1>3. verify' \in [Devices -> {"none", "first", "refresh", "again"}] /\ ready' \in BOOLEAN
    BY <1>1, <1>2 DEF ClientTyped, ControlTypes
  <1>4. CASE UNCHANGED <<counter, files, table, device, native, inbox, active, shm, leftover>>
    <2>1. /\ UNCHANGED <<known, conn, rtc, sig, route, active, shm, leftover, overtaken, primary, status>>
          /\ UNCHANGED <<device, native, counter, inbox, events>> /\ UNCHANGED <<sessions, retired>>
      BY <1>2, <1>4 DEF table, files
    <2>2. ControlTypes' /\ SessionsFollowState' /\ sessions' \subseteq Ids /\ retired' \subseteq Ids
      BY <1>1, <1>2, <1>3, <2>1 DEF ControlTypes, ClientTyped, TableTypes, Table, SessionsFollowState
    <2> QED BY <2>1, <2>2, CalmStep
  <1>5. CASE ready /\ ~(d \in known /\ rtc[d] \notin Dead) /\ connectToHost(d)
    <2>1. /\ TableTypes' /\ Table' /\ counter' \in 0 .. MaxConns
          /\ native' \in [Ids -> Live \cup {"none", "asked", "gone"}]
          /\ device' \in [Ids -> Devices \cup {None}]
          /\ n \in Ids /\ native[n] = "none" /\ device[n] = None
          /\ native'[n] = "asked" /\ device'[n] = d
          /\ \A c \in Ids \ {n} : native'[c] = native[c] /\ device'[c] = device[c]
          /\ conn'[d] = n /\ rtc'[d] = "connecting"
          /\ \A e \in Devices \ {d} : conn'[e] = conn[e] /\ rtc'[e] = rtc[e]
          /\ \A e \in Devices : conn[e] # n
      BY <1>1, <1>2, <1>5, ConnectTable
    <2>2. x \in Command /\ inbox' = Append(inbox, x) /\ x.type = "connect" /\ x.conn = n
      BY <1>5, <2>1 DEF connectToHost, Command
    <2>3. ~(d \in known /\ rtc[d] \in Live)
      BY <1>5 DEF Dead, Live
    <2> HIDE DEF x, n
    <2>4. /\ len \in Nat /\ Len(inbox') = len + 1 /\ inbox'[len + 1] = x /\ inbox' \in Seq(Command)
          /\ \A i \in 1 .. len : inbox'[i] = inbox[i]
          /\ \A i \in 1 .. len + 1 : i \in 1 .. len \/ i = len + 1
      BY <1>1, <2>2, OneMore
    <2> HIDE DEF len
    <2>5. PipeTypes' /\ ControlTypes'
      BY <1>1, <1>2, <1>3, <2>1, <2>4 DEF ClientTyped, PipeTypes, ControlTypes
    <2>6. \A c \in Ids : native[c] # "none" => c < n /\ c # n /\ device'[c] = device[c] /\ native'[c] = native[c]
      <3>1. counter \in Nat /\ Ids \subseteq Nat
        BY <1>1, TableFacts DEF ClientTyped, ControlTypes
      <3>2. \A c \in Ids : native[c] # "none" => c <= counter
        <4>1. \A c \in Ids : (native[c] = "none") <=> c > counter
          BY <1>1 DEF Table, Made
        <4> QED BY <3>1, <4>1
      <3>3. \A c \in Ids : native[c] # "none" => c < n /\ c # n
        BY <3>1, <3>2 DEF n
      <3> QED BY <2>1, <3>3
    <2>7. /\ \A i \in 1 .. len : inbox[i].type = "connect" =>
                 inbox[i].conn \in Ids /\ native[inbox[i].conn] = "asked"
          /\ \A i \in 1 .. len : inbox[i] \in Command
      BY <1>1, TypedFacts, CommandFacts DEF ClientInv, Pipes, Asked, len
    <2>8. Asked'
      <3>1. \A i \in 1 .. len + 1 : inbox'[i].type = "connect" => native'[inbox'[i].conn] = "asked"
        BY <2>1, <2>2, <2>4, <2>6, <2>7
      <3>2. \A i, j \in 1 .. len + 1 :
               i < j /\ inbox'[i].type = "connect" /\ inbox'[j].type = "connect"
               => inbox'[i].conn < inbox'[j].conn
        <4> SUFFICES ASSUME NEW i \in 1 .. len + 1, NEW j \in 1 .. len + 1, i < j,
                            inbox'[i].type = "connect", inbox'[j].type = "connect"
                     PROVE  inbox'[i].conn < inbox'[j].conn
          OBVIOUS
        <4>1. i \in 1 .. len
          BY <2>4
        <4>2. CASE j \in 1 .. len
          BY <2>4, <4>1, <4>2 DEF ClientInv, Pipes, Asked, len
        <4>3. CASE j = len + 1
          BY <2>2, <2>4, <2>6, <2>7, <4>1, <4>3
        <4> QED BY <2>4, <4>2, <4>3
      <3>3. \A c \in Ids : native'[c] = "asked" =>
               \E i \in 1 .. len + 1 : inbox'[i].type = "connect" /\ inbox'[i].conn = c
        <4>1. len + 1 \in 1 .. len + 1 /\ 1 .. len \subseteq 1 .. len + 1
          BY <2>4
        <4>2. \A c \in Ids : native[c] = "asked" =>
                 \E i \in 1 .. len : inbox[i].type = "connect" /\ inbox[i].conn = c
          BY DEF ClientInv, Pipes, Asked, len
        <4>3. \A c \in Ids \ {n} : native'[c] = "asked" => native[c] = "asked"
          BY <2>1
        <4> QED BY <2>2, <2>4, <4>1, <4>2, <4>3
      <3>4. \A c, e \in Ids : c < e /\ native'[c] = "asked" => native'[e] \in {"asked", "none"}
        <4> SUFFICES ASSUME NEW c \in Ids, NEW e \in Ids, c < e, native'[c] = "asked"
                     PROVE  native'[e] \in {"asked", "none"}
          OBVIOUS
        <4>1. CASE e = n
          BY <2>1, <4>1
        <4>2. CASE e # n /\ native[e] # "none"
          <5>1. c # n
            BY <2>1, <2>6, <4>2, ClientAssumption DEF Ids
          <5> QED BY <2>1, <4>2, <5>1 DEF ClientInv, Pipes, Asked
        <4>3. CASE e # n /\ native[e] = "none"
          BY <2>1, <4>3
        <4> QED BY <4>1, <4>2, <4>3
      <3> QED BY <2>4, <3>1, <3>2, <3>3, <3>4 DEF Asked
    <2>9. Doom'
      <3> SUFFICES ASSUME NEW c \in Ids, native'[c] \in Live \cup {"asked"}, device'[c] \notin overtaken,
                          ~(conn'[device'[c]] = c /\ rtc'[device'[c]] \in Live)
                   PROVE  \E k \in 1 .. len + 1 :
                             /\ Kills(inbox'[k], c)
                             /\ \A j \in 1 .. len + 1 :
                                  inbox'[j].type = "connect" /\ device'[inbox'[j].conn] = device'[c] =>
                                      (j < k <=> inbox'[j].conn <= c)
        BY <1>2, <2>4 DEF Doom, Doomed
      <3>1. c # n
        BY <2>1 DEF Live
      <3>2. /\ native[c] \in Live \cup {"asked"} /\ native[c] # "none" /\ device'[c] = device[c]
            /\ device[c] \in Devices
        BY <1>1, <2>1, <3>1 DEF Live, Table, Made, ClientTyped, PipeTypes
      <3>3. ~(conn[device[c]] = c /\ rtc[device[c]] \in Live)
        <4>1. CASE device[c] = d
          <5>1. conn[d] # 0 => d \in known
            BY <1>1, TableFacts
          <5>2. c # 0
            BY <1>1, TableFacts
          <5> QED BY <2>3, <4>1, <5>1, <5>2
        <4>2. CASE device[c] # d
          BY <2>1, <3>2, <4>2
        <4> QED BY <4>1, <4>2
      <3>4. PICK k \in 1 .. len :
               /\ Kills(inbox[k], c)
               /\ \A j \in 1 .. len : inbox[j].type = "connect" /\ device[inbox[j].conn] = device[c] =>
                                        (j < k <=> inbox[j].conn <= c)
        BY <3>2, <3>3 DEF ClientInv, Pipes, Doom, Doomed, len
      <3>5. k \in 1 .. len + 1 /\ Kills(inbox'[k], c) /\ ~(len + 1 < k)
        BY <2>4, <3>4
      <3>6. ~(n <= c)
        BY <2>6, <3>2, <1>1, TableFacts, <2>1
      <3>7. ASSUME NEW j \in 1 .. len + 1, inbox'[j].type = "connect", device'[inbox'[j].conn] = device'[c]
            PROVE  j < k <=> inbox'[j].conn <= c
        <4>1. CASE j \in 1 .. len
          <5>1. inbox'[j] = inbox[j] /\ device[inbox[j].conn] = device[c]
            BY <2>4, <2>6, <2>7, <3>2, <3>7, <4>1
          <5> QED BY <3>4, <3>7, <4>1, <5>1
        <4>2. CASE j = len + 1
          BY <2>2, <2>4, <3>5, <3>6, <4>2
        <4> QED BY <2>4, <4>1, <4>2
      <3> QED BY <3>5, <3>7
    <2>10. Kept'
      <3> SUFFICES ASSUME NEW e \in Devices \ overtaken, NEW k \in 1 .. len + 1, conn'[e] # 0,
                          Kills(inbox'[k], conn'[e])
                   PROVE  \E j \in k + 1 .. len + 1 : inbox'[j].type = "connect" /\ inbox'[j].conn = conn'[e]
        BY <1>2, <2>4 DEF Kept
      <3>1. k \in 1 .. len
        BY <2>2, <2>4 DEF Kills
      <3>2. CASE e = d
        <4>1. len + 1 \in k + 1 .. len + 1
          BY <2>4, <3>1
        <4> QED BY <2>1, <2>2, <2>4, <3>2, <4>1
      <3>3. CASE e # d
        <4>1. PICK j \in k + 1 .. len : inbox[j].type = "connect" /\ inbox[j].conn = conn[e]
          BY <2>1, <2>4, <3>1, <3>3 DEF ClientInv, Pipes, Kept, len
        <4>2. j \in 1 .. len /\ j \in k + 1 .. len + 1
          BY <2>4, <3>1
        <4> QED BY <2>1, <2>4, <3>3, <4>1, <4>2
      <3> QED BY <3>2, <3>3
    <2>11. OneLive'
      <3>1. \A c \in Ids : native'[c] \in Live => native[c] \in Live /\ device'[c] = device[c]
        BY <2>1 DEF Live
      <3> QED BY <1>2, <3>1 DEF ClientInv, Pipes, OneLive
    <2>12. Listed' /\ Heard'
      <3>1. \A c \in Ids : native[c] \in Live \cup {"gone"} =>
               native'[c] = native[c] /\ device'[c] = device[c] /\ c # n
        BY <2>1 DEF Live
      <3>2. ASSUME NEW i \in 1 .. Len(events), events[i].type = "list"
            PROVE  \A c \in DOMAIN events[i].list : c \in Ids /\ native[c] \in Live \cup {"gone"}
        BY <1>1, <3>2, TypedFacts, EventFacts DEF ClientInv, Pipes, Listed
      <3>3. \A i \in 1 .. Len(events) : events[i].type = "list" =>
               \A c, e \in DOMAIN events[i].list :
                  native'[c] \in Live \cup {"gone"} /\
                  (device'[c] = device'[e] /\ device'[c] \notin overtaken => c = e)
        BY <3>1, <3>2 DEF ClientInv, Pipes, Listed
      <3>4. \A i \in 1 .. Len(events) : events[i].type # "list" => events[i].conn \in Ids
        BY <1>1, TypedFacts, EventFacts
      <3>5. Heard'
        BY <1>2, <3>1, <3>4 DEF ClientInv, Pipes, Heard, Ends
      <3>6. Listed'
        BY <1>2, <3>3 DEF Listed
      <3> QED BY <3>5, <3>6
    <2>13. Story'
      <3> SUFFICES ASSUME NEW e \in Devices \ overtaken, conn'[e] # 0
                   PROVE  \/ /\ rtc'[e] = Seen(native'[conn'[e]])
                             /\ \A i \in 1 .. Len(events) : ~Tells(events[i], conn'[e])
                          \/ \E i \in 1 .. Len(events) :
                                /\ Tells(events[i], conn'[e])
                                /\ Says(events[i], conn'[e]) = Seen(native'[conn'[e]])
                                /\ \A j \in i + 1 .. Len(events) : ~Tells(events[j], conn'[e])
        BY <1>2 DEF Story
      <3>1. CASE e = d
        <4>1. rtc'[e] = Seen(native'[n])
          BY <2>1, <3>1 DEF Seen, Live
        <4>2. ASSUME NEW i \in 1 .. Len(events), Tells(events[i], n) PROVE FALSE
          <5>1. CASE events[i].type = "list"
            <6>1. n \in DOMAIN events[i].list
              BY <4>2, <5>1 DEF Tells
            <6>2. native[n] \in Live \cup {"gone"}
              BY <5>1, <6>1 DEF ClientInv, Pipes, Listed
            <6> QED BY <2>1, <6>2 DEF Live
          <5>2. CASE events[i].type # "list"
            <6>1. events[i].conn = n
              BY <4>2, <5>2 DEF Tells
            <6>2. native[n] \in Live \cup {"gone"}
              BY <5>2, <6>1 DEF ClientInv, Pipes, Heard
            <6> QED BY <2>1, <6>2 DEF Live
          <5> QED BY <5>1, <5>2
        <4> QED BY <2>1, <3>1, <4>1, <4>2
      <3>2. CASE e # d
        <4>1. conn'[e] = conn[e] /\ rtc'[e] = rtc[e] /\ conn[e] \in Ids /\ native'[conn[e]] = native[conn[e]]
          BY <1>1, <2>1, <3>2, TableFacts
        <4> QED BY <4>1 DEF ClientInv, Pipes, Story
      <3> QED BY <3>1, <3>2
    <2> QED BY <2>1, <2>5, <2>8, <2>9, <2>10, <2>11, <2>12, <2>13 DEF ClientInv, ClientTyped, Pipes
  <1> QED BY <1>4, <1>5 DEF Verified

----------------------------------------------------------------------------
(***************************************************************************)
(* The native program's side of the pipes.                                 *)
(***************************************************************************)

\* The table stays as it is, and so does the set of connections that were made.
LEMMA SameTable ==
    ASSUME ClientTyped, Table,
           UNCHANGED <<table, active, shm, files, counter, verify, shown, ready, device,
                       overtaken, leftover>>,
           \A c \in Ids : (native'[c] = "none") <=> (native[c] = "none")
    PROVE  /\ TableTypes' /\ Table' /\ ControlTypes' /\ UNCHANGED <<conn, rtc, device, overtaken>>
  <1>1. /\ UNCHANGED <<known, conn, rtc, sig, route, active, shm, leftover, overtaken, primary, status>>
        /\ UNCHANGED <<device, counter, verify, ready, sessions, retired>>
    BY DEF table, files, shown
  <1>2. TableTypes' /\ ControlTypes'
    BY <1>1 DEF ClientTyped, TableTypes, ControlTypes
  <1>3. Made' /\ Latest'
    BY <1>1 DEF Table, Made, Latest
  <1>4. RoutesAgree' /\ SessionsFollowState' /\ FramesAreCurrent' /\ ActiveIsShown'
    BY <1>1 DEF Table, RoutesAgree, SessionsFollowState, FramesAreCurrent, ActiveIsShown
  <1> QED BY <1>1, <1>2, <1>3, <1>4 DEF Table

\* New messages that tell the truth about the native program's new state.
LEMMA EventsStep ==
    ASSUME ClientInv, UNCHANGED <<conn, rtc, device, overtaken>>,
           Len(events') \in Nat, Len(events) <= Len(events'),
           \A i \in 1 .. Len(events) : events'[i] = events[i],
           \A c \in Ids : /\ native[c] \in Live \cup {"gone"} => native'[c] \in Live \cup {"gone"}
                          /\ native[c] = "gone" => native'[c] = "gone",
           \A i \in Len(events) + 1 .. Len(events') :
               /\ events'[i].type = "list" =>
                     \A c, e \in DOMAIN events'[i].list :
                         /\ native'[c] \in Live \cup {"gone"}
                         /\ device[c] = device[e] /\ device[c] \notin overtaken => c = e
               /\ events'[i].type # "list" =>
                     /\ native'[events'[i].conn] \in Live \cup {"gone"}
                     /\ Ends(events'[i]) => native'[events'[i].conn] = "gone",
           \A d \in Devices \ overtaken : conn[d] # 0 =>
               \/ /\ Seen(native'[conn[d]]) = Seen(native[conn[d]])
                  /\ \A i \in Len(events) + 1 .. Len(events') : ~Tells(events'[i], conn[d])
               \/ \E i \in Len(events) + 1 .. Len(events') :
                     /\ Tells(events'[i], conn[d]) /\ Says(events'[i], conn[d]) = Seen(native'[conn[d]])
                     /\ \A j \in i + 1 .. Len(events') : ~Tells(events'[j], conn[d])
    PROVE  Listed' /\ Heard' /\ Story'
  <1> DEFINE n == Len(events)
             m == Len(events')
  <1>1. /\ n \in Nat /\ m \in Nat /\ n <= m
        /\ \A i \in 1 .. m : i \in 1 .. n \/ i \in n + 1 .. m
        /\ \A i \in 1 .. n : i \in 1 .. m
        /\ \A i \in 1 .. n : events[i] \in Event
    BY TypedFacts DEF ClientInv
  <1>2. ASSUME NEW i \in 1 .. n, events[i].type = "list"
        PROVE  \A c, e \in DOMAIN events[i].list :
                   /\ native'[c] \in Live \cup {"gone"}
                   /\ device[c] = device[e] /\ device[c] \notin overtaken => c = e
    <2>1. DOMAIN events[i].list \subseteq Ids
      BY <1>1, <1>2, EventFacts
    <2> QED BY <1>2, <2>1 DEF ClientInv, Pipes, Listed
  <1>3. Listed'
    <2> SUFFICES ASSUME NEW i \in 1 .. m, events'[i].type = "list"
                 PROVE  \A c, e \in DOMAIN events'[i].list :
                            /\ native'[c] \in Live \cup {"gone"}
                            /\ device[c] = device[e] /\ device[c] \notin overtaken => c = e
      BY DEF Listed
    <2> HIDE DEF m, n
    <2>1. CASE i \in 1 .. n
      BY <1>2, <2>1 DEF n
    <2>2. CASE i \in n + 1 .. m
      BY <2>2 DEF m, n
    <2> QED BY <1>1, <2>1, <2>2
  <1>4. Heard'
    <2> SUFFICES ASSUME NEW i \in 1 .. m, events'[i].type # "list"
                 PROVE  /\ native'[events'[i].conn] \in Live \cup {"gone"}
                        /\ Ends(events'[i]) => native'[events'[i].conn] = "gone"
      BY DEF Heard, Ends
    <2> HIDE DEF m, n
    <2>1. CASE i \in 1 .. n
      <3>1. events'[i] = events[i]
        BY <2>1 DEF n
      <3>2. events[i].conn \in Ids
        BY <1>1, <2>1, <3>1, EventFacts
      <3>3. /\ native[events[i].conn] \in Live \cup {"gone"}
            /\ Ends(events[i]) => native[events[i].conn] = "gone"
        BY <2>1, <3>1 DEF ClientInv, Pipes, Heard, n
      <3> QED BY <3>1, <3>2, <3>3
    <2>2. CASE i \in n + 1 .. m
      BY <2>2 DEF m, n
    <2> QED BY <1>1, <2>1, <2>2
  <1>5. Story'
    <2> SUFFICES ASSUME NEW d \in Devices \ overtaken, conn[d] # 0
                 PROVE  \/ /\ rtc[d] = Seen(native'[conn[d]])
                           /\ \A i \in 1 .. m : ~Tells(events'[i], conn[d])
                        \/ \E i \in 1 .. m :
                              /\ Tells(events'[i], conn[d]) /\ Says(events'[i], conn[d]) = Seen(native'[conn[d]])
                              /\ \A j \in i + 1 .. m : ~Tells(events'[j], conn[d])
      BY DEF Story
    <2> DEFINE c == conn[d]
    <2>1. ASSUME Seen(native'[c]) = Seen(native[c]), \A i \in n + 1 .. m : ~Tells(events'[i], c)
          PROVE  \/ /\ rtc[d] = Seen(native'[c])
                    /\ \A i \in 1 .. m : ~Tells(events'[i], c)
                 \/ \E i \in 1 .. m :
                       /\ Tells(events'[i], c) /\ Says(events'[i], c) = Seen(native'[c])
                       /\ \A j \in i + 1 .. m : ~Tells(events'[j], c)
      <3>1. CASE rtc[d] = Seen(native[c]) /\ \A i \in 1 .. n : ~Tells(events[i], c)
        <4> HIDE DEF m, c
        <4>1. \A i \in 1 .. n : ~Tells(events'[i], c)
          BY <3>1
        <4> HIDE DEF n
        <4> QED BY <1>1, <2>1, <3>1, <4>1
      <3>2. ASSUME NEW i \in 1 .. n, Tells(events[i], c), Says(events[i], c) = Seen(native[c]),
                   \A j \in i + 1 .. n : ~Tells(events[j], c)
            PROVE  \E k \in 1 .. m :
                       /\ Tells(events'[k], c) /\ Says(events'[k], c) = Seen(native'[c])
                       /\ \A j \in k + 1 .. m : ~Tells(events'[j], c)
        <4>1. events'[i] = events[i] /\ \A j \in i + 1 .. n : events'[j] = events[j]
          BY <1>1, <3>2
        <4> HIDE DEF m, c, n
        <4>2. \A j \in i + 1 .. m : j \in i + 1 .. n \/ j \in n + 1 .. m
          BY <1>1, <3>2
        <4>3. i \in 1 .. m
          BY <1>1, <3>2
        <4>4. \A j \in i + 1 .. m : ~Tells(events'[j], c)
          BY <2>1, <3>2, <4>1, <4>2
        <4> QED BY <2>1, <3>2, <4>1, <4>3, <4>4
      <3> QED BY <3>1, <3>2 DEF ClientInv, Pipes, Story
    <2>2. ASSUME NEW i \in n + 1 .. m, Tells(events'[i], c), Says(events'[i], c) = Seen(native'[c]),
                 \A j \in i + 1 .. m : ~Tells(events'[j], c)
          PROVE  \E k \in 1 .. m :
                     /\ Tells(events'[k], c) /\ Says(events'[k], c) = Seen(native'[c])
                     /\ \A j \in k + 1 .. m : ~Tells(events'[j], c)
      <3>1. i \in 1 .. m
        BY <1>1, <2>2
      <3> HIDE DEF m, c
      <3> QED BY <2>2, <3>1
    <2> QED BY <2>1, <2>2
  <1> QED BY <1>3, <1>4, <1>5

\* Connections change or end, and no command is taken.
LEMMA NativeStep ==
    ASSUME ClientInv, UNCHANGED <<conn, rtc, device, overtaken, inbox>>,
           \A c \in Ids : native'[c] = native[c] \/ (native[c] \in Live /\ native'[c] \in Live \cup {"gone"})
    PROVE  /\ Asked' /\ Doom' /\ Kept' /\ OneLive'
           /\ \A c \in Ids : (native'[c] = "none") <=> (native[c] = "none")
           /\ \A c \in Ids : /\ native[c] \in Live \cup {"gone"} => native'[c] \in Live \cup {"gone"}
                             /\ native[c] = "gone" => native'[c] = "gone"
  <1>1. \A c \in Ids : /\ (native'[c] = "none") <=> (native[c] = "none")
                       /\ (native'[c] = "asked") <=> (native[c] = "asked")
                       /\ native'[c] \in Live => native[c] \in Live
                       /\ native[c] \in Live \cup {"gone"} => native'[c] \in Live \cup {"gone"}
                       /\ native[c] = "gone" => native'[c] = "gone"
    BY DEF Live
  <1>2. \A i \in 1 .. Len(inbox) : inbox[i].type = "connect" => inbox[i].conn \in Ids
    BY TypedFacts, CommandFacts DEF ClientInv
  <1>3. Asked'
    BY <1>1, <1>2 DEF ClientInv, Pipes, Asked
  <1>4. Doom'
    <2>1. \A c \in Ids : Doomed(c)' <=> Doomed(c)
      BY DEF Doomed, Kills
    <2> QED BY <1>1, <2>1 DEF ClientInv, Pipes, Doom
  <1>5. Kept' /\ OneLive'
    BY <1>1 DEF ClientInv, Pipes, Kept, Kills, OneLive
  <1> QED BY <1>1, <1>3, <1>4, <1>5

\* One more message on its way back.
LEMMA OneMessage ==
    ASSUME ClientTyped, NEW x \in Event, events' = Append(events, x),
           x.type = "signal" => x.state # "connecting", x.type = "up" => x.state = "connected"
    PROVE  /\ events' \in Seq(Event) /\ Len(events') = Len(events) + 1 /\ events'[Len(events) + 1] = x
           /\ Len(events) \in Nat /\ \A i \in 1 .. Len(events) : events'[i] = events[i]
           /\ Len(events) + 1 .. Len(events') = {Len(events) + 1}
           /\ \A i \in 1 .. Len(events') : /\ events'[i].type = "signal" => events'[i].state # "connecting"
                                           /\ events'[i].type = "up" => events'[i].state = "connected"
  <1> DEFINE n == Len(events)
  <1>1. /\ events' \in Seq(Event) /\ Len(events') = n + 1 /\ events'[n + 1] = x
        /\ n \in Nat /\ \A i \in 1 .. n : events'[i] = events[i]
    BY AppendProperties, LenProperties DEF ClientTyped, PipeTypes
  <1>2. \A i \in 1 .. n : /\ events[i].type = "signal" => events[i].state # "connecting"
                          /\ events[i].type = "up" => events[i].state = "connected"
    BY DEF ClientTyped, PipeTypes
  <1> HIDE DEF n
  <1>3. \A i \in 1 .. n + 1 : i \in 1 .. n \/ i = n + 1
    BY <1>1
  <1>4. n + 1 .. n + 1 = {n + 1}
    BY <1>1
  <1>5. \A i \in 1 .. n + 1 : /\ events'[i].type = "signal" => events'[i].state # "connecting"
                              /\ events'[i].type = "up" => events'[i].state = "connected"
    BY <1>1, <1>2, <1>3
  <1> QED BY <1>1, <1>4, <1>5 DEF n

LEMMA SendsListInv ==
    ASSUME ClientInv, SendsList
    PROVE  ClientInv'
  <1> DEFINE L == [c \in {e \in Ids : native[e] \in Live} |-> native[c]]
             x == [type |-> "list", conn |-> 0, list |-> L]
  <1>1. /\ events' = Append(events, x) /\ UNCHANGED <<native, inbox>>
        /\ UNCHANGED <<table, active, shm, files, counter, verify, shown, ready, device,
                       overtaken, leftover>>
    BY DEF SendsList
  <1>2. ClientTyped /\ Table
    BY DEF ClientInv
  <1>3. L \in [{e \in Ids : native[e] \in Live} -> Live]
    OBVIOUS
  <1>4. x \in Event /\ x.type = "list" /\ x.list = L /\ DOMAIN L = {e \in Ids : native[e] \in Live}
    <2>1. x \in [type : {"list"}, conn : {0}, list : UNION {[S -> Live] : S \in SUBSET Ids}]
      BY <1>3
    <2> QED BY <2>1 DEF Event
  <1>5. \A c \in DOMAIN L : L[c] = native[c]
    OBVIOUS
  <1> HIDE DEF x, L
  <1>6. /\ TableTypes' /\ Table' /\ ControlTypes' /\ UNCHANGED <<conn, rtc, device, overtaken>>
    BY <1>1, <1>2, SameTable
  <1>7. /\ Asked' /\ Doom' /\ Kept' /\ OneLive'
    BY <1>1, <1>6, NativeStep
  <1>8. /\ events' \in Seq(Event) /\ Len(events') = Len(events) + 1 /\ events'[Len(events) + 1] = x
        /\ Len(events) \in Nat /\ \A i \in 1 .. Len(events) : events'[i] = events[i]
        /\ Len(events) + 1 .. Len(events') = {Len(events) + 1}
        /\ \A i \in 1 .. Len(events') : /\ events'[i].type = "signal" => events'[i].state # "connecting"
                                        /\ events'[i].type = "up" => events'[i].state = "connected"
    BY <1>1, <1>2, <1>4, OneMessage
  <1>9. Listed' /\ Heard' /\ Story'
    <2>1. \A c, e \in DOMAIN L : /\ native[c] \in Live \cup {"gone"}
                                 /\ device[c] = device[e] /\ device[c] \notin overtaken => c = e
      BY <1>4 DEF ClientInv, Pipes, OneLive
    <2>2. Len(events') \in Nat /\ Len(events) <= Len(events') /\ Len(events) + 1 \in Len(events) + 1 .. Len(events')
      BY <1>8
    <2>3. ASSUME NEW d \in Devices \ overtaken, conn[d] # 0
          PROVE  \/ /\ Seen(native'[conn[d]]) = Seen(native[conn[d]])
                    /\ \A i \in Len(events) + 1 .. Len(events') : ~Tells(events'[i], conn[d])
                 \/ \E i \in Len(events) + 1 .. Len(events') :
                       /\ Tells(events'[i], conn[d]) /\ Says(events'[i], conn[d]) = Seen(native'[conn[d]])
                       /\ \A j \in i + 1 .. Len(events') : ~Tells(events'[j], conn[d])
      <3>1. CASE conn[d] \in DOMAIN L
        <4>1. Tells(x, conn[d]) /\ Says(x, conn[d]) = Seen(native'[conn[d]])
          BY <1>1, <1>4, <1>5, <3>1 DEF Tells, Says, Seen
        <4>2. \A j \in Len(events) + 1 + 1 .. Len(events') : FALSE
          BY <1>8
        <4> QED BY <1>8, <2>2, <4>1, <4>2
      <3>2. CASE conn[d] \notin DOMAIN L
        <4>1. ~Tells(x, conn[d])
          BY <1>4, <3>2 DEF Tells
        <4> QED BY <1>1, <1>8, <4>1
      <3> QED BY <3>1, <3>2
    <2>4. \A i \in Len(events) + 1 .. Len(events') :
             /\ events'[i].type = "list" =>
                   \A c, e \in DOMAIN events'[i].list :
                       /\ native'[c] \in Live \cup {"gone"}
                       /\ device[c] = device[e] /\ device[c] \notin overtaken => c = e
             /\ events'[i].type # "list" =>
                   /\ native'[events'[i].conn] \in Live \cup {"gone"}
                   /\ Ends(events'[i]) => native'[events'[i].conn] = "gone"
      BY <1>1, <1>4, <1>8, <2>1
    <2> QED BY <1>1, <1>6, <1>8, <2>2, <2>3, <2>4, EventsStep
  <1>10. PipeTypes'
    BY <1>1, <1>2, <1>6, <1>8 DEF ClientTyped, PipeTypes
  <1> QED BY <1>6, <1>7, <1>9, <1>10 DEF ClientInv, ClientTyped, Pipes

\* A message about a live connection, with the change it reports.
LEMMA SpeaksStep ==
    ASSUME ClientInv, NEW c \in Ids, native[c] \in Live, NEW s \in Live \cup {"gone"},
           native' = [native EXCEPT ![c] = s],
           UNCHANGED <<table, active, shm, files, counter, verify, shown, ready, device, inbox,
                       overtaken, leftover>>,
           events' \in Seq(Event), Len(events) < Len(events'),
           \A i \in 1 .. Len(events) : events'[i] = events[i],
           \A i \in Len(events) + 1 .. Len(events') :
               /\ events'[i].type # "list" /\ events'[i].conn = c
               /\ Ends(events'[i]) => s = "gone"
               /\ events'[i].type = "signal" => events'[i].state # "connecting"
               /\ events'[i].type = "up" => events'[i].state = "connected",
           \/ /\ s = native[c]
              /\ \A i \in Len(events) + 1 .. Len(events') : events'[i].type \in {"signal", "frame"}
           \/ /\ events'[Len(events')].type \notin {"signal", "frame"}
              /\ events'[Len(events')].state = Seen(s)
    PROVE  ClientInv'
  <1>1. ClientTyped /\ Table
    BY DEF ClientInv
  <1>2. /\ \A e \in Ids \ {c} : native'[e] = native[e]
        /\ native'[c] = s /\ native' \in [Ids -> Live \cup {"none", "asked", "gone"}]
    BY <1>1 DEF ClientTyped, PipeTypes
  <1>3. /\ \A e \in Ids : native'[e] = native[e] \/ (native[e] \in Live /\ native'[e] \in Live \cup {"gone"})
        /\ \A e \in Ids : (native'[e] = "none") <=> (native[e] = "none")
    BY <1>2 DEF Live
  <1>4. /\ TableTypes' /\ Table' /\ ControlTypes' /\ UNCHANGED <<conn, rtc, device, overtaken>>
    BY <1>1, <1>3, SameTable
  <1>5. /\ Asked' /\ Doom' /\ Kept' /\ OneLive'
        /\ \A e \in Ids : /\ native[e] \in Live \cup {"gone"} => native'[e] \in Live \cup {"gone"}
                          /\ native[e] = "gone" => native'[e] = "gone"
    BY <1>3, <1>4, NativeStep
  <1>6. /\ Len(events) \in Nat /\ Len(events') \in Nat
        /\ \A i \in 1 .. Len(events') : i \in 1 .. Len(events) \/ i \in Len(events) + 1 .. Len(events')
        /\ Len(events') \in Len(events) + 1 .. Len(events')
        /\ \A j \in Len(events') + 1 .. Len(events') : FALSE
    <2>1. Len(events) \in Nat /\ Len(events') \in Nat
      BY LenProperties, TypedFacts, <1>1
    <2> QED BY <2>1
  <1>7. PipeTypes'
    <2>1. \A i \in 1 .. Len(events') : /\ events'[i].type = "signal" => events'[i].state # "connecting"
                                       /\ events'[i].type = "up" => events'[i].state = "connected"
      BY <1>1, <1>6 DEF ClientTyped, PipeTypes
    <2> QED BY <1>1, <1>2, <1>4, <2>1 DEF ClientTyped, PipeTypes
  <1>8. ASSUME NEW d \in Devices \ overtaken, conn[d] # 0
        PROVE  \/ /\ Seen(native'[conn[d]]) = Seen(native[conn[d]])
                  /\ \A i \in Len(events) + 1 .. Len(events') : ~Tells(events'[i], conn[d])
               \/ \E i \in Len(events) + 1 .. Len(events') :
                     /\ Tells(events'[i], conn[d]) /\ Says(events'[i], conn[d]) = Seen(native'[conn[d]])
                     /\ \A j \in i + 1 .. Len(events') : ~Tells(events'[j], conn[d])
    <2>1. CASE conn[d] # c
      <3>1. native'[conn[d]] = native[conn[d]]
        BY <1>1, <1>2, <1>8, <2>1, TableFacts
      <3> QED BY <2>1, <3>1 DEF Tells
    <2>2. CASE /\ conn[d] = c /\ s = native[c]
               /\ \A i \in Len(events) + 1 .. Len(events') : events'[i].type \in {"signal", "frame"}
      BY <1>2, <2>2 DEF Tells
    <2>3. CASE /\ conn[d] = c /\ events'[Len(events')].type \notin {"signal", "frame"}
               /\ events'[Len(events')].state = Seen(s)
      <3>1. /\ Tells(events'[Len(events')], conn[d])
            /\ Says(events'[Len(events')], conn[d]) = Seen(native'[conn[d]])
        BY <1>2, <1>6, <2>3 DEF Tells, Says
      <3> QED BY <1>6, <3>1
    <2> QED BY <2>1, <2>2, <2>3
  <1>9. \A i \in Len(events) + 1 .. Len(events') :
           /\ events'[i].type = "list" =>
                 \A a, e \in DOMAIN events'[i].list :
                     /\ native'[a] \in Live \cup {"gone"}
                     /\ device[a] = device[e] /\ device[a] \notin overtaken => a = e
           /\ events'[i].type # "list" =>
                 /\ native'[events'[i].conn] \in Live \cup {"gone"}
                 /\ Ends(events'[i]) => native'[events'[i].conn] = "gone"
    BY <1>2
  <1>10. Listed' /\ Heard' /\ Story'
    BY <1>4, <1>5, <1>6, <1>8, <1>9, EventsStep
  <1> QED BY <1>4, <1>5, <1>7, <1>10 DEF ClientInv, ClientTyped, Pipes

LEMMA SpeaksInv ==
    ASSUME ClientInv, NEW c \in Ids, Speaks(c)
    PROVE  ClientInv'
  <1>1. /\ native[c] \in Live
        /\ UNCHANGED <<table, active, shm, files, counter, verify, shown, ready, device, inbox,
                       overtaken, leftover>>
    BY DEF Speaks
  <1>2. ClientTyped /\ native \in [Ids -> Live \cup {"none", "asked", "gone"}]
    BY DEF ClientInv, ClientTyped, PipeTypes
  <1>3. \A type \in Kinds, s \in States :
           /\ Message(type, c, s) \in Event
           /\ Message(type, c, s).type = type /\ Message(type, c, s).conn = c /\ Message(type, c, s).state = s
    BY DEF Message, Event
  <1>4. ASSUME NEW s \in Live, NEW type \in {"state", "up"}, type = "up" => s = "connected",
               native' = [native EXCEPT ![c] = s], events' = Append(events, Message(type, c, s))
        PROVE  ClientInv'
    <2> DEFINE x == Message(type, c, s)
    <2>1. x \in Event /\ x.type = type /\ x.conn = c /\ x.state = s
      BY <1>3 DEF Kinds, States
    <2> HIDE DEF x
    <2>2. /\ events' \in Seq(Event) /\ Len(events') = Len(events) + 1 /\ events'[Len(events) + 1] = x
          /\ Len(events) \in Nat /\ \A i \in 1 .. Len(events) : events'[i] = events[i]
          /\ Len(events) + 1 .. Len(events') = {Len(events) + 1}
      BY <1>2, <1>4, <2>1, OneMessage DEF x
    <2>3. Len(events) < Len(events') /\ ~Ends(x) /\ Seen(s) = s
      BY <2>1, <2>2 DEF Ends, Seen
    <2>4. \A i \in Len(events) + 1 .. Len(events') :
             /\ events'[i].type # "list" /\ events'[i].conn = c
             /\ Ends(events'[i]) => s = "gone"
             /\ events'[i].type = "signal" => events'[i].state # "connecting"
             /\ events'[i].type = "up" => events'[i].state = "connected"
      BY <1>4, <2>1, <2>2, <2>3
    <2>5. events'[Len(events')].type \notin {"signal", "frame"} /\ events'[Len(events')].state = Seen(s)
      BY <2>1, <2>2, <2>3
    <2> QED BY <1>1, <1>4, <2>2, <2>3, <2>4, <2>5, SpeaksStep
  <1>5. ASSUME native[c] = "connected", events' = Append(events, Message("frame", c, "connected")),
               UNCHANGED native
        PROVE  ClientInv'
    <2> DEFINE x == Message("frame", c, "connected")
    <2>1. x \in Event /\ x.type = "frame" /\ x.conn = c /\ x.state = "connected"
      BY <1>3 DEF Kinds, States, Live
    <2> HIDE DEF x
    <2>2. /\ events' \in Seq(Event) /\ Len(events') = Len(events) + 1 /\ events'[Len(events) + 1] = x
          /\ Len(events) \in Nat /\ \A i \in 1 .. Len(events) : events'[i] = events[i]
          /\ Len(events) + 1 .. Len(events') = {Len(events) + 1}
      BY <1>2, <1>5, <2>1, OneMessage DEF x
    <2>3. Len(events) < Len(events') /\ ~Ends(x) /\ native' = [native EXCEPT ![c] = native[c]]
      BY <1>2, <1>5, <2>1, <2>2 DEF Ends
    <2> QED BY <1>1, <2>1, <2>2, <2>3, SpeaksStep
  <1>6. ASSUME NEW how \in {"disconnected", "failed", "hostFailed", "state"},
               native' = [native EXCEPT ![c] = "gone"], events' = events \o Over(c, how)
        PROVE  ClientInv'
    <2> DEFINE x == Message("signal", c, "disconnected")
               y == Message(how, c, "disconnected")
               n == Len(events)
    <2>1. /\ x \in Event /\ x.type = "signal" /\ x.conn = c /\ x.state = "disconnected"
          /\ y \in Event /\ y.type = how /\ y.conn = c /\ y.state = "disconnected"
      BY <1>3 DEF Kinds, States
    <2> HIDE DEF x, y
    <2>2. Over(c, how) = <<x, y>> /\ <<x, y>> \in Seq(Event) /\ Len(<<x, y>>) = 2
      BY <2>1 DEF Over, x, y
    <2>3. events \in Seq(Event) /\ n \in Nat
      BY <1>2, LenProperties DEF ClientTyped, PipeTypes
    <2>4. /\ events' \in Seq(Event) /\ Len(events') = n + 2
          /\ \A i \in 1 .. n + 2 : events'[i] = IF i <= n THEN events[i] ELSE <<x, y>>[i - n]
      BY <1>6, <2>2, <2>3, ConcatProperties
    <2> HIDE DEF n
    <2>5. /\ \A i \in 1 .. n : events'[i] = events[i]
          /\ events'[n + 1] = x /\ events'[n + 2] = y
          /\ \A i \in n + 1 .. n + 2 : i = n + 1 \/ i = n + 2
          /\ n < n + 2
      <3>1. \A i \in 1 .. n : i \in 1 .. n + 2 /\ i <= n
        BY <2>3
      <3>2. n + 1 \in 1 .. n + 2 /\ n + 2 \in 1 .. n + 2 /\ ~(n + 1 <= n) /\ ~(n + 2 <= n)
            /\ (n + 1) - n = 1 /\ (n + 2) - n = 2 /\ n < n + 2
            /\ \A i \in n + 1 .. n + 2 : i = n + 1 \/ i = n + 2
        BY <2>3
      <3> QED BY <2>4, <3>1, <3>2
    <2>6. how \notin {"signal", "frame", "list", "up"} /\ Seen("gone") = "disconnected"
      BY DEF Seen, Live
    <2>7. \A i \in n + 1 .. n + 2 :
             /\ events'[i].type # "list" /\ events'[i].conn = c
             /\ events'[i].type = "signal" => events'[i].state # "connecting"
             /\ events'[i].type = "up" => events'[i].state = "connected"
      BY <2>1, <2>5, <2>6
    <2>8. events'[n + 2].type \notin {"signal", "frame"} /\ events'[n + 2].state = Seen("gone")
      BY <2>1, <2>5, <2>6
    <2> QED BY <1>1, <1>6, <2>4, <2>5, <2>7, <2>8, SpeaksStep DEF n
  <1> QED BY <1>4, <1>5, <1>6 DEF Speaks

\* The native program takes the first command: what is left, and what the
\* command may end.
LEMMA TakesStep ==
    ASSUME ClientInv, inbox # <<>>, inbox' = Tail(inbox), UNCHANGED <<conn, rtc, device, overtaken>>,
           \A c \in Ids :
               \/ native'[c] = native[c]
               \/ /\ native[c] \in Live /\ native'[c] = "gone" /\ Head(inbox).type # "connect"
               \/ /\ native[c] = "asked" /\ native'[c] = "connecting"
                  /\ Head(inbox).type = "connect" /\ Head(inbox).conn = c,
           Head(inbox).type = "connect" => native'[Head(inbox).conn] = "connecting",
           \A c \in Ids : native'[c] \in Live => ~Kills(Head(inbox), c)
    PROVE  Asked' /\ Doom' /\ Kept' /\ OneLive'
  <1> DEFINE m == Head(inbox)
             n == Len(inbox)
  <1>1. /\ n \in Nat \ {0} /\ m = inbox[1] /\ 1 \in 1 .. n /\ m \in Command /\ Len(inbox') = n - 1
        /\ \A i \in 1 .. n - 1 : inbox'[i] = inbox[i + 1]
    BY EmptySeq, HeadTailProperties DEF ClientInv, ClientTyped, PipeTypes
  <1>2. /\ \A i \in 1 .. n - 1 : i + 1 \in 1 .. n /\ 1 < i + 1
        /\ \A i \in 1 .. n : i = 1 \/ i - 1 \in 1 .. n - 1
        /\ \A i \in 1 .. n : i # 1 => inbox'[i - 1] = inbox[i]
    <2>1. \A i \in 1 .. n : i # 1 => i - 1 \in 1 .. n - 1 /\ (i - 1) + 1 = i
      BY <1>1
    <2>2. \A i \in 1 .. n - 1 : i + 1 \in 1 .. n /\ 1 < i + 1
      BY <1>1
    <2> HIDE DEF n
    <2> QED BY <1>1, <2>1, <2>2
  <1>3. /\ ClientTyped /\ Table /\ Asked
        /\ \A i \in 1 .. n : inbox[i].type = "connect" => inbox[i].conn \in Ids /\ native[inbox[i].conn] = "asked"
    BY TypedFacts, CommandFacts DEF ClientInv, Pipes, Asked
  <1> HIDE DEF m, n
  <1>4. /\ \A c \in Ids : native'[c] = "asked" => native[c] = "asked" /\ ~(m.type = "connect" /\ m.conn = c)
        /\ \A c \in Ids : native'[c] \in Live \cup {"asked"} => native[c] \in Live \cup {"asked"}
    BY DEF Live, m
  <1>5. Asked'
    <2>1. ASSUME NEW i \in 1 .. n - 1, inbox'[i].type = "connect"
          PROVE  native'[inbox'[i].conn] = "asked"
      <3>1. inbox[i + 1].type = "connect" /\ inbox'[i] = inbox[i + 1]
        BY <1>1, <2>1
      <3>2. m.type = "connect" => m.conn < inbox[i + 1].conn
        BY <1>1, <1>2, <1>3, <3>1 DEF Asked, n
      <3>3. m.type = "connect" => m.conn # inbox[i + 1].conn
        BY <1>1, <1>2, <1>3, <3>1, <3>2, ClientAssumption DEF Ids
      <3> QED BY <1>2, <1>3, <3>1, <3>3 DEF Live, m
    <2>2. ASSUME NEW i \in 1 .. n - 1, NEW j \in 1 .. n - 1, i < j,
                 inbox'[i].type = "connect", inbox'[j].type = "connect"
          PROVE  inbox'[i].conn < inbox'[j].conn
      <3>1. i + 1 < j + 1
        BY <2>2
      <3> QED BY <1>1, <1>2, <1>3, <2>2, <3>1 DEF Asked, n
    <2>3. ASSUME NEW c \in Ids, native'[c] = "asked"
          PROVE  \E i \in 1 .. n - 1 : inbox'[i].type = "connect" /\ inbox'[i].conn = c
      <3>1. PICK i \in 1 .. n : inbox[i].type = "connect" /\ inbox[i].conn = c
        BY <1>3, <1>4, <2>3 DEF Asked, n
      <3>2. i # 1
        BY <1>1, <1>4, <2>3, <3>1
      <3>3. i - 1 \in 1 .. n - 1 /\ inbox'[i - 1] = inbox[i]
        BY <1>2, <3>1, <3>2
      <3> QED BY <3>1, <3>3
    <2>4. ASSUME NEW c \in Ids, NEW e \in Ids, c < e, native'[c] = "asked"
          PROVE  native'[e] \in {"asked", "none"}
      <3>1. native[c] = "asked" /\ native[e] \in {"asked", "none"}
        BY <1>3, <1>4, <2>4 DEF Asked
      <3>2. CASE m.type = "connect" /\ m.conn = e
        <4>1. PICK i \in 1 .. n : inbox[i].type = "connect" /\ inbox[i].conn = c
          BY <1>3, <3>1 DEF Asked, n
        <4>2. i # 1 /\ 1 < i
          BY <1>1, <1>4, <2>4, <4>1
        <4>3. e < c
          BY <1>1, <1>3, <3>2, <4>1, <4>2 DEF Asked, n
        <4> QED BY <2>4, <4>3, ClientAssumption DEF Ids
      <3>3. CASE ~(m.type = "connect" /\ m.conn = e)
        BY <3>1, <3>3 DEF Live, m
      <3> QED BY <3>2, <3>3
    <2>5. \A i \in 1 .. Len(inbox') : inbox'[i].type = "connect" => native'[inbox'[i].conn] = "asked"
      BY <1>1, <2>1
    <2>6. \A i, j \in 1 .. Len(inbox') :
             i < j /\ inbox'[i].type = "connect" /\ inbox'[j].type = "connect"
             => inbox'[i].conn < inbox'[j].conn
      BY <1>1, <2>2
    <2>7. \A c \in Ids : native'[c] = "asked" =>
             \E i \in 1 .. Len(inbox') : inbox'[i].type = "connect" /\ inbox'[i].conn = c
      BY <1>1, <2>3
    <2>8. \A c, e \in Ids : c < e /\ native'[c] = "asked" => native'[e] \in {"asked", "none"}
      BY <2>4
    <2> QED BY <2>5, <2>6, <2>7, <2>8 DEF Asked
  <1>6. ASSUME NEW c \in Ids, native[c] \in Live \cup {"asked"}, ~(native'[c] = "gone"), Doomed(c)
        PROVE  \E k \in 2 .. n :
                  /\ Kills(inbox[k], c)
                  /\ \A j \in 1 .. n : inbox[j].type = "connect" /\ device[inbox[j].conn] = device[c] =>
                                           (j < k <=> inbox[j].conn <= c)
    <2>1. PICK k \in 1 .. n :
             /\ Kills(inbox[k], c)
             /\ \A j \in 1 .. n : inbox[j].type = "connect" /\ device[inbox[j].conn] = device[c] =>
                                      (j < k <=> inbox[j].conn <= c)
      BY <1>6 DEF Doomed, n
    <2>2. CASE k = 1
      <3>1. Kills(m, c) /\ m.type # "connect"
        BY <1>1, <2>1, <2>2 DEF Kills
      <3>2. native[c] = "asked"
        BY <1>6, <3>1 DEF m, Live
      <3>3. PICK i \in 1 .. n : inbox[i].type = "connect" /\ inbox[i].conn = c
        BY <1>3, <3>2 DEF Asked, n
      <3>4. c <= c /\ ~(i < 1)
        BY <3>3, ClientAssumption DEF Ids
      <3> QED BY <2>1, <2>2, <3>3, <3>4
    <2>3. CASE k # 1
      <3>1. k \in 2 .. n
        BY <2>3
      <3> QED BY <2>1, <3>1
    <2> QED BY <2>2, <2>3
  <1>7. Doom'
    <2> SUFFICES ASSUME NEW c \in Ids, native'[c] \in Live \cup {"asked"}, device[c] \notin overtaken,
                        ~(conn[device[c]] = c /\ rtc[device[c]] \in Live)
                 PROVE  \E k \in 1 .. n - 1 :
                           /\ Kills(inbox'[k], c)
                           /\ \A j \in 1 .. n - 1 :
                                 inbox'[j].type = "connect" /\ device[inbox'[j].conn] = device[c] =>
                                     (j < k <=> inbox'[j].conn <= c)
      BY <1>1 DEF Doom, Doomed
    <2>1. native[c] \in Live \cup {"asked"} /\ ~(native'[c] = "gone") /\ Doomed(c)
      <3>1. native[c] \in Live \cup {"asked"} /\ ~(native'[c] = "gone")
        BY <1>4 DEF Live
      <3> QED BY <3>1 DEF ClientInv, Pipes, Doom
    <2>2. PICK k \in 2 .. n :
              /\ Kills(inbox[k], c)
              /\ \A j \in 1 .. n : inbox[j].type = "connect" /\ device[inbox[j].conn] = device[c] =>
                                       (j < k <=> inbox[j].conn <= c)
      BY <1>6, <2>1
    <2>3. k \in 1 .. n /\ k # 1 /\ k - 1 \in 1 .. n - 1 /\ Kills(inbox'[k - 1], c)
      BY <1>1, <1>2, <2>2
    <2>4. \A j \in 1 .. n - 1 : j < k - 1 <=> j + 1 < k
      BY <1>1, <2>2
    <2>5. \A j \in 1 .. n - 1 :
             inbox'[j].type = "connect" /\ device[inbox'[j].conn] = device[c] =>
                 (j < k - 1 <=> inbox'[j].conn <= c)
      BY <1>1, <1>2, <2>2, <2>4
    <2> QED BY <2>3, <2>5
  <1>8. Kept'
    <2> SUFFICES ASSUME NEW d \in Devices \ overtaken, NEW k \in 1 .. n - 1, conn[d] # 0,
                        Kills(inbox'[k], conn[d])
                 PROVE  \E j \in k + 1 .. n - 1 : inbox'[j].type = "connect" /\ inbox'[j].conn = conn[d]
      BY <1>1 DEF Kept
    <2>1. PICK j \in (k + 1) + 1 .. n : inbox[j].type = "connect" /\ inbox[j].conn = conn[d]
      BY <1>1, <1>2 DEF ClientInv, Pipes, Kept, n
    <2>2. j \in 1 .. n /\ j # 1 /\ j - 1 \in k + 1 .. n - 1
      BY <1>1, <2>1
    <2> QED BY <1>2, <2>1, <2>2
  <1>9. ASSUME NEW c \in Ids, NEW e \in Ids, native'[c] = "connecting", m.type = "connect", m.conn = c,
                native[e] \in Live, device[c] = device[e], device[c] \notin overtaken
         PROVE  FALSE
    <2>1. native[c] = "asked" /\ c \in Nat /\ e \in Nat /\ e # c /\ inbox[1].type = "connect" /\ inbox[1].conn = c
      BY <1>1, <1>3, <1>9, ClientAssumption DEF Ids, Live
    <2>2. ~(c < e)
      BY <1>3, <1>9, <2>1 DEF Asked, Live
    <2>3. CASE Doomed(e)
      <3>1. native[e] \in Live \cup {"asked"} /\ ~(native'[e] = "gone")
        BY <1>9, <2>1 DEF m, Live
      <3>2. PICK k \in 2 .. n :
               \A j \in 1 .. n : inbox[j].type = "connect" /\ device[inbox[j].conn] = device[e] =>
                                     (j < k <=> inbox[j].conn <= e)
        BY <1>6, <2>3, <3>1
      <3>3. 1 < k
        BY <3>2
      <3>4. c <= e
        BY <1>1, <1>9, <2>1, <3>2, <3>3
      <3> QED BY <2>1, <2>2, <3>4
    <2>4. CASE ~Doomed(e)
      <3>1. conn[device[e]] = e /\ device[e] \in Devices \ overtaken
        <4>1. device[e] \in Devices
          BY <1>3, <1>9 DEF Live, ClientTyped, PipeTypes, Table, Made
        <4> QED BY <1>9, <2>4, <4>1 DEF ClientInv, Pipes, Doom
      <3>2. e # 0
        BY <1>3, TableFacts
      <3>3. c <= e
        BY <1>3, <1>9, <3>1, <3>2 DEF Table, Latest
      <3> QED BY <2>1, <2>2, <3>3
    <2> QED BY <2>3, <2>4
  <1>10. OneLive'
    <2> SUFFICES ASSUME NEW c \in Ids, NEW e \in Ids, native'[c] \in Live, native'[e] \in Live,
                        device[c] = device[e], device[c] \notin overtaken, c # e
                 PROVE  FALSE
      BY DEF OneLive
    <2>1. /\ native[c] \in Live \/ (native'[c] = "connecting" /\ m.type = "connect" /\ m.conn = c)
          /\ native[e] \in Live \/ (native'[e] = "connecting" /\ m.type = "connect" /\ m.conn = e)
      BY DEF Live, m
    <2> QED BY <1>9, <2>1 DEF ClientInv, Pipes, OneLive
  <1> QED BY <1>5, <1>7, <1>8, <1>10

LEMMA TakesInv ==
    ASSUME ClientInv, Takes
    PROVE  ClientInv'
  <1> DEFINE m == Head(inbox)
             hit == IF m.type = "all" THEN {c \in Ids : native[c] \in Live}
                    ELSE {c \in {m.conn} : native[c] \in Live}
             x == Message("signal", m.conn, "connected")
             y == Message("disconnected", m.conn, "disconnected")
  <1>1. /\ inbox # <<>> /\ inbox' = Tail(inbox)
        /\ UNCHANGED <<table, active, shm, files, counter, verify, shown, ready, device,
                       overtaken, leftover>>
        /\ IF m.type = "connect"
           THEN /\ native' = [native EXCEPT ![m.conn] = "connecting"]
                /\ events' = Append(events, x)
           ELSE /\ native' = [c \in Ids |-> IF c \in hit THEN "gone" ELSE native[c]]
                /\ events' = IF m.type = "disconnect" /\ hit # {} THEN Append(events, y) ELSE events
    BY DEF Takes
  <1>2. ClientTyped /\ Table /\ native \in [Ids -> Live \cup {"none", "asked", "gone"}]
    BY DEF ClientInv, ClientTyped, PipeTypes
  <1>3. /\ m = inbox[1] /\ 1 \in 1 .. Len(inbox) /\ m \in Command /\ inbox' \in Seq(Command)
        /\ m.type \in {"connect", "disconnect", "all"}
        /\ m.type # "all" => m.conn \in Ids
    <2>1. /\ Len(inbox) \in Nat \ {0} /\ m \in Command /\ inbox' \in Seq(Command) /\ m = inbox[1]
      BY <1>1, <1>2, EmptySeq, HeadTailProperties DEF ClientTyped, PipeTypes
    <2> QED BY <2>1, CommandFacts
  <1>4. m.type = "connect" => native[m.conn] = "asked"
    BY <1>3 DEF ClientInv, Pipes, Asked
  <1>5. /\ x.type = "signal" /\ x.conn = m.conn /\ x.state = "connected"
        /\ y.type = "disconnected" /\ y.conn = m.conn /\ y.state = "disconnected"
        /\ m.conn \in Ids => x \in Event /\ y \in Event
    BY DEF Message, Event, Kinds, States, Live
  <1>6. /\ hit \subseteq {c \in Ids : native[c] \in Live}
        /\ \A c \in Ids : native[c] \in Live /\ Kills(m, c) => c \in hit
        /\ \A c \in Ids : m.type = "disconnect" /\ c \in hit => c = m.conn
        /\ \A c \in Ids : m.type # "connect" /\ c \in hit => Kills(m, c)
    BY <1>3 DEF Kills
  <1> HIDE DEF x, y, hit, m
  <1>7. /\ native' \in [Ids -> Live \cup {"none", "asked", "gone"}]
        /\ \A c \in Ids : m.type # "connect" => native'[c] = IF c \in hit THEN "gone" ELSE native[c]
        /\ m.type = "connect" => /\ native'[m.conn] = "connecting"
                                 /\ \A c \in Ids \ {m.conn} : native'[c] = native[c]
    <2>1. CASE m.type = "connect"
      BY <1>1, <1>2, <1>3, <2>1 DEF Live
    <2>2. CASE m.type # "connect"
      BY <1>1, <1>2, <2>2
    <2> QED BY <2>1, <2>2
  <1>8. \A c \in Ids :
           \/ native'[c] = native[c]
           \/ native[c] \in Live /\ native'[c] = "gone" /\ m.type # "connect"
           \/ native[c] = "asked" /\ native'[c] = "connecting" /\ m.type = "connect" /\ m.conn = c
    BY <1>4, <1>6, <1>7
  <1>9. \A c \in Ids : native'[c] \in Live => ~Kills(m, c)
    <2>1. CASE m.type = "connect"
      BY <2>1 DEF Kills
    <2>2. CASE m.type # "connect"
      BY <1>6, <1>7, <2>2 DEF Live
    <2> QED BY <2>1, <2>2
  <1>10. \A c \in Ids : /\ (native'[c] = "none") <=> (native[c] = "none")
                        /\ native[c] \in Live \cup {"gone"} => native'[c] \in Live \cup {"gone"}
                        /\ native[c] = "gone" => native'[c] = "gone"
    BY <1>8 DEF Live
  <1>11. TableTypes' /\ Table' /\ ControlTypes' /\ UNCHANGED <<conn, rtc, device, overtaken>>
    BY <1>1, <1>2, <1>10, SameTable
  <1>12. Asked' /\ Doom' /\ Kept' /\ OneLive'
    BY <1>1, <1>7, <1>8, <1>9, <1>11, TakesStep DEF m
  <1>13. \A d \in Devices \ overtaken : conn[d] # 0 => conn[d] \in Ids
    BY <1>2, TableFacts
  <1>14. ASSUME NEW z \in Event, events' = Append(events, z), z.type # "list", z.conn = m.conn,
                m.conn \in Ids, z.type = "signal" => z.state = "connected", z.type # "up",
                native'[m.conn] \in Live \cup {"gone"}, Ends(z) => native'[m.conn] = "gone",
                \A c \in Ids \ {m.conn} : native'[c] = native[c],
                \/ z.type = "signal" /\ Seen(native'[m.conn]) = Seen(native[m.conn])
                \/ z.type \notin {"signal", "frame"} /\ z.state = Seen(native'[m.conn])
         PROVE  PipeTypes' /\ Listed' /\ Heard' /\ Story'
    <2>1. /\ events' \in Seq(Event) /\ Len(events') = Len(events) + 1 /\ events'[Len(events) + 1] = z
          /\ Len(events) \in Nat /\ \A i \in 1 .. Len(events) : events'[i] = events[i]
          /\ Len(events) + 1 .. Len(events') = {Len(events) + 1}
          /\ \A i \in 1 .. Len(events') : /\ events'[i].type = "signal" => events'[i].state # "connecting"
                                          /\ events'[i].type = "up" => events'[i].state = "connected"
      BY <1>2, <1>14, OneMessage
    <2>2. /\ Len(events') \in Nat /\ Len(events) <= Len(events')
          /\ Len(events) + 1 \in Len(events) + 1 .. Len(events')
          /\ \A j \in Len(events) + 1 + 1 .. Len(events') : FALSE
      BY <2>1
    <2>3. ASSUME NEW d \in Devices \ overtaken, conn[d] # 0
          PROVE  \/ /\ Seen(native'[conn[d]]) = Seen(native[conn[d]])
                    /\ \A i \in Len(events) + 1 .. Len(events') : ~Tells(events'[i], conn[d])
                 \/ \E i \in Len(events) + 1 .. Len(events') :
                       /\ Tells(events'[i], conn[d]) /\ Says(events'[i], conn[d]) = Seen(native'[conn[d]])
                       /\ \A j \in i + 1 .. Len(events') : ~Tells(events'[j], conn[d])
      <3>1. CASE conn[d] # m.conn
        <4>1. native'[conn[d]] = native[conn[d]] /\ ~Tells(z, conn[d])
          BY <1>13, <1>14, <2>3, <3>1 DEF Tells
        <4> QED BY <2>1, <4>1
      <3>2. CASE conn[d] = m.conn /\ z.type = "signal" /\ Seen(native'[m.conn]) = Seen(native[m.conn])
        <4>1. ~Tells(z, conn[d])
          BY <3>2 DEF Tells
        <4> QED BY <2>1, <3>2, <4>1
      <3>3. CASE conn[d] = m.conn /\ z.type \notin {"signal", "frame"} /\ z.state = Seen(native'[m.conn])
        <4>1. Tells(z, conn[d]) /\ Says(z, conn[d]) = Seen(native'[conn[d]])
          BY <1>14, <3>3 DEF Tells, Says
        <4> QED BY <2>1, <2>2, <4>1
      <3> QED BY <1>14, <3>1, <3>2, <3>3
    <2>4. \A i \in Len(events) + 1 .. Len(events') :
             /\ events'[i].type = "list" =>
                   \A c, e \in DOMAIN events'[i].list :
                       /\ native'[c] \in Live \cup {"gone"}
                       /\ device[c] = device[e] /\ device[c] \notin overtaken => c = e
             /\ events'[i].type # "list" =>
                   /\ native'[events'[i].conn] \in Live \cup {"gone"}
                   /\ Ends(events'[i]) => native'[events'[i].conn] = "gone"
      BY <1>14, <2>1
    <2>5. Listed' /\ Heard' /\ Story'
      BY <1>10, <1>11, <2>1, <2>2, <2>3, <2>4, EventsStep
    <2>6. PipeTypes'
      BY <1>2, <1>3, <1>7, <1>11, <2>1 DEF ClientTyped, PipeTypes
    <2> QED BY <2>5, <2>6
  <1>15. CASE m.type = "connect"
    <2>1. Seen(native'[m.conn]) = Seen(native[m.conn]) /\ native'[m.conn] \in Live
      BY <1>4, <1>7, <1>15 DEF Seen, Live
    <2>2. m.conn \in Ids /\ events' = Append(events, x) /\ ~Ends(x)
      BY <1>1, <1>3, <1>5, <1>15 DEF Ends
    <2> QED BY <1>5, <1>7, <1>11, <1>12, <1>14, <1>15, <2>1, <2>2 DEF ClientInv, ClientTyped, Pipes
  <1>16. CASE m.type = "disconnect" /\ hit # {}
    <2>1. hit = {m.conn} /\ m.conn \in Ids
      BY <1>3, <1>6, <1>16
    <2>2. native'[m.conn] = "gone" /\ \A c \in Ids \ {m.conn} : native'[c] = native[c]
      BY <1>7, <1>16, <2>1
    <2>3. events' = Append(events, y) /\ Seen(native'[m.conn]) = "disconnected"
      BY <1>1, <1>16, <2>2 DEF Seen, Live
    <2> QED BY <1>5, <1>11, <1>12, <1>14, <2>1, <2>2, <2>3 DEF ClientInv, ClientTyped, Pipes
  <1>17. CASE m.type # "connect" /\ ~(m.type = "disconnect" /\ hit # {})
    <2>1. events' = events
      BY <1>1, <1>17
    <2>2. \A d \in Devices \ overtaken : conn[d] # 0 => native'[conn[d]] = native[conn[d]]
      <3> SUFFICES ASSUME NEW d \in Devices \ overtaken, conn[d] # 0, conn[d] \in hit
                   PROVE  FALSE
        BY <1>7, <1>13, <1>17
      <3>1. m.type = "all" /\ Kills(inbox[1], conn[d])
        BY <1>3, <1>17 DEF Kills
      <3>2. PICK j \in 1 + 1 .. Len(inbox) : inbox[j].type = "connect" /\ inbox[j].conn = conn[d]
        BY <1>3, <3>1 DEF ClientInv, Pipes, Kept
      <3>3. j \in 1 .. Len(inbox)
        BY <3>2
      <3>4. native[conn[d]] = "asked"
        BY <3>2, <3>3 DEF ClientInv, Pipes, Asked
      <3> QED BY <1>6, <3>4 DEF Live
    <2>3. Len(events') \in Nat /\ Len(events) <= Len(events') /\ \A i \in Len(events) + 1 .. Len(events') : FALSE
      <3>1. Len(events) \in Nat
        BY <1>2, TypedFacts
      <3> QED BY <2>1, <3>1
    <2>4. \A i \in 1 .. Len(events) : events'[i] = events[i]
      BY <2>1
    <2>5. Listed' /\ Heard' /\ Story'
      BY <1>10, <1>11, <2>2, <2>3, <2>4, EventsStep
    <2>6. PipeTypes'
      BY <1>2, <1>3, <1>7, <1>11, <2>1 DEF ClientTyped, PipeTypes
    <2> QED BY <1>11, <1>12, <2>5, <2>6 DEF ClientInv, ClientTyped, Pipes
  <1> QED BY <1>3, <1>15, <1>16, <1>17

----------------------------------------------------------------------------
LEMMA ClientInitInv ==
    ClientInit => ClientInv
  <1> SUFFICES ASSUME ClientInit PROVE ClientInv
    OBVIOUS
  <1>1. /\ 0 \in 0 .. MaxConns /\ 0 \notin Ids /\ \A c \in Ids : c > 0
    BY ClientAssumption DEF Ids
  <1>2. /\ Len(inbox) = 0 /\ Len(events) = 0 /\ inbox \in Seq(Command) /\ events \in Seq(Event)
    BY EmptySeq DEF ClientInit
  <1>3. \A i \in 1 .. 0 : FALSE
    OBVIOUS
  <1>4. TableTypes /\ ControlTypes
    BY <1>1 DEF ClientInit, TableTypes, ControlTypes, RtcStates, SigStates
  <1>5. PipeTypes
    BY <1>2, <1>3 DEF ClientInit, PipeTypes
  <1>6. Made /\ Latest
    BY <1>1, ClientAssumption DEF ClientInit, Made, Latest
  <1>7. RoutesAgree /\ SessionsFollowState /\ FramesAreCurrent /\ ActiveIsShown
    BY ClientAssumption DEF ClientInit, RoutesAgree, SessionsFollowState, FramesAreCurrent, ActiveIsShown
  <1>8. Asked /\ Doom /\ Kept /\ OneLive
    BY <1>2, <1>3 DEF ClientInit, Asked, Doom, Kept, OneLive, Live
  <1>9. Listed /\ Heard /\ Story
    BY <1>2, <1>3 DEF ClientInit, Listed, Heard, Story
  <1> QED BY <1>4, <1>5, <1>6, <1>7, <1>8, <1>9 DEF ClientInv, ClientTyped, Table, Pipes

LEMMA ClientStutter ==
    ASSUME ClientInv, UNCHANGED clientVars
    PROVE  ClientInv'
  <1>1. /\ UNCHANGED <<known, conn, rtc, sig, route, active, shm, leftover, overtaken, primary, status>>
        /\ UNCHANGED <<device, native, counter, inbox, events, verify, ready, sessions, retired>>
    BY DEF clientVars
  <1>2. ControlTypes' /\ SessionsFollowState' /\ sessions' \subseteq Ids /\ retired' \subseteq Ids
    BY <1>1 DEF ClientInv, ClientTyped, TableTypes, ControlTypes, Table, SessionsFollowState
  <1> QED BY <1>1, <1>2, CalmStep

LEMMA ClientNextInv ==
    ClientInv /\ [ClientNext]_clientVars => ClientInv'
  <1> SUFFICES ASSUME ClientInv, [ClientNext]_clientVars PROVE ClientInv'
    OBVIOUS
  <1>1. ASSUME NEW d \in Devices,
               \/ ConnectToRemoteHost(d) \/ InvalidCode(d) \/ VerifyFailed(d)
               \/ \E newer \in BOOLEAN : RefreshedCode(d, newer)
        PROVE  ClientInv'
    BY <1>1, VerifyInv
  <1>2. ASSUME NEW d \in Devices, Verified(d) PROVE ClientInv'
    BY <1>2, VerifiedInv
  <1>3. ASSUME NEW d \in Devices, DisconnectFromHost(d) PROVE ClientInv'
    BY <1>3, DisconnectInv
  <1>4. CASE DisconnectAll
    BY <1>4, DisconnectAllInv
  <1>5. CASE HandleMessage
    BY <1>5, HandleInv
  <1>6. CASE MessagingError \/ ClientProcessStarted
    BY <1>6, SessionsEndInv
  <1>7. CASE ClientProcessStopped
    BY <1>7, StoppedInv
  <1>8. CASE Takes
    BY <1>8, TakesInv
  <1>9. CASE SendsList
    BY <1>9, SendsListInv
  <1>10. CASE \E c \in Ids : Speaks(c)
    BY <1>10, SpeaksInv
  <1>11. CASE UNCHANGED clientVars
    BY <1>11, ClientStutter
  <1> QED BY <1>1, <1>2, <1>3, <1>4, <1>5, <1>6, <1>7, <1>8, <1>9, <1>10, <1>11 DEF ClientNext, Controller

LEMMA ClientInvariant ==
    ClientSpec => []ClientInv
  BY ClientInitInv, ClientNextInv, PTL DEF ClientSpec

THEOREM ClientTypeCorrect ==
    ClientSpec => []ClientTypeOK
  <1>1. ClientInv => ClientTypeOK
    BY DEF ClientInv, ClientTyped, TableTypes, ControlTypes, PipeTypes, ClientTypeOK
  <1> QED BY <1>1, ClientInvariant, PTL

THEOREM TablesStayInStep ==
    ClientSpec => []TablesAgree
  <1>1. ClientInv => TablesAgree
    BY DEF ClientInv, Table, TablesAgree
  <1> QED BY <1>1, ClientInvariant, PTL

THEOREM ViewsConverge ==
    ClientSpec => []ViewConverges
  <1>1. ASSUME ClientInv, inbox = <<>>, events = <<>>, NEW d \in Devices \ overtaken
        PROVE  /\ \A c \in Ids : device[c] = d /\ native[c] \in Live => conn[d] = c /\ rtc[d] = native[c]
               /\ d \in known /\ rtc[d] \in Live => native[conn[d]] = rtc[d]
    <2>1. ClientTyped /\ Table /\ \A i \in 1 .. Len(inbox) : FALSE
      BY <1>1 DEF ClientInv
    <2>2. \A i \in 1 .. Len(events) : FALSE
      BY <1>1
    <2>3. \A c \in Ids : ~Doomed(c)
      BY <2>1 DEF Doomed
    <2>4. \A c \in Ids : native[c] # "asked"
      BY <1>1, <2>1 DEF ClientInv, Pipes, Asked
    <2>5. conn[d] # 0 => rtc[d] = Seen(native[conn[d]])
      BY <1>1, <2>2 DEF ClientInv, Pipes, Story
    <2>6. ASSUME NEW c \in Ids, device[c] = d, native[c] \in Live
          PROVE  conn[d] = c /\ rtc[d] = native[c]
      <3>1. conn[d] = c
        BY <1>1, <2>3, <2>6 DEF ClientInv, Pipes, Doom
      <3> QED BY <2>1, <2>5, <2>6, <3>1, TableFacts DEF Seen
    <2>7. ASSUME d \in known, rtc[d] \in Live
          PROVE  native[conn[d]] = rtc[d]
      <3>1. conn[d] \in Ids
        BY <2>1, <2>7, TableFacts
      <3> QED BY <2>1, <2>4, <2>5, <2>7, <3>1, TableFacts DEF Seen, Live
    <2> QED BY <2>6, <2>7
  <1>2. ClientInv => ViewConverges
    BY <1>1 DEF ViewConverges
  <1> QED BY <1>2, ClientInvariant, PTL
=============================================================================
