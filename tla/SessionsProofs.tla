--------------------------- MODULE SessionsProofs ---------------------------
(***************************************************************************)
(* Proofs about Sessions, for any number of tabs, logins, rotations and    *)
(* failures, with and without Web Locks: the type invariant, that a family *)
(* never has two refresh tokens that work, that a revocation is final, and *)
(* that tabs that share a session do not end it.                           *)
(*                                                                         *)
(* OneTokenPerFamily is not inductive: a login must not reuse the name of  *)
(* a family that some request or tab still refers to, and a request that   *)
(* is about to mint must carry a token that was issued.  Known and Carried *)
(* say so.                                                                 *)
(***************************************************************************)
EXTENDS Sessions, TLAPS

Requests == Tabs \cup {Admin}

\* Where RotateRefreshToken may stand.
RotatePC == {"getdel", "spend", "mint", "track", "reuse"}

\* Tokens in Redis and in the browser belong to families that were issued.
Known ==
    /\ \A k \in refresh : k.fam <= logins
    /\ store # NoToken => store.fam <= logins
    /\ \A t \in Tabs : tab[t].pc \in {"waiting", "sent"} =>
          tab[t].orig \in Token /\ tab[t].orig.gen < MaxGen /\ tab[t].orig.fam <= logins

\* Requests carry such tokens, only tabs rotate, and a revocation names a
\* family.
Carried ==
    /\ \A t \in Tabs : srv[t].tok # NoToken => srv[t].tok.fam <= logins
    /\ \A t \in Tabs : srv[t].pc \in RotatePC =>
          srv[t].tok \in Token /\ srv[t].tok.fam <= logins
    /\ \A t \in Tabs : srv[t].pc \in {"getdel", "spend", "mint"} => srv[t].tok.gen < MaxGen
    /\ srv[Admin].pc \notin RotatePC /\ srv[Admin].tok = NoToken
    /\ \A r \in Requests : srv[r].pc \in {"members", "delete"} => srv[r].fam \in Family

IInv == TypeOK /\ Known /\ Carried /\ OneTokenPerFamily

----------------------------------------------------------------------------
(***************************************************************************)
(* Records.                                                                *)
(***************************************************************************)

\* The requests the server starts with are well typed.
LEMMA RequestStarts ==
    /\ Idle \in Request
    /\ \A k \in Token :
          [Idle EXCEPT !.kind = "rotate", !.pc = "getdel", !.tok = k] \in Request
    /\ \A f \in Family : Revoking(f) \in Request
    /\ LoggedOut \in Request
    /\ \A s \in {"unlist", "list"}, m \in SUBSET Family :
          [Idle EXCEPT !.kind = "all", !.todo = m, !.pc = s] \in Request
  BY DEF Idle, Request, MaybeToken, Revoking, LoggedOut

\* A new token moves on to track.
LEMMA RequestMints ==
    ASSUME NEW x \in Request, NEW k \in Token
    PROVE  [x EXCEPT !.pc = "track", !.tok = k] \in Request
  BY DEF Request, MaybeToken

\* Replacing one request keeps srv well typed.
LEMMA ServerType ==
    ASSUME TypeOK, NEW r \in Requests, NEW x \in Request,
           srv' = [srv EXCEPT ![r] = x]
    PROVE  /\ srv' \in [Requests -> Request]
           /\ srv'[r] = x
           /\ \A q \in Requests : q # r => srv'[q] = srv[q]
  BY DEF TypeOK, Requests

\* Replacing what one tab does keeps tab well typed.
LEMMA TabType ==
    ASSUME TypeOK, NEW t \in Tabs, NEW s \in {"idle", "waiting", "sent", "leaving"},
           NEW k \in MaybeToken, tab' = [tab EXCEPT ![t] = [pc |-> s, orig |-> k]]
    PROVE  /\ tab' \in [Tabs -> [pc : {"idle", "waiting", "sent", "leaving"},
                                 orig : MaybeToken]]
           /\ tab'[t].pc = s /\ tab'[t].orig = k
           /\ \A u \in Tabs : u # t => tab'[u] = tab[u]
  BY DEF TypeOK

\* A tab that moves on keeps the token it remembers.
LEMMA TabMoves ==
    ASSUME TypeOK, NEW t \in Tabs, NEW s
    PROVE  /\ tab[t].orig \in MaybeToken
           /\ [tab[t] EXCEPT !.pc = s] = [pc |-> s, orig |-> tab[t].orig]
  <1>1. tab[t] \in [pc : {"idle", "waiting", "sent", "leaving"}, orig : MaybeToken]
    BY DEF TypeOK
  <1> QED BY <1>1

----------------------------------------------------------------------------
(***************************************************************************)
(* One request moves.                                                      *)
(***************************************************************************)

\* Request r goes on to s with all it has.
LEMMA Goes ==
    ASSUME IInv, NEW r \in Requests, NEW s \in RotatePC \cup {"ok"}, Goto(r, s)
    PROVE  /\ srv' \in [Requests -> Request]
           /\ srv'[r].pc = s /\ srv'[r].tok = srv[r].tok
           /\ srv'[r].fam = srv[r].fam /\ srv'[r].todo = srv[r].todo
           /\ \A q \in Requests : q # r => srv'[q] = srv[q]
  <1> DEFINE x == [srv[r] EXCEPT !.pc = s]
  <1>1. srv[r] \in Request
    BY DEF IInv, TypeOK, Requests
  <1>2. x \in Request
    BY <1>1 DEF Request, RotatePC
  <1>3. /\ x.pc = s /\ x.tok = srv[r].tok
        /\ x.fam = srv[r].fam /\ x.todo = srv[r].todo
    BY <1>1 DEF Request
  <1>4. srv' = [srv EXCEPT ![r] = x]
    BY DEF Goto
  <1> HIDE DEF x
  <1> QED BY <1>2, <1>3, <1>4, ServerType DEF IInv

\* Request r is refused.
LEMMA Refused ==
    ASSUME IInv, NEW r \in Requests, Refuse(r)
    PROVE  /\ srv' \in [Requests -> Request]
           /\ srv'[r].pc = "401" /\ srv'[r].tok = NoToken
           /\ srv'[r].todo = srv[r].todo
           /\ \A q \in Requests : q # r => srv'[q] = srv[q]
  <1> DEFINE x == [srv[r] EXCEPT !.pc = "401", !.tok = NoToken]
  <1>1. srv[r] \in Request
    BY DEF IInv, TypeOK, Requests
  <1>2. x \in Request
    BY <1>1 DEF Request, MaybeToken
  <1>3. x.pc = "401" /\ x.tok = NoToken /\ x.todo = srv[r].todo
    BY <1>1 DEF Request
  <1>4. srv' = [srv EXCEPT ![r] = x]
    BY DEF Refuse
  <1> HIDE DEF x
  <1> QED BY <1>2, <1>3, <1>4, ServerType DEF IInv

\* Request r has presented a spent token and revokes the family.
LEMMA Reused ==
    ASSUME IInv, NEW r \in Requests, NEW f \in Family,
           srv' = [srv EXCEPT ![r] = [@ EXCEPT !.pc = "members", !.fam = f]]
    PROVE  /\ srv' \in [Requests -> Request]
           /\ srv'[r].pc = "members" /\ srv'[r].tok = srv[r].tok
           /\ srv'[r].fam = f /\ srv'[r].todo = srv[r].todo
           /\ \A q \in Requests : q # r => srv'[q] = srv[q]
  <1> DEFINE x == [srv[r] EXCEPT !.pc = "members", !.fam = f]
  <1>1. srv[r] \in Request
    BY DEF IInv, TypeOK, Requests
  <1>2. x \in Request
    BY <1>1 DEF Request
  <1>3. /\ x.pc = "members" /\ x.tok = srv[r].tok
        /\ x.fam = f /\ x.todo = srv[r].todo
    BY <1>1 DEF Request
  <1>4. srv' = [srv EXCEPT ![r] = x]
    OBVIOUS
  <1> HIDE DEF x
  <1> QED BY <1>2, <1>3, <1>4, ServerType DEF IInv

\* Request r has read the members of a family that was issued to the user.
LEMMA MembersRead ==
    ASSUME IInv, NEW r \in Requests, Members(r)
    PROVE  \E f \in ToRevoke(r) \cap Family :
              /\ srv' \in [Requests -> Request]
              /\ srv'[r].pc = "delete" /\ srv'[r].tok = srv[r].tok
              /\ srv'[r].fam = f /\ srv'[r].todo = srv[r].todo \ {f}
              /\ \A q \in Requests : q # r => srv'[q] = srv[q]
  <1>0. PICK f \in ToRevoke(r) : \E m \in {FamilySet(f), {}} :
           srv' = [srv EXCEPT ![r] = [@ EXCEPT !.pc = "delete", !.fam = f,
                                               !.members = m,
                                               !.todo = srv[r].todo \ {f}]]
    BY DEF Members
  <1>1. PICK m \in {FamilySet(f), {}} :
           srv' = [srv EXCEPT ![r] = [@ EXCEPT !.pc = "delete", !.fam = f,
                                               !.members = m,
                                               !.todo = srv[r].todo \ {f}]]
    BY <1>0
  <1>2. srv[r] \in Request /\ srv[r].todo \in SUBSET Family
    BY DEF IInv, TypeOK, Requests, Request
  <1>3. f \in Family /\ m \in SUBSET Token
    BY <1>2 DEF ToRevoke, Members, IInv, Carried, FamilySet, TypeOK
  <1> DEFINE d == srv[r].todo \ {f}
             x == [srv[r] EXCEPT !.pc = "delete", !.fam = f, !.members = m, !.todo = d]
  <1>4. d \in SUBSET Family
    BY <1>2
  <1>5. srv' = [srv EXCEPT ![r] = x]
    BY <1>1
  <1> HIDE DEF d
  <1>6. x \in Request
    BY <1>2, <1>3, <1>4 DEF Request
  <1>7. x.pc = "delete" /\ x.tok = srv[r].tok /\ x.fam = f /\ x.todo = d
    BY <1>2 DEF Request
  <1> HIDE DEF x
  <1>8. /\ srv' \in [Requests -> Request]
        /\ srv'[r] = x
        /\ \A q \in Requests : q # r => srv'[q] = srv[q]
    BY <1>5, <1>6, ServerType DEF IInv
  <1> QED BY <1>3, <1>7, <1>8 DEF d

\* Request r has revoked its family.
LEMMA Revoked ==
    ASSUME IInv, NEW r \in Requests, AfterRevoke(r)
    PROVE  /\ srv' \in [Requests -> Request]
           /\ srv'[r].pc \in {"401", "ok", "unlist", "list"} /\ srv'[r].tok = NoToken
           /\ srv'[r].todo = srv[r].todo
           /\ \A q \in Requests : q # r => srv'[q] = srv[q]
  <1> DEFINE s == IF srv[r].kind = "rotate" THEN "401"
                  ELSE IF srv[r].kind = "logout" THEN "ok"
                  ELSE IF srv[r].todo = {} THEN "unlist" ELSE "list"
             x == [Idle EXCEPT !.kind = srv[r].kind, !.pc = s, !.todo = srv[r].todo]
  <1>1. srv[r] \in Request
    BY DEF IInv, TypeOK, Requests
  <1>2. s \in {"401", "ok", "unlist", "list"}
    OBVIOUS
  <1>3. srv' = [srv EXCEPT ![r] = x]
    BY DEF AfterRevoke
  <1> HIDE DEF s
  <1>4. x \in Request
    BY <1>1, <1>2 DEF Request, Idle, MaybeToken
  <1>5. x.pc = s /\ x.tok = NoToken /\ x.todo = srv[r].todo
    BY DEF Idle
  <1> HIDE DEF x
  <1> QED BY <1>2, <1>3, <1>4, <1>5, ServerType DEF IInv

\* Carried survives a step of request r that leaves r with an issued token.
LEMMA CarriedStep ==
    ASSUME IInv, logins' = logins, NEW r \in Requests,
           \A q \in Requests : q # r => srv'[q] = srv[q],
           srv'[r].tok # NoToken => srv'[r].tok.fam <= logins,
           srv'[r].pc \in RotatePC =>
               r \in Tabs /\ srv'[r].tok \in Token /\ srv'[r].tok.fam <= logins,
           srv'[r].pc \in {"getdel", "spend", "mint"} => srv'[r].tok.gen < MaxGen,
           srv'[r].pc \in {"members", "delete"} => srv'[r].fam \in Family,
           r \in Tabs \/ srv'[r].tok = NoToken
    PROVE  Carried'
  <1>1. \A t \in Tabs : srv'[t].tok # NoToken => srv'[t].tok.fam <= logins'
    BY DEF IInv, Carried, Requests
  <1>2. \A t \in Tabs : srv'[t].pc \in RotatePC =>
           srv'[t].tok \in Token /\ srv'[t].tok.fam <= logins'
    BY DEF IInv, Carried, Requests
  <1>3. \A t \in Tabs : srv'[t].pc \in {"getdel", "spend", "mint"} =>
           srv'[t].tok.gen < MaxGen
    BY DEF IInv, Carried, Requests
  <1>4. srv'[Admin].pc \notin RotatePC /\ srv'[Admin].tok = NoToken
    BY SessionsAssumption DEF IInv, Carried, Requests
  <1>5. \A q \in Requests : srv'[q].pc \in {"members", "delete"} => srv'[q].fam \in Family
    BY DEF IInv, Carried
  <1> QED BY <1>1, <1>2, <1>3, <1>4, <1>5 DEF Carried

\* OneTokenPerFamily survives a step of r that puts no token into Redis and
\* takes none out to rotate it.
LEMMA ExclusiveStep ==
    ASSUME IInv, refresh' \subseteq refresh, NEW r \in Requests,
           \A q \in Requests : q # r => srv'[q] = srv[q],
           srv'[r].pc \in {"spend", "mint"} =>
               srv[r].pc \in {"spend", "mint"} /\ srv'[r].tok = srv[r].tok
    PROVE  OneTokenPerFamily'
  <1>1. \A t \in Tabs : Holds(t)' => Holds(t) /\ srv'[t].tok = srv[t].tok
    BY DEF Holds, Requests
  <1> QED BY <1>1 DEF IInv, OneTokenPerFamily

\* What the browser refers to stays known when neither store nor tab nor the
\* number of families changes.
LEMMA KnownStep ==
    ASSUME IInv, logins' = logins, refresh' \subseteq refresh,
           UNCHANGED <<store, tab>>
    PROVE  Known'
  BY DEF IInv, Known

----------------------------------------------------------------------------
(***************************************************************************)
(* The steps.                                                              *)
(***************************************************************************)

\* Init: no tokens and no requests.
LEMMA InitInvariant == Init => IInv
  <1> SUFFICES ASSUME Init PROVE IInv
    OBVIOUS
  <1>1. srv \in [Tabs \cup {Admin} -> Request]
    BY RequestStarts DEF Init
  <1>2. quit \in BOOLEAN
    BY Zenon DEF Init
  <1>3. TypeOK
    BY <1>1, <1>2, SessionsAssumption DEF Init, TypeOK, Quiet, MaybeToken
  <1>4. Known
    BY DEF Init, Known, Quiet
  <1>5. Carried
    BY DEF Init, Carried, Idle, RotatePC, Requests
  <1>6. OneTokenPerFamily
    BY DEF Init, OneTokenPerFamily, Holds, Idle
  <1> QED BY <1>3, <1>4, <1>5, <1>6 DEF IInv

\* A request takes no token out of Redis to rotate it and puts none there.
LEMMA CalmStep ==
    ASSUME IInv, TypeOK', logins' = logins, UNCHANGED <<store, tab>>,
           refresh' \subseteq refresh, NEW r \in Requests,
           \A q \in Requests : q # r => srv'[q] = srv[q],
           srv'[r].tok \in {srv[r].tok, NoToken},
           srv'[r].pc \in RotatePC =>
               /\ srv[r].pc \in RotatePC /\ srv'[r].tok = srv[r].tok
               /\ \/ srv'[r].pc = "reuse"
                  \/ srv[r].pc = "spend" /\ srv'[r].pc = "mint",
           srv'[r].pc \in {"members", "delete"} => srv'[r].fam \in Family,
           r \in Tabs \/ srv'[r].tok = NoToken
    PROVE  IInv'
  <1>1. Known'
    BY KnownStep
  <1>2. srv'[r].pc \in RotatePC =>
           /\ r \in Tabs /\ srv'[r].tok \in Token
           /\ srv'[r].tok.fam <= logins
           /\ srv'[r].pc = "mint" => srv'[r].tok.gen < MaxGen
    BY DEF IInv, Carried, Requests
  <1>3. srv'[r].tok # NoToken => srv'[r].tok.fam <= logins
    BY DEF IInv, Carried, Requests
  <1>4. srv'[r].pc \notin {"getdel", "spend", "track"}
    BY DEF RotatePC
  <1>5. Carried'
    BY <1>2, <1>3, <1>4, CarriedStep DEF RotatePC
  <1>6. OneTokenPerFamily'
    BY <1>4, ExclusiveStep DEF RotatePC
  <1> QED BY <1>1, <1>5, <1>6 DEF IInv

\* What every server step knows of its request.
LEMMA Serving ==
    ASSUME IInv, NEW r \in Requests
    PROVE  /\ srv[r] \in Request
           /\ r \in Tabs \/ srv[r].tok = NoToken
           /\ srv[r].pc \in RotatePC =>
                 /\ r \in Tabs
                 /\ srv[r].tok \in Token /\ srv[r].tok.fam \in Family
                 /\ srv[r].tok.fam <= logins
           /\ srv[r].pc \in {"getdel", "spend", "mint"} => srv[r].tok.gen < MaxGen
           /\ srv[r].pc \in {"members", "delete"} => srv[r].fam \in Family
  <1>1. srv[r] \in Request
    BY DEF IInv, TypeOK, Requests
  <1>2. srv[r].pc \in {"getdel", "spend", "mint"} => srv[r].pc \in RotatePC
    BY DEF RotatePC
  <1> QED BY <1>1, <1>2 DEF IInv, Carried, Requests, Token

\* RotateRefreshToken takes the token out of Redis, or finds it gone.
LEMMA GetDelStep ==
    ASSUME IInv, NEW r \in Requests, GetDel(r)
    PROVE  IInv'
  <1>1. /\ srv[r].pc = "getdel" /\ r \in Tabs
        /\ srv[r].tok \in Token /\ srv[r].tok.fam <= logins /\ srv[r].tok.gen < MaxGen
    BY Serving DEF GetDel, RotatePC
  <1> DEFINE s == IF srv[r].tok \in refresh THEN "spend" ELSE "reuse"
  <1>2. /\ s \in {"spend", "reuse"} /\ Goto(r, s)
        /\ s = "spend" <=> srv[r].tok \in refresh
    BY DEF GetDel
  <1>3. /\ refresh' = refresh \ {srv[r].tok}
        /\ UNCHANGED <<logins, access, tracked, index, spent, store, tab, lock, dead, raced,
                       quit, faults>>
    BY DEF GetDel, browser
  <1> HIDE DEF s
  <1>5. /\ srv' \in [Requests -> Request]
        /\ srv'[r].pc = s /\ srv'[r].tok = srv[r].tok
        /\ \A q \in Requests : q # r => srv'[q] = srv[q]
    BY <1>2, Goes DEF RotatePC
  <1>7. TypeOK'
    BY <1>3, <1>5 DEF IInv, TypeOK, Requests
  <1>8. Known'
    BY <1>3, KnownStep
  <1>9. Carried'
    BY <1>1, <1>2, <1>3, <1>5, CarriedStep DEF RotatePC
  <1>10. OneTokenPerFamily'
    <2>1. CASE s # "spend"
      BY <1>2, <1>3, <1>5, <2>1, ExclusiveStep
    <2>2. CASE s = "spend"
      <3>1. /\ srv[r].tok \in refresh
            /\ refresh' = refresh \ {srv[r].tok}
        BY <1>2, <1>3, <2>2
      <3>2. \A k \in refresh' : k.fam # srv[r].tok.fam
        BY <3>1 DEF IInv, OneTokenPerFamily
      <3>3. \A t \in Tabs : t # r => srv'[t] = srv[t]
        BY <1>5 DEF Requests
      <3>4. \A t \in Tabs : Holds(t) => srv[t].tok.fam # srv[r].tok.fam
        BY <3>1 DEF IInv, OneTokenPerFamily
      <3>5. \A t \in Tabs : t # r => (Holds(t)' <=> Holds(t))
        BY <3>3 DEF Holds
      <3>6. \A k, m \in refresh' : k.fam = m.fam => k = m
        BY <3>1 DEF IInv, OneTokenPerFamily
      <3>7. \A t \in Tabs, k \in refresh' : Holds(t)' => k.fam # srv'[t].tok.fam
        BY <1>5, <3>1, <3>2, <3>3, <3>5 DEF IInv, OneTokenPerFamily
      <3>8. \A t, u \in Tabs : Holds(t)' /\ Holds(u)' /\ srv'[t].tok.fam = srv'[u].tok.fam
                               => t = u
        BY <1>5, <3>3, <3>4, <3>5 DEF IInv, OneTokenPerFamily
      <3> QED BY <3>6, <3>7, <3>8 DEF OneTokenPerFamily
    <2> QED BY <2>1, <2>2
  <1> QED BY <1>7, <1>8, <1>9, <1>10 DEF IInv

\* The token that follows one that may rotate is a token of its family.
LEMMA SuccessorType ==
    ASSUME NEW k \in Token, k.gen < MaxGen
    PROVE  Successor(k) \in Token /\ Successor(k).fam = k.fam
  BY SessionsAssumption DEF Token, Family, Successor

\* The rotation that holds the family puts its next token into Redis, and is
\* answered or not.
LEMMA MintsOne ==
    ASSUME IInv, NEW r \in Requests, srv[r].pc = "mint", NEW new \in Token,
           new.fam = srv[r].tok.fam, refresh' = refresh \cup {new},
           logins' = logins, UNCHANGED <<store, tab>>,
           \A q \in Requests : q # r => srv'[q] = srv[q],
           \/ srv'[r].pc = "track" /\ srv'[r].tok = new
           \/ srv'[r].pc = "401" /\ srv'[r].tok = NoToken
    PROVE  Known' /\ Carried' /\ OneTokenPerFamily'
  <1>1. r \in Tabs /\ new.fam <= logins
    BY Serving DEF RotatePC
  <1>2. Known'
    BY <1>1 DEF IInv, Known
  <1>3. Carried'
    BY <1>1, CarriedStep DEF RotatePC
  <1>4. OneTokenPerFamily'
    <2>1. Holds(r) /\ ~Holds(r)'
      BY DEF Holds
    <2>2. \A t \in Tabs : t # r => srv'[t] = srv[t] /\ (Holds(t)' <=> Holds(t))
      BY DEF Requests, Holds
    <2>3. \A k \in refresh : k.fam # new.fam
      BY <1>1, <2>1 DEF IInv, OneTokenPerFamily
    <2>4. \A t \in Tabs : Holds(t)' => srv'[t].tok.fam # new.fam
      BY <1>1, <2>1, <2>2 DEF IInv, OneTokenPerFamily
    <2>5. \A k, m \in refresh' : k.fam = m.fam => k = m
      BY <2>3 DEF IInv, OneTokenPerFamily
    <2>6. \A t \in Tabs, k \in refresh' : Holds(t)' => k.fam # srv'[t].tok.fam
      BY <2>1, <2>2, <2>4 DEF IInv, OneTokenPerFamily
    <2>7. \A t, u \in Tabs : Holds(t)' /\ Holds(u)' /\ srv'[t].tok.fam = srv'[u].tok.fam
                             => t = u
      BY <2>1, <2>2 DEF IInv, OneTokenPerFamily
    <2> QED BY <2>5, <2>6, <2>7 DEF OneTokenPerFamily
  <1> QED BY <1>2, <1>3, <1>4

\* What Mint does to its request.
LEMMA Minted ==
    ASSUME IInv, NEW r \in Requests, Mint(r)
    PROVE  /\ srv' \in [Requests -> Request]
           /\ srv'[r].pc = "track" /\ srv'[r].tok = Successor(srv[r].tok)
           /\ srv'[r].todo = srv[r].todo
           /\ Successor(srv[r].tok) \in Token
           /\ Successor(srv[r].tok).fam = srv[r].tok.fam
           /\ \A q \in Requests : q # r => srv'[q] = srv[q]
  <1> DEFINE new == Successor(srv[r].tok)
             x == [srv[r] EXCEPT !.pc = "track", !.tok = new]
  <1>1. srv[r] \in Request /\ srv[r].tok \in Token /\ srv[r].tok.gen < MaxGen
    BY Serving DEF Mint, RotatePC
  <1>2. new \in Token /\ new.fam = srv[r].tok.fam
    BY <1>1, SuccessorType
  <1>3. srv' = [srv EXCEPT ![r] = x]
    BY DEF Mint
  <1> HIDE DEF new
  <1>4. x \in Request
    BY <1>1, <1>2, RequestMints
  <1>5. x.pc = "track" /\ x.tok = new /\ x.todo = srv[r].todo
    BY <1>1 DEF Request
  <1> HIDE DEF x
  <1>6. /\ srv' \in [Requests -> Request]
        /\ srv'[r] = x
        /\ \A q \in Requests : q # r => srv'[q] = srv[q]
    BY <1>3, <1>4, ServerType DEF IInv
  <1> QED BY <1>2, <1>5, <1>6 DEF new

\* SET of the next pair, or its failure.
LEMMA MintStep ==
    ASSUME IInv, NEW r \in Requests, Mint(r) \/ MintFails(r)
    PROVE  IInv'
  <1> DEFINE new == Successor(srv[r].tok)
  <1>1. /\ srv[r].pc = "mint" /\ r \in Tabs
        /\ srv[r].tok \in Token /\ srv[r].tok.fam \in Family /\ srv[r].tok.gen < MaxGen
    BY Serving DEF Mint, MintFails, RotatePC
  <1>2. new \in Token /\ new.fam = srv[r].tok.fam
    BY <1>1, SuccessorType
  <1>3. CASE Mint(r)
    <2>1. /\ refresh' = refresh \cup {new} /\ access' = access \cup {new}
          /\ UNCHANGED <<logins, tracked, index, spent, store, tab, lock, dead, raced, quit,
                         faults>>
      BY <1>3 DEF Mint, browser
    <2>2. /\ srv' \in [Requests -> Request]
          /\ srv'[r].pc = "track" /\ srv'[r].tok = new
          /\ \A q \in Requests : q # r => srv'[q] = srv[q]
      BY <1>3, Minted
    <2> HIDE DEF new
    <2>3. TypeOK'
      BY <1>2, <2>1, <2>2 DEF IInv, TypeOK, Requests
    <2> QED BY <1>1, <1>2, <2>1, <2>2, <2>3, MintsOne DEF IInv
  <1>4. CASE MintFails(r)
    <2>1. /\ Refuse(r) /\ Fault("redis")
          /\ \/ UNCHANGED <<refresh, access, raced>>
             \/ /\ refresh' = refresh \cup {new} /\ access' = access \cup {new}
                /\ raced' = raced \cup {new.fam}
          /\ UNCHANGED <<logins, tracked, index, spent, store, tab, lock, dead, quit>>
      BY <1>4 DEF MintFails, browser
    <2>2. /\ srv' \in [Requests -> Request]
          /\ srv'[r].pc = "401" /\ srv'[r].tok = NoToken
          /\ \A q \in Requests : q # r => srv'[q] = srv[q]
      BY <2>1, Refused
    <2> HIDE DEF new
    <2>3. faults' \in Nat
      BY <2>1 DEF Fault, IInv, TypeOK
    <2>4. refresh' \subseteq Token /\ access' \subseteq Token /\ raced' \subseteq Family
      BY <1>1, <1>2, <2>1 DEF IInv, TypeOK
    <2>5. TypeOK'
      BY <2>1, <2>2, <2>3, <2>4 DEF IInv, TypeOK, Requests
    <2>6. CASE UNCHANGED refresh
      BY <1>1, <2>1, <2>2, <2>5, <2>6, CalmStep DEF RotatePC
    <2>7. CASE refresh' = refresh \cup {new}
      BY <1>1, <1>2, <2>1, <2>2, <2>5, <2>7, MintsOne DEF IInv
    <2> QED BY <2>1, <2>6, <2>7
  <1> QED BY <1>3, <1>4

\* The server's other steps on a rotation.
LEMMA RotateStep ==
    ASSUME IInv, NEW r \in Requests,
           GetDelFails(r) \/ Spend(r) \/ SpendFails(r) \/ Track(r) \/ TrackFails(r)
              \/ Reuse(r) \/ ReuseFails(r)
    PROVE  IInv'
  <1>1. /\ srv[r].pc \in RotatePC /\ r \in Tabs
        /\ srv[r].tok \in Token /\ srv[r].tok.fam \in Family
    BY Serving DEF GetDelFails, Spend, SpendFails, Track, TrackFails, Reuse, ReuseFails,
                   RotatePC
  <1>2. faults' \in Nat
    BY DEF GetDelFails, Spend, SpendFails, Track, TrackFails, Reuse, ReuseFails, Fault,
           IInv, TypeOK
  <1>3. /\ UNCHANGED <<logins, index, access, store, tab, lock, dead, quit>>
        /\ refresh' \subseteq refresh
        /\ tracked' \subseteq Token /\ spent' \subseteq Token /\ raced' \subseteq Family
    BY <1>1 DEF GetDelFails, Spend, SpendFails, Track, TrackFails, Reuse, ReuseFails,
                IInv, TypeOK, redis, browser
  <1>4. /\ srv' \in [Requests -> Request]
        /\ srv'[r].tok \in {srv[r].tok, NoToken}
        /\ \/ srv'[r].pc \in {"401", "ok"}
           \/ srv[r].pc = "spend" /\ srv'[r].pc = "mint" /\ srv'[r].tok = srv[r].tok
           \/ srv'[r].pc = "members" /\ srv'[r].fam \in Family
        /\ \A q \in Requests : q # r => srv'[q] = srv[q]
    <2>1. CASE Refuse(r)
      BY <2>1, Refused
    <2>2. CASE Goto(r, "ok")
      BY <2>2, Goes DEF RotatePC
    <2>3. CASE Goto(r, "mint") /\ srv[r].pc = "spend"
      BY <2>3, Goes DEF RotatePC
    <2>4. CASE srv' = [srv EXCEPT ![r] = [@ EXCEPT !.pc = "members", !.fam = srv[r].tok.fam]]
      BY <1>1, <2>4, Reused
    <2> QED BY <2>1, <2>2, <2>3, <2>4
            DEF GetDelFails, Spend, SpendFails, Track, TrackFails, Reuse, ReuseFails
  <1>5. TypeOK'
    BY <1>2, <1>3, <1>4 DEF IInv, TypeOK, Requests
  <1> QED BY <1>1, <1>3, <1>4, <1>5, CalmStep DEF RotatePC

\* The server's steps on a revocation.
LEMMA RevokeStep ==
    ASSUME IInv, NEW r \in Requests,
           Members(r) \/ Delete(r) \/ DeleteFails(r) \/ Unlist(r)
    PROVE  IInv'
  <1>1. faults' \in Nat
    <2>1. faults \in Nat
      BY DEF IInv, TypeOK
    <2>2. Members(r) => faults' = faults \/ Fault("redis")
      BY DEF Members
    <2>3. Delete(r) \/ DeleteFails(r) \/ Unlist(r) => faults' = faults \/ Fault("redis")
      BY DEF Delete, DeleteFails, Unlist
    <2> QED BY <2>1, <2>2, <2>3 DEF Fault
  <1>2. /\ UNCHANGED <<logins, access, spent, store, tab, lock, quit>>
        /\ refresh' \subseteq refresh /\ tracked' \subseteq tracked /\ index' \subseteq index
    BY DEF Members, Delete, DeleteFails, Unlist, redis, browser
  <1>3. dead' \subseteq Family /\ raced' \subseteq Family
    <2>1. Delete(r) => srv[r].fam \in Family
      BY Serving DEF Delete
    <2> QED BY <2>1 DEF Members, Delete, DeleteFails, Unlist, IInv, TypeOK
  <1>4. /\ srv' \in [Requests -> Request]
        /\ srv'[r].tok \in {srv[r].tok, NoToken}
        /\ \/ srv'[r].pc \in {"401", "ok", "unlist", "list", "idle"}
           \/ srv'[r].pc = "delete" /\ srv'[r].fam \in Family
        /\ \A q \in Requests : q # r => srv'[q] = srv[q]
    <2>1. CASE Members(r)
      BY <2>1, MembersRead
    <2>2. CASE AfterRevoke(r)
      BY <2>2, Revoked
    <2>3. CASE srv' = [srv EXCEPT ![r] = Idle]
      <3>1. Idle.pc = "idle" /\ Idle.tok = NoToken
        BY DEF Idle
      <3> QED BY <2>3, <3>1, RequestStarts, ServerType DEF IInv
    <2> QED BY <2>1, <2>2, <2>3 DEF Delete, DeleteFails, Unlist
  <1>5. TypeOK'
    BY <1>1, <1>2, <1>3, <1>4 DEF IInv, TypeOK, Requests
  <1> QED BY <1>2, <1>4, <1>5, Serving, CalmStep DEF RotatePC

\* The server's steps.
LEMMA ServeStep ==
    ASSUME IInv, NEW r \in Requests, Serve(r)
    PROVE  IInv'
  BY GetDelStep, MintStep, RotateStep, RevokeStep DEF Serve

\* A password change starts: RevokeAllForSubject reads the index.
LEMMA ChangePasswordStep ==
    ASSUME IInv, ChangePassword
    PROVE  IInv'
  <1>0. PICK m \in {index, {}} :
           srv' = [srv EXCEPT ![Admin] = [Idle EXCEPT !.kind = "all", !.todo = m,
                                            !.pc = IF m = {} THEN "unlist" ELSE "list"]]
    BY DEF ChangePassword
  <1> DEFINE x == [Idle EXCEPT !.kind = "all", !.todo = m,
                               !.pc = IF m = {} THEN "unlist" ELSE "list"]
  <1>1. x \in Request
    BY RequestStarts DEF IInv, TypeOK
  <1>2. x.pc \in {"unlist", "list"} /\ x.tok = NoToken
    BY DEF Idle
  <1>3. srv' = [srv EXCEPT ![Admin] = x] /\ Admin \in Requests
    BY <1>0 DEF Requests
  <1> HIDE DEF x
  <1>4. /\ srv' \in [Requests -> Request]
        /\ srv'[Admin] = x
        /\ \A q \in Requests : q # Admin => srv'[q] = srv[q]
    BY <1>1, <1>3, ServerType DEF IInv
  <1>5. quit' \in BOOLEAN
    BY Zenon DEF ChangePassword
  <1>10. faults' \in Nat
    BY DEF ChangePassword, Fault, IInv, TypeOK
  <1>6. TypeOK'
    BY <1>4, <1>5, <1>10 DEF IInv, TypeOK, ChangePassword, browser, redis, Requests
  <1>7. Known'
    BY KnownStep DEF ChangePassword, browser, redis
  <1>8. Carried'
    BY <1>2, <1>3, <1>4, CarriedStep DEF ChangePassword, RotatePC
  <1>9. OneTokenPerFamily'
    BY <1>2, <1>3, <1>4, ExclusiveStep DEF ChangePassword, redis
  <1> QED BY <1>6, <1>7, <1>8, <1>9 DEF IInv

\* Steps that move no request and no token.
LEMMA StillStep ==
    ASSUME IInv, TypeOK', Known', UNCHANGED <<srv, refresh, logins>>
    PROVE  IInv'
  <1>1. Carried'
    BY DEF IInv, Carried
  <1>2. OneTokenPerFamily'
    BY DEF IInv, OneTokenPerFamily, Holds
  <1> QED BY <1>1, <1>2 DEF IInv

\* The reverse index expires.
LEMMA IndexExpireStep ==
    ASSUME IInv, IndexExpire
    PROVE  IInv'
  <1>1. faults' \in Nat
    BY DEF IndexExpire, Fault, IInv, TypeOK
  <1>2. TypeOK'
    BY <1>1 DEF IndexExpire, IInv, TypeOK, browser
  <1>3. Known'
    BY KnownStep DEF IndexExpire, browser
  <1> QED BY <1>2, <1>3, StillStep DEF IndexExpire

\* A login issues a family that nobody refers to yet.
LEMMA LoginStep ==
    ASSUME IInv, NEW t \in Tabs, Login(t)
    PROVE  IInv'
  <1> DEFINE new == [fam |-> logins + 1, gen |-> 0]
  <1>1. /\ logins \in Nat /\ logins' = logins + 1 /\ logins' \in 0 .. MaxLogins
        /\ logins + 1 \in Family
    BY SessionsAssumption DEF Login, IInv, TypeOK, Family
  <1>2. new \in Token /\ new.fam = logins + 1
    BY <1>1, SessionsAssumption DEF Token
  <1>3. /\ refresh' = refresh \cup {new} /\ access' = access \cup {new}
        /\ tracked' = tracked \cup {new} /\ store' = new
        /\ index' \subseteq index \cup {logins + 1} /\ faults' \in Nat
        /\ UNCHANGED <<spent, srv, tab, lock, dead, raced, quit>>
    BY DEF Login, Fault, IInv, TypeOK
  <1> HIDE DEF new
  <1>4. TypeOK'
    BY <1>1, <1>2, <1>3 DEF IInv, TypeOK, MaybeToken
  <1>5. \A k \in Token : k.fam \in Nat
    BY SessionsAssumption DEF Token, Family
  <1>6. \A k \in refresh : k.fam \in Nat /\ k.fam <= logins
    BY <1>5 DEF IInv, TypeOK, Known
  <1>7. \A u \in Tabs : tab[u].pc \in {"waiting", "sent"} => tab[u].orig.fam <= logins'
    BY <1>1, <1>5 DEF IInv, Known
  <1>8. Known'
    BY <1>1, <1>2, <1>3, <1>6, <1>7 DEF IInv, Known
  <1>9. \A u \in Tabs : srv[u].tok # NoToken => srv[u].tok \in Token
    BY DEF IInv, TypeOK, Request, MaybeToken
  <1>10. Carried'
    BY <1>1, <1>3, <1>5, <1>9 DEF IInv, Carried
  <1>11. \A k \in refresh : k.fam # new.fam
    BY <1>1, <1>2, <1>6
  <1>12. \A u \in Tabs : Holds(u) => srv[u].tok.fam # new.fam
    BY <1>1, <1>2, <1>5 DEF IInv, Carried, Holds, RotatePC
  <1>13. OneTokenPerFamily'
    <2>1. \A u \in Tabs : Holds(u)' <=> Holds(u)
      BY <1>3 DEF Holds
    <2>2. \A k, m \in refresh' : k.fam = m.fam => k = m
      BY <1>3, <1>11 DEF IInv, OneTokenPerFamily
    <2>3. \A u \in Tabs, k \in refresh' : Holds(u)' => k.fam # srv'[u].tok.fam
      BY <1>3, <1>12, <2>1 DEF IInv, OneTokenPerFamily
    <2>4. \A u, v \in Tabs : Holds(u)' /\ Holds(v)' /\ srv'[u].tok.fam = srv'[v].tok.fam
                             => u = v
      BY <1>3, <2>1 DEF IInv, OneTokenPerFamily
    <2> QED BY <2>2, <2>3, <2>4 DEF OneTokenPerFamily
  <1> QED BY <1>4, <1>8, <1>10, <1>13 DEF IInv

\* A tab remembers the token and waits for the lock.
LEMMA StartRefreshStep ==
    ASSUME IInv, NEW t \in Tabs, StartRefresh(t)
    PROVE  IInv'
  <1>1. /\ store \in Token /\ store.gen < MaxGen /\ store.fam <= logins
        /\ store \in MaybeToken
    BY DEF StartRefresh, IInv, TypeOK, Known, MaybeToken
  <1>2. /\ tab' \in [Tabs -> [pc : {"idle", "waiting", "sent", "leaving"},
                              orig : MaybeToken]]
        /\ tab'[t].pc = "waiting" /\ tab'[t].orig = store
        /\ \A u \in Tabs : u # t => tab'[u] = tab[u]
    BY <1>1, TabType DEF StartRefresh, IInv
  <1>3. TypeOK'
    BY <1>2 DEF StartRefresh, IInv, TypeOK, redis
  <1>4. Known'
    BY <1>1, <1>2 DEF StartRefresh, IInv, Known, redis
  <1> QED BY <1>3, <1>4, StillStep DEF StartRefresh, redis

\* A tab's refresh is over: what is left is known.
LEMMA TabQuiet ==
    ASSUME IInv, NEW t \in Tabs, tab' = [tab EXCEPT ![t] = Quiet]
    PROVE  /\ tab' \in [Tabs -> [pc : {"idle", "waiting", "sent", "leaving"},
                                 orig : MaybeToken]]
           /\ tab'[t].pc = "idle"
           /\ \A u \in Tabs : u # t => tab'[u] = tab[u]
  <1>1. NoToken \in MaybeToken
    BY DEF MaybeToken
  <1> QED BY <1>1, TabType DEF Quiet, IInv

\* A tab has its turn: another one has rotated, or it posts its token.
LEMMA RefreshStep ==
    ASSUME IInv, NEW t \in Tabs, Refresh(t)
    PROVE  IInv'
  <1>1. t \in Requests /\ UNCHANGED <<logins, store>> /\ UNCHANGED redis
    BY DEF Refresh, Requests
  <1>2. CASE tab' = [tab EXCEPT ![t] = Quiet] /\ UNCHANGED <<srv, lock>>
    <2>1. TypeOK'
      BY <1>2, TabQuiet DEF Refresh, IInv, TypeOK, redis
    <2>2. Known'
      BY <1>1, <1>2, TabQuiet DEF IInv, Known, redis
    <2> QED BY <1>1, <1>2, <2>1, <2>2, StillStep DEF redis
  <1>3. CASE /\ lock' = (IF WebLocks THEN t ELSE lock)
             /\ tab' = [tab EXCEPT ![t] = [@ EXCEPT !.pc = "sent"]]
             /\ srv' = [srv EXCEPT ![t] = [Idle EXCEPT !.kind = "rotate", !.pc = "getdel",
                                                       !.tok = tab[t].orig]]
    <2> DEFINE k == tab[t].orig
               x == [Idle EXCEPT !.kind = "rotate", !.pc = "getdel", !.tok = k]
    <2>1. /\ tab[t].pc = "waiting"
          /\ k \in Token /\ k.gen < MaxGen /\ k.fam <= logins /\ k \in MaybeToken
      BY DEF Refresh, IInv, Known, MaybeToken
    <2>2. x \in Request
      BY <2>1, RequestStarts
    <2>3. x.pc = "getdel" /\ x.tok = k
      BY DEF Idle
    <2>4. srv' = [srv EXCEPT ![t] = x]
      BY <1>3
    <2>5. tab' = [tab EXCEPT ![t] = [pc |-> "sent", orig |-> k]]
      BY <1>3, TabMoves DEF IInv
    <2> HIDE DEF x, k
    <2>6. /\ srv' \in [Requests -> Request]
          /\ srv'[t] = x
          /\ \A q \in Requests : q # t => srv'[q] = srv[q]
      BY <1>1, <2>2, <2>4, ServerType DEF IInv
    <2>7. /\ tab' \in [Tabs -> [pc : {"idle", "waiting", "sent", "leaving"},
                                orig : MaybeToken]]
          /\ tab'[t].pc = "sent" /\ tab'[t].orig = k
          /\ \A u \in Tabs : u # t => tab'[u] = tab[u]
      BY <2>1, <2>5, TabType DEF IInv
    <2>8. lock' \in Tabs \cup {NoToken}
      BY <1>3 DEF IInv, TypeOK
    <2>9. TypeOK'
      BY <1>1, <2>6, <2>7, <2>8 DEF Refresh, IInv, TypeOK, redis, Requests
    <2>10. Known'
      BY <1>1, <2>1, <2>7 DEF IInv, Known, redis
    <2>11. Carried'
      BY <1>1, <2>1, <2>3, <2>6, CarriedStep
    <2>12. OneTokenPerFamily'
      BY <1>1, <2>3, <2>6, ExclusiveStep DEF redis
    <2> QED BY <2>9, <2>10, <2>11, <2>12 DEF IInv
  <1> QED BY <1>2, <1>3 DEF Refresh

\* A tab gets its answer, or none.
LEMMA AnswerStep ==
    ASSUME IInv, NEW t \in Tabs, Answer(t)
    PROVE  IInv'
  <1>1. /\ t \in Requests
        /\ srv[t] \in Request
        /\ Idle \in Request /\ Idle.pc = "idle" /\ Idle.tok = NoToken
        /\ NoToken \in MaybeToken
    BY RequestStarts DEF IInv, TypeOK, Requests, Idle, MaybeToken
  <1>2. ASSUME srv' = [srv EXCEPT ![t] = Idle], logins' = logins, refresh' = refresh
        PROVE  srv' \in [Requests -> Request] /\ Carried' /\ OneTokenPerFamily'
    <2>1. /\ srv' \in [Requests -> Request]
          /\ srv'[t] = Idle
          /\ \A q \in Requests : q # t => srv'[q] = srv[q]
      BY <1>1, <1>2, ServerType DEF IInv
    <2>2. Carried'
      BY <1>1, <1>2, <2>1, CarriedStep DEF RotatePC
    <2>3. OneTokenPerFamily'
      BY <1>1, <1>2, <2>1, ExclusiveStep
    <2> QED BY <2>1, <2>2, <2>3
  <1>3. CASE RefreshAnswered(t)
    <2>1. tab' = [tab EXCEPT ![t] = Quiet] /\ lock' \in Tabs \cup {NoToken}
      BY <1>3 DEF RefreshAnswered, Release, IInv, TypeOK
    <2>2. /\ store' \in MaybeToken
          /\ store' # NoToken => store'.fam <= logins
      BY <1>1, <1>3 DEF RefreshAnswered, IInv, Carried, Request, MaybeToken
    <2>3. srv' = [srv EXCEPT ![t] = Idle] /\ UNCHANGED <<logins, refresh>>
      BY <1>3 DEF RefreshAnswered, redis
    <2>4. srv' \in [Requests -> Request] /\ Carried' /\ OneTokenPerFamily'
      BY <1>2, <2>3
    <2>5. TypeOK'
      BY <1>3, <2>1, <2>2, <2>4, TabQuiet
      DEF RefreshAnswered, IInv, TypeOK, redis, Requests
    <2>6. Known'
      BY <2>1, <2>2, <2>3, TabQuiet DEF IInv, Known
    <2> QED BY <2>4, <2>5, <2>6 DEF IInv
  <1>4. CASE RefreshFails(t)
    <2>1. /\ tab' = [tab EXCEPT ![t] = Quiet] /\ lock' \in Tabs \cup {NoToken}
          /\ faults' \in Nat
      BY <1>4 DEF RefreshFails, Release, Fault, IInv, TypeOK
    <2>2. TypeOK'
      BY <1>4, <2>1, TabQuiet DEF RefreshFails, IInv, TypeOK, redis
    <2>3. Known'
      BY <1>4, <2>1, TabQuiet DEF RefreshFails, IInv, Known, redis
    <2> QED BY <1>4, <2>2, <2>3, StillStep DEF RefreshFails, redis
  <1>5. CASE AnswerDropped(t)
    <2>1. srv' = [srv EXCEPT ![t] = Idle] /\ UNCHANGED <<logins, refresh, store, tab>>
      BY <1>5 DEF AnswerDropped, redis, browser
    <2>2. srv' \in [Requests -> Request] /\ Carried' /\ OneTokenPerFamily'
      BY <1>2, <2>1
    <2>3. TypeOK'
      BY <1>5, <2>2 DEF AnswerDropped, IInv, TypeOK, redis, browser, Requests
    <2>4. Known'
      BY <2>1, KnownStep
    <2> QED BY <2>2, <2>3, <2>4 DEF IInv
  <1>6. CASE LogoutDone(t)
    <2>1. /\ srv' = [srv EXCEPT ![t] = Idle] /\ UNCHANGED <<logins, refresh>>
          /\ store' = NoToken /\ tab' = [tab EXCEPT ![t] = Quiet]
      BY <1>6 DEF LogoutDone, redis
    <2>2. srv' \in [Requests -> Request] /\ Carried' /\ OneTokenPerFamily'
      BY <1>2, <2>1
    <2>3. TypeOK'
      BY <1>1, <1>6, <2>1, <2>2, TabQuiet DEF LogoutDone, IInv, TypeOK, redis, Requests
    <2>4. Known'
      BY <2>1, TabQuiet DEF IInv, Known
    <2> QED BY <2>2, <2>3, <2>4 DEF IInv
  <1> QED BY <1>3, <1>4, <1>5, <1>6 DEF Answer

\* A tab logs out: the server revokes the family, or has nothing to do.
LEMMA LogoutStep ==
    ASSUME IInv, NEW t \in Tabs, Logout(t)
    PROVE  IInv'
  <1>1. t \in Requests /\ store \in Token /\ store.fam \in Family
    BY DEF Logout, IInv, TypeOK, MaybeToken, Requests, Token
  <1>2. PICK x \in {Revoking(store.fam), LoggedOut} : srv' = [srv EXCEPT ![t] = x]
    BY DEF Logout
  <1>3. x \in Request
    BY <1>1, RequestStarts
  <1>4. /\ x.tok = NoToken
        /\ \/ x.pc = "ok"
           \/ x.pc = "members" /\ x.fam \in Family
    <2>1. CASE x = Revoking(store.fam)
      BY <1>1, <2>1 DEF Idle, Revoking
    <2>2. CASE x = LoggedOut
      BY <2>2 DEF Idle, LoggedOut
    <2> QED BY <2>1, <2>2
  <1>5. /\ srv' \in [Requests -> Request]
        /\ srv'[t] = x
        /\ \A q \in Requests : q # t => srv'[q] = srv[q]
    BY <1>1, <1>2, <1>3, ServerType DEF IInv
  <1>6. /\ tab[t].orig \in MaybeToken
        /\ tab' = [tab EXCEPT ![t] = [pc |-> "leaving", orig |-> tab[t].orig]]
    BY TabMoves DEF Logout, IInv
  <1>7. /\ tab' \in [Tabs -> [pc : {"idle", "waiting", "sent", "leaving"},
                              orig : MaybeToken]]
        /\ tab'[t].pc = "leaving"
        /\ \A u \in Tabs : u # t => tab'[u] = tab[u]
    BY <1>6, TabType DEF IInv
  <1>8. index' \subseteq Family /\ access' \subseteq Token /\ faults' \in Nat
    BY DEF Logout, Fault, IInv, TypeOK
  <1>9. quit' \in BOOLEAN
    BY Zenon DEF Logout
  <1>10. TypeOK'
    BY <1>5, <1>7, <1>8, <1>9 DEF Logout, IInv, TypeOK, Requests
  <1>11. Known'
    BY <1>7 DEF Logout, IInv, Known
  <1>12. Carried'
    BY <1>1, <1>4, <1>5, CarriedStep DEF Logout, RotatePC
  <1>13. OneTokenPerFamily'
    BY <1>1, <1>4, <1>5, ExclusiveStep DEF Logout
  <1> QED BY <1>10, <1>11, <1>12, <1>13 DEF IInv

\* Every step preserves the invariant.
LEMMA InvariantStep ==
    ASSUME IInv, [Next]_vars
    PROVE  IInv'
  <1>1. CASE UNCHANGED vars
    <2>1. TypeOK' /\ Known'
      BY <1>1 DEF vars, IInv, TypeOK, Known
    <2> QED BY <1>1, <2>1, StillStep DEF vars
  <1>2. CASE \E r \in Tabs \cup {Admin} : Serve(r)
    BY <1>2, ServeStep DEF Requests
  <1>3. CASE \E t \in Tabs : Answer(t)
    BY <1>3, AnswerStep
  <1>4. CASE \E t \in Tabs : Refresh(t)
    BY <1>4, RefreshStep
  <1>5. CASE \E t \in Tabs : StartRefresh(t)
    BY <1>5, StartRefreshStep
  <1>6. CASE \E t \in Tabs : Login(t)
    BY <1>6, LoginStep
  <1>7. CASE \E t \in Tabs : Logout(t)
    BY <1>7, LogoutStep
  <1>8. CASE ChangePassword
    BY <1>8, ChangePasswordStep
  <1>9. CASE IndexExpire
    BY <1>9, IndexExpireStep
  <1> QED BY <1>1, <1>2, <1>3, <1>4, <1>5, <1>6, <1>7, <1>8, <1>9 DEF Next

\* TokenService and UserApi keep every variable in its type.
THEOREM SessionsTypeCorrect == Spec => []TypeOK
  <1>1. IInv => TypeOK
    BY DEF IInv
  <1> QED BY <1>1, InitInvariant, InvariantStep, PTL DEF Spec

\* RotateRefreshToken is exclusive: whatever number of tabs present a token
\* at once, with or without Web Locks, with answers lost and Redis failing, a
\* family never has two refresh tokens that work.
THEOREM RotationExclusive == Spec => []OneTokenPerFamily
  <1>1. IInv => OneTokenPerFamily
    BY DEF IInv
  <1> QED BY <1>1, InitInvariant, InvariantStep, PTL DEF Spec

----------------------------------------------------------------------------
(***************************************************************************)
(* A revocation that no rotation overlapped is final.  What makes it so:   *)
(* every refresh token is in its family set, on its way into it, or of a   *)
(* family of which a rotation or a failed command left one outside         *)
(* (raced), so that deleting the members read deletes them all; and no     *)
(* request, list or login names a dead family as new.                      *)
(***************************************************************************)

\* A tab that waits for the lock has no request running.
WaitsQuietly == \A t \in Tabs : tab[t].pc = "waiting" => srv[t].pc = "idle"

\* The families that revocations name have been issued.
NamesIssued ==
    /\ \A f \in index \cup dead : f <= logins
    /\ \A r \in Requests : \A f \in srv[r].todo : f <= logins
    /\ \A r \in Requests : srv[r].pc \in {"members", "delete"} => srv[r].fam <= logins

\* Token k is new and about to join its family set.
Joining(k) == \E t \in Tabs : srv[t].pc = "track" /\ srv[t].tok = k

Tracked == \A k \in refresh : k \in tracked \/ k.fam \in raced \/ Joining(k)

DeadInv ==
    /\ WaitsQuietly /\ NamesIssued
    /\ dead \cap raced = {}
    /\ Tracked
    /\ RevokedStaysDead

(***************************************************************************)
(* Tabs keep their session.  As long as nobody logs out, no password       *)
(* changes and nothing fails, the lock makes refreshes follow one another, *)
(* so the one that runs presents the stored token and Redis holds it.      *)
(***************************************************************************)
Undisturbed == WebLocks /\ ~quit /\ faults = 0

\* Tab t holds the lock and its refresh is on its way to a valid session.
Refreshing(t) ==
    /\ tab[t].pc = "sent" /\ lock = t
    /\ srv[t].pc \in {"getdel", "spend", "mint", "track", "ok"}
    /\ srv[t].pc \in {"getdel", "track", "ok"} => srv[t].tok \in refresh

Kept ==
    /\ logins > 0 => store # NoToken
    /\ srv[Admin].pc = "idle"
    /\ \A t \in Tabs :
          \/ Refreshing(t)
          \/ tab[t].pc \in {"idle", "waiting"} /\ srv[t].pc = "idle"
    /\ (\A t \in Tabs : tab[t].pc # "sent") => store \in refresh \cup {NoToken}

KeepInv == Undisturbed => Kept

----------------------------------------------------------------------------
(***************************************************************************)
(* Revoked families.                                                       *)
(***************************************************************************)

\* While the tabs stay as they are, a step of a running request disturbs no
\* waiting tab.
LEMMA WaitsServe ==
    ASSUME DeadInv, NEW r \in Requests, srv[r].pc # "idle", tab' = tab,
           \A q \in Requests : q # r => srv'[q] = srv[q]
    PROVE  WaitsQuietly'
  BY DEF DeadInv, WaitsQuietly, Requests

\* Revoked families stay dead over a step of request r that revokes nothing,
\* rotates no dead family, and leaves every refresh token accounted for.
LEMMA DeadFrame ==
    ASSUME IInv, DeadInv, WaitsQuietly', NEW r \in Requests,
           UNCHANGED <<logins, dead>>, raced \subseteq raced', dead \cap raced' = {},
           \A q \in Requests : q # r => srv'[q] = srv[q],
           \A f \in index' \cup srv'[r].todo : f <= logins,
           srv'[r].pc \in {"members", "delete"} => srv'[r].fam <= logins,
           srv'[r].pc \in {"spend", "mint", "track"} => srv'[r].tok.fam \notin dead,
           srv[r].pc = "track" =>
              srv'[r] = srv[r] \/ srv[r].tok \in tracked' \/ srv[r].tok.fam \in raced',
           \A k \in refresh' :
              \/ k \in refresh /\ (k \in tracked => k \in tracked')
              \/ k.fam \in raced'
              \/ k.fam \notin dead /\ r \in Tabs /\ srv'[r].pc = "track" /\ srv'[r].tok = k
    PROVE  DeadInv'
  <1>1. NamesIssued'
    BY DEF DeadInv, NamesIssued
  <1>2. Tracked'
    <2>1. SUFFICES ASSUME NEW k \in refresh'
                   PROVE  k \in tracked' \/ k.fam \in raced' \/ Joining(k)'
      BY DEF Tracked
    <2>2. CASE k \in refresh /\ (k \in tracked => k \in tracked')
      <3>1. k \in tracked \/ k.fam \in raced \/ Joining(k)
        BY <2>2 DEF DeadInv, Tracked
      <3>2. ASSUME NEW t \in Tabs, srv[t].pc = "track", srv[t].tok = k
            PROVE  k \in tracked' \/ k.fam \in raced' \/ Joining(k)'
        BY <3>2 DEF Joining, Requests
      <3> QED BY <2>2, <3>1, <3>2 DEF Joining
    <2>3. CASE r \in Tabs /\ srv'[r].pc = "track" /\ srv'[r].tok = k
      BY <2>3 DEF Joining
    <2>4. CASE k.fam \in raced'
      BY <2>4
    <2> QED BY <2>2, <2>3, <2>4
  <1>3. RevokedStaysDead'
    <2>1. ASSUME NEW f \in dead PROVE ~Rotating(f)'
      <3>1. ~Rotating(f)
        BY DEF DeadInv, RevokedStaysDead
      <3> QED BY <3>1 DEF Rotating, Requests
    <2>2. \A f \in dead, k \in refresh' : k.fam # f
      BY DEF DeadInv, RevokedStaysDead
    <2> QED BY <2>1, <2>2 DEF RevokedStaysDead
  <1> QED BY <1>1, <1>2, <1>3 DEF DeadInv

\* The pipeline of RevokeFamily: unless a rotation overlapped it, the members
\* read are all the family has.
LEMMA DeadDelete ==
    ASSUME IInv, DeadInv, NEW r \in Requests, Delete(r)
    PROVE  DeadInv'
  <1> DEFINE f == srv[r].fam
  <1>1. srv[r].pc = "delete" /\ f <= logins /\ UNCHANGED <<logins, index, tab>>
    BY DEF Delete, DeadInv, NamesIssued, browser
  <1>2. /\ srv'[r].pc \in {"401", "ok", "unlist", "list"}
        /\ srv'[r].todo = srv[r].todo
        /\ \A q \in Requests : q # r => srv'[q] = srv[q]
    BY Revoked DEF Delete
  <1>3. /\ refresh' = refresh \ srv[r].members
        /\ tracked' = {k \in tracked : k.fam # f}
        /\ IF Rotating(f) \/ srv[r].members # FamilySet(f)
           THEN raced' = raced \cup ({f} \ dead) /\ UNCHANGED dead
           ELSE dead' = dead \cup ({f} \ raced) /\ UNCHANGED raced
    BY DEF Delete
  <1> HIDE DEF f
  <1>4. WaitsQuietly'
    BY <1>1, <1>2, WaitsServe
  <1>5. NamesIssued'
    BY <1>1, <1>2, <1>3 DEF DeadInv, NamesIssued
  <1>6. dead' \cap raced' = {}
    BY <1>3 DEF DeadInv
  <1>7. \A t \in Tabs : srv'[t].pc \in {"spend", "mint", "track"} =>
                           t # r /\ srv'[t] = srv[t]
    BY <1>2 DEF Requests
  <1>8. \A g : Rotating(g)' => Rotating(g)
    BY <1>7 DEF Rotating
  <1>9. \A k : Joining(k) => Joining(k)'
    BY <1>1, <1>2 DEF Joining, Requests
  <1>10. Tracked'
    <2>1. SUFFICES ASSUME NEW k \in refresh'
                   PROVE  k \in tracked' \/ k.fam \in raced' \/ Joining(k)'
      BY DEF Tracked
    <2>2. k \in refresh /\ k \notin srv[r].members
      BY <1>3
    <2>3. k.fam \notin dead
      BY <2>2 DEF DeadInv, RevokedStaysDead
    <2>4. CASE k \in tracked /\ k.fam = f
      <3>1. srv[r].members # FamilySet(f)
        BY <2>2, <2>4 DEF FamilySet
      <3> QED BY <1>3, <2>3, <2>4, <3>1
    <2>5. CASE k \in tracked /\ k.fam # f
      BY <1>3, <2>5
    <2>6. CASE k.fam \in raced \/ Joining(k)
      BY <1>3, <1>9, <2>6
    <2> QED BY <2>2, <2>4, <2>5, <2>6 DEF DeadInv, Tracked
  <1>11. RevokedStaysDead'
    <2>1. SUFFICES ASSUME NEW g \in dead'
                   PROVE  ~Rotating(g)' /\ \A k \in refresh' : k.fam # g
      BY DEF RevokedStaysDead
    <2>2. CASE g \in dead
      BY <1>3, <1>8, <2>2 DEF DeadInv, RevokedStaysDead
    <2>3. CASE g \notin dead
      <3>1. /\ g = f /\ f \notin raced /\ ~Rotating(f)
            /\ srv[r].members = FamilySet(f)
        BY <1>3, <2>3
      <3>2. ASSUME NEW k \in refresh, k.fam = f
            PROVE  k \in srv[r].members
        <4>1. ~Joining(k)
          BY <3>1, <3>2 DEF Joining, Rotating
        <4> QED BY <3>1, <3>2, <4>1 DEF DeadInv, Tracked, FamilySet
      <3> QED BY <1>3, <1>8, <3>1, <3>2
    <2> QED BY <2>2, <2>3
  <1> QED BY <1>4, <1>5, <1>6, <1>10, <1>11 DEF DeadInv

\* The server's steps on a rotation keep revoked families dead.
LEMMA DeadRotate ==
    ASSUME IInv, DeadInv, NEW r \in Requests,
           GetDel(r) \/ GetDelFails(r) \/ Spend(r) \/ SpendFails(r) \/ Mint(r)
              \/ MintFails(r) \/ Track(r) \/ TrackFails(r) \/ Reuse(r) \/ ReuseFails(r)
    PROVE  DeadInv'
  <1>1. /\ srv[r].pc \in RotatePC /\ srv[r].pc # "idle"
        /\ UNCHANGED <<logins, dead, index, tab>>
    BY DEF GetDel, GetDelFails, Spend, SpendFails, Mint, MintFails, Track, TrackFails,
           Reuse, ReuseFails, redis, browser, RotatePC
  <1>2. /\ r \in Tabs /\ srv[r].tok.fam <= logins /\ srv[r].tok.fam \in Family
        /\ srv[r].pc \in {"spend", "mint", "track"} => srv[r].tok.fam \notin dead
        /\ \A f \in index \cup srv[r].todo : f <= logins
        /\ dead \cap raced = {}
    BY <1>1, Serving DEF DeadInv, NamesIssued, RevokedStaysDead, Rotating
  <1>3. CASE GetDel(r)
    <2> DEFINE s == IF srv[r].tok \in refresh THEN "spend" ELSE "reuse"
    <2>1. /\ s \in {"spend", "reuse"} /\ Goto(r, s)
          /\ s = "spend" => srv[r].tok \in refresh
          /\ srv[r].pc = "getdel" /\ refresh' \subseteq refresh
          /\ UNCHANGED <<raced, tracked>>
      BY <1>3 DEF GetDel
    <2> HIDE DEF s
    <2>2. s = "spend" => srv[r].tok.fam \notin dead
      BY <2>1 DEF DeadInv, RevokedStaysDead
    <2>3. /\ srv'[r].pc = s /\ srv'[r].tok = srv[r].tok /\ srv'[r].todo = srv[r].todo
          /\ \A q \in Requests : q # r => srv'[q] = srv[q]
      BY <2>1, Goes DEF RotatePC
    <2>4. WaitsQuietly'
      BY <1>1, <2>3, WaitsServe
    <2> QED BY <1>1, <1>2, <2>1, <2>2, <2>3, <2>4, DeadFrame
  <1>4. CASE Spend(r) \/ SpendFails(r)
    <2>1. /\ Goto(r, "mint") /\ srv[r].pc = "spend"
          /\ tracked' \in {tracked, tracked \ {srv[r].tok}}
          /\ UNCHANGED <<raced, refresh>>
      BY <1>4 DEF Spend, SpendFails
    <2>2. srv[r].tok \notin refresh
      BY <1>2, <2>1 DEF IInv, OneTokenPerFamily, Holds
    <2>3. /\ srv'[r].pc = "mint" /\ srv'[r].tok = srv[r].tok /\ srv'[r].todo = srv[r].todo
          /\ \A q \in Requests : q # r => srv'[q] = srv[q]
      BY <2>1, Goes DEF RotatePC
    <2>4. WaitsQuietly'
      BY <1>1, <2>3, WaitsServe
    <2> QED BY <1>1, <1>2, <2>1, <2>2, <2>3, <2>4, DeadFrame
  <1>5. CASE Mint(r)
    <2> DEFINE new == Successor(srv[r].tok)
    <2>1. srv[r].pc = "mint" /\ refresh' = refresh \cup {new} /\ UNCHANGED <<raced, tracked>>
      BY <1>5 DEF Mint
    <2>2. /\ srv'[r].pc = "track" /\ srv'[r].tok = new /\ srv'[r].todo = srv[r].todo
          /\ new.fam = srv[r].tok.fam
          /\ \A q \in Requests : q # r => srv'[q] = srv[q]
      BY <1>5, Minted
    <2> HIDE DEF new
    <2>3. WaitsQuietly'
      BY <1>1, <2>2, WaitsServe
    <2> QED BY <1>1, <1>2, <2>1, <2>2, <2>3, DeadFrame
  <1>6. CASE MintFails(r)
    <2> DEFINE new == Successor(srv[r].tok)
    <2>1. /\ srv[r].pc = "mint" /\ Refuse(r) /\ UNCHANGED tracked
          /\ \/ UNCHANGED <<refresh, raced>>
             \/ refresh' = refresh \cup {new} /\ raced' = raced \cup {new.fam}
      BY <1>6 DEF MintFails
    <2>2. new.fam = srv[r].tok.fam
      BY <2>1, Serving, SuccessorType DEF RotatePC
    <2>3. /\ srv'[r].pc = "401" /\ srv'[r].todo = srv[r].todo
          /\ \A q \in Requests : q # r => srv'[q] = srv[q]
      BY <2>1, Refused
    <2> HIDE DEF new
    <2>4. WaitsQuietly'
      BY <1>1, <2>3, WaitsServe
    <2>5. raced \subseteq raced' /\ dead \cap raced' = {}
      BY <1>2, <2>1, <2>2
    <2> QED BY <1>1, <1>2, <2>1, <2>3, <2>4, <2>5, DeadFrame
  <1>7. CASE Track(r) \/ TrackFails(r)
    <2>1. /\ Goto(r, "ok") /\ srv[r].pc = "track" /\ UNCHANGED refresh
          /\ \/ tracked' = tracked \cup {srv[r].tok} /\ UNCHANGED raced
             \/ tracked' = tracked /\ raced' = raced \cup {srv[r].tok.fam}
      BY <1>7 DEF Track, TrackFails, redis
    <2>2. /\ srv'[r].pc = "ok" /\ srv'[r].todo = srv[r].todo
          /\ \A q \in Requests : q # r => srv'[q] = srv[q]
      BY <2>1, Goes
    <2>3. WaitsQuietly'
      BY <1>1, <2>2, WaitsServe
    <2>4. raced \subseteq raced' /\ dead \cap raced' = {}
      BY <1>2, <2>1
    <2> QED BY <1>1, <1>2, <2>1, <2>2, <2>3, <2>4, DeadFrame
  <1>8. CASE GetDelFails(r) \/ Reuse(r) \/ ReuseFails(r)
    <2>1. /\ srv[r].pc \in {"getdel", "reuse"} /\ refresh' \subseteq refresh
          /\ UNCHANGED <<raced, tracked>>
          /\ \/ Refuse(r)
             \/ srv' = [srv EXCEPT ![r] = [@ EXCEPT !.pc = "members", !.fam = srv[r].tok.fam]]
      BY <1>8 DEF GetDelFails, Reuse, ReuseFails, redis
    <2>2. /\ \/ srv'[r].pc = "401"
             \/ srv'[r].pc = "members" /\ srv'[r].fam = srv[r].tok.fam
          /\ srv'[r].todo = srv[r].todo
          /\ \A q \in Requests : q # r => srv'[q] = srv[q]
      BY <1>2, <2>1, Refused, Reused
    <2>3. WaitsQuietly'
      BY <1>1, <2>2, WaitsServe
    <2> QED BY <1>1, <1>2, <2>1, <2>2, <2>3, DeadFrame
  <1> QED BY <1>3, <1>4, <1>5, <1>6, <1>7, <1>8

\* ... and so do those on a revocation.
LEMMA DeadServe ==
    ASSUME IInv, DeadInv, NEW r \in Requests, Serve(r)
    PROVE  DeadInv'
  <1>1. /\ \A f \in index \cup srv[r].todo : f <= logins
        /\ srv[r].pc \in {"members", "delete"} => srv[r].fam <= logins
        /\ dead \cap raced = {}
    BY DEF DeadInv, NamesIssued
  <1>2. CASE Members(r)
    <2>1. /\ srv[r].pc \in {"members", "list"}
          /\ UNCHANGED <<logins, dead, raced, index, refresh, tracked, tab>>
      BY <1>2 DEF Members, redis, browser
    <2>2. PICK f \in ToRevoke(r) :
             /\ srv'[r].pc = "delete" /\ srv'[r].fam = f
             /\ srv'[r].todo = srv[r].todo \ {f}
             /\ \A q \in Requests : q # r => srv'[q] = srv[q]
      BY <1>2, MembersRead
    <2>3. f <= logins
      BY <1>1, <2>1 DEF ToRevoke
    <2>4. WaitsQuietly'
      BY <2>1, <2>2, WaitsServe
    <2> QED BY <1>1, <2>1, <2>2, <2>3, <2>4, DeadFrame
  <1>3. CASE Delete(r)
    BY <1>3, DeadDelete
  <1>4. CASE DeleteFails(r)
    <2>1. /\ srv[r].pc = "delete" /\ AfterRevoke(r) /\ refresh' \subseteq refresh
          /\ UNCHANGED <<logins, dead, raced, index, tracked, tab>>
      BY <1>4 DEF DeleteFails, browser
    <2>2. /\ srv'[r].pc \in {"401", "ok", "unlist", "list"}
          /\ srv'[r].todo = srv[r].todo
          /\ \A q \in Requests : q # r => srv'[q] = srv[q]
      BY <2>1, Revoked
    <2>3. WaitsQuietly'
      BY <2>1, <2>2, WaitsServe
    <2> QED BY <1>1, <2>1, <2>2, <2>3, DeadFrame
  <1>5. CASE Unlist(r)
    <2>1. /\ srv[r].pc = "unlist" /\ index' \subseteq index /\ srv' = [srv EXCEPT ![r] = Idle]
          /\ UNCHANGED <<logins, dead, raced, refresh, tracked, tab>>
      BY <1>5 DEF Unlist, browser
    <2>2. /\ srv'[r].pc = "idle" /\ srv'[r].todo = {}
          /\ \A q \in Requests : q # r => srv'[q] = srv[q]
      BY <2>1 DEF Idle, IInv, TypeOK, Requests
    <2>3. WaitsQuietly'
      BY <2>1, <2>2, WaitsServe
    <2> QED BY <1>1, <2>1, <2>2, <2>3, DeadFrame
  <1> QED BY <1>2, <1>3, <1>4, <1>5, DeadRotate DEF Serve

\* A login issues a family that no revocation has named.
LEMMA DeadLogin ==
    ASSUME IInv, DeadInv, NEW t \in Tabs, Login(t)
    PROVE  DeadInv'
  <1> DEFINE new == [fam |-> logins + 1, gen |-> 0]
  <1>1. /\ logins \in Nat /\ dead \subseteq Nat /\ index \subseteq Nat
        /\ \A r \in Requests : srv[r].todo \subseteq Nat /\ srv[r].fam \in Nat
    <2>1. Family \subseteq Nat
      BY SessionsAssumption DEF Family
    <2>2. \A r \in Requests : srv[r].todo \subseteq Family /\ srv[r].fam \in Family \cup {0}
      BY DEF IInv, TypeOK, Requests, Request
    <2>3. logins \in Nat
      BY SessionsAssumption DEF IInv, TypeOK
    <2>4. dead \subseteq Family /\ index \subseteq Family
      BY DEF IInv, TypeOK
    <2>5. \A r \in Requests : srv[r].fam \in Nat
      <3>1. Family \cup {0} \subseteq Nat
        BY <2>1
      <3> QED BY <2>2, <3>1
    <2>6. \A r \in Requests : srv[r].todo \subseteq Nat
      BY <2>1, <2>2
    <2> QED BY <2>1, <2>3, <2>4, <2>5, <2>6
  <1>2. /\ logins' = logins + 1 /\ refresh' = refresh \cup {new}
        /\ tracked' = tracked \cup {new} /\ index' \subseteq index \cup {logins + 1}
        /\ UNCHANGED <<srv, tab, dead, raced>>
    BY DEF Login
  <1>3. WaitsQuietly'
    BY <1>2 DEF DeadInv, WaitsQuietly
  <1>4. NamesIssued'
    BY <1>1, <1>2 DEF DeadInv, NamesIssued
  <1>5. Tracked'
    BY <1>2 DEF DeadInv, Tracked, Joining
  <1>6. \A f \in dead : f # logins + 1
    BY <1>1 DEF DeadInv, NamesIssued
  <1>7. RevokedStaysDead'
    BY <1>2, <1>6 DEF DeadInv, RevokedStaysDead, Rotating
  <1> QED BY <1>2, <1>3, <1>4, <1>5, <1>7 DEF DeadInv

\* What a tab does to its request can neither revive a family nor revoke one.
LEMMA DeadTab ==
    ASSUME IInv, DeadInv, NEW t \in Tabs,
           Answer(t) \/ Refresh(t) \/ StartRefresh(t) \/ Logout(t)
    PROVE  DeadInv'
  <1>1. /\ t \in Requests /\ srv \in [Requests -> Request]
        /\ \A f \in index \cup srv[t].todo : f <= logins
        /\ Quiet.pc = "idle"
        /\ Idle.pc = "idle" /\ Idle.todo = {}
    BY DEF Requests, Quiet, Idle, DeadInv, NamesIssued, IInv, TypeOK
  <1>2. \A x : tab' = [tab EXCEPT ![t] = x] =>
                  tab'[t] = x /\ \A u \in Tabs : u # t => tab'[u] = tab[u]
    BY DEF IInv, TypeOK
  <1>3. ASSUME NEW x, srv' = [srv EXCEPT ![t] = x], x.pc \notin {"spend", "mint", "track"},
               x.todo = {}, x.pc \in {"members", "delete"} => x.fam <= logins,
               srv[t].pc # "track", WaitsQuietly', index' \subseteq index,
               UNCHANGED <<logins, dead, raced, refresh, tracked>>
        PROVE  DeadInv'
    <2>1. srv'[t] = x /\ \A q \in Requests : q # t => srv'[q] = srv[q]
      BY <1>1, <1>3
    <2>2. dead \cap raced = {}
      BY DEF DeadInv
    <2> QED BY <1>1, <1>3, <2>1, <2>2, DeadFrame
  <1>4. ASSUME UNCHANGED <<srv, logins, dead, raced, refresh, tracked, index>>,
               WaitsQuietly'
        PROVE  DeadInv'
    BY <1>4 DEF DeadInv, NamesIssued, Tracked, Joining, RevokedStaysDead, Rotating
  <1>5. CASE RefreshFails(t)
    <2>1. tab' = [tab EXCEPT ![t] = Quiet] /\ srv' = srv
      BY <1>5 DEF RefreshFails, Release
    <2>2. WaitsQuietly'
      BY <1>1, <1>2, <2>1 DEF DeadInv, WaitsQuietly
    <2> QED BY <1>4, <1>5, <2>2 DEF RefreshFails, redis
  <1>6. CASE RefreshAnswered(t) \/ AnswerDropped(t) \/ LogoutDone(t)
    <2>1. /\ srv[t].pc # "track" /\ srv' = [srv EXCEPT ![t] = Idle]
          /\ UNCHANGED <<logins, dead, raced, redis>>
          /\ tab' = [tab EXCEPT ![t] = Quiet] \/ tab' = tab
      BY <1>6 DEF RefreshAnswered, AnswerDropped, LogoutDone, Release, browser
    <2>2. srv'[t] = Idle /\ \A q \in Requests : q # t => srv'[q] = srv[q]
      BY <1>1, <2>1
    <2>3. WaitsQuietly'
      BY <1>1, <1>2, <2>1, <2>2 DEF DeadInv, WaitsQuietly, Requests
    <2> QED BY <1>1, <1>3, <2>1, <2>3 DEF redis
  <1>7. CASE Refresh(t)
    <2>1. /\ tab[t].pc = "waiting" /\ srv[t].pc = "idle"
          /\ UNCHANGED <<logins, dead, raced, redis>>
      BY <1>7 DEF Refresh, DeadInv, WaitsQuietly
    <2>2. CASE tab' = [tab EXCEPT ![t] = Quiet] /\ srv' = srv
      <3>1. WaitsQuietly'
        BY <1>1, <1>2, <2>2 DEF DeadInv, WaitsQuietly
      <3> QED BY <1>4, <2>1, <2>2, <3>1 DEF redis
    <2>3. CASE /\ tab' = [tab EXCEPT ![t] = [tab[t] EXCEPT !.pc = "sent"]]
               /\ srv' = [srv EXCEPT ![t] = [Idle EXCEPT !.kind = "rotate", !.pc = "getdel",
                                                         !.tok = tab[t].orig]]
      <3> DEFINE x == [Idle EXCEPT !.kind = "rotate", !.pc = "getdel", !.tok = tab[t].orig]
      <3>1. x.pc = "getdel" /\ x.todo = {}
        BY DEF Idle
      <3> DEFINE y == [tab[t] EXCEPT !.pc = "sent"]
      <3>2. y.pc = "sent" /\ tab' = [tab EXCEPT ![t] = y]
        BY <2>3, TabMoves DEF IInv
      <3> HIDE DEF x, y
      <3>3. srv' = [srv EXCEPT ![t] = x]
        BY <2>3 DEF x
      <3>4. \A q \in Requests : q # t => srv'[q] = srv[q]
        BY <1>1, <3>3
      <3>5. WaitsQuietly'
        BY <1>2, <3>2, <3>4 DEF DeadInv, WaitsQuietly, Requests
      <3> QED BY <1>3, <2>1, <3>1, <3>3, <3>5 DEF redis
    <2> QED BY <1>7, <2>2, <2>3 DEF Refresh
  <1>8. CASE StartRefresh(t)
    <2>1. /\ tab' = [tab EXCEPT ![t] = [pc |-> "waiting", orig |-> store]]
          /\ srv[t].pc = "idle" /\ srv' = srv
      BY <1>8 DEF StartRefresh
    <2>2. WaitsQuietly'
      BY <1>2, <2>1 DEF DeadInv, WaitsQuietly
    <2> QED BY <1>4, <1>8, <2>2 DEF StartRefresh, redis
  <1>9. CASE Logout(t)
    <2>1. /\ srv[t].pc = "idle" /\ store.fam <= logins
          /\ UNCHANGED <<logins, dead, raced, refresh, tracked>>
      BY <1>9 DEF Logout, IInv, Known
    <2>2. PICK x : /\ srv' = [srv EXCEPT ![t] = x] /\ x.todo = {} /\ index' \subseteq index
                   /\ \/ x.pc = "ok"
                      \/ x.pc = "members" /\ x.fam = store.fam
      <3>1. index' \subseteq index
        BY <1>9 DEF Logout
      <3>2. PICK x \in {Revoking(store.fam), LoggedOut} : srv' = [srv EXCEPT ![t] = x]
        BY <1>9 DEF Logout
      <3>3. /\ x.todo = {}
            /\ \/ x.pc = "ok"
               \/ x.pc = "members" /\ x.fam = store.fam
        BY <3>2 DEF Revoking, LoggedOut, Idle
      <3> QED BY <3>1, <3>2, <3>3
    <2>3. tab' = [tab EXCEPT ![t] = [tab[t] EXCEPT !.pc = "leaving"]]
      BY <1>9 DEF Logout
    <2>4. tab'[t].pc = "leaving" /\ \A u \in Tabs : u # t => tab'[u] = tab[u]
      <3> DEFINE y == [tab[t] EXCEPT !.pc = "leaving"]
      <3>1. y.pc = "leaving"
        BY TabMoves DEF IInv
      <3>2. tab' = [tab EXCEPT ![t] = y]
        BY <2>3
      <3> HIDE DEF y
      <3> QED BY <1>2, <3>1, <3>2
    <2>5. \A q \in Requests : q # t => srv'[q] = srv[q]
      BY <1>1, <2>2
    <2>6. WaitsQuietly'
      BY <2>4, <2>5 DEF DeadInv, WaitsQuietly, Requests
    <2> QED BY <1>3, <2>1, <2>2, <2>6
  <1> QED BY <1>5, <1>6, <1>7, <1>8, <1>9 DEF Answer

\* Every step keeps revoked families dead.
LEMMA DeadStep ==
    ASSUME IInv, DeadInv, [Next]_vars
    PROVE  DeadInv'
  <1>1. CASE UNCHANGED vars
    BY <1>1 DEF vars, DeadInv, WaitsQuietly, NamesIssued, Tracked, Joining,
                RevokedStaysDead, Rotating
  <1>2. CASE \E r \in Tabs \cup {Admin} : Serve(r)
    BY <1>2, DeadServe DEF Requests
  <1>3. CASE \E t \in Tabs : Answer(t) \/ Refresh(t) \/ StartRefresh(t) \/ Logout(t)
    BY <1>3, DeadTab
  <1>4. CASE \E t \in Tabs : Login(t)
    BY <1>4, DeadLogin
  <1>5. CASE ChangePassword
    <2>0. PICK m \in {index, {}} :
             srv' = [srv EXCEPT ![Admin] = [Idle EXCEPT !.kind = "all", !.todo = m,
                                              !.pc = IF m = {} THEN "unlist" ELSE "list"]]
      BY <1>5 DEF ChangePassword
    <2> DEFINE x == [Idle EXCEPT !.kind = "all", !.todo = m,
                                 !.pc = IF m = {} THEN "unlist" ELSE "list"]
    <2>1. x.pc \in {"unlist", "list"} /\ x.todo \subseteq index
      BY DEF Idle
    <2>2. srv \in [Requests -> Request] /\ Admin \in Requests
      BY DEF IInv, TypeOK, Requests
    <2>3. srv' = [srv EXCEPT ![Admin] = x]
      BY <2>0
    <2> HIDE DEF x
    <2>4. srv'[Admin] = x /\ \A q \in Requests : q # Admin => srv'[q] = srv[q]
      BY <2>2, <2>3
    <2>5. srv[Admin].pc = "idle" /\ UNCHANGED <<logins, dead, raced, redis, tab>>
      BY <1>5 DEF ChangePassword, browser
    <2>6. WaitsQuietly'
      BY <2>4, <2>5, SessionsAssumption DEF DeadInv, WaitsQuietly, Requests
    <2>7. (\A f \in index : f <= logins) /\ dead \cap raced = {}
      BY DEF DeadInv, NamesIssued
    <2> QED BY <2>1, <2>2, <2>4, <2>5, <2>6, <2>7, DeadFrame DEF redis
  <1>6. CASE IndexExpire
    BY <1>6 DEF IndexExpire, browser, DeadInv, WaitsQuietly, NamesIssued, Tracked, Joining,
                RevokedStaysDead, Rotating
  <1> QED BY <1>1, <1>2, <1>3, <1>4, <1>5, <1>6 DEF Next

\* A revocation that no rotation overlapped is final: its family has no refresh
\* token and never gets one again, whatever requests were on their way.
THEOREM RevocationIsFinal == Spec => []RevokedStaysDead
  <1>1. Init => DeadInv
    BY DEF Init, DeadInv, WaitsQuietly, NamesIssued, Tracked, Joining, RevokedStaysDead,
           Rotating, Idle, Quiet, Requests
  <1>2. DeadInv => RevokedStaysDead
    BY DEF DeadInv
  <1> QED BY <1>1, <1>2, InitInvariant, InvariantStep, DeadStep, PTL DEF Spec

----------------------------------------------------------------------------
(***************************************************************************)
(* Undisturbed tabs.                                                       *)
(***************************************************************************)

\* What disturbs the tabs is not undone: an undisturbed step saw no failure.
LEMMA Disturbance ==
    ASSUME IInv, [Next]_vars, Undisturbed'
    PROVE  /\ Undisturbed /\ faults' = faults
           /\ ~IndexExpire /\ ~ChangePassword
           /\ \A t \in Tabs : ~RefreshFails(t) /\ ~Logout(t)
  <1>1. faults \in Nat /\ faults' = 0 /\ WebLocks
    BY DEF IInv, TypeOK, Undisturbed
  <1>2. faults' = faults \/ faults' = faults + 1
    BY DEF vars, Next, Serve, GetDel, Spend, Mint, Track, Reuse, Members, Delete,
           GetDelFails, SpendFails, MintFails, TrackFails, ReuseFails, DeleteFails,
           Unlist, Answer, RefreshAnswered, RefreshFails, AnswerDropped,
           LogoutDone, Refresh, StartRefresh, Login, Logout, ChangePassword,
           IndexExpire, Fault
  <1>3. quit' = quit \/ quit'
    BY DEF vars, Next, Serve, GetDel, Spend, Mint, Track, Reuse, Members, Delete,
           GetDelFails, SpendFails, MintFails, TrackFails, ReuseFails, DeleteFails,
           Unlist, Answer, RefreshAnswered, RefreshFails, AnswerDropped,
           LogoutDone, Refresh, StartRefresh, Login, Logout, ChangePassword,
           IndexExpire
  <1>4. ~quit'
    BY DEF Undisturbed
  <1>5. faults' = faults
    BY <1>1, <1>2
  <1>6. ~ChangePassword /\ \A t \in Tabs : ~Logout(t)
    BY <1>4 DEF ChangePassword, Logout
  <1>7. ~IndexExpire /\ \A t \in Tabs : ~RefreshFails(t)
    BY <1>1, <1>5 DEF IndexExpire, RefreshFails, Fault
  <1>8. ~quit
    BY <1>3, <1>4
  <1> QED BY <1>1, <1>5, <1>6, <1>7, <1>8 DEF Undisturbed

\* The refresh that runs is alone: no other tab waits for an answer.
LEMMA RefreshesAlone ==
    ASSUME Kept, NEW t \in Tabs, Refreshing(t)
    PROVE  \A u \in Tabs : u # t =>
              tab[u].pc \in {"idle", "waiting"} /\ srv[u].pc = "idle"
  BY DEF Kept, Refreshing

\* The server goes on with the running refresh.
LEMMA KeptServe ==
    ASSUME Kept, NEW r \in Tabs, Refreshing(r), Refreshing(r)',
           UNCHANGED <<logins, store, tab, lock>>,
           \A q \in Requests : q # r => srv'[q] = srv[q]
    PROVE  Kept'
  <1>1. \A u \in Tabs : u # r =>
           tab'[u].pc \in {"idle", "waiting"} /\ srv'[u].pc = "idle"
    BY RefreshesAlone DEF Requests
  <1>2. tab'[r].pc = "sent" /\ srv'[Admin].pc = "idle"
    BY SessionsAssumption DEF Refreshing, Kept, Requests
  <1> QED BY <1>1, <1>2 DEF Kept

\* With no failure the server's step brings the running refresh nearer to its
\* new token.
LEMMA KeepServe ==
    ASSUME IInv, Kept, NEW r \in Requests, Serve(r), faults' = faults
    PROVE  Kept'
  <1>1. srv[r].pc # "idle" /\ srv[r].pc # "ok"
    BY DEF Serve, GetDel, Spend, Mint, Track, Reuse, GetDelFails, SpendFails, MintFails,
           TrackFails, ReuseFails, Members, Delete, DeleteFails, Unlist
  <1>2. r \in Tabs /\ Refreshing(r)
    BY <1>1 DEF Kept, Requests
  <1>3. /\ tab[r].pc = "sent" /\ lock = r
        /\ srv[r].pc \in {"getdel", "spend", "mint", "track"}
        /\ srv[r].pc \in {"getdel", "track"} => srv[r].tok \in refresh
    BY <1>1, <1>2 DEF Refreshing
  <1>4. ~Fault("redis")
    <2>1. faults \in Nat
      BY DEF IInv, TypeOK
    <2> QED BY <2>1 DEF Fault
  <1>5. CASE GetDel(r)
    <2>1. Goto(r, "spend") /\ UNCHANGED <<logins, store, tab, lock>>
      BY <1>3, <1>4, <1>5 DEF GetDel, browser
    <2>2. srv'[r].pc = "spend" /\ \A q \in Requests : q # r => srv'[q] = srv[q]
      BY <2>1, Goes DEF RotatePC
    <2>3. Refreshing(r)'
      BY <1>3, <2>1, <2>2 DEF Refreshing
    <2> QED BY <1>2, <2>1, <2>2, <2>3, KeptServe
  <1>6. CASE Spend(r)
    <2>1. Goto(r, "mint") /\ UNCHANGED <<logins, store, tab, lock>>
      BY <1>6 DEF Spend, browser
    <2>2. srv'[r].pc = "mint" /\ \A q \in Requests : q # r => srv'[q] = srv[q]
      BY <2>1, Goes DEF RotatePC
    <2>3. Refreshing(r)'
      BY <1>3, <2>1, <2>2 DEF Refreshing
    <2> QED BY <1>2, <2>1, <2>2, <2>3, KeptServe
  <1>7. CASE Mint(r)
    <2> DEFINE new == Successor(srv[r].tok)
    <2>1. /\ refresh' = refresh \cup {new}
          /\ UNCHANGED <<logins, store, tab, lock>>
      BY <1>7 DEF Mint, browser
    <2>2. /\ srv'[r].pc = "track" /\ srv'[r].tok = new
          /\ \A q \in Requests : q # r => srv'[q] = srv[q]
      BY <1>7, Minted
    <2> HIDE DEF new
    <2>5. Refreshing(r)'
      BY <1>3, <2>1, <2>2 DEF Refreshing
    <2> QED BY <1>2, <2>1, <2>2, <2>5, KeptServe
  <1>8. CASE Track(r)
    <2>1. Goto(r, "ok") /\ UNCHANGED <<logins, store, tab, lock, refresh>> /\ srv[r].pc = "track"
      BY <1>8 DEF Track, browser
    <2> QED BY <1>2, <1>3, <2>1, Goes, KeptServe DEF Refreshing
  <1>9. ~Reuse(r) /\ ~Members(r) /\ ~Delete(r) /\ ~Unlist(r)
    BY <1>3 DEF Reuse, Members, Delete, Unlist
  <1>10. /\ ~GetDelFails(r) /\ ~SpendFails(r) /\ ~MintFails(r) /\ ~TrackFails(r)
         /\ ~ReuseFails(r) /\ ~DeleteFails(r)
    BY <1>4 DEF GetDelFails, SpendFails, MintFails, TrackFails, ReuseFails, DeleteFails
  <1> QED BY <1>5, <1>6, <1>7, <1>8, <1>9, <1>10 DEF Serve

\* Tabs log in, wait, take their turn and store the answer.
LEMMA KeepTab ==
    ASSUME IInv, Undisturbed, Kept, NEW t \in Tabs,
           Login(t) \/ StartRefresh(t) \/ Refresh(t) \/ Answer(t),
           ~RefreshFails(t)
    PROVE  Kept'
  <1>1. /\ srv \in [Requests -> Request] /\ t \in Requests /\ t # Admin
        /\ Quiet.pc = "idle" /\ Idle.pc = "idle" /\ WebLocks
        /\ NoToken \notin Tabs /\ NoToken \notin Token /\ refresh \subseteq Token
        /\ store \in MaybeToken
    BY SessionsAssumption, NoTokenAssumption
    DEF IInv, TypeOK, Requests, Quiet, Idle, Undisturbed
  <1>2. \A x : tab' = [tab EXCEPT ![t] = x] =>
                  tab'[t] = x /\ \A u \in Tabs : u # t => tab'[u] = tab[u]
    BY DEF IInv, TypeOK
  <1>3. \A x : srv' = [srv EXCEPT ![t] = x] =>
                  srv'[t] = x /\ \A q \in Requests : q # t => srv'[q] = srv[q]
    BY <1>1
  <1>4. \A u \in Tabs : tab[u].pc \in {"waiting", "sent"} => logins > 0
    <2>1. ASSUME NEW u \in Tabs, tab[u].pc \in {"waiting", "sent"}
          PROVE  logins > 0
      <3>1. tab[u].orig \in Token /\ tab[u].orig.fam <= logins
        BY <2>1 DEF IInv, Known
      <3>2. tab[u].orig.fam \in Nat /\ tab[u].orig.fam >= 1 /\ logins \in Nat
        BY <3>1, SessionsAssumption DEF Token, Family, IInv, TypeOK
      <3> QED BY <3>1, <3>2
    <2> QED BY <2>1
  <1>5. CASE Login(t)
    <2> DEFINE new == [fam |-> logins + 1, gen |-> 0]
    <2>1. /\ store = NoToken /\ store' = new /\ refresh' = refresh \cup {new}
          /\ UNCHANGED <<srv, tab, lock>>
      BY <1>5 DEF Login
    <2>2. new \in Token
      <3>1. logins + 1 \in Family
        BY <1>5, SessionsAssumption DEF Login, IInv, TypeOK, Family
      <3> QED BY <3>1, SessionsAssumption DEF Token
    <2> HIDE DEF new
    <2>3. ~(logins > 0)
      BY <2>1 DEF Kept
    <2>4. \A u \in Tabs : tab[u].pc # "sent"
      BY <1>4, <2>3
    <2> QED BY <1>1, <2>1, <2>2, <2>4 DEF Kept, Refreshing
  <1>6. CASE StartRefresh(t)
    <2>1. /\ tab' = [tab EXCEPT ![t] = [pc |-> "waiting", orig |-> store]]
          /\ tab[t].pc = "idle" /\ srv[t].pc = "idle"
          /\ UNCHANGED <<srv, logins, store, lock, refresh>>
      BY <1>6 DEF StartRefresh, redis
    <2>2. tab'[t].pc = "waiting" /\ \A u \in Tabs : u # t => tab'[u] = tab[u]
      BY <1>2, <2>1
    <2> QED BY <2>1, <2>2 DEF Kept, Refreshing
  <1>7. CASE Refresh(t)
    <2>1. /\ tab[t].pc = "waiting" /\ lock = NoToken
          /\ UNCHANGED <<logins, store, refresh>>
      BY <1>1, <1>7 DEF Refresh, MayRefresh, redis
    <2>2. \A u \in Tabs : tab[u].pc \in {"idle", "waiting"} /\ srv[u].pc = "idle"
      BY <1>1, <2>1 DEF Kept, Refreshing
    <2>3. store \in refresh /\ store # NoToken
      BY <1>4, <2>1, <2>2 DEF Kept
    <2>4. CASE tab' = [tab EXCEPT ![t] = Quiet] /\ UNCHANGED <<srv, lock>>
      <3>1. tab'[t] = Quiet /\ \A u \in Tabs : u # t => tab'[u] = tab[u]
        BY <1>2, <2>4
      <3> QED BY <1>1, <2>1, <2>2, <2>3, <2>4, <3>1 DEF Kept
    <2>5. CASE /\ store = tab[t].orig /\ lock' = t
               /\ tab' = [tab EXCEPT ![t] = [tab[t] EXCEPT !.pc = "sent"]]
               /\ srv' = [srv EXCEPT ![t] = [Idle EXCEPT !.kind = "rotate", !.pc = "getdel",
                                                         !.tok = tab[t].orig]]
      <3> DEFINE x == [Idle EXCEPT !.kind = "rotate", !.pc = "getdel", !.tok = tab[t].orig]
                 y == [tab[t] EXCEPT !.pc = "sent"]
      <3>1. x.pc = "getdel" /\ x.tok = store
        BY <2>5 DEF Idle
      <3>2. y.pc = "sent"
        BY TabMoves DEF IInv
      <3>3. srv' = [srv EXCEPT ![t] = x] /\ tab' = [tab EXCEPT ![t] = y]
        BY <2>5
      <3> HIDE DEF x, y
      <3>4. /\ srv'[t] = x /\ \A q \in Requests : q # t => srv'[q] = srv[q]
            /\ tab'[t] = y /\ \A u \in Tabs : u # t => tab'[u] = tab[u]
        BY <1>2, <1>3, <3>3
      <3>5. Refreshing(t)'
        BY <2>1, <2>3, <2>5, <3>1, <3>2, <3>4 DEF Refreshing
      <3>6. \A u \in Tabs : u # t =>
               tab'[u].pc \in {"idle", "waiting"} /\ srv'[u].pc = "idle"
        BY <2>2, <3>4 DEF Requests
      <3>7. srv'[Admin].pc = "idle"
        BY <1>1, <3>4 DEF Kept, Requests
      <3> QED BY <2>1, <2>3, <3>2, <3>4, <3>5, <3>6, <3>7 DEF Kept
    <2> QED BY <1>1, <1>7, <2>3, <2>4, <2>5 DEF Refresh
  <1>8. CASE RefreshAnswered(t)
    <2>1. /\ tab[t].pc = "sent" /\ srv[t].pc \in {"ok", "401"}
          /\ srv' = [srv EXCEPT ![t] = Idle] /\ tab' = [tab EXCEPT ![t] = Quiet]
          /\ UNCHANGED <<logins, refresh>>
      BY <1>8 DEF RefreshAnswered, Release, redis
    <2>2. Refreshing(t)
      BY <2>1 DEF Kept
    <2>3. srv[t].pc = "ok" /\ srv[t].tok \in refresh
      BY <2>1, <2>2 DEF Refreshing
    <2>4. store' = srv[t].tok
      BY <1>8, <2>3 DEF RefreshAnswered
    <2>5. /\ srv'[t] = Idle /\ \A q \in Requests : q # t => srv'[q] = srv[q]
          /\ tab'[t] = Quiet /\ \A u \in Tabs : u # t => tab'[u] = tab[u]
      BY <1>2, <1>3, <2>1
    <2>6. \A u \in Tabs : tab'[u].pc \in {"idle", "waiting"} /\ srv'[u].pc = "idle"
      BY <1>1, <2>2, <2>5, RefreshesAlone DEF Requests
    <2>7. srv'[Admin].pc = "idle"
      BY <1>1, <2>5 DEF Kept, Requests
    <2> QED BY <1>1, <2>1, <2>3, <2>4, <2>6, <2>7 DEF Kept
  <1>9. ~AnswerDropped(t) /\ ~LogoutDone(t)
    BY DEF AnswerDropped, LogoutDone, Kept, Refreshing
  <1> QED BY <1>5, <1>6, <1>7, <1>8, <1>9 DEF Answer

\* Every undisturbed step keeps the session.
LEMMA KeepStep ==
    ASSUME IInv, KeepInv, [Next]_vars
    PROVE  KeepInv'
  <1> SUFFICES ASSUME Undisturbed' PROVE Kept'
    BY DEF KeepInv
  <1>1. Undisturbed /\ Kept /\ faults' = faults
    BY Disturbance DEF KeepInv
  <1>2. CASE UNCHANGED vars
    BY <1>1, <1>2 DEF vars, Kept, Refreshing
  <1>3. CASE \E r \in Tabs \cup {Admin} : Serve(r)
    BY <1>1, <1>3, KeepServe DEF Requests
  <1>4. CASE \E t \in Tabs : Answer(t) \/ Refresh(t) \/ StartRefresh(t) \/ Login(t)
    BY <1>1, <1>4, Disturbance, KeepTab
  <1> QED BY <1>2, <1>3, <1>4, Disturbance DEF Next

\* With Web Locks no number of tabs that refresh at the same time log each
\* other out: without a logout, a password change or a failure the browser keeps
\* the session it once had.
THEOREM TabsStayLoggedIn == Spec => []TabsKeepSession
  <1>1. Init => KeepInv
    BY DEF Init, KeepInv, Kept, Undisturbed, Refreshing, Idle, Quiet
  <1>2. IInv /\ KeepInv => TabsKeepSession
    <2> SUFFICES ASSUME IInv, KeepInv, WebLocks, logins > 0, store = NoToken
                 PROVE  quit \/ faults > 0
      BY DEF TabsKeepSession
    <2>1. ~Undisturbed
      BY DEF KeepInv, Kept
    <2>2. faults \in Nat /\ (faults # 0 => faults > 0)
      BY DEF IInv, TypeOK
    <2> QED BY <2>1, <2>2 DEF Undisturbed
  <1> QED BY <1>1, <1>2, InitInvariant, InvariantStep, KeepStep, PTL DEF Spec
=============================================================================
