-------------------------- MODULE SignalingProofs ---------------------------
(***************************************************************************)
(* Proofs about the two modules of the signaling server: SignalRelay, for  *)
(* any number of connections, ids, frames and any capacity of the queues   *)
(* (the types, that the routes follow the latest connection, and that no   *)
(* client is mistaken for another), and, in the last part, Presence, for   *)
(* any number of connections, server processes and failures (the types,    *)
(* and that each change of known_online is announced once).                *)
(*                                                                         *)
(* The relay's properties are not inductive.  A route could lead to a      *)
(* connection whose id changes, so Named says that a connection has its id *)
(* from the handshake on; a history entry could name a connection that     *)
(* has yet to register, so Named excludes it; and a frame that is still in *)
(* a queue is not yet in got, so Honest speaks of both.                    *)
(***************************************************************************)
EXTENDS SignalRelay, Presence, FiniteSetTheorems, TLAPS

\* The frames connection c was handed: those written and those queued.
Handed(c) == c.got \cup {c.out[k] : k \in 1..Len(c.out)}

\* Frame f may be handed to connection x.
HonestFrame(x, f) ==
    /\ x \in Hosts /\ f.from \in Clients =>
          /\ sc[f.from].pc # "none"
          /\ f.id = IF f.type = "jingle" THEN sc[f.from].id ELSE None
    /\ x \in Clients /\ f.type = "jingle" => f.from \in Hosts /\ f.id = sc[x].id

\* Nothing is handed to a connection before its handshake, and every frame
\* handed to it names the right client.
Honest ==
    /\ \A x \in Conns : sc[x].pc = "none" => Handed(sc[x]) = {}
    /\ \A x \in Conns : \A f \in Handed(sc[x]) : HonestFrame(x, f)

\* A client past the handshake has an id, the clients a host left behind and
\* the latest ones have registered.
Named ==
    /\ \A c \in Clients : sc[c].pc \in {"auth", "open"} => sc[c].id \in Ids
    /\ \A h \in Hosts : \A c \in sc[h].left : sc[c].pc # "none"
    /\ \A i \in Ids : latest[i] # None => sc[latest[i]].pc \in {"open", "gone"}

IInv == TypeOK /\ Named /\ Honest /\ RoutesFollowLatest

----------------------------------------------------------------------------
(***************************************************************************)
(* Operators.                                                              *)
(***************************************************************************)

\* signalConn.send adds at most the frame, within the capacity.
LEMMA SendAdds ==
    ASSUME NEW c \in SignalConn, Len(c.out) <= OutCap, NEW f \in Frame
    PROVE  /\ Send(c, f) \in SignalConn /\ Len(Send(c, f).out) <= OutCap
           /\ Send(c, f).pc = c.pc /\ Send(c, f).id = c.id /\ Send(c, f).left = c.left
           /\ Send(c, f).closing = c.closing /\ Send(c, f).done = c.done
           /\ Handed(Send(c, f)) \subseteq Handed(c) \cup {f}
  <1>0. c.out \in Seq(Frame) /\ OutCap \in Nat
    BY RelayAssumption DEF SignalConn
  <1>1. CASE Len(c.out) < OutCap
    <2> DEFINE d == [c EXCEPT !.out = Append(@, f)]
    <2>1. Send(c, f) = d
      BY <1>1 DEF Send
    <2>2. /\ d \in SignalConn /\ d.pc = c.pc /\ d.id = c.id /\ d.left = c.left /\ d.got = c.got
          /\ d.closing = c.closing /\ d.done = c.done /\ d.out = Append(c.out, f)
      <3>1. Append(c.out, f) \in Seq(Frame)
        BY <1>0
      <3> QED BY <3>1 DEF SignalConn
    <2> HIDE DEF d
    <2>3. Len(d.out) = Len(c.out) + 1 /\ Len(d.out) <= OutCap
      BY <1>0, <1>1, <2>2
    <2>4. \A k \in 1..Len(d.out) : d.out[k] = f \/ (k \in 1..Len(c.out) /\ d.out[k] = c.out[k])
      BY <1>0, <2>2, <2>3
    <2>5. Handed(d) \subseteq Handed(c) \cup {f}
      BY <2>2, <2>4 DEF Handed
    <2> QED BY <2>1, <2>2, <2>3, <2>5
  <1>2. CASE ~(Len(c.out) < OutCap)
    BY <1>2 DEF Send
  <1> QED BY <1>1, <1>2

\* SendError adds at most the error frame, and closes.
LEMMA SendErrorAdds ==
    ASSUME NEW c \in SignalConn, Len(c.out) <= OutCap
    PROVE  /\ SendError(c) \in SignalConn /\ Len(SendError(c).out) <= OutCap
           /\ SendError(c).pc = c.pc /\ SendError(c).id = c.id
           /\ SendError(c).left = c.left
           /\ SendError(c).closing = TRUE /\ SendError(c).done = c.done
           /\ Handed(SendError(c)) \subseteq Handed(c) \cup {Error}
  <1>1. Error \in Frame
    BY DEF Error, Frame
  <1> DEFINE d == Send(c, Error)
  <1>2. /\ d \in SignalConn /\ Len(d.out) <= OutCap
        /\ d.pc = c.pc /\ d.id = c.id /\ d.left = c.left /\ d.done = c.done
        /\ Handed(d) \subseteq Handed(c) \cup {Error}
    BY <1>1, SendAdds
  <1>3. SendError(c) = [d EXCEPT !.closing = TRUE]
    BY DEF SendError
  <1> HIDE DEF d
  <1>4. /\ SendError(c) \in SignalConn /\ SendError(c).pc = d.pc /\ SendError(c).id = d.id
        /\ SendError(c).left = d.left /\ SendError(c).closing = TRUE
        /\ SendError(c).done = d.done /\ SendError(c).out = d.out
        /\ SendError(c).got = d.got
    BY <1>2, <1>3 DEF SignalConn
  <1>5. Handed(SendError(c)) = Handed(d)
    BY <1>4 DEF Handed
  <1> QED BY <1>2, <1>4, <1>5

\* The updates of one field or two are well typed and hand over nothing.
LEMMA ConnUpdates ==
    ASSUME NEW c \in SignalConn
    PROVE  /\ \A p \in {"open", "gone"} :
                 [c EXCEPT !.pc = p] \in SignalConn /\ Handed([c EXCEPT !.pc = p]) = Handed(c)
           /\ \A i \in Ids \cup {None} :
                 /\ [c EXCEPT !.pc = "auth", !.id = i] \in SignalConn
                 /\ Handed([c EXCEPT !.pc = "auth", !.id = i]) = Handed(c)
           /\ [c EXCEPT !.pc = "gone", !.done = TRUE] \in SignalConn
           /\ Handed([c EXCEPT !.pc = "gone", !.done = TRUE]) = Handed(c)
           /\ \A l \in SUBSET Clients :
                 /\ [c EXCEPT !.pc = "ending", !.left = l] \in SignalConn
                 /\ Handed([c EXCEPT !.pc = "ending", !.left = l]) = Handed(c)
           /\ [c EXCEPT !.closing = TRUE] \in SignalConn
           /\ Handed([c EXCEPT !.closing = TRUE]) = Handed(c)
           /\ [c EXCEPT !.done = TRUE] \in SignalConn
           /\ Handed([c EXCEPT !.done = TRUE]) = Handed(c)
  <1>1. \A p \in {"open", "gone"} :
           [c EXCEPT !.pc = p] \in SignalConn /\ Handed([c EXCEPT !.pc = p]) = Handed(c)
    BY DEF SignalConn, Handed
  <1>2. \A i \in Ids \cup {None} :
           /\ [c EXCEPT !.pc = "auth", !.id = i] \in SignalConn
           /\ Handed([c EXCEPT !.pc = "auth", !.id = i]) = Handed(c)
    BY DEF SignalConn, Handed
  <1>3. /\ [c EXCEPT !.pc = "gone", !.done = TRUE] \in SignalConn
        /\ Handed([c EXCEPT !.pc = "gone", !.done = TRUE]) = Handed(c)
    BY DEF SignalConn, Handed
  <1>4. \A l \in SUBSET Clients :
           /\ [c EXCEPT !.pc = "ending", !.left = l] \in SignalConn
           /\ Handed([c EXCEPT !.pc = "ending", !.left = l]) = Handed(c)
    BY DEF SignalConn, Handed
  <1>5. /\ [c EXCEPT !.closing = TRUE] \in SignalConn
        /\ Handed([c EXCEPT !.closing = TRUE]) = Handed(c)
    BY DEF SignalConn, Handed
  <1>6. /\ [c EXCEPT !.done = TRUE] \in SignalConn
        /\ Handed([c EXCEPT !.done = TRUE]) = Handed(c)
    BY DEF SignalConn, Handed
  <1> QED BY <1>1, <1>2, <1>3, <1>4, <1>5, <1>6

\* signalConn.writer moves a frame from the queue to the peer.
LEMMA WriterMoves ==
    ASSUME NEW c \in SignalConn, c.out # <<>>
    PROVE  LET d == [c EXCEPT !.got = @ \cup {Head(c.out)}, !.out = Tail(@)] IN
           /\ d \in SignalConn /\ Len(d.out) <= Len(c.out)
           /\ Handed(d) \subseteq Handed(c)
  <1> DEFINE d == [c EXCEPT !.got = @ \cup {Head(c.out)}, !.out = Tail(@)]
  <1>1. c.out \in Seq(Frame) /\ c.got \in SUBSET Frame
    BY DEF SignalConn
  <1>2. /\ Head(c.out) = c.out[1] /\ Head(c.out) \in Frame /\ 1 \in 1..Len(c.out)
        /\ Tail(c.out) \in Seq(Frame) /\ Len(Tail(c.out)) = Len(c.out) - 1
        /\ \A k \in 1..Len(Tail(c.out)) : k + 1 \in 1..Len(c.out) /\ Tail(c.out)[k] = c.out[k + 1]
    BY <1>1
  <1>3. /\ d \in SignalConn /\ d.out = Tail(c.out) /\ d.got = c.got \cup {Head(c.out)}
    BY <1>1, <1>2 DEF SignalConn
  <1> HIDE DEF d
  <1>4. Handed(d) \subseteq Handed(c)
    BY <1>2, <1>3 DEF Handed
  <1>5. Len(d.out) <= Len(c.out)
    BY <1>1, <1>2, <1>3
  <1> QED BY <1>3, <1>4, <1>5 DEF d

----------------------------------------------------------------------------
(***************************************************************************)
(* What the steps have in common.                                          *)
(***************************************************************************)

\* A connection that moved from c to d: its id is fixed by the handshake,
\* it never returns to "none", and close is for good.
Moved(c, d) ==
    /\ d \in SignalConn /\ Len(d.out) <= OutCap
    /\ c.pc # "none" => d.pc # "none" /\ d.id = c.id
    /\ d.pc = "none" => Handed(d) \subseteq Handed(c)
    /\ c.closing => d.closing
    /\ c.done => d.done

\* ... and neither joined nor left the open ones.
Stays(c, d) ==
    /\ d.pc = "open" <=> c.pc = "open"
    /\ c.pc = "gone" => d.pc = "gone"
    /\ d.left = c.left

\* A connection that does not move.
LEMMA MovedSelf ==
    ASSUME TypeOK, NEW x \in Conns
    PROVE  sc[x] \in SignalConn /\ Moved(sc[x], sc[x]) /\ Stays(sc[x], sc[x])
  BY DEF TypeOK, Moved, Stays

\* One connection is replaced.
LEMMA OneConn ==
    ASSUME TypeOK, NEW x \in Conns, NEW d, sc' = [sc EXCEPT ![x] = d], Moved(sc[x], d)
    PROVE  /\ sc' \in [Conns -> SignalConn]
           /\ sc'[x] = d
           /\ \A y \in Conns : y # x => sc'[y] = sc[y]
           /\ \A y \in Conns : Moved(sc[y], sc'[y])
  <1>1. d \in SignalConn
    BY DEF Moved
  <1>2. sc' \in [Conns -> SignalConn] /\ sc'[x] = d /\ \A y \in Conns : y # x => sc'[y] = sc[y]
    BY <1>1 DEF TypeOK
  <1>3. \A y \in Conns : Moved(sc[y], sc'[y])
    BY <1>2, MovedSelf
  <1> QED BY <1>2, <1>3

\* Honest survives when every new frame is honest.
LEMMA HonestStep ==
    ASSUME IInv, \A y \in Conns : Moved(sc[y], sc'[y]),
           \A y \in Conns : \A f \in Handed(sc'[y]) :
               f \in Handed(sc[y]) \/ HonestFrame(y, f)'
    PROVE  Honest'
  <1>1. \A y \in Conns : sc'[y].pc = "none" => Handed(sc'[y]) = {}
    BY DEF IInv, Honest, Moved
  <1>2. ASSUME NEW y \in Conns, NEW f \in Handed(sc'[y]), f \in Handed(sc[y])
        PROVE  HonestFrame(y, f)'
    <2>1. HonestFrame(y, f) /\ sc[y].pc # "none"
      BY <1>2 DEF IInv, Honest
    <2>2. Moved(sc[y], sc'[y]) /\ sc'[y].id = sc[y].id
      BY <2>1 DEF Moved
    <2>3. ASSUME y \in Hosts, f.from \in Clients
          PROVE  /\ sc'[f.from].pc # "none"
                 /\ f.id = IF f.type = "jingle" THEN sc'[f.from].id ELSE None
      <3>1. /\ f.from \in Conns /\ sc[f.from].pc # "none"
            /\ f.id = IF f.type = "jingle" THEN sc[f.from].id ELSE None
        BY <2>1, <2>3 DEF HonestFrame, Conns
      <3> QED BY <3>1 DEF Moved
    <2> QED BY <2>1, <2>2, <2>3 DEF HonestFrame
  <1>3. \A y \in Conns : \A f \in Handed(sc'[y]) : HonestFrame(y, f)'
    BY <1>2
  <1> QED BY <1>1, <1>3 DEF Honest

\* A step that leaves the routes and the open connections alone.
LEMMA RoutesKept ==
    ASSUME IInv, UNCHANGED <<signalHosts, signalClient, latest>>,
           \A y \in Conns : Moved(sc[y], sc'[y]) /\ Stays(sc[y], sc'[y]),
           \A c \in Clients : sc'[c].pc = "auth" => sc'[c].id \in Ids
    PROVE  Named' /\ RoutesFollowLatest'
  <1>0. /\ TypeOK /\ Named /\ RoutesFollowLatest
        /\ Hosts \subseteq Conns /\ Clients \subseteq Conns /\ None \notin Conns
    BY RelayAssumption DEF IInv, Conns
  <1>1. \A y \in Conns : /\ sc[y].pc = "open" => sc'[y].pc = "open" /\ sc'[y].id = sc[y].id
                         /\ sc[y].pc \in {"open", "gone"} => sc'[y].pc \in {"open", "gone"}
                         /\ Live(y)' => Live(y)
    BY DEF Moved, Stays, Live
  <1>2. \A c \in Clients : sc'[c].pc \in {"auth", "open"} => sc'[c].id \in Ids
    BY <1>0 DEF Named, Moved, Stays
  <1>3. \A h \in Hosts : \A c \in sc'[h].left : sc'[c].pc # "none"
    <2> TAKE h \in Hosts
    <2>1. sc'[h].left = sc[h].left /\ sc[h].left \subseteq Clients
      BY <1>0 DEF TypeOK, Stays, SignalConn
    <2> QED BY <1>0, <2>1 DEF Named, Moved
  <1>4. \A i \in Ids : latest'[i] # None => sc'[latest'[i]].pc \in {"open", "gone"}
    BY <1>0, <1>1 DEF TypeOK, Named
  <1>5. signalHosts' # None => sc'[signalHosts'].pc = "open"
    BY <1>0, <1>1 DEF TypeOK, RoutesFollowLatest
  <1>6. \A h \in Hosts : Live(h)' => signalHosts' = h
    BY <1>0, <1>1 DEF RoutesFollowLatest
  <1>7. \A i \in Ids : signalClient'[i] # None =>
           sc'[signalClient'[i]].pc = "open" /\ sc'[signalClient'[i]].id = i
    BY <1>0, <1>1 DEF TypeOK, RoutesFollowLatest
  <1>8. \A i \in Ids : latest'[i] # None /\ Live(latest[i])' => signalClient'[i] = latest'[i]
    <2> SUFFICES ASSUME NEW i \in Ids, latest'[i] # None, Live(latest[i])'
                 PROVE  signalClient'[i] = latest'[i]
      OBVIOUS
    <2>1. latest[i] \in Conns /\ latest'[i] = latest[i]
      BY <1>0 DEF TypeOK
    <2>2. Live(latest[i])
      BY <1>1, <2>1 DEF Live
    <2> QED BY <1>0, <2>1, <2>2 DEF RoutesFollowLatest
  <1> QED BY <1>2, <1>3, <1>4, <1>5, <1>6, <1>7, <1>8 DEF Named, RoutesFollowLatest, Live

\* A step of one connection that leaves the routes alone.
LEMMA QuietStep ==
    ASSUME IInv, NEW x \in Conns, NEW d, sc' = [sc EXCEPT ![x] = d],
           Moved(sc[x], d), Stays(sc[x], d),
           x \in Clients /\ d.pc = "auth" => d.id \in Ids,
           \A f \in Handed(d) : f \in Handed(sc[x]) \/ HonestFrame(x, f)',
           UNCHANGED <<signalHosts, signalClient, latest>>,
           frames' \in Nat, owed' \subseteq Clients
    PROVE  IInv'
  <1>0. TypeOK
    BY DEF IInv
  <1>1. /\ sc' \in [Conns -> SignalConn] /\ sc'[x] = d
        /\ \A y \in Conns : y # x => sc'[y] = sc[y]
        /\ \A y \in Conns : Moved(sc[y], sc'[y])
    BY <1>0, OneConn
  <1>2. \A y \in Conns : Stays(sc[y], sc'[y])
    BY <1>0, <1>1, MovedSelf
  <1>3. TypeOK'
    BY <1>0, <1>1 DEF TypeOK, Moved
  <1>4. \A y \in Conns : \A f \in Handed(sc'[y]) : f \in Handed(sc[y]) \/ HonestFrame(y, f)'
    BY <1>1
  <1>5. Honest'
    BY <1>1, <1>4, HonestStep
  <1>6. \A c \in Clients : sc'[c].pc = "auth" => sc'[c].id \in Ids
    BY <1>1 DEF IInv, Named, Conns
  <1>7. Named' /\ RoutesFollowLatest'
    BY <1>1, <1>2, <1>6, RoutesKept
  <1> QED BY <1>3, <1>5, <1>7 DEF IInv

----------------------------------------------------------------------------
(***************************************************************************)
(* One lemma per action.                                                   *)
(***************************************************************************)

\* HandleSignal fixes the id while nothing has been handed over.
LEMMA AuthStep ==
    ASSUME IInv, NEW x \in Conns, NEW i \in Ids \cup {None}, Auth(x, i)
    PROVE  IInv'
  <1> DEFINE d == [sc[x] EXCEPT !.pc = "auth", !.id = i]
  <1>0. /\ TypeOK /\ sc[x] \in SignalConn /\ sc[x].pc = "none" /\ sc' = [sc EXCEPT ![x] = d]
        /\ (x \in Hosts <=> i = None)
        /\ UNCHANGED <<signalHosts, signalClient, frames, owed, latest>>
    BY DEF IInv, Auth, TypeOK
  <1>1. /\ d \in SignalConn /\ d.pc = "auth" /\ d.id = i /\ d.left = sc[x].left
        /\ d.closing = sc[x].closing /\ d.done = sc[x].done /\ d.out = sc[x].out
    <2>1. d \in SignalConn
      BY <1>0, ConnUpdates
    <2>2. /\ d.pc = "auth" /\ d.id = i /\ d.left = sc[x].left
          /\ d.closing = sc[x].closing /\ d.done = sc[x].done /\ d.out = sc[x].out
      BY <1>0 DEF SignalConn
    <2> QED BY <2>1, <2>2
  <1>2. Handed(d) = Handed(sc[x])
    BY <1>0, ConnUpdates
  <1> HIDE DEF d
  <1>3. Moved(sc[x], d) /\ Stays(sc[x], d)
    BY <1>0, <1>1, <1>2 DEF Moved, Stays, TypeOK
  <1>4. x \in Clients /\ d.pc = "auth" => d.id \in Ids
    BY <1>0, <1>1, RelayAssumption
  <1>5. frames' \in Nat /\ owed' \subseteq Clients
    BY <1>0 DEF TypeOK
  <1> QED BY <1>0, <1>2, <1>3, <1>4, <1>5, QuietStep

\* A rejected connection is closed and never opened.
LEMMA RejectStep ==
    ASSUME IInv, NEW x \in Conns, Reject(x)
    PROVE  IInv'
  <1> DEFINE d == [sc[x] EXCEPT !.pc = "gone", !.done = TRUE]
  <1>0. /\ TypeOK /\ sc[x] \in SignalConn /\ sc[x].pc = "none" /\ sc' = [sc EXCEPT ![x] = d]
        /\ UNCHANGED <<signalHosts, signalClient, frames, owed, latest>>
    BY DEF IInv, Reject, TypeOK
  <1>1. /\ d \in SignalConn /\ d.pc = "gone" /\ d.id = sc[x].id /\ d.left = sc[x].left
        /\ d.closing = sc[x].closing /\ d.done = TRUE /\ d.out = sc[x].out
    <2>1. d \in SignalConn
      BY <1>0, ConnUpdates
    <2>2. /\ d.pc = "gone" /\ d.id = sc[x].id /\ d.left = sc[x].left
          /\ d.closing = sc[x].closing /\ d.done = TRUE /\ d.out = sc[x].out
      BY <1>0 DEF SignalConn
    <2> QED BY <2>1, <2>2
  <1>2. Handed(d) = Handed(sc[x])
    BY <1>0, ConnUpdates
  <1> HIDE DEF d
  <1>3. Moved(sc[x], d) /\ Stays(sc[x], d)
    BY <1>0, <1>1, <1>2 DEF Moved, Stays, TypeOK
  <1>4. frames' \in Nat /\ owed' \subseteq Clients
    BY <1>0 DEF TypeOK
  <1> QED BY <1>0, <1>1, <1>2, <1>3, <1>4, QuietStep

\* What the reader of an open connection may assume.
LEMMA Reading ==
    ASSUME IInv, NEW x \in Conns, Receives(x)
    PROVE  /\ TypeOK /\ sc[x] \in SignalConn /\ Len(sc[x].out) <= OutCap
           /\ sc[x].pc = "open" /\ frames' \in Nat
  BY DEF IInv, TypeOK, Receives

\* A frame sent to open connection x that is honest there.
LEMMA SendStep ==
    ASSUME IInv, NEW x \in Conns, sc[x].pc = "open", NEW f \in Frame,
           sc' = [sc EXCEPT ![x] = Send(sc[x], f)],
           UNCHANGED <<signalHosts, signalClient, owed, latest>>, frames' \in Nat,
           HonestFrame(x, f)
    PROVE  IInv'
  <1> DEFINE d == Send(sc[x], f)
  <1>0. TypeOK /\ sc[x] \in SignalConn /\ Len(sc[x].out) <= OutCap
    BY DEF IInv, TypeOK
  <1>1. /\ d \in SignalConn /\ Len(d.out) <= OutCap
        /\ d.pc = sc[x].pc /\ d.id = sc[x].id /\ d.left = sc[x].left
        /\ d.closing = sc[x].closing /\ d.done = sc[x].done
        /\ Handed(d) \subseteq Handed(sc[x]) \cup {f}
    BY <1>0, SendAdds
  <1>2. sc' = [sc EXCEPT ![x] = d]
    OBVIOUS
  <1> HIDE DEF d
  <1>3. Moved(sc[x], d) /\ Stays(sc[x], d)
    BY <1>1 DEF Moved, Stays
  <1>4. /\ sc'[x] = d
        /\ \A y \in Conns : y # x => sc'[y] = sc[y]
    BY <1>0, <1>2, <1>3, OneConn
  <1>5. \A y \in Conns : sc'[y].pc = sc[y].pc /\ sc'[y].id = sc[y].id
    BY <1>1, <1>4
  <1>6. HonestFrame(x, f)'
    BY <1>5 DEF HonestFrame, Conns
  <1>7. \A g \in Handed(d) : g \in Handed(sc[x]) \/ HonestFrame(x, g)'
    BY <1>1, <1>6
  <1>8. owed' \subseteq Clients
    BY <1>0 DEF TypeOK
  <1> QED BY <1>1, <1>2, <1>3, <1>7, <1>8, QuietStep

\* The answer to a ping is addressed to nobody.
LEMMA RoutePingStep ==
    ASSUME IInv, NEW x \in Conns, RoutePing(x)
    PROVE  IInv'
  <1> DEFINE f == [type |-> "pong", id |-> None, from |-> None]
  <1>1. Receives(x) /\ UNCHANGED <<signalHosts, signalClient, owed, latest>>
    BY DEF RoutePing
  <1>2. TypeOK /\ sc[x].pc = "open" /\ frames' \in Nat
    BY <1>1, Reading
  <1>3. sc' = [sc EXCEPT ![x] = Send(sc[x], f)]
    BY <1>2 DEF RoutePing, TypeOK
  <1>4. f \in Frame /\ f.from = None /\ f.type = "pong"
    BY DEF Frame
  <1> HIDE DEF f
  <1>5. HonestFrame(x, f)
    BY <1>4, RelayAssumption DEF HonestFrame, Conns
  <1> QED BY <1>1, <1>2, <1>3, <1>4, <1>5, SendStep

\* A host's frame goes to the connection of the id it names.
LEMMA RouteFromHostStep ==
    ASSUME IInv, NEW h \in Hosts, NEW i \in Ids, RouteFromHost(h, i)
    PROVE  IInv'
  <1> DEFINE f == [type |-> "jingle", id |-> i, from |-> h]
  <1>0. h \in Conns /\ Receives(h) /\ UNCHANGED <<signalHosts, signalClient, owed, latest>>
    BY DEF RouteFromHost, Conns
  <1>1. TypeOK /\ frames' \in Nat /\ signalClient[i] \in Clients \cup {None}
    BY <1>0, Reading DEF TypeOK
  <1>2. CASE signalClient[i] = None
    <2>1. sc' = sc
      BY <1>2 DEF RouteFromHost
    <2>2. sc' = [sc EXCEPT ![h] = sc[h]]
      BY <1>1, <2>1 DEF TypeOK
    <2>3. owed' \subseteq Clients
      BY <1>0, <1>1 DEF TypeOK
    <2>4. Moved(sc[h], sc[h]) /\ Stays(sc[h], sc[h])
      BY <1>0, <1>1, MovedSelf
    <2>5. h \notin Clients
      BY RelayAssumption
    <2> QED BY <1>0, <1>1, <2>2, <2>3, <2>4, <2>5, QuietStep
  <1>3. CASE signalClient[i] # None
    <2> DEFINE c == signalClient[i]
    <2>1. c \in Clients /\ c \in Conns /\ c \notin Hosts
      BY <1>1, <1>3, RelayAssumption DEF Conns
    <2>2. sc[c].pc = "open" /\ sc[c].id = i
      BY <1>3 DEF IInv, RoutesFollowLatest
    <2>3. sc' = [sc EXCEPT ![c] = Send(sc[c], f)]
      BY <1>1, <1>3, <2>1 DEF RouteFromHost, TypeOK
    <2>4. f \in Frame /\ f.from = h /\ f.type = "jingle" /\ f.id = i
      BY DEF Frame, Conns
    <2> HIDE DEF f, c
    <2>5. HonestFrame(c, f)
      BY <2>1, <2>2, <2>4 DEF HonestFrame
    <2> QED BY <1>0, <1>1, <2>1, <2>2, <2>3, <2>4, <2>5, SendStep
  <1> QED BY <1>2, <1>3

\* PEER_DISCONNECTED to an open connection.
LEMMA SendErrorMoves ==
    ASSUME TypeOK, NEW x \in Conns
    PROVE  /\ sc[x].pc # "none" => Moved(sc[x], SendError(sc[x]))
           /\ Stays(sc[x], SendError(sc[x]))
           /\ SendError(sc[x]).pc = sc[x].pc /\ SendError(sc[x]).id = sc[x].id
           /\ Handed(SendError(sc[x])) \subseteq Handed(sc[x]) \cup {Error}
           /\ Error.from = None /\ Error.type = "PEER_DISCONNECTED"
  <1>1. sc[x] \in SignalConn /\ Len(sc[x].out) <= OutCap
    BY DEF TypeOK
  <1>2. Error.from = None /\ Error.type = "PEER_DISCONNECTED"
    BY DEF Error
  <1> QED BY <1>1, <1>2, SendErrorAdds DEF Moved, Stays

\* A client's object goes to the host under the client's own id, another frame
\* under none; without a host the client is told and closed.
LEMMA RouteFromClientStep ==
    ASSUME IInv, NEW c \in Clients, NEW type \in {"jingle", "other", "broken"},
           NEW i \in Ids \cup {None}, RouteFromClient(c, type, i)
    PROVE  IInv'
  <1>0. c \in Conns /\ Receives(c) /\ UNCHANGED <<signalHosts, signalClient, owed, latest>>
    BY DEF RouteFromClient, Conns
  <1>1. /\ TypeOK /\ frames' \in Nat /\ sc[c] \in SignalConn /\ sc[c].pc = "open"
        /\ owed' \subseteq Clients
    BY <1>0, Reading DEF TypeOK
  <1>2. CASE signalHosts = None
    <2> DEFINE d == SendError(sc[c])
    <2>1. sc' = [sc EXCEPT ![c] = d]
      BY <1>0, <1>1, <1>2 DEF RouteFromClient, TypeOK
    <2>2. /\ Moved(sc[c], d) /\ Stays(sc[c], d) /\ d.pc = "open"
          /\ Handed(d) \subseteq Handed(sc[c]) \cup {Error}
          /\ Error.from = None /\ Error.type = "PEER_DISCONNECTED"
      BY <1>0, <1>1, SendErrorMoves
    <2> HIDE DEF d
    <2>3. HonestFrame(c, Error)'
      BY <2>2, RelayAssumption DEF HonestFrame, Conns
    <2>4. \A f \in Handed(d) : f \in Handed(sc[c]) \/ HonestFrame(c, f)'
      BY <2>2, <2>3
    <2> QED BY <1>0, <1>1, <2>1, <2>2, <2>4, QuietStep
  <1>3. CASE signalHosts # None /\ type = "broken"
    <2>1. sc' = [sc EXCEPT ![c] = sc[c]]
      BY <1>0, <1>1, <1>3 DEF RouteFromClient, TypeOK
    <2>2. Moved(sc[c], sc[c]) /\ Stays(sc[c], sc[c])
      BY <1>0, <1>1, MovedSelf
    <2> QED BY <1>0, <1>1, <2>1, <2>2, QuietStep
  <1>4. CASE signalHosts # None /\ type # "broken"
    <2> DEFINE f == [type |-> type, id |-> InjectClientID(c, type, i), from |-> c]
    <2>1. /\ signalHosts \in Hosts /\ signalHosts \in Conns /\ signalHosts \notin Clients
          /\ sc[signalHosts].pc = "open"
      BY <1>1, <1>4, RelayAssumption DEF IInv, RoutesFollowLatest, TypeOK, Conns
    <2>2. sc' = [sc EXCEPT ![signalHosts] = Send(sc[signalHosts], f)]
      BY <1>1, <1>4, <2>1 DEF RouteFromClient, TypeOK
    <2>3. /\ f \in Frame /\ f.from = c
          /\ f.id = IF f.type = "jingle" THEN sc[c].id ELSE None
      BY <1>0, <1>1, <1>4 DEF InjectClientID, Frame, SignalConn
    <2> HIDE DEF f
    <2>4. HonestFrame(signalHosts, f)
      BY <1>1, <2>1, <2>3 DEF HonestFrame
    <2> QED BY <1>0, <1>1, <2>1, <2>2, <2>3, <2>4, SendStep
  <1> QED BY <1>2, <1>3, <1>4

\* signalConn.writer hands over what was queued.
LEMMA WriterStep ==
    ASSUME IInv, NEW x \in Conns, Writer(x)
    PROVE  IInv'
  <1> DEFINE d == [sc[x] EXCEPT !.got = @ \cup {Head(sc[x].out)}, !.out = Tail(@)]
  <1>0. /\ TypeOK /\ sc[x] \in SignalConn /\ Len(sc[x].out) <= OutCap
        /\ sc[x].pc \in {"open", "ending"} /\ sc[x].out # <<>>
        /\ UNCHANGED <<signalHosts, signalClient, frames, owed, latest>>
    BY DEF IInv, Writer, TypeOK
  <1>1. sc' = [sc EXCEPT ![x] = d]
    BY DEF Writer
  <1>2. d \in SignalConn /\ Len(d.out) <= Len(sc[x].out) /\ Handed(d) \subseteq Handed(sc[x])
    BY <1>0, WriterMoves
  <1>3. /\ d.pc = sc[x].pc /\ d.id = sc[x].id /\ d.left = sc[x].left
        /\ d.closing = sc[x].closing /\ d.done = sc[x].done
    BY <1>0 DEF SignalConn
  <1> HIDE DEF d
  <1>4. Len(d.out) <= OutCap
    BY <1>0, <1>2, RelayAssumption DEF SignalConn
  <1>5. Moved(sc[x], d) /\ Stays(sc[x], d)
    BY <1>2, <1>3, <1>4 DEF Moved, Stays
  <1>6. frames' \in Nat /\ owed' \subseteq Clients
    BY <1>0 DEF TypeOK
  <1> QED BY <1>0, <1>1, <1>2, <1>3, <1>5, <1>6, QuietStep

\* A connection that has closed takes no part in the routes any more.
LEMMA DoneStep ==
    ASSUME IInv, NEW x \in Conns, sc' = [sc EXCEPT ![x] = [sc[x] EXCEPT !.done = TRUE]],
           UNCHANGED <<signalHosts, signalClient, frames, latest>>, owed' \subseteq owed
    PROVE  IInv'
  <1> DEFINE d == [sc[x] EXCEPT !.done = TRUE]
  <1>0. TypeOK /\ sc[x] \in SignalConn /\ Len(sc[x].out) <= OutCap /\ sc' = [sc EXCEPT ![x] = d]
    BY DEF IInv, TypeOK
  <1>1. d \in SignalConn /\ Handed(d) = Handed(sc[x])
    BY <1>0, ConnUpdates
  <1>2. /\ d.pc = sc[x].pc /\ d.id = sc[x].id /\ d.left = sc[x].left /\ d.out = sc[x].out
        /\ d.closing = sc[x].closing /\ d.done = TRUE
    BY <1>0 DEF SignalConn
  <1> HIDE DEF d
  <1>3. Moved(sc[x], d) /\ Stays(sc[x], d)
    BY <1>0, <1>1, <1>2 DEF Moved, Stays
  <1>4. frames' \in Nat /\ owed' \subseteq Clients
    BY <1>0 DEF TypeOK
  <1>5. x \in Clients /\ d.pc = "auth" => d.id \in Ids
    BY <1>2 DEF IInv, Named
  <1> QED BY <1>0, <1>1, <1>3, <1>4, <1>5, QuietStep

\* signalConn.close.
LEMMA CloseStep ==
    ASSUME IInv, NEW x \in Conns, Close(x)
    PROVE  IInv'
  <1>1. sc' = [sc EXCEPT ![x] = [sc[x] EXCEPT !.done = TRUE]]
    BY DEF Close, IInv, TypeOK
  <1> QED BY <1>1, DoneStep DEF Close

\* The peer goes.
LEMMA BreakStep ==
    ASSUME IInv, NEW x \in Conns, Break(x)
    PROVE  IInv'
  <1>1. sc' = [sc EXCEPT ![x] = [sc[x] EXCEPT !.done = TRUE]]
    BY DEF Break, IInv, TypeOK
  <1> QED BY <1>1, DoneStep DEF Break

\* The clients a host left behind are told; the routes stay.
LEMMA CloseClientsStep ==
    ASSUME IInv, NEW h \in Hosts, CloseClients(h)
    PROVE  IInv'
  <1> DEFINE g == [sc[h] EXCEPT !.pc = "gone"]
  <1>0. /\ TypeOK /\ h \in Conns /\ sc[h] \in SignalConn /\ Len(sc[h].out) <= OutCap
        /\ sc[h].pc = "ending" /\ sc[h].left \subseteq Clients
        /\ UNCHANGED <<signalHosts, signalClient, frames, owed, latest>>
    BY DEF IInv, TypeOK, CloseClients, Conns, SignalConn
  <1>1. sc' = [x \in Conns |-> CASE x = h -> g
                                 [] x \in sc[h].left -> SendError(sc[x])
                                 [] OTHER -> sc[x]]
    BY <1>0 DEF CloseClients
  <1>2. g \in SignalConn /\ Handed(g) = Handed(sc[h])
    BY <1>0, ConnUpdates
  <1>3. /\ g.pc = "gone" /\ g.id = sc[h].id /\ g.left = sc[h].left /\ g.out = sc[h].out
        /\ g.closing = sc[h].closing /\ g.done = sc[h].done
    BY <1>0 DEF SignalConn
  <1> HIDE DEF g
  <1>4. Moved(sc[h], g) /\ Stays(sc[h], g)
    BY <1>0, <1>2, <1>3 DEF Moved, Stays
  <1>5. h \notin sc[h].left
    BY <1>0, RelayAssumption
  <1>6. /\ sc'[h] = g
        /\ \A x \in Conns : x \in sc[h].left => sc'[x] = SendError(sc[x])
        /\ \A x \in Conns : x # h /\ x \notin sc[h].left => sc'[x] = sc[x]
    BY <1>0, <1>1, <1>5
  <1>7. \A x \in sc[h].left : sc[x].pc # "none"
    BY DEF IInv, Named
  <1>8. ASSUME NEW x \in Conns
        PROVE  /\ Moved(sc[x], sc'[x]) /\ Stays(sc[x], sc'[x])
               /\ x \in Clients => sc'[x].pc = sc[x].pc /\ sc'[x].id = sc[x].id
               /\ \A f \in Handed(sc'[x]) : f \in Handed(sc[x]) \/ HonestFrame(x, f)'
    <2>1. CASE x = h
      BY <1>2, <1>4, <1>6, <2>1, RelayAssumption
    <2>2. CASE x \in sc[h].left
      <3>1. /\ Moved(sc[x], sc'[x]) /\ Stays(sc[x], sc'[x])
            /\ sc'[x].pc = sc[x].pc /\ sc'[x].id = sc[x].id
            /\ Handed(sc'[x]) \subseteq Handed(sc[x]) \cup {Error}
            /\ Error.from = None /\ Error.type = "PEER_DISCONNECTED"
        BY <1>0, <1>6, <1>7, <2>2, SendErrorMoves
      <3>2. HonestFrame(x, Error)'
        BY <3>1, RelayAssumption DEF HonestFrame, Conns
      <3> QED BY <3>1, <3>2
    <2>3. CASE x # h /\ x \notin sc[h].left
      BY <1>0, <1>6, <2>3, MovedSelf
    <2> QED BY <2>1, <2>2, <2>3
  <1>9. sc' \in [Conns -> SignalConn] /\ \A x \in Conns : Len(sc'[x].out) <= OutCap
    <2>1. \A x \in Conns : sc'[x] \in SignalConn /\ Len(sc'[x].out) <= OutCap
      BY <1>8 DEF Moved
    <2>2. sc' = [x \in Conns |-> sc'[x]]
      BY <1>1
    <2> QED BY <2>1, <2>2
  <1>10. TypeOK'
    BY <1>0, <1>9 DEF TypeOK
  <1>11. Honest'
    BY <1>8, HonestStep
  <1>12. \A c \in Clients : sc'[c].pc = "auth" => sc'[c].id \in Ids
    BY <1>8 DEF IInv, Named, Conns
  <1>13. Named' /\ RoutesFollowLatest'
    BY <1>0, <1>8, <1>12, RoutesKept
  <1> QED BY <1>10, <1>11, <1>13 DEF IInv

\* registerSignalConn of a host: the one before it is on its way out.
LEMMA RegisterHostStep ==
    ASSUME IInv, NEW h \in Hosts, RegisterHost(h)
    PROVE  IInv'
  <1> DEFINE g == [sc[h] EXCEPT !.pc = "open"]
             o == [sc[signalHosts] EXCEPT !.closing = TRUE]
  <1>0. /\ TypeOK /\ h \in Conns /\ sc[h] \in SignalConn /\ Len(sc[h].out) <= OutCap
        /\ sc[h].pc = "auth" /\ signalHosts' = h /\ h # None
        /\ UNCHANGED <<signalClient, frames, owed, latest>>
    BY RelayAssumption DEF IInv, TypeOK, RegisterHost, Conns
  <1>1. sc' = [x \in Conns |-> CASE x = h -> [sc[x] EXCEPT !.pc = "open"]
                                 [] x = signalHosts -> [sc[x] EXCEPT !.closing = TRUE]
                                 [] OTHER -> sc[x]]
    BY DEF RegisterHost
  <1>2. /\ g \in SignalConn /\ Handed(g) = Handed(sc[h])
        /\ g.pc = "open" /\ g.id = sc[h].id /\ g.left = sc[h].left /\ g.out = sc[h].out
        /\ g.closing = sc[h].closing /\ g.done = sc[h].done
    <2>1. g \in SignalConn /\ Handed(g) = Handed(sc[h])
      BY <1>0, ConnUpdates
    <2>2. /\ g.pc = "open" /\ g.id = sc[h].id /\ g.left = sc[h].left /\ g.out = sc[h].out
          /\ g.closing = sc[h].closing /\ g.done = sc[h].done
      BY <1>0 DEF SignalConn
    <2> QED BY <2>1, <2>2
  <1>3. Moved(sc[h], g)
    BY <1>0, <1>2 DEF Moved
  <1>4. ASSUME signalHosts # None
        PROVE  /\ signalHosts \in Hosts /\ signalHosts \in Conns /\ signalHosts # h
               /\ Moved(sc[signalHosts], o) /\ Stays(sc[signalHosts], o)
               /\ o.closing = TRUE /\ Handed(o) = Handed(sc[signalHosts])
    <2>1. /\ signalHosts \in Hosts /\ signalHosts \in Conns /\ sc[signalHosts].pc = "open"
          /\ signalHosts # h
      BY <1>0, <1>4 DEF IInv, RoutesFollowLatest, TypeOK, Conns
    <2>2. sc[signalHosts] \in SignalConn /\ Len(sc[signalHosts].out) <= OutCap
      BY <1>0, <2>1 DEF TypeOK
    <2>3. o \in SignalConn /\ Handed(o) = Handed(sc[signalHosts])
      BY <2>2, ConnUpdates
    <2>4. /\ o.pc = sc[signalHosts].pc /\ o.id = sc[signalHosts].id
          /\ o.left = sc[signalHosts].left /\ o.out = sc[signalHosts].out
          /\ o.closing = TRUE /\ o.done = sc[signalHosts].done
      BY <2>2 DEF SignalConn
    <2> HIDE DEF o
    <2> QED BY <2>1, <2>2, <2>3, <2>4 DEF Moved, Stays
  <1>5. /\ sc'[h] = g
        /\ signalHosts # None => sc'[signalHosts] = o
        /\ \A x \in Conns : x # h /\ x # signalHosts => sc'[x] = sc[x]
    <2>1. sc'[h] = g
      <3>1. sc'[h] = CASE h = h -> [sc[h] EXCEPT !.pc = "open"]
                       [] h = signalHosts -> [sc[h] EXCEPT !.closing = TRUE]
                       [] OTHER -> sc[h]
        BY <1>0, <1>1
      <3> QED BY <1>0, <1>4, <3>1
    <2>2. signalHosts # None => sc'[signalHosts] = o
      BY <1>1, <1>4
    <2>3. \A x \in Conns : x # h /\ x # signalHosts => sc'[x] = sc[x]
      BY <1>1
    <2> QED BY <2>1, <2>2, <2>3
  <1> HIDE DEF g, o
  <1>6. ASSUME NEW x \in Conns
        PROVE  /\ Moved(sc[x], sc'[x]) /\ Handed(sc'[x]) = Handed(sc[x])
               /\ x # h => Stays(sc[x], sc'[x])
    <2>1. CASE x = h
      BY <1>2, <1>3, <1>5, <2>1
    <2>2. CASE x # h /\ x = signalHosts
      <3>1. signalHosts # None
        BY <2>2, RelayAssumption
      <3> QED BY <1>4, <1>5, <2>2, <3>1
    <2>3. CASE x # h /\ x # signalHosts
      BY <1>0, <1>5, <2>3, MovedSelf
    <2> QED BY <2>1, <2>2, <2>3
  <1>7. sc' \in [Conns -> SignalConn] /\ \A x \in Conns : Len(sc'[x].out) <= OutCap
    <2>1. \A x \in Conns : sc'[x] \in SignalConn /\ Len(sc'[x].out) <= OutCap
      BY <1>6 DEF Moved
    <2>2. sc' = [x \in Conns |-> sc'[x]]
      BY <1>1
    <2> QED BY <2>1, <2>2
  <1>8. TypeOK'
    BY <1>0, <1>7 DEF TypeOK
  <1>9. Honest'
    BY <1>6, HonestStep
  <1>10. /\ Clients \subseteq Conns /\ Hosts \subseteq Conns /\ h \notin Clients /\ None \notin Conns
    BY RelayAssumption DEF Conns
  <1>11. \A c \in Clients : sc'[c] = sc[c]
    BY <1>0, <1>5, <1>10, RelayAssumption DEF TypeOK
  <1>12. Named'
    <2>1. \A x \in Hosts : sc'[x].left = sc[x].left /\ sc[x].left \subseteq Clients
      BY <1>0, <1>2, <1>5, <1>6, <1>10 DEF Stays, TypeOK, SignalConn
    <2>2. \A i \in Ids : latest'[i] = latest[i] /\ latest[i] \in Clients \cup {None}
      BY <1>0 DEF TypeOK
    <2> QED BY <1>11, <2>1, <2>2 DEF Named, IInv
  <1>13. RoutesFollowLatest'
    <2>0. RoutesFollowLatest
      BY DEF IInv
    <2>1. signalHosts' # None => sc'[signalHosts'].pc = "open"
      BY <1>0, <1>2, <1>5
    <2>2. ASSUME NEW x \in Hosts, Live(x)'
          PROVE  signalHosts' = x
      <3>1. ASSUME x # h PROVE FALSE
        <4>1. Moved(sc[x], sc'[x]) /\ Stays(sc[x], sc'[x])
          BY <1>6, <1>10, <3>1
        <4>2. Live(x)
          BY <2>2, <4>1 DEF Live, Moved, Stays
        <4>3. signalHosts = x /\ x # None
          BY <1>10, <2>0, <4>2 DEF RoutesFollowLatest
        <4>4. sc'[x].closing
          BY <1>4, <1>5, <4>3
        <4> QED BY <2>2, <4>4 DEF Live
      <3> QED BY <1>0, <3>1
    <2>3. \A i \in Ids : signalClient'[i] # None =>
             sc'[signalClient'[i]].pc = "open" /\ sc'[signalClient'[i]].id = i
      BY <1>0, <1>11, <2>0 DEF RoutesFollowLatest, TypeOK
    <2>4. ASSUME NEW i \in Ids, latest'[i] # None, Live(latest[i])'
          PROVE  signalClient'[i] = latest'[i]
      <3>1. latest[i] \in Clients /\ latest'[i] = latest[i]
        BY <1>0, <2>4 DEF TypeOK
      <3>2. Live(latest[i])
        BY <1>11, <2>4, <3>1 DEF Live
      <3> QED BY <1>0, <2>0, <3>1, <3>2, <1>10 DEF RoutesFollowLatest
    <2> QED BY <2>1, <2>2, <2>3, <2>4 DEF RoutesFollowLatest, Live
  <1> QED BY <1>8, <1>9, <1>12, <1>13 DEF IInv

\* registerSignalConn of a client: the route of its id is its own.
LEMMA RegisterClientStep ==
    ASSUME IInv, NEW c \in Clients, RegisterClient(c)
    PROVE  IInv'
  <1> DEFINE d == [sc[c] EXCEPT !.pc = "open"]
             k == sc[c].id
  <1>0. /\ TypeOK /\ Named /\ RoutesFollowLatest
        /\ c \in Conns /\ sc[c] \in SignalConn /\ Len(sc[c].out) <= OutCap
        /\ sc[c].pc = "auth" /\ sc' = [sc EXCEPT ![c] = d] /\ k \in Ids
        /\ signalClient' = [signalClient EXCEPT ![k] = c]
        /\ latest' = [latest EXCEPT ![k] = c]
        /\ UNCHANGED <<signalHosts, frames, owed>>
    BY DEF IInv, TypeOK, RegisterClient, Conns, Named
  <1>1. d \in SignalConn /\ Handed(d) = Handed(sc[c])
    BY <1>0, ConnUpdates
  <1>2. /\ d.pc = "open" /\ d.id = k /\ d.left = sc[c].left /\ d.out = sc[c].out
        /\ d.closing = sc[c].closing /\ d.done = sc[c].done
    BY <1>0 DEF SignalConn
  <1> HIDE DEF d, k
  <1>3. Moved(sc[c], d)
    BY <1>0, <1>1, <1>2 DEF Moved, k
  <1>4. /\ sc' \in [Conns -> SignalConn] /\ sc'[c] = d
        /\ \A y \in Conns : y # c => sc'[y] = sc[y]
        /\ \A y \in Conns : Moved(sc[y], sc'[y])
    BY <1>0, <1>3, OneConn
  <1>5. /\ Hosts \subseteq Conns /\ Clients \subseteq Conns /\ c \notin Hosts /\ None \notin Conns
    BY RelayAssumption DEF Conns
  <1>6. /\ signalClient'[k] = c /\ latest'[k] = c
        /\ \A i \in Ids : i # k => signalClient'[i] = signalClient[i] /\ latest'[i] = latest[i]
        /\ signalClient' \in [Ids -> Clients \cup {None}]
        /\ latest' \in [Ids -> Clients \cup {None}]
    BY <1>0 DEF TypeOK
  <1>7. TypeOK'
    BY <1>0, <1>4, <1>6 DEF TypeOK, Moved
  <1>8. Honest'
    <2>1. \A y \in Conns : \A f \in Handed(sc'[y]) : f \in Handed(sc[y])
      BY <1>1, <1>4
    <2> QED BY <1>4, <2>1, HonestStep
  <1>9. \A i \in Ids : i # k => signalClient[i] # c /\ latest[i] # c
    BY <1>0, <1>5 DEF Named, RoutesFollowLatest
  <1>10. Named'
    <2>1. \A x \in Clients : sc'[x].pc \in {"auth", "open"} => sc'[x].id \in Ids
      BY <1>0, <1>2, <1>4, <1>5 DEF Named
    <2>2. \A h \in Hosts : \A x \in sc'[h].left : sc'[x].pc # "none"
      <3> TAKE h \in Hosts
      <3>1. sc'[h] = sc[h] /\ sc[h].left \subseteq Clients
        BY <1>0, <1>4, <1>5 DEF TypeOK, SignalConn
      <3> QED BY <1>0, <1>4, <1>5, <3>1 DEF Named, Moved
    <2>3. \A i \in Ids : latest'[i] # None => sc'[latest'[i]].pc \in {"open", "gone"}
      BY <1>0, <1>2, <1>4, <1>5, <1>6, <1>9 DEF Named, TypeOK
    <2> QED BY <2>1, <2>2, <2>3 DEF Named
  <1>11. RoutesFollowLatest'
    <2>1. signalHosts' # None => sc'[signalHosts'].pc = "open"
      BY <1>0, <1>4, <1>5 DEF RoutesFollowLatest, TypeOK
    <2>2. ASSUME NEW h \in Hosts, Live(h)' PROVE signalHosts' = h
      BY <1>0, <1>4, <1>5, <2>2 DEF RoutesFollowLatest, Live
    <2>3. \A i \in Ids : signalClient'[i] # None =>
             sc'[signalClient'[i]].pc = "open" /\ sc'[signalClient'[i]].id = i
      BY <1>0, <1>2, <1>4, <1>5, <1>6, <1>9 DEF RoutesFollowLatest, TypeOK
    <2>4. ASSUME NEW i \in Ids, latest'[i] # None, Live(latest[i])'
          PROVE  signalClient'[i] = latest'[i]
      <3>1. CASE i = k
        BY <1>6, <3>1
      <3>2. CASE i # k
        <4>1. latest[i] \in Conns /\ latest'[i] = latest[i] /\ latest[i] # c
          BY <1>0, <1>5, <1>6, <1>9, <2>4, <3>2 DEF TypeOK
        <4>2. Live(latest[i])
          BY <1>4, <2>4, <4>1 DEF Live
        <4> QED BY <1>0, <1>5, <1>6, <3>2, <4>1, <4>2 DEF RoutesFollowLatest
      <3> QED BY <3>1, <3>2
    <2> QED BY <2>1, <2>2, <2>3, <2>4 DEF RoutesFollowLatest, Live
  <1> QED BY <1>7, <1>8, <1>10, <1>11 DEF IInv

\* unregisterSignalConn of a client: only its own route goes.
LEMMA UnregisterClientStep ==
    ASSUME IInv, NEW c \in Clients, UnregisterClient(c)
    PROVE  IInv'
  <1> DEFINE d == [sc[c] EXCEPT !.pc = "gone"]
             k == sc[c].id
  <1>0. /\ TypeOK /\ Named /\ RoutesFollowLatest
        /\ c \in Conns /\ sc[c] \in SignalConn /\ Len(sc[c].out) <= OutCap
        /\ sc[c].pc = "open" /\ sc[c].done /\ sc' = [sc EXCEPT ![c] = d] /\ k \in Ids
        /\ signalClient' = [signalClient EXCEPT
                               ![k] = IF signalClient[k] = c THEN None ELSE signalClient[k]]
        /\ UNCHANGED <<signalHosts, frames, owed, latest>>
    BY DEF IInv, TypeOK, UnregisterClient, Conns, Named
  <1>1. d \in SignalConn /\ Handed(d) = Handed(sc[c])
    BY <1>0, ConnUpdates
  <1>2. /\ d.pc = "gone" /\ d.id = k /\ d.left = sc[c].left /\ d.out = sc[c].out
        /\ d.closing = sc[c].closing /\ d.done = sc[c].done
    BY <1>0 DEF SignalConn
  <1> HIDE DEF d, k
  <1>3. Moved(sc[c], d)
    BY <1>0, <1>1, <1>2 DEF Moved, k
  <1>4. /\ sc' \in [Conns -> SignalConn] /\ sc'[c] = d
        /\ \A y \in Conns : y # c => sc'[y] = sc[y]
        /\ \A y \in Conns : Moved(sc[y], sc'[y])
    BY <1>0, <1>3, OneConn
  <1>5. /\ Hosts \subseteq Conns /\ Clients \subseteq Conns /\ c \notin Hosts /\ None \notin Conns
    BY RelayAssumption DEF Conns
  <1>6. /\ signalClient[k] = c => signalClient'[k] = None
        /\ signalClient[k] # c => signalClient'[k] = signalClient[k]
        /\ \A i \in Ids : i # k => signalClient'[i] = signalClient[i]
        /\ signalClient' \in [Ids -> Clients \cup {None}]
    BY <1>0 DEF TypeOK
  <1>7. TypeOK'
    BY <1>0, <1>4, <1>6 DEF TypeOK, Moved
  <1>8. Honest'
    <2>1. \A y \in Conns : \A f \in Handed(sc'[y]) : f \in Handed(sc[y])
      BY <1>1, <1>4
    <2> QED BY <1>4, <2>1, HonestStep
  <1>9. \A i \in Ids : i # k => signalClient[i] # c
    BY <1>0, <1>5 DEF RoutesFollowLatest, k
  <1>10. Named'
    <2>1. \A x \in Clients : sc'[x].pc \in {"auth", "open"} => sc'[x].id \in Ids
      BY <1>0, <1>2, <1>4, <1>5 DEF Named
    <2>2. \A h \in Hosts : \A x \in sc'[h].left : sc'[x].pc # "none"
      <3> TAKE h \in Hosts
      <3>1. sc'[h] = sc[h] /\ sc[h].left \subseteq Clients
        BY <1>0, <1>4, <1>5 DEF TypeOK, SignalConn
      <3> QED BY <1>0, <1>4, <1>5, <3>1 DEF Named, Moved
    <2>3. \A i \in Ids : latest'[i] # None => sc'[latest'[i]].pc \in {"open", "gone"}
      BY <1>0, <1>2, <1>4, <1>5 DEF Named, TypeOK
    <2> QED BY <2>1, <2>2, <2>3 DEF Named
  <1>11. RoutesFollowLatest'
    <2>1. signalHosts' # None => sc'[signalHosts'].pc = "open"
      BY <1>0, <1>4, <1>5 DEF RoutesFollowLatest, TypeOK
    <2>2. ASSUME NEW h \in Hosts, Live(h)' PROVE signalHosts' = h
      BY <1>0, <1>4, <1>5, <2>2 DEF RoutesFollowLatest, Live
    <2>3. \A i \in Ids : signalClient'[i] # None =>
             sc'[signalClient'[i]].pc = "open" /\ sc'[signalClient'[i]].id = i
      BY <1>0, <1>4, <1>5, <1>6, <1>9 DEF RoutesFollowLatest, TypeOK
    <2>4. ASSUME NEW i \in Ids, latest'[i] # None, Live(latest[i])'
          PROVE  signalClient'[i] = latest'[i]
      <3>1. latest[i] \in Conns /\ latest'[i] = latest[i] /\ latest[i] # None
        BY <1>0, <1>5, <2>4 DEF TypeOK
      <3>2. latest[i] # c
        BY <1>2, <1>4, <2>4, <3>1 DEF Live
      <3>3. Live(latest[i])
        BY <1>4, <2>4, <3>1, <3>2 DEF Live
      <3>4. signalClient[i] = latest[i]
        BY <1>0, <3>1, <3>3 DEF RoutesFollowLatest
      <3> QED BY <1>6, <3>1, <3>2, <3>4
    <2> QED BY <2>1, <2>2, <2>3, <2>4 DEF RoutesFollowLatest, Live
  <1> QED BY <1>7, <1>8, <1>10, <1>11 DEF IInv

\* unregisterSignalConn of a host: the device has no host if it was this one.
LEMMA UnregisterHostStep ==
    ASSUME IInv, NEW h \in Hosts, UnregisterHost(h)
    PROVE  IInv'
  <1> DEFINE left == {c \in Clients : \E i \in Ids : signalClient[i] = c}
             d == IF signalHosts = h THEN [sc[h] EXCEPT !.pc = "ending", !.left = left]
                                     ELSE [sc[h] EXCEPT !.pc = "gone"]
  <1>0. /\ TypeOK /\ Named /\ RoutesFollowLatest
        /\ h \in Conns /\ sc[h] \in SignalConn /\ Len(sc[h].out) <= OutCap
        /\ sc[h].pc = "open" /\ sc[h].done /\ left \subseteq Clients
        /\ UNCHANGED <<signalClient, frames, latest>>
    BY DEF IInv, TypeOK, UnregisterHost, Conns
  <1>1. sc' = [sc EXCEPT ![h] = d]
    BY DEF UnregisterHost
  <1>2. /\ signalHosts' = IF signalHosts = h THEN None ELSE signalHosts
        /\ owed' \subseteq Clients
    BY <1>0 DEF UnregisterHost, TypeOK
  <1>3. \A c \in left : sc[c].pc = "open"
    BY <1>0, RelayAssumption DEF RoutesFollowLatest, Conns
  <1> HIDE DEF left
  <1>4. /\ d \in SignalConn /\ Handed(d) = Handed(sc[h])
        /\ d.pc \in {"ending", "gone"} /\ d.id = sc[h].id /\ d.out = sc[h].out
        /\ d.closing = sc[h].closing /\ d.done = sc[h].done
        /\ d.left = left \/ d.left = sc[h].left
    <2>1. CASE signalHosts = h
      <3>1. d \in SignalConn /\ Handed(d) = Handed(sc[h])
        BY <1>0, <2>1, ConnUpdates
      <3> QED BY <1>0, <2>1, <3>1 DEF SignalConn
    <2>2. CASE signalHosts # h
      <3>1. d \in SignalConn /\ Handed(d) = Handed(sc[h])
        BY <1>0, <2>2, ConnUpdates
      <3> QED BY <1>0, <2>2, <3>1 DEF SignalConn
    <2> QED BY <2>1, <2>2
  <1> HIDE DEF d
  <1>5. Moved(sc[h], d)
    BY <1>0, <1>4 DEF Moved
  <1>6. /\ sc' \in [Conns -> SignalConn] /\ sc'[h] = d
        /\ \A y \in Conns : y # h => sc'[y] = sc[y]
        /\ \A y \in Conns : Moved(sc[y], sc'[y])
    BY <1>0, <1>1, <1>5, OneConn
  <1>7. /\ Hosts \subseteq Conns /\ Clients \subseteq Conns /\ h \notin Clients /\ None \notin Conns
    BY RelayAssumption DEF Conns
  <1>8. \A c \in Clients : sc'[c] = sc[c]
    BY <1>6, <1>7
  <1>9. TypeOK'
    BY <1>0, <1>2, <1>6 DEF TypeOK, Moved
  <1>10. Honest'
    <2>1. \A y \in Conns : \A f \in Handed(sc'[y]) : f \in Handed(sc[y])
      BY <1>4, <1>6
    <2> QED BY <1>6, <2>1, HonestStep
  <1>11. Named'
    <2>1. \A x \in Hosts : \A c \in sc'[x].left : sc'[c].pc # "none"
      <3> TAKE x \in Hosts
      <3>1. sc'[x].left = sc[x].left \/ sc'[x].left = left
        BY <1>4, <1>6, <1>7
      <3>2. sc[x].left \subseteq Clients
        BY <1>0, <1>7 DEF TypeOK, SignalConn
      <3> QED BY <1>0, <1>3, <1>8, <3>1, <3>2 DEF Named
    <2>2. \A i \in Ids : latest'[i] # None => sc'[latest'[i]].pc \in {"open", "gone"}
      BY <1>0, <1>8 DEF Named, TypeOK
    <2> QED BY <1>0, <1>8, <2>1, <2>2 DEF Named
  <1>12. RoutesFollowLatest'
    <2>1. signalHosts' # None => sc'[signalHosts'].pc = "open"
      BY <1>0, <1>2, <1>6, <1>7 DEF RoutesFollowLatest, TypeOK
    <2>2. ASSUME NEW x \in Hosts, Live(x)' PROVE signalHosts' = x
      <3>1. x # h
        BY <1>4, <1>6, <2>2 DEF Live
      <3>2. Live(x)
        BY <1>6, <1>7, <2>2, <3>1 DEF Live
      <3> QED BY <1>0, <1>2, <3>1, <3>2 DEF RoutesFollowLatest
    <2>3. \A i \in Ids : signalClient'[i] # None =>
             sc'[signalClient'[i]].pc = "open" /\ sc'[signalClient'[i]].id = i
      BY <1>0, <1>8 DEF RoutesFollowLatest, TypeOK
    <2>4. ASSUME NEW i \in Ids, latest'[i] # None, Live(latest[i])'
          PROVE  signalClient'[i] = latest'[i]
      <3>1. latest[i] \in Clients /\ latest'[i] = latest[i] /\ latest[i] # None
        BY <1>0, <1>7, <2>4 DEF TypeOK
      <3>2. Live(latest[i])
        BY <1>8, <2>4, <3>1 DEF Live
      <3> QED BY <1>0, <3>1, <3>2 DEF RoutesFollowLatest
    <2> QED BY <2>1, <2>2, <2>3, <2>4 DEF RoutesFollowLatest, Live
  <1> QED BY <1>9, <1>10, <1>11, <1>12 DEF IInv

----------------------------------------------------------------------------
(***************************************************************************)
(* The theorems.                                                           *)
(***************************************************************************)

\* The relay starts without connections.
LEMMA InitInv == Init => IInv
  <1> SUFFICES ASSUME Init PROVE IInv
    OBVIOUS
  <1> DEFINE c0 == [pc |-> "none", id |-> None, out |-> <<>>, got |-> {},
                    left |-> {}, closing |-> FALSE, done |-> FALSE]
  <1>1. c0 \in SignalConn /\ Len(c0.out) = 0 /\ c0.pc = "none" /\ c0.left = {}
    BY DEF SignalConn
  <1>2. Handed(c0) = {}
    BY DEF Handed
  <1>3. sc = [x \in Conns |-> c0]
    BY DEF Init
  <1> HIDE DEF c0
  <1>4. \A x \in Conns : sc[x] = c0
    BY <1>3
  <1>5. TypeOK
    <2>1. sc \in [Conns -> SignalConn]
      BY <1>1, <1>3
    <2>2. \A x \in Conns : Len(sc[x].out) <= OutCap
      BY <1>1, <1>4, RelayAssumption
    <2> QED BY <2>1, <2>2 DEF Init, TypeOK
  <1>6. Named
    BY <1>1, <1>4 DEF Init, Named, Conns
  <1>7. Honest
    BY <1>2, <1>4 DEF Honest
  <1>8. RoutesFollowLatest
    BY <1>1, <1>4 DEF Init, RoutesFollowLatest, Live, Conns
  <1> QED BY <1>5, <1>6, <1>7, <1>8 DEF IInv

\* Every step keeps the invariant.
LEMMA NextInv == IInv /\ [Next]_vars => IInv'
  <1> SUFFICES ASSUME IInv, [Next]_vars PROVE IInv'
    OBVIOUS
  <1>1. ASSUME NEW x \in Conns, NEW i \in Ids \cup {None}, Auth(x, i) PROVE IInv'
    BY <1>1, AuthStep
  <1>2. ASSUME NEW x \in Conns, Reject(x) PROVE IInv'
    BY <1>2, RejectStep
  <1>3. ASSUME NEW h \in Hosts, RegisterHost(h) PROVE IInv'
    BY <1>3, RegisterHostStep
  <1>4. ASSUME NEW c \in Clients, RegisterClient(c) PROVE IInv'
    BY <1>4, RegisterClientStep
  <1>5. ASSUME NEW x \in Conns, RoutePing(x) PROVE IInv'
    BY <1>5, RoutePingStep
  <1>6. ASSUME NEW h \in Hosts, NEW i \in Ids, RouteFromHost(h, i) PROVE IInv'
    BY <1>6, RouteFromHostStep
  <1>7. ASSUME NEW c \in Clients, NEW type \in {"jingle", "other", "broken"},
               NEW i \in Ids \cup {None}, RouteFromClient(c, type, i)
        PROVE  IInv'
    BY <1>7, RouteFromClientStep
  <1>8. ASSUME NEW x \in Conns, Writer(x) PROVE IInv'
    BY <1>8, WriterStep
  <1>9. ASSUME NEW x \in Conns, Close(x) PROVE IInv'
    BY <1>9, CloseStep
  <1>10. ASSUME NEW x \in Conns, Break(x) PROVE IInv'
    BY <1>10, BreakStep
  <1>11. ASSUME NEW h \in Hosts, UnregisterHost(h) PROVE IInv'
    BY <1>11, UnregisterHostStep
  <1>12. ASSUME NEW h \in Hosts, CloseClients(h) PROVE IInv'
    BY <1>12, CloseClientsStep
  <1>13. ASSUME NEW c \in Clients, UnregisterClient(c) PROVE IInv'
    BY <1>13, UnregisterClientStep
  <1>14. CASE UNCHANGED vars
    BY <1>14 DEF vars, IInv, TypeOK, Named, Honest, HonestFrame, RoutesFollowLatest, Live
  <1> QED
    BY <1>1, <1>2, <1>3, <1>4, <1>5, <1>6, <1>7, <1>8, <1>9, <1>10, <1>11, <1>12, <1>13,
       <1>14 DEF Next

\* The invariant holds throughout.
LEMMA Invariant == Spec => []IInv
  BY InitInv, NextInv, PTL DEF Spec

\* The types: in particular signalConn.out never exceeds its capacity.
THEOREM RelayTypeCorrect == Spec => []TypeOK
  <1>1. IInv => TypeOK
    BY DEF IInv
  <1> QED BY <1>1, Invariant, PTL

\* signalHosts and signalClient: a route leads to a connection registered under
\* that id, a live host connection is the device's host, and the latest client
\* connection of an id is routed to as long as it lives, whatever the order in
\* which the connections it replaced come to an end.
THEOREM RoutesCorrect == Spec => []RoutesFollowLatest
  <1>1. IInv => RoutesFollowLatest
    BY DEF IInv
  <1> QED BY <1>1, Invariant, PTL

\* routeSignalMessage and injectClientID: what the host reads as client_id is the
\* id of the connection the frame came from, only a frame that is not an object
\* has none, and a client is given only the host's frames for its own id.
THEOREM RelayHonest == Spec => []FramesKeepTheirClient
  <1>1. IInv => FramesKeepTheirClient
    <2> SUFFICES ASSUME IInv PROVE FramesKeepTheirClient
      OBVIOUS
    <2>1. \A x \in Conns : \A f \in sc[x].got : HonestFrame(x, f)
      BY DEF IInv, Honest, Handed
    <2>2. \A h \in Hosts, f \in Frame :
             f \in sc[h].got /\ f.from \in Clients =>
                 f.id = IF f.type = "jingle" THEN sc[f.from].id ELSE None
      BY <2>1 DEF HonestFrame, Conns
    <2>3. \A c \in Clients, f \in Frame :
             f \in sc[c].got /\ f.type = "jingle" => f.id = sc[c].id /\ f.from \in Hosts
      BY <2>1 DEF HonestFrame, Conns
    <2> QED BY <2>2, <2>3 DEF FramesKeepTheirClient
  <1> QED BY <1>1, Invariant, PTL

----------------------------------------------------------------------------
(***************************************************************************)
(* Presence.  AnnouncedOnce is not inductive: where a goroutine goes on    *)
(* after State could be left over from an earlier call, so Oriented says   *)
(* when it counts, and AnnounceInv counts the goroutines that owe an       *)
(* announcement without regard to their server process.  The types are not *)
(* inductive either: a ping marks the connection's server process, which   *)
(* runs because of Housed.                                                 *)
(***************************************************************************)

\* Process record x is about to announce with step s, or on its way there.
Owes(x, s) == x.pc = s \/ x.next = s

Owing(s) == {p \in Procs : Owes(proc[p], s)}

\* Where State goes on is remembered only while State runs, and after it only
\* by the step it went on to.
Oriented(x) ==
    /\ x.next \in {"none", "remember", "forget", "publishOff"}
    /\ x.pc \in {"readHb", "readWs", "readInst", "cleanup"} \/ x.next \in {"none", x.pc}

\* Process p works only where a server process runs, a watcher in its own.
InPlace(p, x) ==
    /\ x.pc # "none" => x.at \in running
    /\ p \in Instances => x.at = p

Housed == \A p \in Procs : InPlace(p, proc[p])

\* What was announced, what is owed and what nobody will announce make up what
\* known_online says.
AnnounceInv ==
    /\ \A p \in Procs : Oriented(proc[p])
    /\ IsFiniteSet(Owing("publishOn")) /\ IsFiniteSet(Owing("publishOff"))
    /\ net + Cardinality(Owing("publishOn")) - Cardinality(Owing("publishOff"))
          = (IF known THEN 1 ELSE 0) - unsaid

\* The records that the steps of a process make.
LEMMA ProcessUpdates ==
    ASSUME NEW x \in Process
    PROVE  /\ \A i \in Instances, s \in States :
                 /\ At(i, s) \in Process
                 /\ At(i, s).pc = s /\ At(i, s).next = "none" /\ At(i, s).at = i
           /\ \A i \in Instances, s \in States :
                 LET y == [At(i, "readHb") EXCEPT !.next = s] IN
                 y \in Process /\ y.pc = "readHb" /\ y.next = s /\ y.at = i
           /\ x.pc \in States /\ x.next \in States /\ x.at \in Instances
           /\ x.live \subseteq Instances
  <1>1. ASSUME NEW i \in Instances, NEW s \in States
        PROVE  /\ At(i, s) \in Process
               /\ At(i, s).pc = s /\ At(i, s).next = "none" /\ At(i, s).at = i
    BY DEF At, Process, States
  <1>2. ASSUME NEW i \in Instances, NEW s \in States
        PROVE  LET y == [At(i, "readHb") EXCEPT !.next = s] IN
               y \in Process /\ y.pc = "readHb" /\ y.next = s /\ y.at = i
    BY DEF At, Process, States
  <1>3. /\ x.pc \in States /\ x.next \in States /\ x.at \in Instances
        /\ x.live \subseteq Instances
    BY DEF Process
  <1> QED BY <1>1, <1>2, <1>3

\* Only process p moves, to y.
Moves(p, y) ==
    /\ y \in Process
    /\ proc' = [proc EXCEPT ![p] = y]

\* What a step makes of the process that takes it.
LEMMA StateMoves ==
    ASSUME PresenceTypeOK, NEW p \in Procs, State(p)
    PROVE  \E y : /\ Moves(p, y)
                  /\ proc[p].pc \in {"readHb", "readWs", "readInst", "cleanup"}
                  /\ y.next = proc[p].next /\ y.at = proc[p].at
                  /\ y.pc \in {"readWs", "readInst", "cleanup", proc[p].next}
                  /\ wsInst' \subseteq Instances
                  /\ UNCHANGED <<hb, instKey, known, server, host, told, missed>>
                  /\ faults' \in Nat
  <1> DEFINE x == proc[p]
  <1>0. /\ proc \in [Procs -> Process] /\ x \in Process /\ wsInst \subseteq Instances
        /\ instKey \subseteq Instances /\ hb \in BOOLEAN /\ faults \in Nat
    BY DEF PresenceTypeOK
  <1>1. CASE ReadHb(p)
    <2> DEFINE y == [x EXCEPT !.pc = "readWs", !.sawHb = hb]
               z == [x EXCEPT !.pc = "readWs"]
    <2>1. /\ y \in Process /\ y.next = x.next /\ y.at = x.at /\ y.pc = "readWs"
          /\ z \in Process /\ z.next = x.next /\ z.at = x.at /\ z.pc = "readWs"
      BY <1>0 DEF Process, States
    <2>2. Moves(p, y) \/ Moves(p, z)
      BY <1>1, <2>1 DEF ReadHb, Moves
    <2>3. /\ x.pc = "readHb" /\ wsInst' = wsInst /\ faults' \in Nat
          /\ UNCHANGED <<hb, instKey, known, server, host, told, missed>>
      BY <1>0, <1>1 DEF ReadHb, Fault, redis
    <2> HIDE DEF y, z
    <2> QED BY <1>0, <2>1, <2>2, <2>3
  <1>2. CASE ReadWs(p)
    <2> DEFINE z(w) == [x EXCEPT !.live = w, !.pc = IF w = {} THEN x.next ELSE "readInst"]
    <2>1. PICK w \in {wsInst, {}} : proc' = [proc EXCEPT ![p] = z(w)]
      BY <1>2 DEF ReadWs
    <2> DEFINE y == z(w)
    <2>2. y \in Process /\ y.next = x.next /\ y.at = x.at /\ y.pc \in {x.next, "readInst"}
      BY <1>0 DEF Process, States
    <2>3. Moves(p, y)
      BY <2>1, <2>2 DEF Moves
    <2>4. /\ x.pc = "readWs" /\ wsInst' = wsInst /\ faults' \in Nat
          /\ UNCHANGED <<hb, instKey, known, server, host, told, missed>>
      BY <1>0, <1>2 DEF ReadWs, Fault, redis
    <2> HIDE DEF y, z
    <2> QED BY <1>0, <2>2, <2>3, <2>4
  <1>3. CASE ReadInst(p)
    <2> DEFINE z(g) == [x EXCEPT !.live = x.live \ g, !.stale = g,
                                 !.pc = IF g = {} THEN x.next ELSE "cleanup"]
    <2>1. PICK gone \in {x.live \ instKey, x.live} : proc' = [proc EXCEPT ![p] = z(gone)]
      BY <1>3 DEF ReadInst
    <2> DEFINE y == z(gone)
    <2>2. y \in Process /\ y.next = x.next /\ y.at = x.at /\ y.pc \in {x.next, "cleanup"}
      BY <1>0 DEF Process, States
    <2>3. Moves(p, y)
      BY <2>1, <2>2 DEF Moves
    <2>4. /\ x.pc = "readInst" /\ wsInst' = wsInst /\ faults' \in Nat
          /\ UNCHANGED <<hb, instKey, known, server, host, told, missed>>
      BY <1>0, <1>3 DEF ReadInst, Fault, redis
    <2> HIDE DEF y, z
    <2> QED BY <1>0, <2>2, <2>3, <2>4
  <1>4. CASE Cleanup(p)
    <2> DEFINE y == [x EXCEPT !.stale = {}, !.pc = x.next]
    <2>1. y \in Process /\ y.next = x.next /\ y.at = x.at /\ y.pc = x.next
      BY <1>0 DEF Process, States
    <2>2. Moves(p, y)
      BY <1>4, <2>1 DEF Cleanup, Moves
    <2>3. /\ x.pc = "cleanup" /\ wsInst' \subseteq wsInst /\ faults' \in Nat
          /\ UNCHANGED <<hb, instKey, known, server, host, told, missed>>
      BY <1>0, <1>4 DEF Cleanup, Fault
    <2> HIDE DEF y
    <2> QED BY <1>0, <2>1, <2>2, <2>3
  <1> QED BY <1>1, <1>2, <1>3, <1>4 DEF State

\* One process more or less owes an announcement, or as many as before.
LEMMA OwingMoves ==
    ASSUME PresenceTypeOK, NEW p \in Procs, NEW y, Moves(p, y), NEW s, IsFiniteSet(Owing(s))
    PROVE  /\ IsFiniteSet(Owing(s)')
           /\ Owes(y, s) <=> Owes(proc[p], s) => Owing(s)' = Owing(s)
           /\ Owes(y, s) /\ ~Owes(proc[p], s) =>
                 Cardinality(Owing(s)') = Cardinality(Owing(s)) + 1
           /\ ~Owes(y, s) /\ Owes(proc[p], s) =>
                 Cardinality(Owing(s)') = Cardinality(Owing(s)) - 1
  <1>1. proc'[p] = y /\ \A q \in Procs \ {p} : proc'[q] = proc[q]
    BY DEF PresenceTypeOK, Moves
  <1>2. CASE Owes(y, s) <=> Owes(proc[p], s)
    <2>1. Owing(s)' = Owing(s)
      BY <1>1, <1>2 DEF Owing, Owes
    <2> QED BY <1>2, <2>1
  <1>3. CASE Owes(y, s) /\ ~Owes(proc[p], s)
    <2>1. Owing(s)' = Owing(s) \cup {p} /\ p \notin Owing(s)
      BY <1>1, <1>3 DEF Owing, Owes
    <2> QED BY <1>3, <2>1, FS_AddElement
  <1>4. CASE ~Owes(y, s) /\ Owes(proc[p], s)
    <2>1. Owing(s)' = Owing(s) \ {p} /\ p \in Owing(s)
      BY <1>1, <1>4 DEF Owing, Owes
    <2> QED BY <1>4, <2>1, FS_RemoveElement
  <1> QED BY <1>2, <1>3, <1>4

\* A step that announces nothing and remembers nothing.
LEMMA QuietMove ==
    ASSUME PresenceTypeOK, AnnounceInv, NEW p \in Procs, NEW y, Moves(p, y), Oriented(y),
           UNCHANGED <<net, known, unsaid>>,
           Owes(y, "publishOn") <=> Owes(proc[p], "publishOn"),
           Owes(y, "publishOff") <=> Owes(proc[p], "publishOff")
    PROVE  AnnounceInv'
  <1>1. \A q \in Procs : Oriented(proc'[q])
    BY DEF PresenceTypeOK, Moves, AnnounceInv
  <1>2. Owing("publishOn")' = Owing("publishOn") /\ Owing("publishOff")' = Owing("publishOff")
    BY OwingMoves DEF AnnounceInv
  <1>3. \A q \in Procs : Oriented(proc[q])'
    BY <1>1 DEF Oriented
  <1> QED BY <1>2, <1>3 DEF AnnounceInv

\* A step in which p comes to owe nothing, and owed nothing.
LEMMA IdleMove ==
    ASSUME PresenceTypeOK, AnnounceInv, NEW p \in Procs, NEW y, Moves(p, y), Oriented(y),
           UNCHANGED <<net, known, unsaid>>, y.pc \notin {"publishOn", "publishOff"},
           y.next # "publishOff",
           proc[p].pc \in States \ {"readHb", "readWs", "readInst", "cleanup",
                                    "publishOn", "publishOff"}
    PROVE  AnnounceInv'
  <1>1. ~Owes(proc[p], "publishOn") /\ ~Owes(proc[p], "publishOff")
    BY DEF AnnounceInv, Oriented, Owes
  <1>2. ~Owes(y, "publishOn") /\ ~Owes(y, "publishOff")
    BY DEF Oriented, Owes
  <1> QED BY <1>1, <1>2, QuietMove

\* A step that moves no process.
LEMMA NoMove ==
    ASSUME AnnounceInv, UNCHANGED <<proc, net, known, unsaid>>
    PROVE  AnnounceInv'
  BY DEF AnnounceInv, Owing, Owes, Oriented

\* The steps that decide about known_online: whoever changes it owes the
\* announcement.
LEMMA AnnounceDecided ==
    ASSUME PresenceTypeOK, AnnounceInv, NEW p \in Procs, Remember(p) \/ Forget(p)
    PROVE  AnnounceInv' /\ \E y : Moves(p, y) /\ y.at = proc[p].at
  <1> DEFINE x == proc[p]
             on == Cardinality(Owing("publishOn"))
             off == Cardinality(Owing("publishOff"))
  <1>0. /\ x \in Process /\ known \in BOOLEAN /\ net \in Int /\ unsaid \in Int
        /\ x.at \in Instances
        /\ on \in Nat /\ off \in Nat
        /\ IsFiniteSet(Owing("publishOn")) /\ IsFiniteSet(Owing("publishOff"))
        /\ x.pc \in {"remember", "forget"} /\ x.next \in {"none", x.pc}
        /\ \A q \in Procs : Oriented(proc[q])
    BY FS_CardinalityType, ProcessUpdates
       DEF PresenceTypeOK, AnnounceInv, Remember, Forget, Oriented
  <1>1. ~Owes(x, "publishOn") /\ ~Owes(x, "publishOff")
    BY <1>0 DEF Owes
  <1>2. /\ \A s \in States : /\ At(x.at, s) \in Process /\ At(x.at, s).pc = s
                             /\ At(x.at, s).next = "none" /\ At(x.at, s).at = x.at
        /\ \A s \in States : LET y == [At(x.at, "readHb") EXCEPT !.next = s] IN
              y \in Process /\ y.pc = "readHb" /\ y.next = s /\ y.at = x.at
    BY <1>0, ProcessUpdates
  <1>3. CASE Remember(p)
    <2>1. CASE SeesOnline(p) /\ ~known
      <3> DEFINE y == At(x.at, "publishOn")
      <3>1. /\ Moves(p, y) /\ known' /\ UNCHANGED <<net, unsaid>>
            /\ y.pc = "publishOn" /\ y.next = "none" /\ y.at = x.at
        BY <1>2, <1>3, <2>1 DEF Remember, Goto, Moves, told, States
      <3> HIDE DEF y
      <3>2. Owes(y, "publishOn") /\ ~Owes(y, "publishOff") /\ Oriented(y)
        BY <3>1 DEF Owes, Oriented
      <3>3. /\ IsFiniteSet(Owing("publishOn")') /\ IsFiniteSet(Owing("publishOff")')
            /\ Cardinality(Owing("publishOn")') = on + 1
            /\ Owing("publishOff")' = Owing("publishOff")
        BY <1>0, <1>1, <3>1, <3>2, OwingMoves
      <3>4. \A q \in Procs : Oriented(proc'[q])
        BY <1>0, <3>1, <3>2 DEF PresenceTypeOK, Moves
      <3>5. \A q \in Procs : Oriented(proc[q])'
        BY <3>4 DEF Oriented
      <3>6. net + on - off = -unsaid
        BY <1>0, <2>1 DEF AnnounceInv
      <3>7. net' + Cardinality(Owing("publishOn")') - Cardinality(Owing("publishOff")')
                 = 1 - unsaid'
        BY <1>0, <3>1, <3>3, <3>6
      <3>8. AnnounceInv'
        BY <3>1, <3>3, <3>5, <3>7 DEF AnnounceInv
      <3> QED BY <3>1, <3>8
    <2>2. CASE ~(SeesOnline(p) /\ ~known)
      <3> DEFINE y == At(x.at, AfterOnline(p))
      <3>1. /\ Moves(p, y) /\ UNCHANGED <<known, net, unsaid>>
            /\ y.pc \in {"open", "none"} /\ y.next = "none" /\ y.at = x.at
        <4>1. AfterOnline(p) \in {"open", "none"}
          BY DEF AfterOnline
        <4>2. y \in Process /\ y.pc = AfterOnline(p) /\ y.next = "none" /\ y.at = x.at
          BY <1>2, <4>1 DEF States
        <4>3. proc' = [proc EXCEPT ![p] = y] /\ UNCHANGED <<net, unsaid>>
          BY <1>3, <2>2 DEF Remember, Goto, told
        <4>4. known' = known
          BY <1>0, <1>3, <2>2, Zenon DEF Remember
        <4> QED BY <4>1, <4>2, <4>3, <4>4 DEF Moves
      <3> HIDE DEF y
      <3>2. Oriented(y)
        BY <3>1 DEF Oriented
      <3> QED BY <1>0, <3>1, <3>2, IdleMove DEF States
    <2> QED BY <2>1, <2>2
  <1>4. CASE Forget(p)
    <2>1. CASE ~SeesOnline(p) /\ known
      <3> DEFINE y == IF p \in Instances
                      THEN [At(x.at, "readHb") EXCEPT !.next = "publishOff"]
                      ELSE At(x.at, "publishOff")
      <3>1. /\ y \in Process /\ y.at = x.at
            /\ \/ y.pc = "publishOff" /\ y.next = "none"
               \/ y.pc = "readHb" /\ y.next = "publishOff"
        BY <1>2 DEF States
      <3>2. Moves(p, y) /\ ~known' /\ UNCHANGED <<net, unsaid>>
        BY <1>4, <2>1, <3>1 DEF Forget, Goto, CallState, Moves, told
      <3> HIDE DEF y
      <3>3. ~Owes(y, "publishOn") /\ Owes(y, "publishOff") /\ Oriented(y)
        BY <3>1 DEF Owes, Oriented
      <3>4. /\ IsFiniteSet(Owing("publishOn")') /\ IsFiniteSet(Owing("publishOff")')
            /\ Owing("publishOn")' = Owing("publishOn")
            /\ Cardinality(Owing("publishOff")') = off + 1
        BY <1>0, <1>1, <3>2, <3>3, OwingMoves
      <3>5. \A q \in Procs : Oriented(proc'[q])
        BY <1>0, <3>2, <3>3 DEF PresenceTypeOK, Moves
      <3>6. \A q \in Procs : Oriented(proc[q])'
        BY <3>5 DEF Oriented
      <3>7. net + on - off = 1 - unsaid
        BY <2>1 DEF AnnounceInv
      <3>8. net' + Cardinality(Owing("publishOn")') - Cardinality(Owing("publishOff")')
                 = -unsaid'
        BY <1>0, <3>2, <3>4, <3>7
      <3>9. AnnounceInv'
        <4>1. (IF known' THEN 1 ELSE 0) - unsaid' = -unsaid'
          BY <1>0, <3>2
        <4> QED BY <3>4, <3>6, <3>8, <4>1 DEF AnnounceInv
      <3> QED BY <3>1, <3>2, <3>9
    <2>2. CASE SeesOnline(p) \/ ~known
      <3> DEFINE y == IF SeesOnline(p) /\ p \in Instances
                      THEN [At(x.at, "readHb") EXCEPT !.next = "none"]
                      ELSE At(x.at, "none")
      <3>1. /\ y \in Process /\ y.pc \in {"none", "readHb"} /\ y.next = "none"
            /\ y.at = x.at
        BY <1>2 DEF States
      <3>2. Moves(p, y) /\ UNCHANGED <<known, net, unsaid>>
        BY <1>0, <1>4, <2>2, <3>1 DEF Forget, Goto, CallState, Moves, told
      <3> HIDE DEF y
      <3>3. Oriented(y)
        BY <3>1 DEF Oriented
      <3> QED BY <1>0, <3>1, <3>2, <3>3, IdleMove DEF States
    <2> QED BY <2>1, <2>2
  <1> QED BY <1>3, <1>4

\* An SADD or SREM that fails is owed no announcement, whether it was carried
\* out or not.
LEMMA AnnounceUnsaid ==
    ASSUME PresenceTypeOK, AnnounceInv, NEW p \in Procs, RememberFails(p) \/ ForgetFails(p)
    PROVE  AnnounceInv' /\ \E y : Moves(p, y) /\ y.at = proc[p].at
  <1> DEFINE x == proc[p]
             on == Cardinality(Owing("publishOn"))
             off == Cardinality(Owing("publishOff"))
  <1>0. /\ x \in Process /\ known \in BOOLEAN /\ net \in Int /\ unsaid \in Int
        /\ x.at \in Instances /\ on \in Nat /\ off \in Nat
        /\ IsFiniteSet(Owing("publishOn")) /\ IsFiniteSet(Owing("publishOff"))
        /\ x.pc \in {"remember", "forget"} /\ x.next \in {"none", x.pc}
        /\ \A q \in Procs : Oriented(proc[q])
        /\ net + on - off = (IF known THEN 1 ELSE 0) - unsaid
    BY FS_CardinalityType, ProcessUpdates
       DEF PresenceTypeOK, AnnounceInv, RememberFails, ForgetFails, Oriented
  <1>1. ~Owes(x, "publishOn") /\ ~Owes(x, "publishOff")
    BY <1>0 DEF Owes
  <1>2. PICK s \in {"open", "none"} : Goto(p, s)
    BY DEF RememberFails, ForgetFails, AfterOnline
  <1> DEFINE y == At(x.at, s)
  <1>3. Moves(p, y) /\ y.pc \in {"open", "none"} /\ y.next = "none" /\ y.at = x.at
    BY <1>0, <1>2, ProcessUpdates DEF Goto, Moves, States
  <1> HIDE DEF y
  <1>4. ~Owes(y, "publishOn") /\ ~Owes(y, "publishOff") /\ Oriented(y)
    BY <1>3 DEF Owes, Oriented
  <1>5. /\ Owing("publishOn")' = Owing("publishOn")
        /\ Owing("publishOff")' = Owing("publishOff")
    BY <1>0, <1>1, <1>3, <1>4, OwingMoves
  <1>6. \A q \in Procs : Oriented(proc'[q])
    BY <1>0, <1>3, <1>4 DEF PresenceTypeOK, Moves
  <1>7. \A q \in Procs : Oriented(proc[q])'
    BY <1>6 DEF Oriented
  <1>8. net' = net /\ (IF known' THEN 1 ELSE 0) - unsaid' = (IF known THEN 1 ELSE 0) - unsaid
    <2>1. PICK online \in BOOLEAN : AnswerLost(online)
      BY DEF RememberFails, ForgetFails
    <2>2. CASE UNCHANGED <<known, unsaid>>
      BY <2>1, <2>2 DEF AnswerLost
    <2>3. CASE /\ known # online /\ known' = online
               /\ unsaid' = IF online THEN unsaid + 1 ELSE unsaid - 1
      <3>1. CASE online
        <4>1. ~known /\ known' /\ unsaid' = unsaid + 1
          BY <1>0, <2>3, <3>1, Zenon
        <4> QED BY <1>0, <2>1, <4>1 DEF AnswerLost
      <3>2. CASE ~online
        <4>1. known /\ ~known' /\ unsaid' = unsaid - 1
          BY <1>0, <2>1, <2>3, <3>2, Zenon
        <4> QED BY <1>0, <2>1, <4>1 DEF AnswerLost
      <3> QED BY <3>1, <3>2
    <2> QED BY <2>1, <2>2, <2>3 DEF AnswerLost
  <1>9. AnnounceInv'
    BY <1>0, <1>5, <1>7, <1>8 DEF AnnounceInv
  <1> QED BY <1>3, <1>9

\* An announcement is made by one that is owed.
LEMMA AnnounceMade ==
    ASSUME PresenceTypeOK, AnnounceInv, NEW p \in Procs, PublishOn(p) \/ PublishOff(p)
    PROVE  AnnounceInv' /\ \E y : Moves(p, y) /\ y.at = proc[p].at
  <1> DEFINE x == proc[p]
             on == Cardinality(Owing("publishOn"))
             off == Cardinality(Owing("publishOff"))
  <1>0. /\ x \in Process /\ known \in BOOLEAN /\ net \in Int /\ unsaid \in Int
        /\ x.at \in Instances
        /\ on \in Nat /\ off \in Nat
        /\ IsFiniteSet(Owing("publishOn")) /\ IsFiniteSet(Owing("publishOff"))
        /\ x.pc \in {"publishOn", "publishOff"} /\ x.next \in {"none", x.pc}
        /\ x.next # "publishOn"
        /\ \A q \in Procs : Oriented(proc[q])
        /\ net + on - off = (IF known THEN 1 ELSE 0) - unsaid
    BY FS_CardinalityType, ProcessUpdates
       DEF PresenceTypeOK, AnnounceInv, PublishOn, PublishOff, Oriented
  <1>1. \E s \in {"open", "none"} : LET y == At(x.at, s) IN
           /\ Moves(p, y) /\ y.pc \in {"open", "none"} /\ y.next = "none"
           /\ y.at = x.at
    <2>1. \A s \in {"open", "none"} : /\ At(x.at, s) \in Process /\ At(x.at, s).pc = s
                                      /\ At(x.at, s).next = "none" /\ At(x.at, s).at = x.at
      BY <1>0, ProcessUpdates DEF States
    <2> QED BY <2>1 DEF PublishOn, PublishOff, Goto, AfterOnline, Moves
  <1>2. PICK y : Moves(p, y) /\ y.pc \in {"open", "none"} /\ y.next = "none" /\ y.at = x.at
    BY <1>1
  <1>3. ~Owes(y, "publishOn") /\ ~Owes(y, "publishOff") /\ Oriented(y)
    BY <1>2 DEF Owes, Oriented
  <1>4. \A q \in Procs : Oriented(proc'[q])
    BY <1>0, <1>2, <1>3 DEF PresenceTypeOK, Moves
  <1>5. \A q \in Procs : Oriented(proc[q])'
    BY <1>4 DEF Oriented
  <1>6. IsFiniteSet(Owing("publishOn")') /\ IsFiniteSet(Owing("publishOff")')
    BY <1>0, <1>2, OwingMoves
  <1>7. UNCHANGED <<known, unsaid>>
    BY DEF PublishOn, PublishOff, Announce, redis
  <1>8. CASE PublishOn(p)
    <2>1. x.pc = "publishOn" /\ net' = net + 1
      BY <1>8 DEF PublishOn, Announce
    <2>2. Owes(x, "publishOn") /\ ~Owes(x, "publishOff")
      BY <1>0, <2>1 DEF Owes
    <2>3. /\ Cardinality(Owing("publishOn")') = on - 1
          /\ Owing("publishOff")' = Owing("publishOff")
      BY <1>0, <1>2, <1>3, <2>2, OwingMoves
    <2>4. net' + Cardinality(Owing("publishOn")') - Cardinality(Owing("publishOff")')
             = net + on - off
      BY <1>0, <2>1, <2>3
    <2> QED BY <1>0, <1>2, <1>5, <1>6, <1>7, <2>4 DEF AnnounceInv
  <1>9. CASE PublishOff(p)
    <2>1. x.pc = "publishOff" /\ net' = net - 1
      BY <1>9 DEF PublishOff, Announce
    <2>2. ~Owes(x, "publishOn") /\ Owes(x, "publishOff")
      BY <1>0, <2>1 DEF Owes
    <2>3. /\ Cardinality(Owing("publishOff")') = off - 1
          /\ Owing("publishOn")' = Owing("publishOn")
      BY <1>0, <1>2, <1>3, <2>2, OwingMoves
    <2>4. net' + Cardinality(Owing("publishOn")') - Cardinality(Owing("publishOff")')
             = net + on - off
      BY <1>0, <2>1, <2>3
    <2> QED BY <1>0, <1>2, <1>5, <1>6, <1>7, <2>4 DEF AnnounceInv
  <1> QED BY <1>2, <1>8, <1>9

\* The other steps of a process: none of them owes anything before or after.
LEMMA WorkMoves ==
    ASSUME PresenceAssumption, PresenceTypeOK, Housed, NEW p \in Procs, NEW i \in Instances,
           \/ p \in HostConns /\ RegisterSignalConn(p, i)
           \/ p \in HostConns /\ Connection(p)
           \/ p = Beat /\ Heartbeat(i)
           \/ p = i /\ HandleExpiry(i)
    PROVE  \E y : /\ Moves(p, y) /\ Oriented(y) /\ InPlace(p, y)
                  /\ y.pc \notin {"publishOn", "publishOff"} /\ y.next # "publishOff"
                  /\ proc[p].pc \in {"none", "mark", "open", "unmark"}
                  /\ UNCHANGED <<net, known, unsaid>>
  <1> DEFINE x == proc[p]
             plain(s, j) == At(j, s)
             call(s, j) == [At(j, "readHb") EXCEPT !.next = s]
  <1>0. x \in Process /\ x.at \in Instances
    BY ProcessUpdates DEF PresenceTypeOK
  <1>1. \A j \in Instances, s \in States :
           /\ plain(s, j) \in Process /\ plain(s, j).pc = s /\ plain(s, j).next = "none"
           /\ plain(s, j).at = j /\ call(s, j).at = j
           /\ call(s, j) \in Process /\ call(s, j).pc = "readHb" /\ call(s, j).next = s
    BY <1>0, ProcessUpdates
  <1>2. /\ x.pc \in {"none", "mark", "open", "unmark"}
        /\ UNCHANGED <<net, known, unsaid>>
    BY DEF RegisterSignalConn, Connection, MarkWSConnected, UnregisterSignalConn,
           MarkWSDisconnected, Heartbeat, HandleExpiry, redis, told
  <1> DEFINE moved(j) ==
                \/ \E s \in {"none", "mark", "open", "unmark"} :
                      proc' = [proc EXCEPT ![p] = plain(s, j)]
                \/ \E s \in {"remember", "forget"} : proc' = [proc EXCEPT ![p] = call(s, j)]
  <1>3. \E j \in Instances : /\ j \in running /\ (p \in Instances => j = p)
                             /\ moved(j)
    <2>1. CASE p \in HostConns /\ RegisterSignalConn(p, i)
      BY <2>1 DEF RegisterSignalConn, PresenceAssumption
    <2>2. CASE p \in HostConns /\ Connection(p)
      <3>1. x.pc # "none" /\ moved(x.at)
        BY <2>2 DEF Connection, MarkWSConnected, UnregisterSignalConn,
                    MarkWSDisconnected, Goto, CallState
      <3> HIDE DEF moved
      <3> QED BY <1>0, <2>2, <3>1 DEF Housed, InPlace, PresenceAssumption
    <2>3. CASE p = Beat /\ Heartbeat(i)
      BY <2>3 DEF Heartbeat, PresenceAssumption
    <2>4. CASE p = i /\ HandleExpiry(i)
      <3>1. i \in running /\ moved(x.at) /\ x.at = p
        BY <2>4 DEF HandleExpiry, CallState, PresenceTypeOK, Housed, InPlace
      <3> HIDE DEF moved
      <3> QED BY <2>4, <3>1
    <2> QED BY <2>1, <2>2, <2>3, <2>4
  <1> HIDE DEF plain, call
  <1>4. PICK j \in Instances : /\ j \in running /\ (p \in Instances => j = p)
                               /\ moved(j)
    BY <1>3
  <1>5. CASE \E s \in {"none", "mark", "open", "unmark"} :
                proc' = [proc EXCEPT ![p] = plain(s, j)]
    <2>1. PICK s \in {"none", "mark", "open", "unmark"} :
             proc' = [proc EXCEPT ![p] = plain(s, j)]
      BY <1>5
    <2>2. /\ plain(s, j) \in Process /\ plain(s, j).pc = s /\ plain(s, j).next = "none"
          /\ plain(s, j).at = j
      BY <1>1 DEF States
    <2> QED BY <1>2, <1>4, <2>1, <2>2 DEF Moves, Oriented, InPlace
  <1>6. CASE \E s \in {"remember", "forget"} : proc' = [proc EXCEPT ![p] = call(s, j)]
    <2>1. PICK s \in {"remember", "forget"} : proc' = [proc EXCEPT ![p] = call(s, j)]
      BY <1>6
    <2>2. /\ call(s, j) \in Process /\ call(s, j).pc = "readHb" /\ call(s, j).next = s
          /\ call(s, j).at = j
      BY <1>1 DEF States
    <2> QED BY <1>2, <1>4, <2>1, <2>2 DEF Moves, Oriented, InPlace
  <1> QED BY <1>4, <1>5, <1>6

\* The announcements that a dying server process owes are written off.
LEMMA CrashOwes ==
    ASSUME PresenceTypeOK, AnnounceInv, NEW i \in Instances, Crash(i)
    PROVE  AnnounceInv' /\ proc' \in [Procs -> Process]
  <1> DEFINE gone(s) == Pending(i, s)
  <1>0. /\ proc \in [Procs -> Process] /\ UNCHANGED <<known, unsaid>> /\ net \in Int
        /\ proc' = [p \in Procs |-> IF proc[p].at = i THEN At(i, "none") ELSE proc[p]]
        /\ IsFiniteSet(Owing("publishOn")) /\ IsFiniteSet(Owing("publishOff"))
    BY DEF PresenceTypeOK, Crash, redis, AnnounceInv
  <1>1. /\ At(i, "none") \in Process /\ At(i, "none").pc = "none"
        /\ At(i, "none").next = "none"
    <2>1. \E p : p \in Procs
      BY DEF Procs
    <2> QED BY <1>0, <2>1, ProcessUpdates DEF States
  <1>2. \A p \in Procs : /\ proc[p].at = i => proc'[p] = At(i, "none")
                         /\ proc[p].at # i => proc'[p] = proc[p]
    BY <1>0
  <1> HIDE DEF gone
  <1>3. ASSUME NEW s \in {"publishOn", "publishOff"}
        PROVE  Owing(s)' = Owing(s) \ gone(s) /\ gone(s) \subseteq Owing(s)
    <2>1. ~Owes(At(i, "none"), s)
      BY <1>1, <1>3 DEF Owes
    <2>2. gone(s) = {p \in Owing(s) : proc[p].at = i}
      BY DEF gone, Pending, Owing, Owes
    <2>3. Owing(s)' = {p \in Procs : Owes(proc'[p], s)}
      BY DEF Owing, Owes
    <2>4. Owing(s) = {p \in Procs : Owes(proc[p], s)}
      BY DEF Owing
    <2>5. ASSUME NEW p \in Procs
          PROVE  p \in Owing(s)' <=> p \in Owing(s) /\ proc[p].at # i
      BY <1>2, <2>1, <2>3, <2>4
    <2> QED BY <2>2, <2>3, <2>4, <2>5
  <1>4. ASSUME NEW s \in {"publishOn", "publishOff"}
        PROVE  /\ IsFiniteSet(Owing(s)') /\ Cardinality(gone(s)) \in Nat
               /\ Cardinality(Owing(s)) \in Nat
               /\ Cardinality(Owing(s)') = Cardinality(Owing(s)) - Cardinality(gone(s))
    <2>1. IsFiniteSet(Owing(s))
      BY <1>0, <1>4
    <2>2. Owing(s) \cap gone(s) = gone(s)
      BY <1>3
    <2>3. /\ IsFiniteSet(Owing(s) \ gone(s))
          /\ Cardinality(Owing(s) \ gone(s)) = Cardinality(Owing(s)) - Cardinality(gone(s))
      BY <2>1, <2>2, FS_Difference
    <2>4. Cardinality(Owing(s)) \in Nat /\ Cardinality(gone(s)) \in Nat
      BY <1>3, <2>1, FS_Subset, FS_CardinalityType
    <2> QED BY <1>3, <2>3, <2>4
  <1>5. net' = net + Cardinality(gone("publishOn")) - Cardinality(gone("publishOff"))
    BY DEF Crash, gone
  <1>6. net' + Cardinality(Owing("publishOn")') - Cardinality(Owing("publishOff")')
           = net + Cardinality(Owing("publishOn")) - Cardinality(Owing("publishOff"))
    BY <1>0, <1>4, <1>5
  <1>7. \A p \in Procs : Oriented(proc[p])'
    <2>1. \A p \in Procs : Oriented(proc[p])
      BY DEF AnnounceInv
    <2>2. Oriented(At(i, "none"))
      BY <1>1 DEF Oriented
    <2>3. \A p \in Procs : Oriented(proc'[p])
      BY <1>2, <2>1, <2>2
    <2> QED BY <2>3 DEF Oriented
  <1>8. proc' \in [Procs -> Process]
    BY <1>0, <1>1
  <1> QED BY <1>0, <1>4, <1>6, <1>7, <1>8 DEF AnnounceInv

\* AnnounceInv is inductive.
LEMMA AnnounceStep ==
    ASSUME PresenceAssumption, PresenceTypeOK, Housed, AnnounceInv, [PresenceNext]_presenceVars
    PROVE  AnnounceInv'
  <1>1. ASSUME NEW p \in Procs, Step(p)
        PROVE  AnnounceInv'
    <2>1. CASE State(p)
      <3>1. PICK y : /\ Moves(p, y) /\ y.next = proc[p].next
                     /\ proc[p].pc \in {"readHb", "readWs", "readInst", "cleanup"}
                     /\ y.pc \in {"readWs", "readInst", "cleanup", proc[p].next}
                     /\ UNCHANGED <<known, told>>
        BY <2>1, StateMoves
      <3>2. Oriented(proc[p])
        BY DEF AnnounceInv
      <3>3. /\ Oriented(y)
            /\ Owes(y, "publishOn") <=> Owes(proc[p], "publishOn")
            /\ Owes(y, "publishOff") <=> Owes(proc[p], "publishOff")
        BY <3>1, <3>2 DEF Oriented, Owes
      <3> QED BY <3>1, <3>3, QuietMove DEF told
    <2>2. CASE Remember(p) \/ Forget(p)
      BY <2>2, AnnounceDecided
    <2>3. CASE RememberFails(p) \/ ForgetFails(p)
      BY <2>3, AnnounceUnsaid
    <2>4. CASE PublishOn(p) \/ PublishOff(p)
      BY <2>4, AnnounceMade
    <2> QED BY <1>1, <2>1, <2>2, <2>3, <2>4 DEF Step
  <1>2. ASSUME NEW p \in Procs, NEW i \in Instances,
               \/ p \in HostConns /\ RegisterSignalConn(p, i)
               \/ p \in HostConns /\ Connection(p)
               \/ p = Beat /\ Heartbeat(i)
               \/ p = i /\ HandleExpiry(i)
        PROVE  AnnounceInv'
    <2>1. PICK y : /\ Moves(p, y) /\ Oriented(y)
                   /\ y.pc \notin {"publishOn", "publishOff"} /\ y.next # "publishOff"
                   /\ proc[p].pc \in {"none", "mark", "open", "unmark"}
                   /\ UNCHANGED <<net, known, unsaid>>
      BY <1>2, WorkMoves
    <2> QED BY <2>1, IdleMove DEF States
  <1>3. CASE \E c \in HostConns, i \in Instances : RegisterSignalConn(c, i)
    BY <1>2, <1>3 DEF Procs
  <1>4. CASE \E c \in HostConns : Connection(c)
    BY <1>2, <1>4 DEF Procs, PresenceAssumption
  <1>5. CASE \E i \in Instances : Heartbeat(i) \/ HandleExpiry(i)
    BY <1>2, <1>5 DEF Procs
  <1>6. CASE \E i \in Instances : Crash(i)
    BY <1>6, CrashOwes
  <1>7. CASE \/ \E c \in HostConns : SocketBreaks(c) \/ Ping(c)
             \/ HbExpire \/ HostQuit \/ HeartbeatsStop
             \/ \E i \in Instances : \/ HeartbeatFails(i)
                                     \/ RefreshWSPresence(i) \/ StartInstance(i)
                                     \/ InstanceTick(i) \/ InstanceExpire(i)
             \/ UNCHANGED presenceVars
    <2>1. UNCHANGED <<proc, net, known, unsaid>>
      BY <1>7 DEF SocketBreaks, Ping, HeartbeatFails, HbExpire, HostQuit, HeartbeatsStop, RefreshWSPresence,
                  StartInstance, InstanceTick, InstanceExpire, presenceVars, redis, told
    <2> QED BY <2>1, NoMove
  <1> QED BY <1>1, <1>3, <1>4, <1>5, <1>6, <1>7 DEF PresenceNext

\* The processes' part of the types.
LEMMA MovesType ==
    ASSUME PresenceTypeOK, NEW p, NEW y, Moves(p, y)
    PROVE  proc' \in [Procs -> Process]
  BY DEF PresenceTypeOK, Moves

\* A process that moves on stays where it is.
LEMMA HousedMove ==
    ASSUME PresenceTypeOK, Housed, NEW p \in Procs, NEW y, Moves(p, y), running' = running,
           InPlace(p, y) \/ (y.at = proc[p].at /\ proc[p].pc # "none")
    PROVE  Housed'
  <1>1. InPlace(p, y)
    BY DEF Housed, InPlace
  <1>2. \A q \in Procs : InPlace(q, proc'[q])
    BY <1>1 DEF PresenceTypeOK, Housed, Moves
  <1> QED BY <1>2 DEF Housed, InPlace

\* Housed is inductive.
LEMMA HousedStep ==
    ASSUME PresenceAssumption, PresenceTypeOK, Housed, AnnounceInv, [PresenceNext]_presenceVars
    PROVE  Housed'
  <1>1. ASSUME NEW p \in Procs, Step(p)
        PROVE  Housed'
    <2>1. running' = running /\ proc[p].pc # "none"
      BY <1>1 DEF Step, State, ReadHb, ReadWs, ReadInst, Cleanup, Remember, Forget,
                  RememberFails, ForgetFails, AnswerLost, PublishOn, PublishOff, server
    <2>2. \E y : Moves(p, y) /\ y.at = proc[p].at
      BY <1>1, StateMoves, AnnounceDecided, AnnounceUnsaid, AnnounceMade DEF Step
    <2> QED BY <2>1, <2>2, HousedMove
  <1>2. ASSUME NEW p \in Procs, NEW i \in Instances,
               \/ p \in HostConns /\ RegisterSignalConn(p, i)
               \/ p \in HostConns /\ Connection(p)
               \/ p = Beat /\ Heartbeat(i)
               \/ p = i /\ HandleExpiry(i)
        PROVE  Housed'
    <2>1. \E y : Moves(p, y) /\ InPlace(p, y)
      BY <1>2, WorkMoves
    <2>2. running' = running
      BY <1>2 DEF RegisterSignalConn, Connection, MarkWSConnected, UnregisterSignalConn,
                  MarkWSDisconnected, Heartbeat, HandleExpiry, server
    <2> QED BY <2>1, <2>2, HousedMove
  <1>3. CASE \E c \in HostConns, i \in Instances : RegisterSignalConn(c, i)
    BY <1>2, <1>3 DEF Procs
  <1>4. CASE \E c \in HostConns : Connection(c)
    BY <1>2, <1>4 DEF Procs, PresenceAssumption
  <1>5. CASE \E i \in Instances : Heartbeat(i) \/ HandleExpiry(i)
    BY <1>2, <1>5 DEF Procs
  <1>6. ASSUME NEW i \in Instances, Crash(i)
        PROVE  Housed'
    <2>1. /\ running' = running \ {i}
          /\ \A p \in Procs : proc'[p] = IF proc[p].at = i THEN At(i, "none") ELSE proc[p]
      BY <1>6 DEF Crash
    <2>2. At(i, "none").pc = "none" /\ At(i, "none").at = i
      BY DEF At
    <2>3. \A p \in Procs : InPlace(p, proc[p])'
      BY <2>1, <2>2 DEF Housed, InPlace
    <2> QED BY <2>3 DEF Housed
  <1>7. CASE \/ \E c \in HostConns : SocketBreaks(c) \/ Ping(c)
             \/ HbExpire \/ HostQuit \/ HeartbeatsStop
             \/ \E i \in Instances : \/ HeartbeatFails(i)
                                     \/ RefreshWSPresence(i) \/ StartInstance(i)
                                     \/ InstanceTick(i) \/ InstanceExpire(i)
             \/ UNCHANGED presenceVars
    <2>1. proc' = proc /\ running \subseteq running'
      BY <1>7 DEF SocketBreaks, Ping, HeartbeatFails, HbExpire, HostQuit, HeartbeatsStop, RefreshWSPresence,
                  StartInstance, InstanceTick, InstanceExpire, presenceVars, server
    <2> QED BY <2>1 DEF Housed, InPlace
  <1> QED BY <1>1, <1>3, <1>4, <1>5, <1>6, <1>7 DEF PresenceNext

\* The types are inductive; that a crash counts finitely many announcements
\* takes AnnounceInv.
LEMMA TypeStep ==
    ASSUME PresenceAssumption, PresenceTypeOK, Housed, AnnounceInv, [PresenceNext]_presenceVars
    PROVE  PresenceTypeOK'
  <1> USE DEF PresenceTypeOK
  <1>1. ASSUME NEW p \in Procs, Step(p)
        PROVE  PresenceTypeOK'
    <2>1. CASE State(p)
      <3>1. PICK y : /\ Moves(p, y) /\ wsInst' \subseteq Instances
                     /\ UNCHANGED <<hb, instKey, known, server, host, told, missed>>
                     /\ faults' \in Nat
        BY <2>1, StateMoves
      <3>2. proc' \in [Procs -> Process]
        BY <3>1, MovesType
      <3> QED BY <3>1, <3>2 DEF server, host, told
    <2>2. CASE Remember(p) \/ Forget(p)
      <3>1. proc' \in [Procs -> Process]
        BY <2>2, AnnounceDecided, MovesType
      <3>2. /\ UNCHANGED <<hb, wsInst, instKey, server, host, told, missed, faults>>
            /\ known' \in BOOLEAN
        <4> DEFINE sees == SeesOnline(p)
        <4> HIDE DEF sees
        <4>1. known' = (known \/ sees) \/ known' = (known /\ sees)
          BY <2>2 DEF Remember, Forget, sees
        <4>2. known' \in BOOLEAN
          BY <4>1, Zenon
        <4> QED BY <2>2, <4>2 DEF Remember, Forget
      <3> QED BY <3>1, <3>2 DEF server, host, told
    <2>3. CASE RememberFails(p) \/ ForgetFails(p)
      <3>1. proc' \in [Procs -> Process]
        BY <2>3, AnnounceUnsaid, MovesType
      <3>2. PICK online \in BOOLEAN : AnswerLost(online)
        BY <2>3 DEF RememberFails, ForgetFails
      <3>3. /\ UNCHANGED <<hb, wsInst, instKey, server, host, shown, net>> /\ faults' \in Nat
            /\ unsaid' \in Int
        BY <3>2 DEF AnswerLost, Fault
      <3>4. known' \in BOOLEAN /\ mistold' \in BOOLEAN
        <4>1. (known' = known \/ known' = online) /\ (mistold' = mistold \/ mistold' = TRUE)
          BY <3>2 DEF AnswerLost
        <4> QED BY <4>1, Zenon
      <3>5. missed' \in BOOLEAN
        <4>1. missed' = missed \/ missed' = (missed \/ (known' /\ ~hb))
          BY <2>3 DEF RememberFails, ForgetFails
        <4> QED BY <4>1, Zenon
      <3> QED BY <3>1, <3>3, <3>4, <3>5 DEF server, host
    <2>4. CASE PublishOn(p) \/ PublishOff(p)
      <3>1. proc' \in [Procs -> Process]
        BY <2>4, AnnounceMade, MovesType
      <3>2. /\ UNCHANGED <<redis, server, host, missed>>
            /\ shown' \in BOOLEAN /\ mistold' \in BOOLEAN /\ net' \in Int /\ faults' \in Nat
            /\ unsaid' = unsaid
        <4>1. PICK online \in BOOLEAN : Announce(online) /\ UNCHANGED <<redis, server, host, missed>>
          BY <2>4 DEF PublishOn, PublishOff
        <4>2. shown' = online \/ shown' = shown
          BY <4>1 DEF Announce
        <4>3. mistold' = (known # online) \/ mistold' = TRUE
          BY <4>1 DEF Announce
        <4>4. net' \in Int /\ faults' \in Nat /\ unsaid' = unsaid
          BY <4>1 DEF Announce, Fault
        <4>5. shown' \in BOOLEAN /\ mistold' \in BOOLEAN
          BY <4>2, <4>3, Zenon
        <4> QED BY <4>1, <4>4, <4>5
      <3> QED BY <3>1, <3>2 DEF redis, server, host
    <2> QED BY <1>1, <2>1, <2>2, <2>3, <2>4 DEF Step
  <1>2. ASSUME NEW c \in HostConns, NEW i \in Instances, RegisterSignalConn(c, i)
        PROVE  PresenceTypeOK'
    <2>1. proc' \in [Procs -> Process]
      BY <1>2, WorkMoves, MovesType DEF Procs
    <2>2. /\ hosts' \in [Instances -> HostConns \cup {NoConn}] /\ closed' \subseteq HostConns
          /\ faults' \in Nat
          /\ UNCHANGED <<redis, unused, running, pinging, notes, host, told, missed>>
      BY <1>2 DEF RegisterSignalConn, Fault
    <2> QED BY <2>1, <2>2 DEF redis, host, told
  <1>3. ASSUME NEW c \in HostConns, Connection(c)
        PROVE  PresenceTypeOK'
    <2>1. proc' \in [Procs -> Process]
      <3>1. \E i : i \in Instances
        BY DEF PresenceAssumption
      <3> QED BY <1>3, <3>1, WorkMoves, MovesType DEF Procs
    <2>2. proc[c].at \in Instances
      BY DEF Procs, Process
    <2>3. /\ wsInst' \subseteq Instances /\ instKey' \subseteq Instances
          /\ hosts' \in [Instances -> HostConns \cup {NoConn}] /\ faults' \in Nat
          /\ UNCHANGED <<hb, known, unused, running, closed, pinging, notes, host, told,
                         missed>>
      <3>1. CASE MarkWSConnected(c)
        BY <3>1, <2>2 DEF MarkWSConnected, MarkFails, Fault, server
      <3>2. CASE UnregisterSignalConn(c)
        BY <3>2 DEF UnregisterSignalConn, redis
      <3>3. CASE MarkWSDisconnected(c)
        BY <3>3 DEF MarkWSDisconnected, Fault, server
      <3> QED BY <1>3, <3>1, <3>2, <3>3 DEF Connection
    <2> QED BY <2>1, <2>3 DEF host, told
  <1>4. ASSUME NEW c \in HostConns, SocketBreaks(c)
        PROVE  PresenceTypeOK'
    BY <1>4 DEF SocketBreaks, Fault, redis, host, told
  <1>5. ASSUME NEW c \in HostConns, Ping(c)
        PROVE  PresenceTypeOK'
    <2>1. proc[c].at \in running
      BY <1>5 DEF Ping, Housed, InPlace, Procs
    <2> QED BY <1>5, <2>1 DEF Ping, redis, host, told
  <1>6. ASSUME NEW i \in Instances, RefreshWSPresence(i)
        PROVE  PresenceTypeOK'
    BY <1>6 DEF RefreshWSPresence, MarkFails, Fault, host, told
  <1>7. ASSUME NEW i \in Instances, Heartbeat(i)
        PROVE  PresenceTypeOK'
    <2>1. proc' \in [Procs -> Process]
      BY <1>7, WorkMoves, MovesType DEF Procs
    <2> QED BY <1>7, <2>1 DEF Heartbeat, server, host, told
  <1>17. ASSUME NEW i \in Instances, HeartbeatFails(i)
         PROVE  PresenceTypeOK'
    <2>1. /\ faults' \in Nat
          /\ UNCHANGED <<wsInst, instKey, known, server, proc, host, told, missed>>
      BY <1>17 DEF HeartbeatFails, Fault
    <2>2. hb' = hb \/ hb' = TRUE
      BY <1>17 DEF HeartbeatFails
    <2>3. hb' \in BOOLEAN
      BY <2>2, Zenon
    <2> QED BY <2>1, <2>3 DEF server, host, told
  <1>8. CASE HbExpire
    <2>1. notes' \subseteq running /\ faults' \in Nat /\ hb' = FALSE
      BY <1>8 DEF HbExpire, Fault
    <2>2. \/ missed' = (missed \/ ~KeyspaceEvents \/ running = {} \/ Undecided)
          \/ missed' = (missed \/ Undecided)
          \/ missed' = TRUE
      BY <1>8 DEF HbExpire
    <2>3. missed' \in BOOLEAN
      BY <2>2, Zenon
    <2>4. UNCHANGED <<wsInst, instKey, known, unused, running, hosts, proc, closed, pinging,
                      host, told>>
      BY <1>8 DEF HbExpire
    <2> QED BY <2>1, <2>3, <2>4 DEF host, told
  <1>9. ASSUME NEW i \in Instances, HandleExpiry(i)
        PROVE  PresenceTypeOK'
    <2>1. proc' \in [Procs -> Process]
      BY <1>9, WorkMoves, MovesType DEF Procs
    <2> QED BY <1>9, <2>1 DEF HandleExpiry, redis, host, told
  <1>10. CASE HostQuit
    BY <1>10 DEF HostQuit, redis, told
  <1>11. CASE HeartbeatsStop
    <2>1. /\ faults' \in Nat /\ beating' = FALSE
          /\ UNCHANGED <<redis, server, proc, hostUp, told, missed>>
      BY <1>11 DEF HeartbeatsStop, Fault
    <2> QED BY <2>1 DEF redis, server, told
  <1>12. ASSUME NEW i \in Instances, StartInstance(i)
         PROVE  PresenceTypeOK'
    BY <1>12 DEF StartInstance, host, told
  <1>13. ASSUME NEW i \in Instances, InstanceTick(i)
         PROVE  PresenceTypeOK'
    BY <1>13 DEF InstanceTick, server, host, told
  <1>14. ASSUME NEW i \in Instances, InstanceExpire(i)
         PROVE  PresenceTypeOK'
    BY <1>14 DEF InstanceExpire, Fault, server, host, told
  <1>15. ASSUME NEW i \in Instances, Crash(i)
         PROVE  PresenceTypeOK'
    <2>1. proc' \in [Procs -> Process]
      BY <1>15, CrashOwes
    <2>2. ASSUME NEW s \in {"publishOn", "publishOff"}
          PROVE  Cardinality(Pending(i, s)) \in Nat
      <3>1. Pending(i, s) \subseteq Owing(s) /\ IsFiniteSet(Owing(s))
        BY <2>2 DEF Pending, Owing, Owes, AnnounceInv
      <3> QED BY <3>1, FS_Subset, FS_CardinalityType
    <2>3. /\ hosts' \in [Instances -> HostConns \cup {NoConn}] /\ net' \in Int /\ faults' \in Nat
          /\ mistold' \in BOOLEAN /\ missed' \in BOOLEAN
          /\ running' = running \ {i} /\ pinging' = pinging \ {i} /\ notes' = notes \ {i}
      BY <1>15, <2>2 DEF Crash, Fault
    <2>4. UNCHANGED <<redis, unused, closed, host, shown, unsaid>>
      BY <1>15 DEF Crash
    <2> QED BY <2>1, <2>3, <2>4 DEF redis, host
  <1>16. CASE UNCHANGED presenceVars
    BY <1>16 DEF presenceVars
  <1> QED BY <1>1, <1>2, <1>3, <1>4, <1>5, <1>6, <1>7, <1>8, <1>9, <1>10, <1>11, <1>12,
             <1>13, <1>14, <1>15, <1>16, <1>17 DEF PresenceNext

\* Nothing is owed or known when the first server process starts.
LEMMA PresenceStart ==
    ASSUME PresenceAssumption, PresenceInit
    PROVE  PresenceTypeOK /\ Housed /\ AnnounceInv
  <1>1. PICK i \in Instances :
           /\ running = {i} /\ unused = Instances \ {i} /\ instKey = {i}
           /\ proc = [p \in Procs |-> At(IF p \in Instances THEN p ELSE i, "none")]
    BY DEF PresenceInit
  <1>2. \A p \in Procs : /\ proc[p] = At(IF p \in Instances THEN p ELSE i, "none")
                         /\ proc[p] \in Process /\ (p \in Instances => proc[p].at = p)
                         /\ proc[p].pc = "none" /\ proc[p].next = "none"
    BY <1>1 DEF At, Process, States
  <1>3. /\ hb = FALSE /\ known = FALSE /\ wsInst = {}
        /\ hosts = [j \in Instances |-> NoConn]
        /\ closed = {} /\ pinging = {} /\ notes = {}
        /\ hostUp = TRUE /\ beating = TRUE /\ shown = FALSE /\ mistold = FALSE
        /\ net = 0 /\ unsaid = 0 /\ missed = FALSE /\ faults = 0
    BY DEF PresenceInit
  <1>4. proc \in [Procs -> Process]
    BY <1>1, <1>2
  <1>5. hosts \in [Instances -> HostConns \cup {NoConn}]
    BY <1>3
  <1>6. PresenceTypeOK
    <2>1. /\ unused \subseteq Instances /\ running \subseteq Instances \ unused
          /\ wsInst \subseteq Instances /\ instKey \subseteq Instances
          /\ closed \subseteq HostConns /\ pinging \subseteq running /\ notes \subseteq running
      BY <1>1, <1>3
    <2>2. /\ hb \in BOOLEAN /\ known \in BOOLEAN /\ hostUp \in BOOLEAN /\ beating \in BOOLEAN
          /\ shown \in BOOLEAN /\ mistold \in BOOLEAN /\ missed \in BOOLEAN
      BY <1>3
    <2>3. net \in Int /\ unsaid \in Int /\ faults \in Nat
      BY <1>3
    <2> QED BY <1>4, <1>5, <2>1, <2>2, <2>3 DEF PresenceTypeOK
  <1>7. Owing("publishOn") = {} /\ Owing("publishOff") = {}
    BY <1>2 DEF Owing, Owes
  <1>8. IsFiniteSet({}) /\ Cardinality({}) = 0
    BY FS_EmptySet
  <1>9. \A p \in Procs : Oriented(proc[p])
    BY <1>2 DEF Oriented
  <1>10. AnnounceInv
    <2>1. /\ IsFiniteSet(Owing("publishOn")) /\ Cardinality(Owing("publishOn")) = 0
          /\ IsFiniteSet(Owing("publishOff")) /\ Cardinality(Owing("publishOff")) = 0
      BY <1>7, <1>8
    <2> QED BY <1>3, <1>9, <2>1 DEF AnnounceInv
  <1>11. Housed
    BY <1>2 DEF Housed, InPlace
  <1> QED BY <1>6, <1>10, <1>11

\* The invariant of module Presence.
LEMMA PresenceInductive == PresenceSpec => [](PresenceTypeOK /\ Housed /\ AnnounceInv)
  <1>1. PresenceInit => PresenceTypeOK /\ Housed /\ AnnounceInv
    BY PresenceStart, PresenceAssumption
  <1>2. PresenceTypeOK /\ Housed /\ AnnounceInv /\ [PresenceNext]_presenceVars => (PresenceTypeOK /\ Housed /\ AnnounceInv)'
    BY TypeStep, HousedStep, AnnounceStep, PresenceAssumption
  <1> QED BY <1>1, <1>2, PTL DEF PresenceSpec

\* Every goroutine of PresenceService, of its watcher and of the connections
\* keeps to its steps, and works only in a server process that runs.
THEOREM PresenceTypeCorrect == PresenceSpec => []PresenceTypeOK
  <1>1. PresenceTypeOK /\ Housed /\ AnnounceInv => PresenceTypeOK
    OBVIOUS
  <1> QED BY <1>1, PresenceInductive, PTL

\* RememberOnlineCandidate and ForgetOnlineCandidate announce each change of
\* known_online exactly once, for any number of connections, server processes,
\* crashes and failed Redis commands racing for it, but for the changes that an
\* SADD or SREM made whose answer was lost.
THEOREM AnnouncementsOnce == PresenceSpec => []AnnouncedOnce
  <1>1. PresenceTypeOK /\ Housed /\ AnnounceInv => AnnouncedOnce
    <2> SUFFICES ASSUME PresenceTypeOK, AnnounceInv
                 PROVE  AnnouncedOnce
      OBVIOUS
    <2>1. ASSUME NEW s
          PROVE  UNION {Pending(i, s) : i \in Instances} = Owing(s)
      <3>1. \A p \in Procs : proc[p].at \in Instances
        BY DEF PresenceTypeOK, Process
      <3> QED BY <3>1 DEF Pending, Owing, Owes
    <2> QED BY <2>1 DEF AnnouncedOnce, AnnounceInv
  <1> QED BY <1>1, PresenceInductive, PTL
=============================================================================
