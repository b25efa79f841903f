---------------------------- MODULE SignalRelay -----------------------------
(***************************************************************************)
(* The relay of /v1/realtime/signal for one device: the host's connection  *)
(* and the clients' connections, the maps signalHosts and signalClient     *)
(* that route between them, each connection's queue, and what happens to   *)
(* the clients when the host goes away.                                    *)
(*                                                                         *)
(* Every connection is used once.  A frame is its routing data: whether it *)
(* is a JSON object ("jingle") or anything else ("other"), the client_id   *)
(* in the object, and (for the properties) the connection that sent it.    *)
(* Whether a client passes the HOST_OFFLINE check is left open: the answer *)
(* comes from Redis (module Presence) and may be stale.                    *)
(***************************************************************************)
EXTENDS Naturals, Sequences

CONSTANTS
    Hosts,      \* host connections
    Clients,    \* client connections
    Ids,        \* client ids declared in the auth frame
    None,       \* no connection, no id
    OutCap,     \* capacity of signalConn.out (64)
    MaxFrames   \* bound: frames received from connections

Conns == Hosts \cup Clients

ASSUME RelayAssumption ==
    /\ Hosts \cap Clients = {} /\ None \notin Conns \cup Ids
    /\ OutCap \in Nat \ {0} /\ MaxFrames \in Nat

VARIABLES
    signalHosts,   \* the device's host connection, or None
    signalClient,  \* the device's client connection for each id, or None
    sc,            \* every signalConn
    frames,        \* frames received so far
    latest,        \* history: the last client to register under each id
    owed           \* history: clients the host left behind when it went

vars == <<signalHosts, signalClient, sc, frames, latest, owed>>

(***************************************************************************)
(* Types.  pc: auth is the handshake after the checks, open the time       *)
(* between register and the end of reader, ending the rest of a host's     *)
(* unregister.  closing: a goroutine is about to close the connection;     *)
(* done: it is closed.  got: the frames written to its peer.               *)
(***************************************************************************)
Frame == [type : {"jingle", "other", "pong", "PEER_DISCONNECTED"},
          id : Ids \cup {None}, from : Conns \cup {None}]

SignalConn == [pc : {"none", "auth", "open", "ending", "gone"},
               id : Ids \cup {None}, out : Seq(Frame), got : SUBSET Frame,
               left : SUBSET Clients, closing : BOOLEAN, done : BOOLEAN]

TypeOK ==
    /\ signalHosts \in Hosts \cup {None}
    /\ signalClient \in [Ids -> Clients \cup {None}]
    /\ sc \in [Conns -> SignalConn]
    /\ \A x \in Conns : Len(sc[x].out) <= OutCap
    /\ frames \in Nat
    /\ latest \in [Ids -> Clients \cup {None}]
    /\ owed \subseteq Clients

Init ==
    /\ signalHosts = None
    /\ signalClient = [i \in Ids |-> None]
    /\ latest = [i \in Ids |-> None]
    /\ sc = [x \in Conns |-> [pc |-> "none", id |-> None, out |-> <<>>, got |-> {},
                              left |-> {}, closing |-> FALSE, done |-> FALSE]]
    /\ frames = 0
    /\ owed = {}

\* signalConn.send on connection c: a full queue drops the frame.
Send(c, f) == IF Len(c.out) < OutCap THEN [c EXCEPT !.out = Append(@, f)] ELSE c

Error == [type |-> "PEER_DISCONNECTED", id |-> None, from |-> None]

\* send(PEER_DISCONNECTED); go close()
SendError(c) == [Send(c, Error) EXCEPT !.closing = TRUE]

----------------------------------------------------------------------------
\* HandleSignal up to auth_ok.  A client declares its id.
Auth(x, i) ==
    /\ sc[x].pc = "none"
    /\ x \in Hosts <=> i = None
    /\ sc' = [sc EXCEPT ![x] = [@ EXCEPT !.pc = "auth", !.id = i]]
    /\ UNCHANGED <<signalHosts, signalClient, frames, owed, latest>>

\* HandleSignal turns the connection away: token, role, or HOST_OFFLINE.
Reject(x) ==
    /\ sc[x].pc = "none"
    /\ sc' = [sc EXCEPT ![x] = [@ EXCEPT !.pc = "gone", !.done = TRUE]]
    /\ UNCHANGED <<signalHosts, signalClient, frames, owed, latest>>

\* registerSignalConn, role host: the latest wins, "go old.close()".
RegisterHost(h) ==
    /\ sc[h].pc = "auth"
    /\ signalHosts' = h
    /\ sc' = [x \in Conns |->
                CASE x = h -> [sc[x] EXCEPT !.pc = "open"]
                  [] x = signalHosts -> [sc[x] EXCEPT !.closing = TRUE]
                  [] OTHER -> sc[x]]
    /\ UNCHANGED <<signalClient, frames, owed, latest>>

\* registerSignalConn, role client: the latest connection of an id is the
\* one that is routed to; the one before it stays open.
RegisterClient(c) ==
    /\ sc[c].pc = "auth"
    /\ signalClient' = [signalClient EXCEPT ![sc[c].id] = c]
    /\ sc' = [sc EXCEPT ![c] = [@ EXCEPT !.pc = "open"]]
    /\ latest' = [latest EXCEPT ![sc[c].id] = c]
    /\ UNCHANGED <<signalHosts, frames, owed>>

----------------------------------------------------------------------------
(***************************************************************************)
(* signalConn.reader and routeSignalMessage.                               *)
(***************************************************************************)

\* The reader of x takes a frame from its socket.
Receives(x) ==
    /\ sc[x].pc = "open" /\ ~sc[x].done
    /\ frames < MaxFrames
    /\ frames' = frames + 1

\* A ping is answered and not routed.
RoutePing(x) ==
    /\ Receives(x)
    /\ sc' = [sc EXCEPT ![x] = Send(@, [type |-> "pong", id |-> None, from |-> None])]
    /\ UNCHANGED <<signalHosts, signalClient, owed, latest>>

\* A host's frame for client id i; without such a client it is dropped.
RouteFromHost(h, i) ==
    LET target == signalClient[i] IN
    /\ Receives(h)
    /\ sc' = IF target = None THEN sc
             ELSE [sc EXCEPT ![target] = Send(@, [type |-> "jingle", id |-> i, from |-> h])]
    /\ UNCHANGED <<signalHosts, signalClient, owed, latest>>

\* Mutation: a client_id the client supplies itself is kept.
InjectSupplied(c, type, i) == i

\* injectClientID: the id of the connection replaces what the object says; a
\* frame that is no object has no client_id and is passed on as it is.
InjectClientID(c, type, i) == IF type = "jingle" THEN sc[c].id ELSE None

\* A client's frame, with client id i in its envelope.  One that starts like an
\* object and is not one ("broken") is dropped.
RouteFromClient(c, type, i) ==
    /\ Receives(c)
    /\ type # "jingle" => i = None
    /\ sc' = IF signalHosts = None
             THEN [sc EXCEPT ![c] = SendError(@)]
             ELSE IF type = "broken" THEN sc
             ELSE [sc EXCEPT ![signalHosts] =
                      Send(@, [type |-> type, id |-> InjectClientID(c, type, i),
                               from |-> c])]
    /\ UNCHANGED <<signalHosts, signalClient, owed, latest>>

\* signalConn.writer writes the next frame.
Writer(x) ==
    /\ sc[x].pc \in {"open", "ending"} /\ ~sc[x].done
    /\ sc[x].out # <<>>
    /\ sc' = [sc EXCEPT ![x] = [sc[x] EXCEPT !.got = @ \cup {Head(sc[x].out)},
                                             !.out = Tail(@)]]
    /\ UNCHANGED <<signalHosts, signalClient, frames, owed, latest>>

----------------------------------------------------------------------------
(***************************************************************************)
(* Closing.                                                                *)
(***************************************************************************)

\* signalConn.close, in a goroutine of its own.
Close(x) ==
    /\ sc[x].closing /\ ~sc[x].done
    /\ sc' = [sc EXCEPT ![x] = [@ EXCEPT !.done = TRUE]]
    /\ UNCHANGED <<signalHosts, signalClient, frames, owed, latest>>

\* The peer goes away or the network breaks.
Break(x) ==
    /\ sc[x].pc = "open" /\ ~sc[x].done
    /\ sc' = [sc EXCEPT ![x] = [@ EXCEPT !.done = TRUE]]
    /\ owed' = owed \ {x}
    /\ UNCHANGED <<signalHosts, signalClient, frames, latest>>

\* unregisterSignalConn of a host under signalMu: if it is still the
\* device's host, it leaves the map and takes note of the clients to close.
UnregisterHost(h) ==
    /\ sc[h].pc = "open" /\ sc[h].done
    /\ IF signalHosts = h
       THEN LET left == {c \in Clients : \E i \in Ids : signalClient[i] = c} IN
            /\ signalHosts' = None
            /\ sc' = [sc EXCEPT ![h] = [@ EXCEPT !.pc = "ending", !.left = left]]
            /\ owed' = owed \cup {c \in left : ~sc[c].done}
       ELSE /\ sc' = [sc EXCEPT ![h] = [@ EXCEPT !.pc = "gone"]]
            /\ UNCHANGED <<signalHosts, owed>>
    /\ UNCHANGED <<signalClient, frames, latest>>

\* Mutation: the host goes without a word.
CloseNoClients(h) ==
    /\ sc[h].pc = "ending"
    /\ sc' = [sc EXCEPT ![h] = [@ EXCEPT !.pc = "gone"]]
    /\ UNCHANGED <<signalHosts, signalClient, frames, owed, latest>>

\* ... and, after the unlock, sends each of them PEER_DISCONNECTED and
\* closes it in a goroutine.
CloseClients(h) ==
    /\ sc[h].pc = "ending"
    /\ sc' = [x \in Conns |->
                CASE x = h -> [sc[x] EXCEPT !.pc = "gone"]
                  [] x \in sc[h].left -> SendError(sc[x])
                  [] OTHER -> sc[x]]
    /\ UNCHANGED <<signalHosts, signalClient, frames, owed, latest>>

\* Mutation: the end of any connection of an id clears its route.
UnregisterClientAlways(c) ==
    /\ sc[c].pc = "open" /\ sc[c].done
    /\ signalClient' = [signalClient EXCEPT ![sc[c].id] = None]
    /\ sc' = [sc EXCEPT ![c] = [@ EXCEPT !.pc = "gone"]]
    /\ UNCHANGED <<signalHosts, frames, owed, latest>>

\* unregisterSignalConn of a client.
UnregisterClient(c) ==
    /\ sc[c].pc = "open" /\ sc[c].done
    /\ signalClient' = [signalClient EXCEPT ![sc[c].id] = IF @ = c THEN None ELSE @]
    /\ sc' = [sc EXCEPT ![c] = [@ EXCEPT !.pc = "gone"]]
    /\ UNCHANGED <<signalHosts, frames, owed, latest>>

----------------------------------------------------------------------------
Next ==
    \/ \E x \in Conns, i \in Ids \cup {None} : Auth(x, i)
    \/ \E x \in Conns : Reject(x)
    \/ \E h \in Hosts : RegisterHost(h)
    \/ \E c \in Clients : RegisterClient(c)
    \/ \E x \in Conns : RoutePing(x)
    \/ \E h \in Hosts, i \in Ids : RouteFromHost(h, i)
    \/ \E c \in Clients, type \in {"jingle", "other", "broken"}, i \in Ids \cup {None} :
          RouteFromClient(c, type, i)
    \/ \E x \in Conns : Writer(x)
    \/ \E x \in Conns : Close(x)
    \/ \E x \in Conns : Break(x)
    \/ \E h \in Hosts : UnregisterHost(h)
    \/ \E h \in Hosts : CloseClients(h)
    \/ \E c \in Clients : UnregisterClient(c)

Spec == Init /\ [][Next]_vars

\* The server's goroutines run on; connections owe nothing.
Fairness ==
    /\ \A h \in Hosts : /\ WF_vars(RegisterHost(h))
                        /\ WF_vars(UnregisterHost(h))
                        /\ WF_vars(CloseClients(h))
    /\ \A c \in Clients : WF_vars(RegisterClient(c)) /\ WF_vars(UnregisterClient(c))
    /\ \A x \in Conns : WF_vars(Writer(x)) /\ WF_vars(Close(x))

FairSpec == Spec /\ Fairness

----------------------------------------------------------------------------
(***************************************************************************)
(* Properties.                                                             *)
(***************************************************************************)

\* Connection x is not going to be closed.
Live(x) == sc[x].pc = "open" /\ ~sc[x].closing /\ ~sc[x].done

\* The routes follow the latest connection through every reconnect: a route
\* leads to a connection that is registered under that very id, a live host
\* connection is the device's host (so two of them never both take the clients'
\* frames), and the latest client connection of an id is routed to as long as it
\* lives, whenever the connections it replaced come to an end.
RoutesFollowLatest ==
    /\ signalHosts # None => sc[signalHosts].pc = "open"
    /\ \A h \in Hosts : Live(h) => signalHosts = h
    /\ \A i \in Ids : signalClient[i] # None =>
           sc[signalClient[i]].pc = "open" /\ sc[signalClient[i]].id = i
    /\ \A i \in Ids : latest[i] # None /\ Live(latest[i]) => signalClient[i] = latest[i]

\* No client is mistaken for another: whatever id a client writes into its
\* frame, the client_id the host reads is the id of the connection the frame
\* came from, a frame without one is not a JSON object, and a client is given
\* only frames addressed to its own id.
FramesKeepTheirClient ==
    /\ \A h \in Hosts, f \in Frame :
           f \in sc[h].got /\ f.from \in Clients =>
               f.id = IF f.type = "jingle" THEN sc[f.from].id ELSE None
    /\ \A c \in Clients, f \in Frame :
           f \in sc[c].got /\ f.type = "jingle" => f.id = sc[c].id /\ f.from \in Hosts

\* Every client that was routed to when the host went is closed in the end, and
\* leaves the map: clients are not kept on a relay without a host.
ClientsReleased == \A c \in Clients : c \in owed ~> sc[c].pc = "gone"
=============================================================================
