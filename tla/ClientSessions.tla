--------------------------- MODULE ClientSessions ---------------------------
(***************************************************************************)
(* The desktop client's remote sessions: ClientManager's table of          *)
(* connections, keyed by device, its routing of the native program's       *)
(* messages by connection id, the shared-memory segment the frames of a    *)
(* device are read from, the file sessions of FileTransferQueue, and       *)
(* MainController's verification, retry and status.                        *)
(*                                                                         *)
(* Commands and messages cross in two pipes, so the native program speaks  *)
(* of connections that ClientManager has dropped, and its list may be      *)
(* older than a connection that ClientManager has just made.  One slot of  *)
(* the Qt event loop is one step.                                          *)
(***************************************************************************)
EXTENDS Naturals, Sequences, FiniteSets

CONSTANTS
    Devices,      \* remote devices
    None,         \* no device
    MaxConns,     \* bound: connections made in a run
    MaxInFlight,  \* bound: messages in the pipe before the native program speaks up
    MaxVerifying, \* bound: verifications under way at once
    MaxLists      \* bound: connection lists sent in a run

ASSUME ClientAssumption ==
    /\ IsFiniteSet(Devices) /\ None \notin Devices
    /\ MaxConns \in Nat /\ MaxInFlight \in Nat /\ MaxLists \in Nat
    /\ MaxVerifying \in Nat

Ids == 1 .. MaxConns

VARIABLES
    known,     \* the devices in m_connections
    conn,      \* their connectionId, 0 if empty
    rtc,       \* their rtcState
    sig,       \* their signalingState
    route,     \* m_connIdToDeviceId
    active,    \* m_activeDeviceId
    shm,       \* the connection whose segment is attached for a device, or 0
    sessions,  \* m_sessions of the file queue
    retired,   \* m_retiredConnections
    counter,   \* m_connectionCounter
    verify,    \* the stage of MainController's access-code verification
    primary,   \* m_primaryDeviceId
    status,    \* m_clientServerStatus
    ready,     \* m_messaging is set and ready
    native,    \* the native program's connections
    device,    \* the device each connection was made for
    inbox,     \* commands on their way to it
    events,    \* messages on their way back
    lists,     \* connection lists sent so far
    overtaken, \* history: devices with a connection that an older list dropped or revived
    leftover   \* history: devices that lost a connection without a detach

table == <<known, conn, rtc, sig, route>>
files == <<sessions, retired>>
shown == <<primary, status>>
pipes == <<inbox, events>>
clientVars == <<known, conn, rtc, sig, route, active, shm, sessions, retired, counter, verify,
                primary, status, ready, native, device, inbox, events, lists, overtaken,
                leftover>>

RtcStates == {"connecting", "connected", "disconnected", "failed"}
SigStates == {"connected", "disconnected", "failed"}
Dead == {"disconnected", "failed"}
Live == {"connecting", "connected"}

ClientTypeOK ==
    /\ known \subseteq Devices
    /\ conn \in [Devices -> 0 .. MaxConns] /\ shm \in [Devices -> 0 .. MaxConns]
    /\ rtc \in [Devices -> RtcStates] /\ sig \in [Devices -> SigStates]
    /\ route \in [Ids -> Devices \cup {None}]
    /\ active \in Devices \cup {None} /\ primary \in Devices \cup {None}
    /\ status \in SigStates /\ ready \in BOOLEAN
    /\ sessions \subseteq Ids /\ retired \subseteq Ids /\ counter \in 0 .. MaxConns
    /\ verify \in [Devices -> {"none", "first", "refresh", "again"}]
    /\ native \in [Ids -> Live \cup {"none", "asked", "gone"}]
    /\ device \in [Ids -> Devices \cup {None}]
    /\ overtaken \subseteq Devices /\ leftover \subseteq Devices

ClientInit ==
    /\ known = {} /\ sessions = {} /\ retired = {}
    /\ conn = [d \in Devices |-> 0] /\ shm = [d \in Devices |-> 0]
    /\ rtc = [d \in Devices |-> "disconnected"] /\ sig = [d \in Devices |-> "disconnected"]
    /\ route = [c \in Ids |-> None] /\ device = [c \in Ids |-> None]
    /\ active = None /\ primary = None /\ status = "disconnected"
    /\ counter = 0 /\ verify = [d \in Devices |-> "none"]
    /\ ready = TRUE /\ native = [c \in Ids |-> "none"]
    /\ inbox = <<>> /\ events = <<>> /\ lists = 0
    /\ overtaken = {} /\ leftover = {}

\* The first key of the table.
FirstKey(S) == CHOOSE d \in S : TRUE

(***************************************************************************)
(* Parts of the handlers.                                                  *)
(***************************************************************************)

endSessions(E) == sessions' = sessions \ E /\ retired' = retired \cup (E \ {0})

\* Mutant: a connection that is connecting again keeps its session.
StateChangedLate(d, s) ==
    LET c == conn[d]
    IN  IF s \in Dead THEN endSessions({c})
        ELSE /\ sessions' = IF s = "connected" /\ c # 0 /\ c \notin retired
                            THEN sessions \cup {c} ELSE sessions
             /\ UNCHANGED retired

\* connectionStateChanged(d, s): the lambda reconciles the file session of the
\* connection the device has now.
StateChanged(d, s) ==
    LET c == conn[d]
    IN  IF s \in Dead \/ (s # "connected" /\ c \in sessions) THEN endSessions({c})
        ELSE /\ sessions' = IF s = "connected" /\ c # 0 /\ c \notin retired
                            THEN sessions \cup {c} ELSE sessions
             /\ UNCHANGED retired

routeWithout(c) == [e \in Ids |-> IF e = c THEN None ELSE route[e]]

activeAfter(d, left) ==
    IF active # d THEN active ELSE IF left = {} THEN None ELSE FirstKey(left)

\* removeConnection and the connectionRemoved, active-device and primary-device
\* updates that follow it.
Removed(d) ==
    LET left == known \ {d}
    IN  /\ endSessions({conn[d]})
        /\ route' = routeWithout(conn[d])
        /\ known' = left
        /\ conn' = [conn EXCEPT ![d] = 0]
        /\ rtc' = [rtc EXCEPT ![d] = "disconnected"]
        /\ sig' = [sig EXCEPT ![d] = "disconnected"]
        /\ active' = activeAfter(d, left)
        /\ IF primary # d THEN UNCHANGED shown
           ELSE /\ primary' = IF left = {} THEN None ELSE FirstKey(left)
                /\ status' = IF left = {} THEN "disconnected" ELSE sig[FirstKey(left)]

\* QSharedMemory::attach may fail; the next frame tries again.
attach(d, c) == shm' = [shm EXCEPT ![d] = c] \/ shm' = shm

detach(d) == shm' = [shm EXCEPT ![d] = 0] /\ leftover' = leftover \ {d}

keepSegment(d) ==
    /\ shm' = shm
    /\ leftover' = IF shm[d] # 0 THEN leftover \cup {d} ELSE leftover

(***************************************************************************)
(* MainController: verify the access code, then connect.                   *)
(***************************************************************************)
ConnectToRemoteHost(d) ==
    /\ verify[d] = "none" /\ counter < MaxConns
    /\ Cardinality({e \in Devices : verify[e] # "none"}) < MaxVerifying
    /\ verify' = [verify EXCEPT ![d] = "first"]
    /\ UNCHANGED <<table, active, shm, files, counter, shown, ready, native, device, pipes,
                   lists, overtaken, leftover>>

\* reportVerifyAccessCodeFailure.
Reported(d) == verify' = [verify EXCEPT ![d] = "none"]

\* Mutant: every rejected code is refreshed and tried again.
InvalidCodeAgain(d) ==
    /\ verify[d] \in {"first", "again"}
    /\ verify' = [verify EXCEPT ![d] = "refresh"]
    /\ UNCHANGED <<table, active, shm, files, counter, shown, ready, native, device,
                   pipes, lists, overtaken, leftover>>

\* INVALID_CODE: the first time, ask the cloud for a newer code.
InvalidCode(d) ==
    /\ verify[d] \in {"first", "again"}
    /\ IF verify[d] = "first"
       THEN verify' = [verify EXCEPT ![d] = "refresh"]
       ELSE Reported(d)
    /\ UNCHANGED <<table, active, shm, files, counter, shown, ready, native, device, pipes,
                   lists, overtaken, leftover>>

\* The answer of refreshDeviceAccessCodeNow, or its failure.
RefreshedCode(d, newer) ==
    /\ verify[d] = "refresh"
    /\ IF newer THEN verify' = [verify EXCEPT ![d] = "again"]
                ELSE Reported(d)
    /\ UNCHANGED <<table, active, shm, files, counter, shown, ready, native, device, pipes,
                   lists, overtaken, leftover>>

VerifyFailed(d) ==
    /\ verify[d] \in {"first", "again"}
    /\ Reported(d)
    /\ UNCHANGED <<table, active, shm, files, counter, shown, ready, native, device, pipes,
                   lists, overtaken, leftover>>

\* The new entry of connectToHost; a dead one is replaced without a detach.
connectToHost(d) ==
    LET c == counter + 1
    IN  /\ counter' = c
        /\ endSessions({conn[d]})
        /\ known' = known \cup {d}
        /\ conn' = [conn EXCEPT ![d] = c]
        /\ rtc' = [rtc EXCEPT ![d] = "connecting"]
        /\ sig' = [sig EXCEPT ![d] = "disconnected"]
        /\ route' = [routeWithout(conn[d]) EXCEPT ![c] = d]
        /\ device' = [device EXCEPT ![c] = d]
        /\ native' = [native EXCEPT ![c] = "asked"]
        /\ inbox' = Append(inbox, [type |-> "connect", conn |-> c])
        /\ active' = IF active = None THEN d ELSE active
        /\ keepSegment(d)

\* verifyAccessCode succeeded.
Verified(d) ==
    /\ verify[d] \in {"first", "again"}
    /\ counter < MaxConns
    /\ verify' = [verify EXCEPT ![d] = "none"]
    /\ IF ready /\ ~(d \in known /\ rtc[d] \notin Dead) THEN connectToHost(d)
       ELSE UNCHANGED <<counter, files, table, device, native, inbox, active, shm, leftover>>
    /\ UNCHANGED <<shown, ready, events, lists, overtaken>>

(***************************************************************************)
(* Disconnecting.                                                          *)
(***************************************************************************)

DisconnectFromHost(d) ==
    /\ ready /\ d \in known /\ conn[d] # 0
    /\ inbox' = Append(inbox, [type |-> "disconnect", conn |-> conn[d]])
    /\ Removed(d)
    /\ detach(d)
    /\ UNCHANGED <<counter, verify, ready, native, device, events, lists, overtaken>>

\* The loop over all connections of disconnectAll and setMessaging(nullptr):
\* connectionRemoved is emitted while the table is still full, so a primary
\* device is replaced by the first of the devices that are about to go.
RemovedAll ==
    /\ endSessions({conn[d] : d \in known} \cup sessions)
    /\ known' = {} /\ conn' = [d \in Devices |-> 0]
    /\ rtc' = [d \in Devices |-> "disconnected"] /\ sig' = [d \in Devices |-> "disconnected"]
    /\ route' = [c \in Ids |-> None] /\ active' = None
    /\ shm' = [d \in Devices |-> IF d \in known THEN 0 ELSE shm[d]]
    /\ leftover' = leftover \ known
    /\ primary' = IF primary \in known THEN FirstKey(known) ELSE primary

DisconnectAll ==
    /\ ready /\ known # {}
    /\ inbox' = Append(inbox, [type |-> "all", conn |-> 0])
    /\ RemovedAll
    /\ status' = IF primary \in known THEN sig[FirstKey(known)] ELSE status
    /\ UNCHANGED <<counter, verify, ready, native, device, events, lists, overtaken>>

\* onClientProcessStopped: the status is set before the table is emptied.
ClientProcessStopped ==
    /\ ready
    /\ ready' = FALSE
    /\ RemovedAll
    /\ status' = IF primary \in known THEN sig[FirstKey(known)] ELSE "disconnected"
    /\ native' = [c \in Ids |-> IF native[c] = "none" THEN "none" ELSE "gone"]
    /\ inbox' = <<>> /\ events' = <<>>
    /\ UNCHANGED <<counter, verify, device, lists, overtaken>>

ClientProcessStarted ==
    /\ ~ready
    /\ ready' = TRUE
    /\ endSessions(sessions)
    /\ UNCHANGED <<table, active, shm, counter, verify, shown, native, device, pipes, lists,
                   overtaken, leftover>>

(***************************************************************************)
(* Messages of the native program.  A handler finds the device by the      *)
(* connection id and works on the entry the device has now.                *)
(***************************************************************************)
\* Mutant: the end of a failed connection is only reported.
FailedReportsOnly(d) ==
    /\ StateChanged(d, "failed")
    /\ UNCHANGED <<table, active, shm, leftover, shown>>

\* handleConnectionFailed.
ConnectionFailed(d) == Removed(d) /\ keepSegment(d)

\* handleHostConnectionFailed.
HostConnectionFailed(d) == Removed(d) /\ keepSegment(d)

\* handleHostDisconnected.
HostDisconnected(d) == Removed(d) /\ detach(d)

\* handleHostConnected.
HostConnected(d) ==
    /\ IF d \in known THEN rtc' = [rtc EXCEPT ![d] = "connected"] /\ StateChanged(d, "connected")
       ELSE UNCHANGED <<rtc, files>>
    /\ UNCHANGED <<known, conn, sig, route, active, shm, leftover, shown>>

\* handleConnectionStateChanged: operator[] of the map makes an empty entry
\* when there is none.
ConnectionStateChanged(d, s) ==
    /\ known' = known \cup {d}
    /\ rtc' = [rtc EXCEPT ![d] = s]
    /\ StateChanged(d, s)
    /\ UNCHANGED <<conn, sig, route, active, shm, leftover, shown>>

\* onClientSignalingStateChanged: the first device to report is the primary one.
showSignaling(d, s) ==
    /\ primary' = IF primary = None THEN d ELSE primary
    /\ status' = IF primary' = d THEN s ELSE status

\* handleSignalingStateChanged.
SignalingStateChanged(d, s) ==
    /\ known' = known \cup {d}
    /\ sig' = [sig EXCEPT ![d] = s]
    /\ showSignaling(d, s)
    /\ UNCHANGED <<conn, rtc, route, active, shm, leftover, files>>

\* handleVideoFrameReady.
VideoFrameReady(d, c) ==
    /\ IF shm[d] = 0 THEN attach(d, c) ELSE UNCHANGED shm
    /\ UNCHANGED <<table, active, leftover, files, shown>>

\* The connections whose file session a list ends: those it dropped or
\* replaced, and those it reports as over.
listEnds(L, now) ==
    {conn[d] : d \in {e \in known : conn[e] # now[e]}} \cup
    {c \in DOMAIN L : L[c] # "connected" /\ c \in sessions}

\* handleConnectionListChanged: L gives the state of each listed connection.
\* With two connections of one device, the entry is the later one.
ConnectionListChanged(L) ==
    LET of(d)   == {c \in DOMAIN L : device[c] = d}
        now     == [d \in Devices |-> IF of(d) = {} THEN 0
                                      ELSE CHOOSE c \in of(d) : \A e \in of(d) : e <= c]
        listed  == {d \in Devices : now[d] # 0}
        ended   == listEnds(L, now)
        opened  == {now[d] : d \in {e \in listed : L[now[e]] = "connected"}}
    IN  /\ known' = listed
        /\ conn' = now
        /\ rtc' = [d \in Devices |-> IF d \in listed THEN L[now[d]] ELSE "disconnected"]
        /\ sig' = [d \in Devices |-> "disconnected"]
        /\ route' = [c \in Ids |-> IF c \in DOMAIN L THEN device[c] ELSE None]
        /\ retired' = retired \cup (ended \ {0})
        /\ sessions' = (sessions \ ended) \cup (opened \ (retired \cup ended))
        /\ overtaken' = overtaken \cup {d \in Devices : now[d] # conn[d]}
        /\ leftover' = leftover \cup {d \in Devices : now[d] # conn[d] /\ shm[d] # 0}
        /\ UNCHANGED <<active, shm, shown>>

HandleMessage ==
    /\ ready /\ events # <<>>
    /\ events' = Tail(events)
    /\ LET m == Head(events)
           d == IF m.type = "list" THEN None ELSE route[m.conn]
       IN  IF m.type = "list" THEN ConnectionListChanged(m.list)
           ELSE /\ overtaken' = overtaken
                /\ IF d = None THEN UNCHANGED <<table, active, shm, leftover, files, shown>>
                   ELSE CASE m.type = "state" -> ConnectionStateChanged(d, m.state)
                          [] m.type = "signal" -> SignalingStateChanged(d, m.state)
                          [] m.type = "frame" -> VideoFrameReady(d, m.conn)
                          [] m.type = "disconnected" -> HostDisconnected(d)
                          [] m.type = "failed" -> ConnectionFailed(d)
                          [] m.type = "hostFailed" -> HostConnectionFailed(d)
                          [] m.type = "up" -> HostConnected(d)
    /\ UNCHANGED <<counter, verify, ready, native, device, inbox, lists>>

\* onMessagingError.
MessagingError ==
    /\ ready /\ sessions # {}
    /\ endSessions(sessions)
    /\ UNCHANGED <<table, active, shm, counter, verify, shown, ready, native, device, pipes,
                   lists, overtaken, leftover>>

(***************************************************************************)
(* The native program (external).                                          *)
(***************************************************************************)
Message(type, c, s) == [type |-> type, conn |-> c, state |-> s]

\* A connection is over: its signaling ends, and one message says how.
Over(c, how) == <<Message("signal", c, "disconnected"), Message(how, c, "disconnected")>>

Takes ==
    /\ ready /\ inbox # <<>>
    /\ inbox' = Tail(inbox)
    /\ LET m == Head(inbox)
           hit == IF m.type = "all" THEN {c \in Ids : native[c] \in Live}
                  ELSE {c \in {m.conn} : native[c] \in Live}
       IN  IF m.type = "connect"
           THEN /\ native' = [native EXCEPT ![m.conn] = "connecting"]
                /\ events' = Append(events, Message("signal", m.conn, "connected"))
           ELSE /\ native' = [c \in Ids |-> IF c \in hit THEN "gone" ELSE native[c]]
                /\ events' = IF m.type = "disconnect" /\ hit # {}
                             THEN Append(events, Message("disconnected", m.conn, "disconnected"))
                             ELSE events
    /\ UNCHANGED <<table, active, shm, files, counter, verify, shown, ready, device, lists,
                   overtaken, leftover>>

Speaks(c) ==
    /\ ready /\ native[c] \in Live /\ Len(events) < MaxInFlight
    /\ \/ \E s \in Live \ {native[c]} :
             /\ native' = [native EXCEPT ![c] = s]
             /\ \E type \in IF s = "connected" THEN {"state", "up"} ELSE {"state"} :
                   events' = Append(events, Message(type, c, s))
       \/ /\ native[c] = "connected"
          /\ events' = Append(events, Message("frame", c, "connected"))
          /\ UNCHANGED native
       \/ \E how \in {"disconnected", "failed", "hostFailed", "state"} :
             /\ native' = [native EXCEPT ![c] = "gone"]
             /\ events' = events \o Over(c, how)
    /\ UNCHANGED <<table, active, shm, files, counter, verify, shown, ready, device, inbox,
                   lists, overtaken, leftover>>

SendsList ==
    /\ ready /\ lists < MaxLists /\ Len(events) < MaxInFlight
    /\ lists' = lists + 1
    /\ events' = Append(events, [type |-> "list", conn |-> 0,
                     list |-> [c \in {e \in Ids : native[e] \in Live} |-> native[c]]])
    /\ UNCHANGED <<table, active, shm, files, counter, verify, shown, ready, native, device,
                   inbox, overtaken, leftover>>

-----------------------------------------------------------------------------
Controller ==
    \E d \in Devices :
        \/ ConnectToRemoteHost(d) \/ InvalidCode(d) \/ VerifyFailed(d) \/ Verified(d)
        \/ \E newer \in BOOLEAN : RefreshedCode(d, newer)
        \/ DisconnectFromHost(d)

ClientNext ==
    \/ Controller \/ DisconnectAll \/ HandleMessage \/ MessagingError
    \/ ClientProcessStopped \/ ClientProcessStarted
    \/ Takes \/ SendsList \/ \E c \in Ids : Speaks(c)

ClientSpec == ClientInit /\ [][ClientNext]_clientVars

\* HTTP requests are answered, one way or another.
Fairness ==
    \A d \in Devices :
        WF_clientVars(InvalidCode(d) \/ VerifyFailed(d) \/ Verified(d) \/
                      \E newer \in BOOLEAN : RefreshedCode(d, newer))

ClientFairSpec == ClientSpec /\ Fairness

(***************************************************************************)
(* Properties.                                                             *)
(***************************************************************************)
\* A file session is open only on the connection its device has now, while it
\* is connected: no order of states, lists, reconnects and program crashes
\* leaves one open on a connection that is gone or replaced.
SessionsFollowState ==
    \A c \in sessions :
        /\ ready /\ c \notin retired
        /\ \E d \in known : conn[d] = c /\ rtc[d] = "connected" /\ route[c] = d

\* A message reaches the entry of its own connection: the two maps of
\* ClientManager agree, unless a list older than a connection was applied.
RoutesAgree ==
    \A c \in Ids : \A d \in Devices \ overtaken :
        (route[c] = d) <=> (d \in known /\ conn[d] = c)

\* When both pipes are empty, the table shows the connections the native
\* program has, and shows no other as alive, unless a list older than a
\* connection was applied.
ViewConverges ==
    ready /\ inbox = <<>> /\ events = <<>> =>
        \A d \in Devices \ overtaken :
            /\ \A c \in Ids : device[c] = d /\ native[c] \in Live =>
                  conn[d] = c /\ rtc[d] = native[c]
            /\ d \in known /\ rtc[d] \in Live => native[conn[d]] = rtc[d]

\* Frames are read from the segment of the device's own connection; the paths
\* that lose a connection without a detach are the exception.
FramesAreCurrent ==
    \A d \in Devices \ (leftover \cup overtaken) : shm[d] \in {0, conn[d]}

\* The active device is one of the connected ones, and there is one as long as
\* there are any, unless a list older than a connection was applied.
ActiveIsShown ==
    overtaken = {} => IF known = {} THEN active = None ELSE active \in known

\* Everything kept beside the table of connections follows it: the map of
\* connection ids, file sessions, shared-memory segments and the active device.
TablesAgree == RoutesAgree /\ SessionsFollowState /\ FramesAreCurrent /\ ActiveIsShown

\* Every request to connect ends: with a connection or with an error.  A
\* rejected code is refreshed and tried again at most once.
ConnectSettles == \A d \in Devices : verify[d] # "none" ~> verify[d] = "none"
=============================================================================
