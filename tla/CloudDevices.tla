---------------------------- MODULE CloudDevices ----------------------------
(***************************************************************************)
(* The desktop client's device list: CloudDeviceManager.  The list follows *)
(* the account's realtime socket (a snapshot or a replay, then live events *)
(* in the order of server_rev), but three HTTP calls write to it as well,  *)
(* and their answers are ordered with nothing: the refresh of one device's *)
(* access code, the removal of a device, and the upload of this host's own *)
(* access code.                                                            *)
(*                                                                         *)
(* The server is external: a counter of revisions, the log of events, the  *)
(* bound devices and their rows.  The socket is FIFO; an HTTP call is      *)
(* processed at some moment and its answer applied at a later one.         *)
(***************************************************************************)
EXTENDS Naturals, Sequences, FiniteSets

CONSTANTS
    Devices,    \* the account's devices
    Own,        \* the device this host serves
    MaxRev,     \* bound: events published in a run
    MaxCode,    \* bound: access codes a device goes through
    MaxCalls,   \* bound: HTTP calls in flight at once
    MaxLosses   \* bound: lost connections, lost answers and expired tokens

ASSUME CloudAssumption ==
    /\ IsFiniteSet(Devices) /\ Own \in Devices
    /\ MaxRev \in Nat \ {0} /\ MaxCode \in Nat \ {0} /\ MaxCalls \in Nat /\ MaxLosses \in Nat

Revs == 0 .. MaxRev
Slots == 1 .. MaxCalls
Codes == 0 .. MaxCode     \* 0: the row has no access_code

VARIABLES
    bound,     \* server: the devices of the account
    online,    \* server: their presence
    code,      \* server: their access code
    log,       \* server: the account's events; an event's server_rev is its place
    token,     \* the access token: accepted, expired, or being refreshed
    logged,    \* AuthManager's isLoggedIn
    sock,      \* m_syncSocket
    wire,      \* frames on their way down the socket
    boot,      \* m_syncBootstrapComplete
    serverRev, \* m_serverRev
    applied,   \* m_lastAppliedRev
    rows,      \* m_myDevices, None for a device that is not in it
    devRev,    \* m_deviceRevs
    timer,     \* reconnect timers pending
    calls,     \* HTTP calls in flight
    hostCode,  \* HostManager's access code, 0 before hostReady
    secret,    \* HostManager has the device_secret
    synced,    \* m_lastSyncedAccessCode
    losses,    \* losses so far
    touched,   \* history: devices with an HTTP answer that did not fit the events
    crossed,   \* history: an upload was lost, or two were in flight at once
    overlap,   \* history: the uploads since there was none overlap with different codes
    failed     \* history: an upload failed, and none was sent after that

server == <<bound, online, code, log, token>>
list == <<serverRev, applied, rows, devRev>>
socket == <<sock, wire, boot, timer>>
upload == <<hostCode, secret, synced, crossed, overlap, failed>>
cloudVars == <<bound, online, code, log, token, logged, sock, wire, boot, serverRev, applied,
               rows, devRev, timer, calls, hostCode, secret, synced, losses, touched, crossed, overlap, failed>>

None == [online |-> FALSE, code |-> 0, here |-> FALSE]
Row(o, c) == [online |-> o, code |-> c, here |-> TRUE]
IsRow(r) == DOMAIN r = {"online", "code", "here"}
            /\ r.online \in BOOLEAN /\ r.code \in Codes /\ r.here \in BOOLEAN

EventTypes == {"bound", "unbound", "online", "code", "revoked", "other"}
Frame(t, rev, table) == [type |-> t, rev |-> rev, rows |-> table]
NoRows == [d \in Devices |-> None]

CallTypes == {"none", "refresh", "unbind", "bind", "upload"}
Call(t, d, s, v, r) == [type |-> t, dev |-> d, stage |-> s, val |-> v, rev |-> r]
Idle == Call("none", Own, "sent", None, 0)

CloudTypeOK ==
    /\ bound \subseteq Devices /\ touched \subseteq Devices
    /\ online \in [Devices -> BOOLEAN] /\ code \in [Devices -> Codes]
    /\ Len(log) \in Revs
    /\ \A r \in 1 .. Len(log) : log[r].type \in EventTypes
    /\ token \in {"ok", "expired", "refreshing"} /\ logged \in BOOLEAN /\ boot \in BOOLEAN
    /\ {secret, crossed, overlap, failed} \subseteq BOOLEAN
    /\ sock \in {"none", "opening", "open", "closed"}
    /\ serverRev \in Revs /\ applied \in 0 .. serverRev
    /\ devRev \in [Devices -> 0 .. serverRev]
    /\ \A d \in Devices : IsRow(rows[d]) /\ (~rows[d].here => rows[d] = None)
    /\ timer \in 0 .. 2 /\ losses \in 0 .. MaxLosses
    /\ hostCode \in Codes /\ synced \in Codes
    /\ \A i \in Slots : calls[i].type \in CallTypes /\ calls[i].dev \in Devices

CloudInit ==
    /\ bound = Devices \ {Own} /\ online = [d \in Devices |-> FALSE]
    /\ code = [d \in Devices |-> IF d = Own THEN 0 ELSE 1] /\ token = "ok"
    /\ log = <<[type |-> "other", dev |-> Own, online |-> FALSE]>>
    /\ logged = FALSE /\ sock = "none" /\ wire = <<>> /\ boot = FALSE /\ timer = 0
    /\ serverRev = 0 /\ applied = 0 /\ rows = NoRows /\ devRev = [d \in Devices |-> 0]
    /\ calls = [i \in Slots |-> Idle]
    /\ hostCode = 0 /\ secret = FALSE /\ synced = 0 /\ losses = 0 /\ touched = {}
    /\ crossed = FALSE /\ overlap = FALSE /\ failed = FALSE

Rev == Len(log)

(***************************************************************************)
(* The server.                                                             *)
(***************************************************************************)
\* Publish stamps the event and hands it to the writer of every registered
\* connection.
Published(t, d, o) ==
    /\ Rev < MaxRev
    /\ log' = Append(log, [type |-> t, dev |-> d, online |-> o])
    /\ wire' = IF sock = "open" THEN Append(wire, Frame("event", Rev + 1, NoRows)) ELSE wire

\* Another client of the account, or the device itself, changes a row.
DeviceChanged(d) ==
    /\ \/ /\ d \notin bound /\ bound' = bound \cup {d}
          /\ Published("bound", d, online[d]) /\ UNCHANGED <<online, code>>
       \/ /\ d \in bound /\ bound' = bound \ {d}
          /\ Published("unbound", d, FALSE) /\ UNCHANGED <<online, code>>
       \/ /\ d \in bound /\ online' = [online EXCEPT ![d] = ~@]
          /\ Published("online", d, ~online[d]) /\ UNCHANGED <<bound, code>>
       \/ /\ d \in bound \ {Own} /\ code[d] < MaxCode /\ code' = [code EXCEPT ![d] = @ + 1]
          /\ Published("code", d, FALSE) /\ UNCHANGED <<bound, online>>
    /\ UNCHANGED <<token, logged, sock, boot, timer, list, calls, upload, losses, touched>>

SessionRevoked ==
    /\ losses < MaxLosses /\ losses' = losses + 1
    /\ \E t \in {"revoked", "other"} : Published(t, Own, FALSE)
    /\ UNCHANGED <<bound, online, code, token, logged, sock, boot, timer, list, calls,
                   upload, touched>>

TokenExpires ==
    /\ token = "ok" /\ logged /\ losses < MaxLosses
    /\ token' = "expired" /\ losses' = losses + 1
    /\ UNCHANGED <<bound, online, code, log, logged, socket, list, calls, upload, touched>>

\* AuthManager's refresh, once a request has met a 401.
TokenRefreshed ==
    /\ token = "refreshing" /\ token' = "ok"
    /\ UNCHANGED <<bound, online, code, log, logged, socket, list, calls, upload, losses,
                   touched>>

ServerRows == [d \in Devices |-> IF d \in bound THEN Row(online[d], code[d]) ELSE None]

(***************************************************************************)
(* The realtime socket.                                                    *)
(***************************************************************************)
startSync ==
    /\ sock' = "opening" /\ wire' = <<>> /\ boot' = FALSE

\* loginSuccess: MainController starts the sync.
Login ==
    /\ ~logged /\ logged' = TRUE /\ token' = "ok"
    /\ startSync
    /\ UNCHANGED <<bound, online, code, log, timer, list, calls, upload, losses, touched>>

stopSync ==
    /\ wire' = <<>> /\ boot' = FALSE
    /\ IF sock = "none" THEN UNCHANGED <<sock, serverRev, applied, devRev>>
       ELSE /\ sock' = "none" /\ serverRev' = 0 /\ applied' = 0
            /\ devRev' = [d \in Devices |-> 0]

\* The list itself stays; only the revisions are reset.
Logout ==
    /\ logged /\ logged' = FALSE /\ stopSync
    /\ UNCHANGED <<bound, online, code, log, token, timer, rows, calls, upload, losses,
                   touched>>

Replay(since) == [i \in 1 .. Rev - since |-> Frame("event", since + i, NoRows)]

\* since_rev of the auth frame.
resumeFrom == applied

\* onSyncConnected sends the auth frame, and the server answers with auth_ok, a
\* replay if it was asked for one and still has it, a snapshot otherwise, and
\* bootstrap_done; or with an error.
SyncConnected ==
    /\ sock = "opening" /\ sock' = "open"
    /\ wire' \in IF token # "ok" THEN {<<Frame("error", 0, NoRows)>>}
                 ELSE {<<Frame("auth_ok", Rev, NoRows)>> \o mid \o <<Frame("done", Rev, NoRows)>> :
                          mid \in {<<Frame("snapshot", Rev, ServerRows)>>}
                                  \cup (IF resumeFrom > 0 THEN {Replay(resumeFrom)} ELSE {})}
    /\ UNCHANGED <<server, logged, boot, timer, list, calls, upload, losses, touched>>

\* Mutant: the reconnect is left to the next login.
DisconnectedQuietly == boot' = FALSE /\ sock' = "closed" /\ wire' = <<>> /\ UNCHANGED timer

onSyncDisconnected ==
    /\ boot' = FALSE /\ sock' = "closed" /\ wire' = <<>>
    /\ timer' = IF logged THEN timer + 1 ELSE timer

SocketLost ==
    /\ sock \in {"opening", "open"} /\ losses < MaxLosses /\ timer < 2
    /\ losses' = losses + 1
    /\ onSyncDisconnected
    /\ UNCHANGED <<server, logged, list, calls, upload, touched>>

\* The singleShot outlives a logout and a newer socket.
ReconnectTimer ==
    /\ timer > 0 /\ timer' = timer - 1
    /\ IF logged THEN startSync ELSE UNCHANGED <<sock, wire, boot>>
    /\ UNCHANGED <<server, logged, list, calls, upload, losses, touched>>

(***************************************************************************)
(* HTTP calls.                                                             *)
(***************************************************************************)
FreeSlot == {i \in Slots : calls[i].type = "none"}
Spare == Cardinality(FreeSlot) > 1   \* what may recur leaves a slot to the frames
Send(t, d, v) ==
    LET i == CHOOSE j \in FreeSlot : \A k \in FreeSlot : j <= k
    IN  [calls EXCEPT ![i] = Call(t, d, "sent", v, 0)]

\* The server processes a call.
Serve(i) ==
    LET c == calls[i]
    IN  /\ c.type # "none" /\ c.stage = "sent"
        /\ \/ /\ c.type # "refresh" /\ Rev = MaxRev   \* the bound: an error instead
              /\ calls' = [calls EXCEPT ![i].stage = "failed"]
              /\ UNCHANGED <<bound, code, log, wire>>
           \/ /\ c.type = "refresh"
              /\ calls' = [calls EXCEPT ![i] =
                    IF c.dev \in bound THEN Call(c.type, c.dev, "ok", ServerRows[c.dev], Rev)
                    ELSE Call(c.type, c.dev, "missing", None, Rev)]
              /\ UNCHANGED <<bound, code, log, wire>>
           \/ /\ c.type = "unbind" /\ c.dev \notin bound
              /\ calls' = [calls EXCEPT ![i].stage = "missing"]
              /\ UNCHANGED <<bound, code, log, wire>>
           \/ /\ c.type = "unbind" /\ c.dev \in bound
              /\ bound' = bound \ {c.dev}
              /\ calls' = [calls EXCEPT ![i] = Call(c.type, c.dev, "ok", None, Rev + 1)]
              /\ Published("unbound", c.dev, FALSE) /\ UNCHANGED code
           \/ /\ c.type = "bind"
              /\ bound' = bound \cup {c.dev}
              /\ calls' = [calls EXCEPT ![i].stage = "ok"]
              /\ Published("bound", c.dev, online[c.dev]) /\ UNCHANGED code
           \/ /\ c.type = "upload"
              /\ code' = [code EXCEPT ![c.dev] = c.val.code]
              /\ calls' = [calls EXCEPT ![i].stage = "ok", ![i].rev = Rev + 1]
              /\ IF c.dev \in bound THEN Published("code", c.dev, FALSE)
                 ELSE UNCHANGED <<log, wire>>
              /\ UNCHANGED bound
        /\ UNCHANGED <<online, token, logged, sock, boot, timer, list, upload, losses, touched>>

\* The call or its answer is lost: the callback runs with an error.
CallFails(i) ==
    /\ calls[i].type # "none" /\ losses < MaxLosses /\ losses' = losses + 1
    /\ calls' = [calls EXCEPT ![i].stage = "failed"]
    /\ UNCHANGED <<server, logged, socket, list, upload, touched>>

(***************************************************************************)
(* The realtime frames.                                                    *)
(***************************************************************************)
shouldApplyWireFrame(rev) == rev > 0 /\ rev > applied

PutRow(d, rev, r) == rows' = [rows EXCEPT ![d] = r] /\ devRev' = [devRev EXCEPT ![d] = rev]

\* A row that is in the list is only patched by an event newer than the row.
patchRow(d, rev, r) ==
    IF rows[d].here /\ rev <= devRev[d] THEN UNCHANGED <<rows, devRev>>
    ELSE PutRow(d, rev, r)

\* Mutant: an unbound device stays in the list until the next snapshot.
UnboundKept(e, rev) ==
    /\ CASE e.type = "bound"  -> patchRow(e.dev, rev, Row(e.online, rows[e.dev].code))
         [] e.type = "online" -> patchRow(e.dev, rev, Row(e.online, rows[e.dev].code))
         [] OTHER -> UNCHANGED <<rows, devRev>>
    /\ UNCHANGED calls

\* An access-code event carries no code: the row is stamped and the code of
\* this one device is fetched.  Without a row, a sparse one is put in.
applyDeviceEvent(e, rev) ==
    \/ /\ e.type = "unbound"
       /\ rows' = [rows EXCEPT ![e.dev] = None] /\ devRev' = [devRev EXCEPT ![e.dev] = rev]
       /\ UNCHANGED calls
    \/ /\ e.type \in {"bound", "online"}
       /\ patchRow(e.dev, rev, Row(e.online, rows[e.dev].code))
       /\ UNCHANGED calls
    \/ /\ e.type = "code"
       /\ patchRow(e.dev, rev, Row(rows[e.dev].online, rows[e.dev].code))
       /\ IF rows[e.dev].here /\ rev > devRev[e.dev]
          THEN FreeSlot # {} /\ calls' = Send("refresh", e.dev, None)
          ELSE UNCHANGED calls

\* server_rev of a frame, which every frame with one raises.
heardOf(rev) == IF rev > serverRev THEN rev ELSE serverRev

\* A domain event.
EventFrame(f) ==
    LET e == log[f.rev]
    IN  /\ f.type = "event"
        /\ IF ~shouldApplyWireFrame(f.rev)
           THEN /\ serverRev' = heardOf(f.rev)
                /\ UNCHANGED <<applied, rows, devRev, calls, logged, sock, boot>>
                /\ wire' = Tail(wire)
           ELSE IF e.type = "revoked"
           THEN /\ logged' = FALSE /\ stopSync /\ UNCHANGED <<rows, calls>>
           ELSE /\ serverRev' = heardOf(f.rev) /\ applied' = f.rev
                /\ IF e.type = "other" THEN UNCHANGED <<rows, devRev, calls>>
                   ELSE applyDeviceEvent(e, f.rev)
                /\ wire' = Tail(wire) /\ UNCHANGED <<logged, sock, boot>>
        /\ UNCHANGED <<timer, token, touched>>

\* handleSnapshotFrame: the list and its revisions are replaced.
SnapshotFrame(f) ==
    /\ f.type = "snapshot"
    /\ serverRev' = heardOf(f.rev) /\ wire' = Tail(wire)
    /\ IF shouldApplyWireFrame(f.rev)
       THEN /\ applied' = f.rev /\ rows' = f.rows /\ touched' = {}
            /\ devRev' = [d \in Devices |-> IF f.rows[d].here THEN f.rev ELSE 0]
       ELSE UNCHANGED <<applied, rows, devRev, touched>>
    /\ UNCHANGED <<logged, sock, boot, calls, timer, token>>

AuthOkFrame(f) ==
    /\ f.type = "auth_ok"
    /\ serverRev' = heardOf(f.rev) /\ boot' = FALSE /\ wire' = Tail(wire)
    /\ UNCHANGED <<applied, rows, devRev, logged, sock, calls, timer, token, touched>>

\* syncConnected: MainController binds the device this host serves.
bindHostDeviceIfReady ==
    IF hostCode > 0 THEN FreeSlot # {} /\ calls' = Send("bind", Own, None) ELSE UNCHANGED calls

BootstrapDone(f) ==
    /\ f.type = "done"
    /\ serverRev' = heardOf(f.rev) /\ applied' = IF f.rev > applied THEN f.rev ELSE applied
    /\ boot' = TRUE /\ wire' = Tail(wire)
    /\ bindHostDeviceIfReady
    /\ UNCHANGED <<rows, devRev, logged, sock, timer, token, touched>>

\* GET /v1/me meets the 401 that makes AuthManager refresh; the socket is closed.
ErrorFrame(f) ==
    /\ f.type = "error"
    /\ token' = IF token = "expired" THEN "refreshing" ELSE token
    /\ onSyncDisconnected
    /\ UNCHANGED <<list, logged, calls, touched>>

Deliver ==
    /\ sock = "open" /\ wire # <<>> /\ timer < 2
    /\ LET f == Head(wire)
       IN  \/ AuthOkFrame(f) \/ SnapshotFrame(f) \/ BootstrapDone(f) \/ EventFrame(f)
           \/ ErrorFrame(f)
    /\ UNCHANGED <<bound, online, code, log, upload, losses>>

(***************************************************************************)
(* The answers.                                                            *)
(***************************************************************************)
\* The client has applied an event about d that the answer does not know of,
\* or has still to apply one that the answer's revision will shut out.
Misfit(d, rev) ==
    \E r \in (rev + 1 .. applied) \cup (applied + 1 .. serverRev) :
        log[r].type \notin {"revoked", "other"} /\ log[r].dev = d

\* refreshDeviceAccessCodeNow: the row gets the code, or is put in whole, and
\* its revision rises to the highest the client has heard of.
RefreshAnswer(c) ==
    /\ c.type = "refresh" /\ c.stage = "ok" /\ c.val.code # 0
    /\ rows' = [rows EXCEPT ![c.dev] =
                  IF rows[c.dev].here THEN Row(rows[c.dev].online, c.val.code) ELSE c.val]
    /\ devRev' = [devRev EXCEPT ![c.dev] = IF serverRev > @ THEN serverRev ELSE @]
    /\ touched' = IF Misfit(c.dev, c.rev) THEN touched \cup {c.dev} ELSE touched
    /\ UNCHANGED <<synced, crossed, failed>>

\* unbindDevice: the row goes before the event says so.
UnbindAnswer(c) ==
    /\ c.type = "unbind" /\ c.stage = "ok"
    /\ rows' = [rows EXCEPT ![c.dev] = None]
    /\ touched' = IF Misfit(c.dev, c.rev) THEN touched \cup {c.dev} ELSE touched
    /\ UNCHANGED <<devRev, synced, crossed, failed>>

\* syncAccessCode: what was uploaded is remembered and patched into the row.
SyncedAnswer(c) ==
    /\ c.type = "upload" /\ c.stage = "ok"
    /\ synced' = c.val.code
    /\ rows' = IF rows[c.dev].here THEN [rows EXCEPT ![c.dev].code = c.val.code] ELSE rows
    /\ UNCHANGED <<devRev, touched, crossed, failed>>

\* An error, the answer to a bind, or a device that is not there: only logged.
OtherAnswer(c) ==
    /\ \/ c.stage \in {"missing", "failed"}
       \/ c.stage = "ok" /\ c.type = "bind"
       \/ c.stage = "ok" /\ c.type = "refresh" /\ c.val.code = 0
    /\ touched' = IF c.type = "refresh" /\ c.stage = "failed"
                  THEN touched \cup {c.dev} ELSE touched
    /\ crossed' = (crossed \/ (c.type = "upload" /\ c.stage = "failed"))
    /\ failed' = (failed \/ (c.type = "upload" /\ c.stage = "failed"))
    /\ UNCHANGED <<rows, devRev, synced>>

Answer(i) ==
    /\ calls[i].type # "none" /\ calls[i].stage # "sent"
    /\ LET c == calls[i]
       IN  RefreshAnswer(c) \/ UnbindAnswer(c) \/ SyncedAnswer(c) \/ OtherAnswer(c)
    /\ calls' = [calls EXCEPT ![i] = Idle]
    /\ UNCHANGED <<server, logged, socket, serverRev, applied, hostCode, secret, overlap, losses>>

(***************************************************************************)
(* The user and this host.                                                 *)
(***************************************************************************)
unbindDevice(d) ==
    /\ logged /\ rows[d].here /\ Spare
    /\ calls' = Send("unbind", d, None)
    /\ UNCHANGED <<server, logged, socket, list, upload, losses, touched>>

\* MainController refreshes the code of a device it is about to reconnect to.
RefreshNow(d) ==
    /\ logged /\ rows[d].here /\ Spare
    /\ calls' = Send("refresh", d, None)
    /\ UNCHANGED <<server, logged, socket, list, upload, losses, touched>>

OtherUpload(c) == \E i \in Slots : calls[i].type = "upload" /\ calls[i].val.code # c
Uploading == \E i \in Slots : calls[i].type = "upload"

SendUpload(c) ==
    /\ calls' = Send("upload", Own, Row(FALSE, c))
    /\ crossed' = (crossed \/ OtherUpload(c))
    /\ overlap' = ((overlap /\ Uploading) \/ OtherUpload(c))
    /\ failed' = FALSE

NoUpload == UNCHANGED <<calls, crossed, overlap, failed>>

\* Mutant: one upload of a device is enough.
UploadOnce(c) == IF ~secret' \/ synced # 0 THEN NoUpload ELSE SendUpload(c)

\* Nothing is sent without a device_secret, or when this code was the last one
\* uploaded.
syncAccessCode(c) == IF ~secret' \/ c = synced THEN NoUpload ELSE SendUpload(c)

\* accessCodeChanged: the host is up, or it has a new access code.
HostCode ==
    /\ hostCode < MaxCode /\ hostCode' = hostCode + 1 /\ FreeSlot # {}
    /\ secret' = secret
    /\ syncAccessCode(hostCode + 1)
    /\ UNCHANGED <<server, logged, socket, list, synced, losses, touched>>

\* deviceSecretReady, the first or another one, and hostReady repeat the upload.
HostSecret ==
    /\ Spare /\ secret' = TRUE
    /\ IF hostCode > 0 THEN syncAccessCode(hostCode) ELSE NoUpload
    /\ UNCHANGED <<server, logged, socket, list, hostCode, synced, losses, touched>>

\* hostReady binds the device, if the sync has come up.
HostReadyBinds ==
    /\ hostCode > 0 /\ logged /\ boot /\ Spare
    /\ bindHostDeviceIfReady
    /\ UNCHANGED <<server, logged, socket, list, upload, losses, touched>>

CloudNext ==
    \/ \E d \in Devices : DeviceChanged(d) \/ unbindDevice(d) \/ RefreshNow(d)
    \/ SessionRevoked \/ TokenExpires \/ TokenRefreshed \/ Login \/ Logout
    \/ SyncConnected \/ SocketLost \/ ReconnectTimer \/ Deliver
    \/ \E i \in Slots : Serve(i) \/ CallFails(i) \/ Answer(i)
    \/ HostCode \/ HostSecret \/ HostReadyBinds

CloudSpec == CloudInit /\ [][CloudNext]_cloudVars

\* The event loop runs its timers and slots, the server takes connections and
\* answers, and a refresh under way ends.
CloudFairSpec ==
    /\ CloudSpec /\ WF_cloudVars(SyncConnected) /\ WF_cloudVars(ReconnectTimer) /\ WF_cloudVars(Deliver)
    /\ WF_cloudVars(TokenRefreshed)
    /\ \A i \in Slots : WF_cloudVars(Serve(i)) /\ WF_cloudVars(Answer(i))

(***************************************************************************)
(* Properties.                                                             *)
(***************************************************************************)
Matches(d) ==
    /\ rows[d].here <=> d \in bound
    /\ rows[d].here => rows[d].online = online[d] /\ rows[d].code \in {0, code[d]}

Quiet ==
    /\ logged /\ boot /\ wire = <<>>
    /\ \A i \in Slots : calls[i].type \notin {"refresh", "unbind", "upload"}

\* Once the frames and the calls under way are done, the list shows the
\* devices of the account, their presence and, where it has one, their access
\* code, for every device whose HTTP answers fitted between the events
\* (CloudDeviceManager: applyDeviceEvent, handleSnapshotFrame and the calls).
ListConverges ==
    Quiet => \A d \in Devices \ touched : (d # Own \/ ~crossed) => Matches(d)

\* Once no upload is under way and the host has delivered its device_secret,
\* the cloud has the access code of this host and the client knows that; or the
\* client knows that it has not, an upload having failed, so that the next
\* signal of the host uploads again (CloudDeviceManager::syncAccessCode).  Only
\* the last batch of uploads counts: a failure is made good by a later upload.
\* The exception is a batch with different codes, stored in either order.
CloudHasCode ==
    hostCode > 0 /\ secret /\ ~Uploading /\ ~overlap =>
        \/ code[Own] = hostCode /\ synced = hostCode
        \/ failed /\ synced # hostCode

\* A logged-in client comes back to a bootstrapped socket, whatever was lost
\* and whatever the server said to its token (CloudDeviceManager:
\* onSyncDisconnected, startSync and the error frame).
SyncRecovers == logged ~> (boot \/ ~logged)
=============================================================================
