# A TLA+ model of QuickDesk

QuickDesk is a remote-desktop system: a Qt desktop application (host and
controller), a browser client, an Android client, MCP and skill-host programs
for agents, a virtual display driver for Windows, and a signaling server in Go
that keeps accounts, devices, presence and the realtime channels between them.

This directory models the parts that are concurrent, fail in pieces or depend on
the order of messages: the desktop application's managers, its local API and its
display driver, and the signaling server's realtime core with its login sessions
and recordings. Paths are relative to `src/`; `handler/` and `service/` stand
for `SignalingServer/internal/...`, `manager/`, `controller/` and `api/` for
`QuickDesk/src/...`, `driver/` and `control/` for `quickdesk-virtual-display/...`.

## Inventory

| Component | State | Operations | What makes it correct |
|---|---|---|---|
| Process supervision (`manager/ProcessManager.cpp`, `HostManager.cpp`, `SkillHostManager.cpp`, `controller/MainController.cpp`) | child processes or service pipes, restart counts and timers, what the host reported | start, greet, crash, restart, fall back, shut down | a program that crashes or is lost is retried until its attempts are used up; shutdown is final; the window shows only what is there |
| Remote sessions (`manager/ClientManager.cpp`, `SharedMemoryManager.cpp`, `MainController.cpp`) | connections by device and by connection id, segments, active device, pending verifications | connect, verify, retry, disconnect, states, lists, failures | the maps agree; nothing survives its connection; requests settle |
| File transfers (`manager/FileTransferQueue.cpp`) | tasks, sessions, one queue per connection | enqueue, dispatch, adopt a name, cancel, time out, end | a row tells of its own transfer; one upload at a time; the queue drains |
| Device list (`manager/CloudDeviceManager.cpp`) | rows, last applied revision, socket, calls in flight | snapshot, events, refresh, unbind, upload of the access code, reconnect | the list converges; the cloud has the access code or the client knows that it has not; the sync comes back |
| Account (`manager/AuthManager.cpp`) | tokens, refresh in flight and its queue, timer | request, refresh, login, logout, restore | one refresh at a time; a session ends only for a cause, and a dead one does |
| Local API (`api/*.cpp`, `MainController.cpp`) | clients, pool, pending confirmations and tool calls, last screen event | confirm, stop, call a tool, verify, wait, click, broadcast | the user's word counts; the emergency stop denies; requests end |
| Virtual display (`driver/Driver.cpp`, `control/IddController.c`) | device handle, connectors, monitors, swap-chain threads | create, plug in and out, update modes, assign and take back chains | no orphaned monitor; no thread without owner; callbacks return |
| Recordings (`manager/DeviceRecorder.cpp`, `service/session_recording_*.go`, `handler/session_recording_handler.go`) | encoder, paths, upload jobs; rows and files | capture, index, upload, retry, delete, sweep, reap | rows have their files; captures and rows settle; orphans go |
| Realtime events (`service/event_bus.go`, `handler/realtime_handler.go`, `WebClient/src/api/userSync.js`) | `server_rev`, a Redis stream per user, retry list, queues; checkpoint and mirror | publish, drain, bootstrap, deliver, resume, reconnect | order; a checkpoint never passes what the mirror lacks; mirrors converge |
| Presence (`service/presence_*.go`, `handler/host_handler.go`) | heartbeat key, `ws_instances`, instance keys, `known_online` | connect, disconnect, ping, heartbeat, expiry, restart | a transition is announced once; a live host ends up online |
| Signaling relay (`handler/realtime_handler.go`) | `signalHosts`, `signalClient`, a queue per connection | register, route, close | routes lead to the latest connection; clients of a host that went are released |
| Login sessions (`service/token_service.go`, `handler/auth_handler.go`, `handler/me_handler.go`, `WebClient/src/api/userApi.js`) | access and refresh tokens, family sets, index; the tabs' shared session and lock | login, rotate, revoke, password change, logout | one working refresh token per family; revocation is final; tabs do not log each other out |
| Device ownership, access codes and rate limits, accounts, audit, webhooks, admin console, browser session, Android client, MCP server, user interface | | | not modelled; see the end |

How they meet. `ProcessManager` hands a program's `NativeMessaging` to
`HostManager` or `ClientManager`, whose commands and events cross in two pipes;
`ClientManager` drives the transfer queue and the segments and reports to
`MainController`, which serves the local API. `AuthManager` carries the requests
of `CloudDeviceManager`, whose socket is one client of the realtime events.
Handlers of the server commit to the database and then call `EventBus.Publish`;
a host's signaling connection is both a route of the relay and one of the two
signals presence is derived from, and presence announces its transitions through
the bus. The modules meet at the same places: what another component does to a
module is an external action named for it (`Takes`, `Speaks`, `Serve`, ...).

What is hard: goroutines interleave at every Redis command; slots of one Qt
event loop are atomic, but programs, pipes, HTTP answers, timers, pool workers
and Windows act between them; answers come late, twice or not at all; queues are
bounded and drop; keys expire on their own; programs die and come back; a
client retries what already happened. `PROJECT.json` lists these under
"hazards", each at its line.

## Modules

| Module | What it models |
|---|---|
| `ProcessSupervision` | host (child or service), client and skill host of one desktop application |
| `Supervisor` | abstract: what the application promises about each program; `ProcessSupervision` is shown to implement it |
| `ClientSessions` | connections of one controller, with the native program and both pipes |
| `FileTransfers` | the transfer queue between user, connections and native program |
| `CloudDevices` | the device list between a FIFO socket and unordered HTTP answers |
| `DesktopAccount` | the desktop login, with the server's token families |
| `LocalApi` | UI thread, pool workers and users of the local API |
| `VirtualDisplay` | control library, driver and Windows |
| `Recordings` | the recorder composed with the server's recording store |
| `RealtimeEvents` | one user's events from the committed row to the clients' mirrors |
| `Presence` | one device's presence, one step per Redis command |
| `SignalRelay` | one device's signaling relay |
| `Sessions` | one user's token families and the tabs of one browser |
| `MC...` | the module TLC runs, with the values of function constants |
| `RealtimeEventsProofs`, `SessionsProofs`, `SignalingProofs`, `RecordingsProofs`, `ManagersProofs`, `LocalServicesProofs`, `DesktopProofs`, `FileTransfersProofs` | theorems about the module each is named for; `SignalingProofs` about `SignalRelay` and `Presence`, `ManagersProofs` about `ProcessSupervision` and `CloudDevices`, `LocalServicesProofs` about `LocalApi` and `VirtualDisplay`, `DesktopProofs` about `DesktopAccount` and `ClientSessions` |

Definitions whose comment starts with "Mutation" or "Mutant" are not part of the
system: each is a faulty variant of the definition after it and shows that a
property notices the fault. History variables, named so at their declaration, are
read by no guard.

### ProcessSupervision and Supervisor

One slot of the Qt event loop, with the signals it emits, is one action; the
operating system's share (`Started`, `Finished`, `FailedToStart`,
`PipeConnected`, ...) is in between. `pm` holds a program's process, channel,
status, restart count and timer. Greeting, connect command and the client's
wait for the device id are timers of their own. The time of a restart relative
to a greeting is kept by comparing `calculateRestartDelay` with it.

`Supervisor` knows five phases per program (idle, trying, up, ended, given up)
and counts its attempts. From `up`, an open application goes to `trying` (the
program crashed or its service was lost) or to `ended` (it exited normally, or no
executable is left to start, which `ProcessManager` does not retry); `givenUp` is
reached only with all attempts used up. `ProcessSupervision!Promised` maps timers,
processes, pipes and restart counts to that; TLC checks that every step is a step
or a stutter of it, that no attempt lasts for ever and that shutdown ends
everything (`SupervisorKept`). `over` is a history variable: the programs that
`ended`.

### ClientSessions

`known`, `conn`, `rtc` and `route` are `m_connections` and `m_connIdToDeviceId`;
`shm` the attached segments; `sessions` and `retired` the file sessions as
`ClientManager` opens and ends them. The native program is external: it takes
commands (`Takes`), reports (`Speaks`) and sends lists (`SendsList`), each
message as old as its place in the pipe.

### FileTransfers

`tasks` in order of creation, `native` what the program really does. The
program names transfers itself; `HandleMessage` finds the task by name, then
by file name and order (`Named`, `Adopting`, `NewDownload`), and ignores what is
stale. `Repeats`, `Ends` and `Dies` are its liberties.

### CloudDevices and DesktopAccount

Frames arrive in order; each HTTP call is processed by the server at one moment
(`Serve...`) and its callback runs at a later one (`...Answer`, `Reply`). In
`CloudDevices`, `touched` marks a device whose HTTP answer was overtaken by an
event. `secret` says whether `HostManager` has a device secret, without which
nothing is uploaded; `synced` is the code the client takes for stored. Of the
uploads since none was in flight, `overlap` says that they carried different
codes and `failed` that the last one failed. In `DesktopAccount` the request that
meets a 401 joins `waiting`; a 401 is `denied` when the token deserves it and
`refused` when the server's Redis failed; `stranded` marks a session that nothing
leads back to the socket.

### LocalApi

A job is a call in the pool; its `pc` moves between the points where another
thread can come in. Confirmations and tool calls share the shape: insert, wait,
wake, take out. Time only exists as the poll count of a watch and the stamp of a
frame. `due` is a history variable: the newest frame that the `screenChanged`
handlers are done with, unless it repeated the screen announced last. `Loads`
bounds which kinds of jobs a run hands over, and in which order.

### VirtualDisplay

`call` is each process' request, `slots` the driver's `m_Monitors`, `threads` the
swap-chain processors. Windows' callbacks are `AssignSwapChain` and
`UnassignSwapChain`; they wait for the old thread (`joined`), which leaves its
loop only as `leavesLoop` says. The module takes the library's request codes to be
the driver's; see the exceptions.

### Recordings

A capture names its row and its files. `output`, `poster` and `captured` belong
to the recorder and may by then be another capture's. The server checks, renames
and attaches an upload in three steps, between which a row may be deleted or
swept and the reaper may run.

### RealtimeEvents

`CommitRow` and `CommitRevoke` are a handler's transaction; `PublishStamp`,
`PublishStream` and `PublishFanout` the three parts of `Publish` under
`publishMu`; `SubscriberWorker` the single worker with `HandleEvent`;
`DrainRetry` the retry worker. A connection is registered (`HandleEvents`),
takes its baseline (`AuthOk`), reads the stream (`Resume`) or decides for a
snapshot (`SnapshotRequired`, `BuildSnapshot`), writes it frame by frame and
only then starts its `Writer`. The client applies a frame in the step that
writes it (the socket is FIFO) by the rule of `_shouldApplyFrame`. `Away` are
sessions of the user that have no events connection but can be revoked. The
reader of a live connection takes resume frames: `ResumeFrame` reads the stream
again and `ReaderSend` queues what it read event by event, between the events that
the worker queues; such a connection is `resumed` until it ends.

### Presence

A process is a goroutine: one per host connection, one watcher per server
process, one heartbeat request. `PresenceService.State` is three reads and a
clean-up, each a step; `next` says what the caller does with the answer. `shown`
is what subscribers were told last: the bus keeps the order of `Publish`. Every
Redis command may fail, and one that writes may have been carried out all the
same (`RememberFails`, `ForgetFails`, `MarkFails`, `HeartbeatFails`).

### SignalRelay

A connection goes through `none`, `auth`, `open`, `ending` (a host that left the
map and has yet to close its clients) and `gone`. `close` runs in a goroutine of
its own; reader, writer and unregister look at `done`. Queues hold `OutCap`.

### Sessions

A token is its family and generation. A request on the server goes through
`RotateRefreshToken`, `RevokeFamily` and `RevokeAllForSubject` one Redis command
(or one pipeline) at a time. The browser's tabs share `store` (localStorage) and
`lock`. `RefreshToken` answers every error with 401, so a failed Redis command
and a spent token look the same to the client. Each command has its failure, with
and without effect: those that `TokenService` looks at end in 401 (`GetDelFails`,
`MintFails`), those that it ignores go on (`SpendFails`, `TrackFails`,
`ReuseFails`, an empty `Members`, `DeleteFails`, an unchanged index).

## Runs

Each run has one question and its own `.cfg`. Safety properties are invariants or
action properties; those marked L are liveness under the fairness below.
Invariants that are conjunctions name their parts in the module.

| Run | Properties | What it shows |
|---|---|---|
| `Events` | `TypeOK`, `FanoutOrdered`, `RevocationScoped`, `CheckpointCovers`, `ReplayComplete`, `MirrorsConverge` (L) | Two handlers publish while Redis commands fail, queues overflow, the stream is trimmed or expires, connections break, resume while live, and the process dies. Queues stay in stamping order, only revoked sessions are logged out, a checkpoint never passes what the mirror lacks, a replay has no holes, and mirrors end up equal to the database. |
| `Presence` | `AnnouncedOnce`, `SubscribersTold` (L), `HostEndsOnline` (L) | Two connections, heartbeats, the watcher and a server that is replaced race one Redis command at a time; every change of `known_online` whose command was answered is announced by exactly one of them, subscribers end up with the truth, a running host ends up online; any one Redis command may fail or lose its answer. |
| `RelayRouting` | `RoutesFollowLatest`, `FramesKeepTheirClient`, `ClientsReleased` (L) | Connections with shared ids come, are replaced and go, queues are full, and clients send frames with another's id, without one, and that are no JSON object. |
| `Sessions` | `OneTokenPerFamily`, `RevokedStaysDead`, `TabsKeepSession`, `RefreshEnds` (L) | Two tabs refresh at once, answers get lost, any one Redis command fails, tokens are reused, the user logs out or changes the password. |
| `Supervision` | `ProgramsInStep`, `SupervisorKept` (L, refinement), `ClientGetsHello` (L) | Programs start, crash, lose their pipe, fall back to a child and are shut down. Nothing a program reported outlives it, a host is greeted before it connects, withdrawn tools stay withdrawn, and `Supervisor` is implemented: what crashes is tried again until its attempts are used up. |
| `Transfers` | `TasksSound`, `OneUploadAtATime`, `QueueDrains` (L) | Files with one name, cancels before and after the name is known, timeouts, repeated, late and nameless events, a dying program. |
| `Clients` | `TablesAgree`, `ViewConverges`, `ConnectSettles` (L) | Messages of old and new connections cross in both pipes; routes, file sessions, segments and the active device follow the table, which follows the native program. |
| `Cloud` | `ListConverges`, `CloudHasCode`, `SyncRecovers` (L) | Ordered frames against unordered HTTP answers; the device secret comes before, after or without the access code, and uploads fail. |
| `Account` | `SpentOnlyAfterLoss`, `SessionEndsForCause` (L), `ComesOnline` (L) | Requests, refreshes, logins, logouts and restarts answered in any order; the server's Redis may fail under each of them. |
| `LocalApi` | `AnswersSound`, `EventsKeepUp`, `RequestsEnd` (L) | Two pool workers wait, and a third job behind them, while the UI thread answers, stops and disconnects. Hashes of three frames come back in any order, and listeners are never `Gap` behind. |
| `VirtualDisplay` | `MonitorsTracked`, `ThreadsOwned`, `CallbacksReturn` (L) | Two processes plug monitors while Windows assigns, takes back and loses swap-chains and its calls fail. |
| `Recordings` | `StoreSound`, `CapturesEnd` (L), `StoreSettles` (L) | Two captures, retries and lost answers, deletions, sweeper and reaper. |

Each property has a mutant in `PROJECT.json`: a plausible fault of the code with
which TLC finds the property violated under the same `.cfg`.

Type invariants: every module has a `TypeOK`. The `Events` run checks the one of
`RealtimeEvents`; the one of `Sessions` is proved.

## Exceptions

Properties that hold only outside of certain races name them, with a history
variable or a disjunct, so that what the code does not ensure is visible. They
are where a reviewer of the code would look first.

Server.

- `RealtimeEvents`: `lost` are changes whose event a failed INCR, a full worker
  queue or a crash dropped (`event_bus.go:187`), and what a snapshot carried that
  a client did not apply because it had no revision: the rows read, and every
  published change that they include. `raced` are changes stamped before the
  baseline of a resume and appended after its read of the stream
  (`realtime_handler.go:325`), those the retry worker appends behind newer ones
  (`event_bus.go:166`), and those a resume frame on a live connection cannot see. A
  connection that takes such a frame (`realtime_handler.go:449-475`) has older events
  queued behind newer ones: `FanoutOrdered` says nothing of its queue, and the client
  drops what its checkpoint has passed. The repository's own clients send no such
  frame; the endpoint accepts it from any.
  `Hidden` is what the truncation test cannot see when
  the oldest entry has revision 0 or was retried. `Overtaken`: commit and
  publication are separate, so an older row may be published last. A
  `session.revoked` below the baseline of a snapshot is not replayed; the next
  HTTP request or refresh meets the 401 instead.
- `Presence`: an SADD or SREM that fails reads as "no change"
  (`presence_service.go:153-162`). If it was carried out, nobody announces it:
  `unsaid` counts such changes. `missed` is an expiry that no watcher heard, whose
  SREM failed, or that came while a connection was remembering the device.
  `mistold` is the last announcement having been lost in this way,
  being overtaken by an older one, failing its lookup or dying with the server: after a
  network switch the offline event may come last, though
  `docs/dev/信令服务器API重构方案.md:1206` has the user interface end up online.
- `SignalRelay`: the frame that says `PEER_DISCONNECTED` is queued for the writer
  while another goroutine closes the connection (`realtime_handler.go:799`): the
  client may never see it. Frames for a full queue are dropped. A client's frame
  that is no JSON object reaches the host without any `client_id`, and one that
  starts like an object and does not parse is dropped
  (`realtime_handler.go:961-974`): "whatever id a client writes" is said of objects.
- `Sessions`: `raced` families are those a rotation overlapped. A rotation stores
  the new token before it is a member of the family set
  (`token_service.go:375`), and `RevokeFamily`, which "kills every refresh token in
  the family" (`:387`), then misses it. The same happens, without any race, when the
  SADD fails (the error is ignored), when a SET is carried out and its answer lost
  (401, and a token that nobody tracks), and when the SMEMBERS or the DEL of the
  revocation fail (`:387-403`, ignored as well); `raced` names these families too.
  A failed SMEMBERS of the index makes a password change revoke nothing and
  delete the index. The index of families is renewed by logins
  only (`:196`, `:376`); once it has expired, the password change that is to "Kill
  every family" (`me_handler.go:61`) revokes nothing (`IndexExpire`). Answers lost
  and failures of Redis reported as 401 can log a browser out (`faults`).

Desktop application.

- `ProcessSupervision`: when a service pipe breaks, a child takes over at once and
  greeting timers of the lost connection may reach it (`inherited`); the status
  stays Running meanwhile. The retry count is reset when a program starts, not
  when it is connected. A skill host that crashes keeps its cached tools until it
  starts again or is switched off.
- `ClientSessions`: a list of connections older than one just made drops it
  (`overtaken`); a failed connection that is replaced keeps its segment
  (`leftover`). `disconnectAll` emits each removal while the table is still full.
- `FileTransfers`: a result that names no transfer blocks the queue of its
  connection (`blocked`).
- `CloudDevices`: "Authoritative list state converges through WS snapshot +
  server_rev-ordered device.* events" (`CloudDeviceManager.cpp:157`) holds for
  devices without HTTP answers crossing events (`touched`), and for the host's own
  row as long as no upload of it was lost or crossed another (`crossed`). Uploads
  of different codes that overlap may be stored in either order (`overlap`). A
  failed upload is not "silently retried on signaling reconnect" (`CloudDeviceManager.h:38`): it is
  sent again with the next `hostReady`, `deviceSecretReady` or
  `accessCodeChanged`, and until then `CloudHasCode` says only that the client
  knows (`failed`, `synced` is not the code). Without a device secret the upload is
  skipped (`CloudDeviceManager.cpp:343-346`), and `deviceSecretReady` makes up for
  it. The code of the last answered upload is not sent twice; before that answer
  the same code may be.
- `DesktopAccount`: a refresh answered after a logout brings the session back or
  replaces a newer one (`Foreign`), without the socket (`stranded`). "Session is
  already cleared by refreshAccessToken" (`AuthManager.cpp:172`) is not so when
  the refresh was unavailable; GET /v1/me then ends the session. The server answers
  401 to every error of a rotation and of the lookup of an access token
  (`auth_handler.go:160-190`, `middleware/auth.go:49-54`), also when only its Redis
  failed; the client takes that as final and a live session ends (`Refused`).
- `LocalApi`: a confirmation that has read its policy and is not yet in the table
  escapes an emergency stop. `clickText` writes to `NativeMessaging` from a worker
  (`ApiHandler.cpp:933`), of which `SkillHandler.cpp:116` says "NativeMessaging is
  not thread-safe". A reply is matched to its client by address. A frame that
  repeats the announced screen does not renew the time of the announcement, so an
  older frame with another screen, hashed late, can still be announced after it;
  `EventsKeepUp` leaves repeats out. A `timeout_secs` that is negative or too large
  wraps around (`TrustHandler.cpp:82`) and gives some other finite wait.
- `VirtualDisplay`: the creation callback writes to a stack that is gone after the
  ten-second limit (`IddController.c:313`); the model has the timeout and not the
  write. Windows may assign a chain before the monitor's context is filled in. The
  retry loops do not sleep between attempts of a request. The library sends
  `IOCTL_CHANGER_IDD_PLUG_IN`, `..._PLUG_OUT` and `..._UPDATE_MONITOR_MODE`
  (`IddController.c:460`, `:508`, `:572`) of `../RustDeskIddDriver/Public.h`
  (`:11`), which is not in the repository; the driver dispatches only
  `IOCTL_QUICKDESK_VD_*` (`Driver.cpp:1073-1159`) and answers everything else
  `STATUS_NOT_IMPLEMENTED`. Whether the two have the same values cannot be read
  from the source. The module composes them as if they had.
- `Recordings`: a capture started before the encoder has finalised the last one
  takes over its path, and the first is not uploaded; the poster of one may go to
  the other's row. A stored upload whose answer was lost may be marked failed.
  A 4xx is retried, against `DeviceRecorder.h:79`. The upload is sent without a
  transfer timeout: that it is answered or fails in the end is an assumption about
  the network, on which `CapturesEnd` rests.

## Bounds

Every bound is a constant of its module and named `Max...` or `...Cap`; `Loads` of
`LocalApi` is one too.

- `Events`: one client with an events connection and one session without
  (`Away`), two handlers, one row, queues and stream of length one, two changes
  and two failures. One of each capacity makes every overflow and truncation
  happen with the second change; two handlers are what ordering needs. A resume
  frame on a live connection counts as a failure.
- `Presence`: two connections, a server and its successor, one at a time
  (`MaxRunning = 1`), one failure of any kind, of any Redis command. Two servers at once do not fit in
  the time of a run.
- `RelayRouting`: two hosts, two clients, two ids, queues of one.
- `Sessions`: two tabs, two logins, one rotation each, one failure of any command,
  Web Locks present. Without Web Locks, and for any number of each, `OneTokenPerFamily` is
  proved.
- `Supervision`: two restarts, three failures or changes of settings, one viewer.
- `Transfers`: one connection, two files of one name, two tasks, one failure.
- `Clients`: two devices, two connection ids, two messages in each pipe, one list.
- `Cloud`: this host's own device, three revisions, two codes, two calls in flight,
  one failure. Rows are independent of each other, so one is enough; for any
  number of devices, the invariants are proved.
- `Account`: two logins, two generations, two failures.
- `LocalApi`: one connection, three jobs in a pool of two, time up to 3. `MCLoads`
  has the combinations that matter: two jobs that wait for a user, a skill host, a
  verification or a text, with a third behind the full pool, and three hashes. For
  any addresses, connections, jobs and combinations of them, the invariants are
  proved.
- `VirtualDisplay`: two processes, one connector and an index beyond it, two
  monitors, two chains, one retry, one failure.
- `Recordings`: two captures, two attempts, two failures.

No run uses symmetry: each checks liveness. Deadlock is not checked: with the
bounds used up, and wherever users and programs may simply stop, the system
rests.

## Fairness

Users, failures and crashes owe nothing. What is fair is what a scheduler or a
timer drives:

- server: goroutines run on once started; workers, readers and writers go through
  their queues;
  a key that nobody renews expires; a connection's ping and a host's heartbeat
  repeat; a dead server is restarted; `_scheduleReconnect` reopens a connection.
  Requests of tabs are served and answered (the password change owes nothing). A tab
  waiting for the Web Lock gets it in its turn, which is strong fairness
  because others may take it in between;
- desktop: the event loop runs queued slots, single-shot timers fire, the
  operating system answers a start and kills what was told to exit, HTTP requests
  are answered or fail (`QNetworkReply::finished` is emitted in both cases; for the
  recorder's upload, which has no transfer timeout, this is an assumption about the
  network). The
  realtime socket's authentication is strongly fair: it may be interrupted again
  and again, and is tried again each time;
- driver: a thread that is not waiting runs on, and a wait that is over returns.

## Proofs

Each module that is proved about has an inductive invariant, a conjunction of
named parts that TLC checked as an invariant of the module's run before it was
proved. What the theorems assume of the constants are the named assumptions of the
model modules: types and finiteness, and a few facts with content.
`NoTokenAssumption` says that the absence of a token is not a token, and
`DisplayAssumption` and `ClientAssumption` say the like of the values that stand
for nobody. `SupervisionAssumption` orders the delays of `ProcessManager` and the
greeting timers as the code's constants do; `PowersAssumption` says that powers of
two are positive numbers, which is arithmetic that the prover does not know.
`TransfersAssumption` includes that there is a file, without which there is nothing
to transfer, and `CloudAssumption` that the log has room for the event with which
it begins. TLC evaluates them in every run.

`RealtimeEventsProofs`, for any clients, sessions without a connection, handlers,
rows, capacities and faults:

- `TypeCorrect`: `Spec => []TypeOK`, one step per action.
- `FanoutInOrder`: `Spec => []FanoutOrdered`. The property is not inductive. The
  strengthening says that every stamped revision is at most `rev`, that at most
  one publisher is between its stamp and its fan-out (the mutex), and that this
  publisher's event is newer than everything queued; then appending to the worker
  queue, and handing its head on to the connections' queues, keep the order. The
  queues of `resumed` connections are excepted, with the worker's own queue and all
  others unaffected by them.
- `RevocationInScope`: `Spec => []RevocationScoped`. `ScopeInv` says that every
  `session.revoked` in a handler, the stream, the retry list, a replay or the worker
  queue names families that are revoked, and that the one in a connection's queue,
  which neither the writer nor the client looks at again, is about that client.
- `CheckpointNeverAhead`: `Spec => []CheckpointCovers`, and `ReplayIsComplete`:
  `Spec => ReplayComplete`. What a client has not applied must still be on its way,
  so `CheckpointInv` follows an event from its stamp to the mirror. `Ledger`:
  revisions number the published events, the database has their changes, and the
  event inside `Publish` is the newest. `StreamSound`: entries that were streamed on
  time are in order, and whatever is newer than one of them stands behind it, is
  still to be streamed, or is lost or raced; hence a window that begins no later
  than `since_rev` misses nothing (`ResumeWindow`, of which both theorems make
  use). `ClientSound`, by phase of the bootstrap: events after the baseline are
  queued while a snapshot is built; a snapshot or a replay has, or the queue
  will bring, each awaited event; and the first awaited event is the next one
  applied. `FanoutOrdered` is what makes that true of the live queue. A
  `resumed` connection's queue has no order, but each awaited event is queued before
  all that are newer, now (`Heralded`) and once the reader has queued what it read
  (`HeraldedAgain`): what it read has no holes, and comes whole or not at all.

`SessionsProofs`, for any tabs, logins, rotations and faults, with or without
Web Locks:

- `SessionsTypeCorrect`: `Spec => []TypeOK`. The strengthening `Carried` adds that
  a request that rotates has a token that was issued and may still be rotated,
  that only tabs rotate, and that a revocation names a family.
- `RotationExclusive`: `Spec => []OneTokenPerFamily`. It is inductive together
  with `Carried` and `Known`: no token in Redis, in localStorage or remembered by a
  tab belongs to a family that has not been issued. So a login's first token is the
  only one of its family; GETDEL hands the family from Redis to one request, and
  Mint hands it back. `CarriedStep`, `ExclusiveStep` and `KnownStep` cover the
  actions that leave this hand-over alone.
- `RevocationIsFinal`: `Spec => []RevokedStaysDead`. `DeadInv` says that every
  refresh token is in its family set, about to join it, or of a family of which a
  rotation or a failed command left one outside (`raced`; `Tracked`), so deleting
  the members that were read deletes them all; and that no request, list or login
  takes a dead family for a new one. The failures of every command are steps of it.
- `TabsStayLoggedIn` (`TabsKeepSession`): with Web Locks, at most one tab has a
  refresh under way (`Refreshing`); `KeepInv` says that unless something ended or
  disturbed the session, what localStorage holds, or will hold once that answer is
  stored, is the token that Redis has, so no tab is ever answered 401.

`SignalingProofs`, for any connections, ids, frames and capacity:

- `RelayTypeCorrect`, `RoutesCorrect` (`RoutesFollowLatest`) and `RelayHonest`
  (`FramesKeepTheirClient`). A route could lead to a connection whose id changes,
  and the history of registrations could name one that has yet to register:
  `Named` excludes both. A frame that is queued has not been read yet: `Honest`
  says of a connection's queue and of what it read that the client id is right: the
  sender's own in an object, none in anything else.

The last part of `SignalingProofs` is about `Presence`, for any connections, server
processes, bounds and faults. (Both modules model parts of the same handlers and are
extended together, hence `PresenceInit`, `PresenceNext`, `PresenceSpec`.)

- `PresenceTypeCorrect` and `AnnouncementsOnce` (`PresenceSpec => []AnnouncedOnce`).
  `AnnounceInv` counts the goroutines that owe an announcement: what was announced
  and what is owed make up what `known_online` says, less what commands with lost answers
  changed (`unsaid`). `Oriented` says that where a
  goroutine goes on after `State` matters only until it has gone there, so none is
  counted twice. The types are not inductive without `Housed`: a goroutine works
  only in a server process that runs, which is what allows a ping to mark it.

`RecordingsProofs`, for any captures, attempts and faults:

- `RecordingsTypeCorrect` and `StoreTruthful` (`StoreSound`). `Good` says of one
  capture where it may be once its upload is acknowledged (so no request of it can
  still mark the row failed) and that its file is there from the rename on while
  the row exists; `Recorder`, that the path the encoder leaves behind is one that
  is still being captured.

`ManagersProofs`, about `ProcessSupervision` for any limits and viewers, with and
without the service:

- `SupervisionTypeCorrect` and `StaysInStep` (`ProgramsInStep`). `Exclusive` says
  that a restart timer, a child and the pipes to the service exclude each other,
  and that shutdown ends all but a child already told to go; `Linked`, that a
  program is attached only while it is there; `Greeting`, that no greeting timer
  of an earlier host is left when one is brought up, which needs the shortest
  restart delay to be longer than both timers (`DelayLong`).
- `SupervisorImplemented`: `Spec => Promised!Spec`, the refinement of `Supervisor`
  step by step (`Promised!Spec` is its initial states and next-state relation): a
  crash or a lost service leads to another attempt, attempts are counted, and only
  when they are used up is a program given up. `Counted` adds that a program that is
  up has its attempts back and that none has ended before `initialize()`. The
  liveness stays with TLC (`SupervisorKept`).

The second part of `ManagersProofs` is about `CloudDevices`, for any devices,
revisions, codes, calls in flight and losses (hence `CloudInit`, `CloudNext`,
`CloudSpec`):

- `CloudTypeCorrect`, `CloudKeepsCode` (`CloudHasCode`) and `ListsConverge`
  (`ListConverges`). Both speak only of moments when nothing is on its way, so the
  invariant `CloudInv` says what everything on its way is good for. Of the log:
  the last event about a device's presence tells it as it is (`LastWord`), and a
  code is announced of bound devices only (`CodesWhileBound`). Of the socket: an
  event that the list has not seen is in the wire, or a snapshot there covers it
  (`Covered`), and nothing is behind the snapshot but what is newer (`Frames`).
  Of the calls: an answer shows the device as of the revision it was given at
  (`AnswerSound`); there is no upload without a secret, and unless other codes
  overlapped with it, one under way carries the code of now (`UploadSound`); a code
  the client takes for stored is stored, and any other is on its way or known to
  have failed (`Uploads`). Of the list: a row shows its device as of the last
  applied revision, except that its code may be older while a change or an answer
  that will put it right is still to come (`ListSound`). The predicates are about
  events to come and not about the present (`Shows`, `Image`, `CodeComes`), which
  is what makes them survive whatever the server does next (`GoesOn`).
  TLC checked `CloudInv` with one device and with two before it was proved.

`LocalServicesProofs`, for any addresses, threads, connections and jobs:

- `LocalApiTypeCorrect`, which includes that no more threads run than the pool
  has (`PoolKept`), `AnswersAreSound` (`AnswersSound`) and `EventsStayFresh`
  (`EventsKeepUp`, inductive with the types of `due`). `Good` ties each kind of job to its
  entry in `pending`: an answer can change only while the entry is there, the entry
  is there only while the worker waits, and the emergency stop removes it; a
  watch has slept as long as it counted.

The last part of `LocalServicesProofs` is about `VirtualDisplay`, for any processes,
indices, monitors, swap-chains and failures (hence `DisplayInit`, `DisplayNext`,
`DisplaySpec`):

- `DisplayTypeCorrect`, `MonitorsStayTracked` (`MonitorsTracked`) and
  `ThreadsStayOwned` (`ThreadsOwned`). A process in a request has the device open
  (`Opened`), and the share mode lets one process open it, so one request is in the
  driver at a time. Hence `Plugging`: while Windows knows of a monitor that is in no
  slot yet, it is the newest one and its connector's slot is still free. `Tracked`
  and `Held` are the two directions between shown monitors and slots; `Present`
  says that nothing is shown without the device, which is what lets a driver that
  is brought down forget its slots. `Linked` says that a context names a thread that
  was started, so a new thread's number is not yet in any context and its
  predecessor, which `Reset` has waited for, does not run.

`DesktopProofs`, about `DesktopAccount` for any logins, tokens and faults:

- `AccountTypeCorrect`, `OneUsePerToken` (`SpentOnlyAfterLoss`) and
  `SessionsEndForCause` (`EndsForCause`, the first half of `SessionEndsForCause`;
  the other half is liveness). The causes are a dead family, a logout, an answer to
  an earlier session (`Foreign`), an error of the server's Redis (`Refused`) and
  GET /v1/me while a refresh is unavailable. `OneSession` says that one refresh is under way and
  that whoever waits, waits for it; `Issued`, that every token belongs to a family
  some login opened; `Verdicts`, that what was denied, and not refused for an error, belonged to a
  dead family; `Unspent`, that unless an answer was lost, or never written after the
  token was spent, the token held is the newest of its family or the newest is on
  its way.

The second part of `DesktopProofs` is about `ClientSessions`, for any devices,
connections, lists and messages in flight (hence `ClientInit`, `ClientNext`,
`ClientSpec`):

- `ClientTypeCorrect`, `TablesStayInStep` (`TablesAgree`) and `ViewsConverge`
  (`ViewConverges`). Neither side ever looks at the other's table, so the invariant
  `ClientInv` says what the two pipes hold. To the native program: commands to
  connect are in the order the connections were made, and exactly those it has not
  heard of are `Asked`; a connection that the table lacks or shows as dead is gone
  or has a command to end it in the pipe, ahead of any later connection of its
  device (`Doom`); no command ends the connection that the table shows (`Kept`).
  Hence it has one live connection of a device at a time (`OneLive`), which is why
  a list names one. Back: an end is the last thing heard of a connection
  (`Heard`), and what the table shows, once the messages about the connection are
  applied, is its state (`Story`). `Latest` says that the table has the newest
  connection of a device. TLC checked `ClientInv` with two devices and two connections,
  and with one device and three, before it was proved.

`FileTransfersProofs`, for any connections, files, tasks and faults:

- `TransfersTypeCorrect` (with the limit of each queue and no path pending
  twice), `UploadsOneByOne` (`OneUploadAtATime`) and `TasksTruthful`
  (`TasksSound`). The last two rest on each other: a row may adopt the name in an
  event because the native program has no other unfinished upload of that
  connection, and it has none because a row stays dispatched until an event with
  its own name ends it. `Linked` says so: whatever upload of a live session is on
  its way, under way, or ended unheard is that of the one dispatched row of its
  connection. Around it, `Numbered` keeps tasks and transfers apart, `Placed` ties
  them to connections that have or had a session, `Belongs` says what a name in a
  row means, `Rests` that only ended transfers are buried, `True` that an event
  about an end comes after it, `Connected` that an ended session stays ended, and
  `Settled` that a cancel that could be sent has been. They are stated over the parts
  of the state (`Sound`, `Fine`), because a handler that fails to send a command
  goes on to end the session from rows it has already changed; each lemma
  `...Sound` is one such change, each lemma `...Inv` one action.

Only model-checked. Liveness (`MirrorsConverge`, `HostEndsOnline`, `RefreshEnds`,
`QueueDrains`, `SupervisorKept`, ... and `DeadSessionEnds`) is out of the prover's
reach. So is what a recursive computation does for every input. Every invariant that
a run checks is proved, for every value of the constants.

Three definitions are written so that they can be reasoned about:
`FileTransfers!ClearCompleted` says which rows stay, and that they stay in order,
instead of filtering with a recursive operator; where a CASE had overlapping
guards an IF has them in the order of the code; and `Presence!ReadInst` and
`VirtualDisplay!Open` name the old value instead of a nested `@`, which the prover
misreads.

## Plan

What is left, most useful first:

1. `DeviceOwnership` (transactions of bind, takeover, unbind, provision, secret
   rotation) with an abstract "one owner at a time"; `AccessCode` with the failure
   windows.
2. Proofs: abstract specifications of the transfer queue and of the relay, refined
   step by step as `Supervisor` is; the safety parts of what so far only liveness
   properties say, as `SessionsEndForCause` is one.
3. A composition of `Presence` and `RealtimeEvents` in which announcements are
   events.

## Not modelled

Components with status `not_modelled` in `PROJECT.json` say why. Device ownership
and access codes are transactions behind row locks and counters, left for later;
accounts, settings, presets, favorites, groups, audit, metrics, webhooks and the
admin console read and write single rows; the browser's and the Android client's
sessions repeat the protocols modelled here, and what is their own is media and
input; the MCP server and the skill host are programs of their own, seen here
from the desktop's side; user interface, translations, scripts and CI are
presentation and packaging. Of the modelled components, pixel conversion, input
forwarding, statistics, EDID and mode contents, the framing of `NativeMessaging`,
retention and download tickets of recordings, and the MCP HTTP process are left
out.
