--------------------------- MODULE RealtimeEvents ---------------------------
(***************************************************************************)
(* The per-user event pipeline of the signaling server: a request handler  *)
(* commits a change to PostgreSQL and calls EventBus.Publish, which stamps *)
(* the event with the global server_rev, appends it to the user's Redis    *)
(* stream and queues it for the single subscriber worker; the worker fans  *)
(* it out to the user's /v1/realtime/events connections; a client that     *)
(* (re)connects is brought up to date by a replay of the stream or by a    *)
(* full snapshot, and from then on patches its local mirror with every     *)
(* event whose server_rev is above its checkpoint.                         *)
(*                                                                         *)
(* One user's stream is modelled.  Every client is one login session of    *)
(* that user, so a client also names its refresh-token family.  The rows   *)
(* of the user's lists (devices, favorites) are Keys; a row's content is   *)
(* the number of the change that last wrote it.  Frames are applied by the *)
(* client in the step that writes them: the socket is FIFO, and a frame in *)
(* flight when the connection breaks is a frame that was never written.    *)
(*                                                                         *)
(* The server also accepts a resume frame on a connection that is live     *)
(* (eventConn.reader).  The repository's own clients send since_rev in the *)
(* auth frame only, but the endpoint takes it from any client, so it is    *)
(* modelled, and counted as a disturbance like a failure.                  *)
(***************************************************************************)
EXTENDS Naturals, Integers, Sequences, FiniteSets

CONSTANTS
    Clients,       \* login sessions of the user, each its own token family
    Away,          \* families of sessions that open no events connection
    Publishers,    \* concurrently running request handlers
    Keys,          \* device / favorite rows of the user
    AllFamilies,   \* "family_id" absent: an account-wide session.revoked
    NoKey,         \* key of an event that patches no row
    StreamMax,     \* XADD MAXLEN ~ 1000 and the XREVRANGE count
    WorkCap,       \* capacity of EventBus.workQueue (1024)
    OutCap,        \* capacity of eventConn.out (64)
    Faults,        \* which failures and disturbances this instance allows
    MaxCommits,    \* bound: changes made by handlers
    MaxFaults      \* bound: failures, lost connections, resume frames and crashes

FaultKinds == {"incr", "xadd", "lpush", "xrange", "expire", "drop", "resume", "crash"}

ASSUME ConstantsAssumption ==
    /\ StreamMax \in Nat \ {0} /\ WorkCap \in Nat \ {0} /\ OutCap \in Nat \ {0}
    /\ MaxCommits \in Nat /\ MaxFaults \in Nat
    /\ Faults \subseteq FaultKinds
    /\ AllFamilies \notin Clients \cup Away /\ NoKey \notin Keys

VARIABLES
    rev,        \* Redis counter qd:events:server_rev
    db,         \* PostgreSQL: the change each row holds
    revoked,    \* token families whose refresh tokens are gone
    commits,    \* number of changes committed so far
    stream,     \* Redis stream qd:events:user:<id>, oldest first
    retry,      \* Redis list qd:events:retry, next to pop first
    workQueue,  \* EventBus.workQueue, the realtime subscriber's items
    pub,        \* each handler's progress through commit and Publish
    conn,       \* each client's events WebSocket and its eventConn
    applied,    \* client: _lastAppliedRev
    mirror,     \* client: local device / favorite rows
    loggedIn,   \* client: holds a session
    faults,     \* failures so far
    published,  \* history: every event stamped by Publish
    lost,       \* history: changes whose event a failure dropped
    raced       \* history: changes whose event a replay leaves out or brings late

server == <<rev, db, revoked, commits, stream, retry, workQueue, pub>>
client == <<applied, mirror, loggedIn>>
history == <<faults, published, lost, raced>>
vars == <<rev, db, revoked, commits, stream, retry, workQueue, pub, conn,
          applied, mirror, loggedIn, faults, published, lost, raced>>

(***************************************************************************)
(* Types.                                                                  *)
(***************************************************************************)
Families == Clients \cup Away \cup {AllFamilies}

\* service.Event.  change numbers the database change it announces; family is
\* Data["family_id"] of a session.revoked.
Event == [type   : {"row", "session.revoked"},
          key    : Keys \cup {NoKey},
          change : Nat,
          family : Families,
          rev    : Nat]

Idle == [pc     |-> "idle",
         evt    |-> [type |-> "row", key |-> NoKey, change |-> 0,
                     family |-> AllFamilies, rev |-> 0],
         streamOK |-> TRUE]

Publisher == [pc : {"idle", "committed", "stamped", "streamed"},
              evt : Event, streamOK : BOOLEAN]

NoRows == [k \in Keys |-> 0]

Down == [pc |-> "down", since |-> 0, base |-> 0, todo |-> <<>>,
         snap |-> NoRows, out |-> <<>>]

\* since: since_rev of the auth or resume frame; base: the rev of auth_ok,
\* snapshot and bootstrap_done; todo: what EventsSinceRev returned and is not
\* written or queued yet; snap: what buildSnapshot read; out: eventConn.out.
\* A connection is "resumed" when a resume frame came after its bootstrap.
Connection == [pc : {"down", "registered", "authed", "replay", "snapshot",
                     "built", "baselined", "live", "resumed"},
               since : Nat, base : Nat, todo : Seq(Event),
               snap : [Keys -> Nat], out : Seq(Event)]

TypeOK ==
    /\ rev \in Nat
    /\ db \in [Keys -> Nat]
    /\ revoked \subseteq Clients \cup Away
    /\ commits \in Nat
    /\ stream \in Seq(Event)
    /\ retry \in Seq(Event)
    /\ workQueue \in Seq(Event)
    /\ pub \in [Publishers -> Publisher]
    /\ conn \in [Clients -> Connection]
    /\ applied \in [Clients -> Nat]
    /\ mirror \in [Clients -> [Keys -> Nat]]
    /\ loggedIn \in [Clients -> BOOLEAN]
    /\ faults \in Nat
    /\ published \in SUBSET Event
    /\ lost \in SUBSET Nat
    /\ raced \in SUBSET Nat

Init ==
    /\ rev = 0
    /\ db = NoRows
    /\ revoked = {}
    /\ commits = 0
    /\ stream = <<>>
    /\ retry = <<>>
    /\ workQueue = <<>>
    /\ pub = [p \in Publishers |-> Idle]
    /\ conn = [c \in Clients |-> Down]
    /\ applied = [c \in Clients |-> 0]
    /\ mirror = [c \in Clients |-> NoRows]
    /\ loggedIn = [c \in Clients |-> TRUE]
    /\ faults = 0
    /\ published = {}
    /\ lost = {}
    /\ raced = {}

\* A failure or disturbance of kind f happens in this step.
Fault(f) ==
    /\ f \in Faults
    /\ faults < MaxFaults
    /\ faults' = faults + 1

----------------------------------------------------------------------------
(***************************************************************************)
(* Producers: a handler's transaction, then EventBus.Publish.              *)
(***************************************************************************)

\* A handler commits a change of row k (DeviceHandler.Patch, Bind, Unbind,
\* AddFavorite, ...); the event it is about to publish carries the new row.
CommitRow(p, k) ==
    /\ pub[p].pc = "idle"
    /\ commits < MaxCommits
    /\ commits' = commits + 1
    /\ db' = [db EXCEPT ![k] = commits + 1]
    /\ pub' = [pub EXCEPT ![p] =
                  [pc |-> "committed", streamOK |-> TRUE,
                   evt |-> [type |-> "row", key |-> k, change |-> commits + 1,
                            family |-> AllFamilies, rev |-> 0]]]
    /\ UNCHANGED <<rev, revoked, stream, retry, workQueue, conn>>
    /\ UNCHANGED client /\ UNCHANGED history

\* A handler revokes one token family, or all of them (RevokeFamily,
\* RevokeAllForSubject), and is about to publish session.revoked.
CommitRevoke(p, f) ==
    /\ pub[p].pc = "idle"
    /\ commits < MaxCommits
    /\ commits' = commits + 1
    /\ revoked' = IF f = AllFamilies THEN Clients \cup Away ELSE revoked \cup {f}
    /\ pub' = [pub EXCEPT ![p] =
                  [pc |-> "committed", streamOK |-> TRUE,
                   evt |-> [type |-> "session.revoked", key |-> NoKey,
                            change |-> commits + 1, family |-> f, rev |-> 0]]]
    /\ UNCHANGED <<rev, db, stream, retry, workQueue, conn>>
    /\ UNCHANGED client /\ UNCHANGED history

\* Mutation: Publish without its mutex.
PublishMuMissing == TRUE

\* EventBus.publishMu is held from the stamp to the end of Publish.
PublishMuFree ==
    \A p \in Publishers : pub[p].pc \in {"idle", "committed"}

\* Publish: take publishMu and stamp the event with INCR server_rev.  When
\* INCR fails the event keeps ServerRev 0 and goes on.
PublishStamp(p) ==
    /\ pub[p].pc = "committed"
    /\ PublishMuFree
    /\ \/ LET e == [pub[p].evt EXCEPT !.rev = rev + 1] IN
          /\ rev' = rev + 1
          /\ pub' = [pub EXCEPT ![p] = [@ EXCEPT !.pc = "stamped", !.evt = e]]
          /\ published' = published \cup {e}
          /\ UNCHANGED <<faults, lost>>
       \/ /\ Fault("incr")
          /\ pub' = [pub EXCEPT ![p] = [@ EXCEPT !.pc = "stamped"]]
          /\ lost' = lost \cup {pub[p].evt.change}
          /\ UNCHANGED <<rev, published>>
    /\ UNCHANGED <<db, revoked, commits, stream, retry, workQueue, conn, raced>>
    /\ UNCHANGED client

\* XADD with MAXLEN ~: Redis may keep more than StreamMax entries, never
\* fewer, and drops from the old end.
Trimmed(s) ==
    {SubSeq(s, i, Len(s)) : i \in 1 .. (IF Len(s) > StreamMax
                                        THEN Len(s) - StreamMax + 1 ELSE 1)}

\* Publish: append the event to the user's stream, or remember the failure.
PublishStream(p) ==
    /\ pub[p].pc = "stamped"
    /\ \/ /\ stream' \in Trimmed(Append(stream, pub[p].evt))
          /\ pub' = [pub EXCEPT ![p] = [@ EXCEPT !.pc = "streamed"]]
          /\ UNCHANGED faults
       \/ /\ Fault("xadd")
          /\ pub' = [pub EXCEPT ![p] = [@ EXCEPT !.pc = "streamed", !.streamOK = FALSE]]
          /\ UNCHANGED stream
    /\ UNCHANGED <<rev, db, revoked, commits, retry, workQueue, conn,
                   published, lost, raced>>
    /\ UNCHANGED client

\* Publish: queue the event for the subscribers (dropped when the queue is
\* full), put it on the retry list if the stream write failed, unlock.
PublishFanout(p) ==
    LET e == pub[p].evt
        full == Len(workQueue) >= WorkCap IN
    /\ pub[p].pc = "streamed"
    /\ workQueue' = IF full THEN workQueue ELSE Append(workQueue, e)
    /\ \/ /\ retry' = IF pub[p].streamOK THEN retry ELSE Append(retry, e)
          /\ lost' = IF full THEN lost \cup {e.change} ELSE lost
          /\ UNCHANGED faults
       \/ /\ ~pub[p].streamOK
          /\ Fault("lpush")
          /\ lost' = lost \cup {e.change}
          /\ UNCHANGED retry
    /\ pub' = [pub EXCEPT ![p] = Idle]
    /\ UNCHANGED <<rev, db, revoked, commits, stream, conn, published, raced>>
    /\ UNCHANGED client

\* EventBus.drainRetry: pop the oldest entry and append it to the stream; a
\* second failure puts it back at the far end of the list.
DrainRetry ==
    /\ retry # <<>>
    /\ \/ /\ stream' \in Trimmed(Append(stream, Head(retry)))
          /\ retry' = Tail(retry)
          /\ raced' = raced \cup {Head(retry).change}
          /\ UNCHANGED faults
       \/ /\ Fault("xadd")
          /\ retry' = Append(Tail(retry), Head(retry))
          /\ UNCHANGED <<stream, raced>>
    /\ UNCHANGED <<rev, db, revoked, commits, workQueue, pub, conn, published, lost>>
    /\ UNCHANGED client

\* The stream's TTL runs out (one hour after a publish, five minutes after
\* a retry).
StreamExpire ==
    /\ stream # <<>>
    /\ Fault("expire")
    /\ stream' = <<>>
    /\ UNCHANGED <<rev, db, revoked, commits, retry, workQueue, pub, conn,
                   published, lost, raced>>
    /\ UNCHANGED client

----------------------------------------------------------------------------
(***************************************************************************)
(* Fan-out to the registered connections.                                  *)
(***************************************************************************)

\* Mutation: session.revoked is broadcast to every connection of the user.
EventVisibleToAll(e, c) == TRUE

\* eventVisibleToFamily: a scoped session.revoked is for one family only.
EventVisibleToFamily(e, c) ==
    \/ e.type # "session.revoked"
    \/ e.family \in {AllFamilies, c}

Registered(c) == conn[c].pc # "down"

\* The connection's writer and reader run.
Bootstrapped(c) == conn[c].pc \in {"live", "resumed"}

\* Mutation: a connection that is still bootstrapping is passed over.
SubscriberWorkerLiveOnly ==
    /\ workQueue # <<>>
    /\ workQueue' = Tail(workQueue)
    /\ LET e == Head(workQueue) IN
       conn' = [c \in Clients |->
                  IF ~Bootstrapped(c) \/ ~EventVisibleToFamily(e, c) THEN conn[c]
                  ELSE IF Len(conn[c].out) >= OutCap THEN Down
                  ELSE [conn[c] EXCEPT !.out = Append(@, e)]]
    /\ UNCHANGED <<rev, db, revoked, commits, stream, retry, pub>>
    /\ UNCHANGED client /\ UNCHANGED history

\* EventBus.subscriberWorker runs RealtimeHandler.HandleEvent for the next
\* item: queue it on every registered connection that may see it; a full
\* queue closes the connection (eventConn.send).
SubscriberWorker ==
    /\ workQueue # <<>>
    /\ workQueue' = Tail(workQueue)
    /\ LET e == Head(workQueue) IN
       conn' = [c \in Clients |->
                  IF ~Registered(c) \/ ~EventVisibleToFamily(e, c) THEN conn[c]
                  ELSE IF Len(conn[c].out) >= OutCap THEN Down
                  ELSE [conn[c] EXCEPT !.out = Append(@, e)]]
    /\ UNCHANGED <<rev, db, revoked, commits, stream, retry, pub>>
    /\ UNCHANGED client /\ UNCHANGED history

----------------------------------------------------------------------------
(***************************************************************************)
(* RealtimeHandler.HandleEvents, one step per point where another          *)
(* goroutine can intervene.                                                *)
(***************************************************************************)

\* Mutation: the client asks for events from the one before its checkpoint.
HandleEventsOffByOne(c) ==
    /\ loggedIn[c]
    /\ conn[c].pc = "down"
    /\ conn' = [conn EXCEPT ![c] = [Down EXCEPT !.pc = "registered",
                                                !.since = applied[c] - 1]]
    /\ UNCHANGED server /\ UNCHANGED client /\ UNCHANGED history

\* UserSync._open / _sendAuthFrame, and HandleEvents up to
\* registerEventConn: live events are queued from here on, unwritten.  A
\* revocation removes refresh tokens only, so a revoked session's access token
\* is accepted here (LookupAccessToken) until it expires.
HandleEvents(c) ==
    /\ loggedIn[c]
    /\ conn[c].pc = "down"
    /\ conn' = [conn EXCEPT ![c] = [Down EXCEPT !.pc = "registered",
                                                !.since = applied[c]]]
    /\ UNCHANGED server /\ UNCHANGED client /\ UNCHANGED history

\* nextRev and the auth_ok frame; nextRev is 0 when INCR fails.
AuthOk(c) ==
    /\ conn[c].pc = "registered"
    /\ \/ /\ rev' = rev + 1
          /\ conn' = [conn EXCEPT ![c] = [@ EXCEPT !.pc = "authed", !.base = rev + 1]]
          /\ UNCHANGED faults
       \/ /\ Fault("incr")
          /\ conn' = [conn EXCEPT ![c] = [@ EXCEPT !.pc = "authed"]]
          /\ UNCHANGED rev
    /\ UNCHANGED <<db, revoked, commits, stream, retry, workQueue, pub,
                   published, lost, raced>>
    /\ UNCHANGED client

\* EventsSinceRev reads at most the last StreamMax entries.
StreamWindow ==
    SubSeq(stream, IF Len(stream) > StreamMax
                   THEN Len(stream) - StreamMax + 1 ELSE 1, Len(stream))

\* Mutation: the oldest entry may be one further from the checkpoint.
TruncatedOffByOne(since) ==
    \/ /\ StreamWindow # <<>>
       /\ StreamWindow[1].rev > 0
       /\ StreamWindow[1].rev > since + 2
    \/ StreamWindow = <<>> /\ since > 0

\* EventsSinceRev: Truncated.
Truncated(since) ==
    \/ /\ StreamWindow # <<>>
       /\ StreamWindow[1].rev > 0
       /\ StreamWindow[1].rev > since + 1
    \/ StreamWindow = <<>> /\ since > 0

\* Events stamped before this connection's base that the stream does not
\* hold yet, the ones on the retry list included: the resume race loses them.
InFlight(c) ==
    {pub[p].evt.change : p \in {q \in Publishers :
                                  /\ \/ pub[q].pc = "stamped"
                                     \/ pub[q].pc = "streamed" /\ ~pub[q].streamOK
                                  /\ pub[q].evt.rev < conn[c].base}}
    \cup {retry[i].change : i \in DOMAIN retry}

\* Events that are gone from the stream although its oldest entry is no newer
\* than the checkpoint: that entry has no revision (its INCR failed) or was
\* appended late by drainRetry, and the truncation test is misled.
Hidden ==
    {e.change : e \in {x \in published :
        /\ StreamWindow # <<>>
        /\ StreamWindow[1].rev = 0 \/ StreamWindow[1].change \in raced
        /\ \A i \in DOMAIN StreamWindow : StreamWindow[i] # x}}

\* A resume that the stream can serve: the replay is what was read here.
Resume(c) ==
    /\ conn[c].pc = "authed"
    /\ conn[c].since > 0
    /\ ~Truncated(conn[c].since)
    /\ conn' = [conn EXCEPT ![c] = [@ EXCEPT !.pc = "replay", !.todo = StreamWindow]]
    /\ raced' = raced \cup InFlight(c) \cup Hidden
    /\ UNCHANGED <<faults, published, lost>>
    /\ UNCHANGED server /\ UNCHANGED client

\* No checkpoint, a truncated stream (snapshot_required) or a failed read:
\* a snapshot follows.
SnapshotRequired(c) ==
    /\ conn[c].pc = "authed"
    /\ \/ (conn[c].since = 0 \/ Truncated(conn[c].since)) /\ UNCHANGED faults
       \/ conn[c].since > 0 /\ Fault("xrange")
    /\ conn' = [conn EXCEPT ![c] = [@ EXCEPT !.pc = "snapshot", !.since = 0]]
    /\ UNCHANGED <<published, lost, raced>>
    /\ UNCHANGED server /\ UNCHANGED client

\* buildSnapshot reads the user's rows; they may change again before the
\* frame is written.
BuildSnapshot(c) ==
    /\ conn[c].pc = "snapshot"
    /\ conn' = [conn EXCEPT ![c] = [@ EXCEPT !.pc = "built", !.snap = db]]
    /\ UNCHANGED server /\ UNCHANGED client /\ UNCHANGED history

----------------------------------------------------------------------------
(***************************************************************************)
(* The client (WebClient UserSync; the Qt and Android clients keep the     *)
(* same checkpoint rule).                                                  *)
(***************************************************************************)

\* _shouldApplyFrame
ShouldApplyFrame(c, r) == r > 0 /\ r > applied[c]

\* stop() and _sessionEnded: the socket, the mirror, the checkpoint and the
\* credentials are gone.
Stop(c) ==
    /\ conn' = [conn EXCEPT ![c] = Down]
    /\ loggedIn' = [loggedIn EXCEPT ![c] = FALSE]
    /\ applied' = [applied EXCEPT ![c] = 0]
    /\ mirror' = [mirror EXCEPT ![c] = NoRows]

\* _onMessage for an event frame, with the connection left as next: patch
\* the row, or end the session.
OnEvent(c, e, next) ==
    IF ~ShouldApplyFrame(c, e.rev)
    THEN conn' = [conn EXCEPT ![c] = next] /\ UNCHANGED client
    ELSE IF e.type = "session.revoked"
    THEN Stop(c)
    ELSE /\ conn' = [conn EXCEPT ![c] = next]
         /\ applied' = [applied EXCEPT ![c] = e.rev]
         /\ mirror' = [mirror EXCEPT ![c][e.key] = e.change]
         /\ UNCHANGED loggedIn

\* HandleEvents writes the next replay frame, if it is newer than since_rev
\* and visible to this family (filterEventsForFamily).
WriteReplay(c) ==
    LET e == Head(conn[c].todo)
        next == [conn[c] EXCEPT !.todo = Tail(@)] IN
    /\ conn[c].pc = "replay"
    /\ conn[c].todo # <<>>
    /\ IF e.rev > conn[c].since /\ EventVisibleToFamily(e, c)
       THEN OnEvent(c, e, next)
       ELSE conn' = [conn EXCEPT ![c] = next] /\ UNCHANGED client
    /\ UNCHANGED server /\ UNCHANGED history

\* Mutation: the snapshot is labelled with the revision of the moment it is
\* written.
WriteSnapshotNow(c) ==
    /\ conn[c].pc = "built"
    /\ conn' = [conn EXCEPT ![c] = [@ EXCEPT !.pc = "baselined"]]
    /\ applied' = [applied EXCEPT ![c] = rev]
    /\ mirror' = [mirror EXCEPT ![c] = conn[c].snap]
    /\ UNCHANGED loggedIn
    /\ UNCHANGED server /\ UNCHANGED history

\* The changes that the snapshot of c carries: the rows read, and every
\* published change that they include.
Carried(c) ==
    {conn[c].snap[k] : k \in Keys} \cup
    {e.change : e \in {x \in published :
        x.type = "row" /\ x.change <= conn[c].snap[x.key]}}

\* The snapshot frame; the client's _applySnapshot replaces every row.  A
\* snapshot without a rev (nextRev failed) is not applied, and what it carried
\* does not reach the client.
WriteSnapshot(c) ==
    /\ conn[c].pc = "built"
    /\ conn' = [conn EXCEPT ![c] = [@ EXCEPT !.pc = "baselined", !.snap = NoRows]]
    /\ IF ShouldApplyFrame(c, conn[c].base)
       THEN /\ applied' = [applied EXCEPT ![c] = conn[c].base]
            /\ mirror' = [mirror EXCEPT ![c] = conn[c].snap]
            /\ UNCHANGED lost
       ELSE /\ lost' = lost \cup Carried(c)
            /\ UNCHANGED <<applied, mirror>>
    /\ UNCHANGED <<loggedIn, faults, published, raced>>
    /\ UNCHANGED server

\* The bootstrap_done frame moves the checkpoint to base; the writer and the
\* reader start, and the bootstrap's own variables are gone.
BootstrapDone(c) ==
    /\ \/ conn[c].pc = "baselined"
       \/ conn[c].pc = "replay" /\ conn[c].todo = <<>>
    /\ conn' = [conn EXCEPT ![c] = [Down EXCEPT !.pc = "live", !.out = conn[c].out]]
    /\ applied' = [applied EXCEPT ![c] =
                     IF conn[c].base > @ THEN conn[c].base ELSE @]
    /\ UNCHANGED <<mirror, loggedIn>>
    /\ UNCHANGED server /\ UNCHANGED history

\* eventConn.writer sends the next queued event.
Writer(c) ==
    /\ Bootstrapped(c)
    /\ conn[c].out # <<>>
    /\ OnEvent(c, Head(conn[c].out), [conn[c] EXCEPT !.out = Tail(@)])
    /\ UNCHANGED server /\ UNCHANGED history

\* eventConn.send: an event for the writer, or the end of a connection whose
\* queue is full; after is the connection otherwise.
Send(c, e, after) ==
    conn' = [conn EXCEPT ![c] = IF Len(conn[c].out) >= OutCap THEN Down
                                ELSE [after EXCEPT !.out = Append(@, e)]]

\* The snapshot_required frame of a live connection; clients only log it.
SnapshotHint == Idle.evt

\* eventConn.reader takes a resume frame from a live connection and reads the
\* stream once more; since is a checkpoint the client had.  Nothing happens
\* when the read fails.
ResumeFrame(c) ==
    /\ Bootstrapped(c)
    /\ conn[c].todo = <<>>
    /\ Fault("resume")
    /\ \E since \in 0 .. applied[c] :
         LET reading == [conn[c] EXCEPT !.pc = "resumed", !.since = since] IN
         \/ /\ Truncated(since)
            /\ Send(c, SnapshotHint, reading)
            /\ UNCHANGED raced
         \/ /\ ~Truncated(since)
            /\ conn' = [conn EXCEPT ![c] = [reading EXCEPT !.todo = StreamWindow]]
            /\ raced' = raced \cup {retry[i].change : i \in DOMAIN retry} \cup Hidden
    /\ UNCHANGED <<published, lost>>
    /\ UNCHANGED server /\ UNCHANGED client

\* eventConn.reader queues the next event of what it read, behind whatever the
\* subscriber worker has queued meanwhile.
ReaderSend(c) ==
    LET e == Head(conn[c].todo)
        after == [conn[c] EXCEPT !.todo = Tail(@)] IN
    /\ conn[c].pc = "resumed"
    /\ conn[c].todo # <<>>
    /\ IF e.rev > conn[c].since /\ EventVisibleToFamily(e, c)
       THEN Send(c, e, after)
       ELSE conn' = [conn EXCEPT ![c] = after]
    /\ UNCHANGED server /\ UNCHANGED client /\ UNCHANGED history

\* The access token of a revoked session expires and the refresh is answered
\* 401: the client ends the session without having seen the event.
SessionEnded(c) ==
    /\ loggedIn[c]
    /\ c \in revoked
    /\ Stop(c)
    /\ UNCHANGED server /\ UNCHANGED history

\* The connection breaks (read or write error, missed pongs): both ends
\* drop it and unregisterEventConn removes it.
Disconnect(c) ==
    /\ Registered(c)
    /\ Fault("drop")
    /\ conn' = [conn EXCEPT ![c] = Down]
    /\ UNCHANGED <<published, lost, raced>>
    /\ UNCHANGED server /\ UNCHANGED client

\* The server process dies: queue, connections and running handlers are
\* gone; PostgreSQL and Redis stay.  Changes committed whose event had not
\* reached the stream are never announced.
ServerCrash ==
    /\ Fault("crash")
    /\ workQueue' = <<>>
    /\ pub' = [p \in Publishers |-> Idle]
    /\ conn' = [c \in Clients |-> Down]
    /\ lost' = lost \cup
                    {pub[p].evt.change : p \in {q \in Publishers :
                        \/ pub[q].pc \in {"committed", "stamped"}
                        \/ pub[q].pc = "streamed" /\ ~pub[q].streamOK}}
    /\ UNCHANGED <<rev, db, revoked, commits, stream, retry, published, raced>>
    /\ UNCHANGED client

----------------------------------------------------------------------------
Publish(p) == PublishStamp(p) \/ PublishStream(p) \/ PublishFanout(p)

Bootstrap(c) ==
    \/ AuthOk(c) \/ Resume(c) \/ SnapshotRequired(c)
    \/ BuildSnapshot(c) \/ WriteReplay(c) \/ WriteSnapshot(c) \/ BootstrapDone(c)

Next ==
    \/ \E p \in Publishers, k \in Keys : CommitRow(p, k)
    \/ \E p \in Publishers, f \in Families : CommitRevoke(p, f)
    \/ \E p \in Publishers : Publish(p)
    \/ DrainRetry
    \/ StreamExpire
    \/ SubscriberWorker
    \/ \E c \in Clients : HandleEvents(c)
    \/ \E c \in Clients : Bootstrap(c)
    \/ \E c \in Clients : Writer(c)
    \/ \E c \in Clients : ResumeFrame(c)
    \/ \E c \in Clients : ReaderSend(c)
    \/ \E c \in Clients : SessionEnded(c)
    \/ \E c \in Clients : Disconnect(c)
    \/ ServerCrash

Spec == Init /\ [][Next]_vars

(***************************************************************************)
(* Fairness.  A handler that runs finishes Publish, the subscriber worker  *)
(* and the retry ticker run for the life of the process, a connection's    *)
(* goroutine goes on, and _scheduleReconnect reopens a lost connection.    *)
(* Failures, new requests and token expiry owe nothing.                    *)
(***************************************************************************)
Fairness ==
    /\ \A p \in Publishers : WF_vars(Publish(p))
    /\ WF_vars(DrainRetry)
    /\ WF_vars(SubscriberWorker)
    /\ \A c \in Clients : WF_vars(HandleEvents(c))
    /\ \A c \in Clients : WF_vars(Bootstrap(c))
    /\ \A c \in Clients : WF_vars(Writer(c))
    /\ \A c \in Clients : WF_vars(ReaderSend(c))

FairSpec == Spec /\ Fairness

----------------------------------------------------------------------------
(***************************************************************************)
(* Properties.                                                             *)
(***************************************************************************)

\* s carries its stamped events in the order they were stamped.
OrderedByRev(s) ==
    \A i, j \in DOMAIN s :
        i < j /\ s[i].rev > 0 /\ s[j].rev > 0 => s[i].rev < s[j].rev

\* Every event of s was stamped before every event of t.
StampedBefore(s, t) ==
    \A i \in DOMAIN s, j \in DOMAIN t :
        s[i].rev > 0 /\ t[j].rev > 0 => s[i].rev < t[j].rev

\* Subscribe's contract (event_bus.go:109): the single worker and every
\* connection's queue see events in the order Publish stamped them, whatever
\* number of handlers publish at once; so each event in a queue is newer than
\* the ones before it and than the ones already handed on.  A resume frame on a
\* live connection ends this for that connection's queue: its reader queues
\* events of the stream behind newer ones.  What is left to such a connection
\* is CheckpointCovers and MirrorsConverge.
FanoutOrdered ==
    /\ OrderedByRev(workQueue)
    /\ \A c \in Clients : conn[c].pc # "resumed" =>
          OrderedByRev(conn[c].out) /\ StampedBefore(conn[c].out, workQueue)

\* Two handlers committed changes of one row and published them in the other
\* order: e was overtaken by an older change with a newer rev.
Overtaken(e) ==
    \E o \in published : o.key = e.key /\ o.change < e.change /\ o.rev > e.rev

\* The mirror of c holds the row of e as e left it, or newer.
Covered(c, e) == mirror[c][e.key] >= e.change \/ Overtaken(e)

\* Client c's checkpoint has passed row event e.
Passed(c, e) == loggedIn[c] /\ e.type = "row" /\ e.rev <= applied[c]

\* The checkpoint never runs ahead of the mirror: a client whose
\* _lastAppliedRev has passed an event holds that row as the event left it, or
\* newer.  A checkpoint that skips an event loses it for good, because the next
\* reconnect asks only for what is newer.  Excepted are the events a failure
\* dropped (queue overflow, crash, a snapshot without a revision) and the ones a
\* replay left out: in flight while it was read, retried late, or hidden from the
\* truncation test.
CheckpointCovers ==
    \A c \in Clients, e \in published :
        Passed(c, e) => Covered(c, e) \/ e.change \in lost \cup raced

\* EventsSinceRev never serves a partial replay: a resume that is not answered
\* by a snapshot carries every event stamped between since_rev and the new
\* baseline, except the lost ones and those that this or an earlier resume
\* raced.
ReplayComplete ==
    [][\A c \in Clients :
          conn[c].pc = "authed" /\ conn'[c].pc = "replay" =>
              \A e \in published :
                  conn[c].since < e.rev /\ e.rev < conn[c].base =>
                      \/ \E i \in DOMAIN conn'[c].todo : conn'[c].todo[i] = e
                      \/ e.change \in lost \cup raced']_vars

\* A client is logged out only by a revocation of its own family or of the
\* whole account: a scoped session.revoked must not log out the user's other
\* devices, live or replayed.
RevocationScoped == \A c \in Clients : ~loggedIn[c] => c \in revoked

\* The last change of row k was overtaken by an older one.
LastChangeOvertaken(k) ==
    \E e \in published : e.key = k /\ e.change = db[k] /\ Overtaken(e)

\* Client c shows row k as the database has it.
Mirrored(c, k) == loggedIn[c] => mirror[c][k] = db[k]

\* Once the handlers are done every client that still has a session shows the
\* rows of the database, whatever connections broke or overflowed meanwhile,
\* unless the row's last change was dropped by a failure, left out of a replay
\* or overtaken.
MirrorsConverge ==
    <>[](\A c \in Clients, k \in Keys :
            Mirrored(c, k) \/ db[k] \in lost \cup raced \/ LastChangeOvertaken(k))

=============================================================================
