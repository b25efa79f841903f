------------------------ MODULE RealtimeEventsProofs ------------------------
(***************************************************************************)
(* Machine-checked proofs about RealtimeEvents, for any set of clients,    *)
(* handlers and rows, any queue capacities and any combination of faults.  *)
(***************************************************************************)
EXTENDS RealtimeEvents, SequenceTheorems, TLAPS

\* Trimming a stream yields a suffix of it.
LEMMA TrimmedType ==
    ASSUME ConstantsAssumption, NEW s \in Seq(Event), NEW t \in Trimmed(s)
    PROVE  t \in Seq(Event)
  <1>1. PICK i \in 1 .. (IF Len(s) > StreamMax THEN Len(s) - StreamMax + 1 ELSE 1) :
             t = SubSeq(s, i, Len(s))
    BY DEF Trimmed
  <1>2. i \in Int /\ i >= 1 /\ Len(s) \in Nat
    BY <1>1 DEF ConstantsAssumption
  <1>3. \A j \in i .. Len(s) : s[j] \in Event
    BY <1>2
  <1> QED BY <1>1, <1>2, <1>3, SubSeqProperties

\* What EventsSinceRev reads is a sequence of events.
LEMMA WindowType ==
    ASSUME ConstantsAssumption, stream \in Seq(Event)
    PROVE  StreamWindow \in Seq(Event)
  <1> DEFINE i == IF Len(stream) > StreamMax THEN Len(stream) - StreamMax + 1 ELSE 1
  <1>1. i \in Int /\ i >= 1 /\ Len(stream) \in Nat
    BY DEF ConstantsAssumption
  <1>2. \A j \in i .. Len(stream) : stream[j] \in Event
    BY <1>1
  <1>3. SubSeq(stream, i, Len(stream)) \in Seq(Event)
    <2> HIDE DEF i
    <2> QED BY <1>1, <1>2, SubSeqProperties
  <1> QED BY <1>3 DEF StreamWindow

\* The constant records are well typed.
LEMMA RestType ==
    /\ Idle \in Publisher
    /\ Down \in Connection
    /\ NoRows \in [Keys -> Nat]
  BY DEF Idle, Publisher, Event, Families, Down, NoRows, Connection

\* Ending a session keeps the client's state well typed.
LEMMA StopType ==
    ASSUME TypeOK, NEW c \in Clients, Stop(c)
    PROVE  /\ conn' \in [Clients -> Connection]
           /\ applied' \in [Clients -> Nat]
           /\ mirror' \in [Clients -> [Keys -> Nat]]
           /\ loggedIn' \in [Clients -> BOOLEAN]
  <1>1. conn' \in [Clients -> Connection]
    BY RestType DEF TypeOK, Stop
  <1>2. applied' \in [Clients -> Nat]
    BY DEF TypeOK, Stop
  <1>3. mirror' \in [Clients -> [Keys -> Nat]]
    BY RestType DEF TypeOK, Stop
  <1>4. loggedIn' \in [Clients -> BOOLEAN]
    BY Zenon DEF TypeOK, Stop
  <1> QED BY <1>1, <1>2, <1>3, <1>4

\* Handling a frame keeps the client's state and its connection well typed.
LEMMA OnEventType ==
    ASSUME TypeOK, NEW c \in Clients, NEW e \in Event, NEW next \in Connection,
           OnEvent(c, e, next)
    PROVE  /\ conn' \in [Clients -> Connection]
           /\ applied' \in [Clients -> Nat]
           /\ mirror' \in [Clients -> [Keys -> Nat]]
           /\ loggedIn' \in [Clients -> BOOLEAN]
  <1>1. CASE ~ShouldApplyFrame(c, e.rev)
    BY <1>1 DEF OnEvent, TypeOK, client
  <1>2. CASE ShouldApplyFrame(c, e.rev) /\ e.type = "session.revoked"
    BY <1>2, StopType DEF OnEvent
  <1>3. CASE ShouldApplyFrame(c, e.rev) /\ e.type # "session.revoked"
    <2>1. /\ conn' = [conn EXCEPT ![c] = next]
          /\ applied' = [applied EXCEPT ![c] = e.rev]
          /\ mirror' = [mirror EXCEPT ![c][e.key] = e.change]
          /\ loggedIn' = loggedIn
      BY <1>3 DEF OnEvent
    <2>2. e.rev \in Nat /\ e.change \in Nat
      BY DEF Event
    <2>3. [mirror[c] EXCEPT ![e.key] = e.change] \in [Keys -> Nat]
      BY <2>2 DEF TypeOK
    <2>4. mirror' \in [Clients -> [Keys -> Nat]]
      BY <2>1, <2>3 DEF TypeOK
    <2> QED BY <2>1, <2>2, <2>4 DEF TypeOK
  <1> QED BY <1>1, <1>2, <1>3

\* The updates Publish makes to a handler's record.
LEMMA PublisherUpdates ==
    ASSUME NEW x \in Publisher
    PROVE  /\ x.evt \in Event /\ x.evt.change \in Nat /\ x.evt.rev \in Nat
           /\ \A r \in Nat : [x.evt EXCEPT !.rev = r] \in Event
           /\ \A e \in Event : [x EXCEPT !.pc = "stamped", !.evt = e] \in Publisher
           /\ [x EXCEPT !.pc = "stamped"] \in Publisher
           /\ [x EXCEPT !.pc = "streamed"] \in Publisher
           /\ [x EXCEPT !.pc = "streamed", !.streamOK = FALSE] \in Publisher
  <1>1. x.evt \in Event
    BY DEF Publisher
  <1>2. x.evt.change \in Nat /\ x.evt.rev \in Nat
    BY <1>1 DEF Event
  <1>3. \A r \in Nat : [x.evt EXCEPT !.rev = r] \in Event
    BY <1>1 DEF Event
  <1>4. \A e \in Event : [x EXCEPT !.pc = "stamped", !.evt = e] \in Publisher
    BY DEF Publisher
  <1>5. /\ [x EXCEPT !.pc = "stamped"] \in Publisher
        /\ [x EXCEPT !.pc = "streamed"] \in Publisher
    BY DEF Publisher
  <1>6. [x EXCEPT !.pc = "streamed", !.streamOK = FALSE] \in Publisher
    BY DEF Publisher
  <1> QED BY <1>1, <1>2, <1>3, <1>4, <1>5, <1>6

\* The change that an event announces is a number.
LEMMA EventChange ==
    ASSUME NEW e \in Event
    PROVE  e.change \in Nat
  BY DEF Event

\* So are the changes that the handlers are about to announce.
LEMMA PendingChanges ==
    ASSUME TypeOK
    PROVE  \A q \in Publishers : pub[q].evt.change \in Nat
  <1>1. \A q \in Publishers : pub[q] \in Publisher
    BY DEF TypeOK
  <1> QED BY <1>1, PublisherUpdates

\* The updates HandleEvents and the worker make to a connection's record.
LEMMA ConnectionUpdates ==
    ASSUME NEW x \in Connection
    PROVE  /\ x.base \in Nat /\ x.since \in Nat /\ x.snap \in [Keys -> Nat]
           /\ x.out \in Seq(Event) /\ x.todo \in Seq(Event)
           /\ [x EXCEPT !.pc = "authed"] \in Connection
           /\ [x EXCEPT !.pc = "snapshot", !.since = 0] \in Connection
           /\ [x EXCEPT !.pc = "baselined", !.snap = NoRows] \in Connection
           /\ \A s \in Seq(Event) : [x EXCEPT !.pc = "live", !.out = s] \in Connection
           /\ \A n \in Nat : [x EXCEPT !.pc = "resumed", !.since = n] \in Connection
           /\ \A n \in Nat : [x EXCEPT !.pc = "registered", !.since = n] \in Connection
           /\ \A n \in Nat : [x EXCEPT !.pc = "authed", !.base = n] \in Connection
           /\ \A s \in Seq(Event) :
                 /\ [x EXCEPT !.pc = "replay", !.todo = s] \in Connection
                 /\ [x EXCEPT !.todo = s] \in Connection
                 /\ [x EXCEPT !.out = s] \in Connection
           /\ \A d \in [Keys -> Nat] :
                 [x EXCEPT !.pc = "built", !.snap = d] \in Connection
  <1>1. /\ x.base \in Nat /\ x.since \in Nat /\ x.snap \in [Keys -> Nat]
        /\ x.out \in Seq(Event) /\ x.todo \in Seq(Event)
    BY DEF Connection
  <1>2. /\ [x EXCEPT !.pc = "authed"] \in Connection
        /\ [x EXCEPT !.pc = "snapshot", !.since = 0] \in Connection
        /\ [x EXCEPT !.pc = "baselined", !.snap = NoRows] \in Connection
        /\ \A n \in Nat : [x EXCEPT !.pc = "resumed", !.since = n] \in Connection
    BY DEF Connection, NoRows
  <1>9. \A s \in Seq(Event) : [x EXCEPT !.pc = "live", !.out = s] \in Connection
    BY DEF Connection
  <1>3. \A n \in Nat : [x EXCEPT !.pc = "registered", !.since = n] \in Connection
    BY DEF Connection
  <1>4. \A n \in Nat : [x EXCEPT !.pc = "authed", !.base = n] \in Connection
    BY DEF Connection
  <1>5. \A s \in Seq(Event) : [x EXCEPT !.pc = "replay", !.todo = s] \in Connection
    BY DEF Connection
  <1>6. \A s \in Seq(Event) : [x EXCEPT !.todo = s] \in Connection
    BY DEF Connection
  <1>7. \A s \in Seq(Event) : [x EXCEPT !.out = s] \in Connection
    BY DEF Connection
  <1>8. \A d \in [Keys -> Nat] : [x EXCEPT !.pc = "built", !.snap = d] \in Connection
    BY DEF Connection
  <1> QED BY <1>1, <1>2, <1>3, <1>4, <1>5, <1>6, <1>7, <1>8, <1>9

\* Queueing an event keeps the connections well typed.
LEMMA SendType ==
    ASSUME TypeOK, NEW c \in Clients, NEW e \in Event, NEW x \in Connection, Send(c, e, x)
    PROVE  conn' \in [Clients -> Connection]
  <1>0. x.out \in Seq(Event)
    BY ConnectionUpdates
  <1>1. Append(x.out, e) \in Seq(Event)
    BY <1>0
  <1>2. [x EXCEPT !.out = Append(x.out, e)] \in Connection
    BY <1>1, ConnectionUpdates
  <1> DEFINE z == IF Len(conn[c].out) >= OutCap THEN Down ELSE [x EXCEPT !.out = Append(@, e)]
  <1>3. z \in Connection
    BY <1>2, RestType
  <1>4. conn' = [conn EXCEPT ![c] = z]
    BY DEF Send
  <1> HIDE DEF z
  <1> QED BY <1>3, <1>4 DEF TypeOK

\* Every step keeps every variable in its type.
LEMMA TypeStep ==
    ASSUME ConstantsAssumption, TypeOK, [Next]_vars
    PROVE  TypeOK'
  <1>1. CASE UNCHANGED vars
    BY <1>1 DEF vars, TypeOK
  <1>2. ASSUME NEW p \in Publishers, NEW k \in Keys, CommitRow(p, k)
        PROVE  TypeOK'
    <2> DEFINE e == [type |-> "row", key |-> k, change |-> commits + 1,
                     family |-> AllFamilies, rev |-> 0]
    <2>1. [pc |-> "committed", streamOK |-> TRUE, evt |-> e] \in Publisher
      BY DEF Event, Families, Publisher, TypeOK
    <2> HIDE DEF e
    <2>2. pub' \in [Publishers -> Publisher]
      BY <1>2, <2>1 DEF CommitRow, TypeOK, e
    <2> QED BY <1>2, <2>2 DEF CommitRow, TypeOK, client, history
  <1>3. ASSUME NEW p \in Publishers, NEW f \in Families, CommitRevoke(p, f)
        PROVE  TypeOK'
    <2> DEFINE e == [type |-> "session.revoked", key |-> NoKey,
                     change |-> commits + 1, family |-> f, rev |-> 0]
    <2>1. [pc |-> "committed", streamOK |-> TRUE, evt |-> e] \in Publisher
      BY DEF Event, Publisher, TypeOK
    <2> HIDE DEF e
    <2>2. pub' \in [Publishers -> Publisher]
      BY <1>3, <2>1 DEF CommitRevoke, TypeOK, e
    <2>3. revoked' \subseteq Clients \cup Away
      BY <1>3 DEF CommitRevoke, Families, TypeOK
    <2> QED BY <1>3, <2>2, <2>3 DEF CommitRevoke, TypeOK, client, history
  <1>4. ASSUME NEW p \in Publishers, PublishStamp(p)
        PROVE  TypeOK'
    <2> DEFINE e == [pub[p].evt EXCEPT !.rev = rev + 1]
    <2>1. pub[p] \in Publisher /\ rev + 1 \in Nat
      BY DEF TypeOK
    <2>2. /\ e \in Event
          /\ [pub[p] EXCEPT !.pc = "stamped", !.evt = e] \in Publisher
          /\ [pub[p] EXCEPT !.pc = "stamped"] \in Publisher
          /\ pub[p].evt.change \in Nat
      BY <2>1, PublisherUpdates
    <2> HIDE DEF e
    <2>3. /\ pub' \in [Publishers -> Publisher]
          /\ rev' \in Nat /\ published' \in SUBSET Event
          /\ faults' \in Nat /\ lost' \in SUBSET Nat
      <3>1. CASE rev' = rev + 1 /\ published' = published \cup {e}
                 /\ pub' = [pub EXCEPT ![p] = [@ EXCEPT !.pc = "stamped", !.evt = e]]
                 /\ UNCHANGED <<faults, lost>>
        BY <2>1, <2>2, <3>1 DEF TypeOK
      <3>2. CASE Fault("incr") /\ lost' = lost \cup {pub[p].evt.change}
                 /\ pub' = [pub EXCEPT ![p] = [@ EXCEPT !.pc = "stamped"]]
                 /\ UNCHANGED <<rev, published>>
        BY <2>2, <3>2 DEF TypeOK, Fault
      <3> QED BY <1>4, <3>1, <3>2 DEF PublishStamp, e
    <2> QED BY <1>4, <2>3 DEF PublishStamp, TypeOK, client
  <1>5. ASSUME NEW p \in Publishers, PublishStream(p)
        PROVE  TypeOK'
    <2>1. pub[p] \in Publisher
      BY DEF TypeOK
    <2>2. /\ [pub[p] EXCEPT !.pc = "streamed"] \in Publisher
          /\ [pub[p] EXCEPT !.pc = "streamed", !.streamOK = FALSE] \in Publisher
          /\ pub[p].evt \in Event
      BY <2>1, PublisherUpdates
    <2>3. Append(stream, pub[p].evt) \in Seq(Event)
      BY <2>2 DEF TypeOK
    <2>4. stream' \in Seq(Event)
      BY <1>5, <2>3, TrimmedType DEF PublishStream, TypeOK
    <2>5. pub' \in [Publishers -> Publisher]
      BY <1>5, <2>2 DEF PublishStream, TypeOK
    <2>6. faults' \in Nat
      BY <1>5 DEF PublishStream, Fault, TypeOK
    <2> QED BY <1>5, <2>4, <2>5, <2>6 DEF PublishStream, TypeOK, client
  <1>6. ASSUME NEW p \in Publishers, PublishFanout(p)
        PROVE  TypeOK'
    <2>1. pub[p].evt \in Event /\ pub[p].evt.change \in Nat
      BY PublisherUpdates DEF TypeOK
    <2>2. pub' \in [Publishers -> Publisher]
      BY <1>6, RestType DEF PublishFanout, TypeOK
    <2>3. /\ Append(workQueue, pub[p].evt) \in Seq(Event)
          /\ Append(retry, pub[p].evt) \in Seq(Event)
      BY <2>1 DEF TypeOK
    <2>4. workQueue' \in Seq(Event) /\ retry' \in Seq(Event)
      BY <1>6, <2>3 DEF PublishFanout, TypeOK
    <2>5. lost' \in SUBSET Nat
      BY <1>6, <2>1 DEF PublishFanout, TypeOK
    <2>6. faults' \in Nat
      BY <1>6 DEF PublishFanout, Fault, TypeOK
    <2> QED BY <1>6, <2>2, <2>4, <2>5, <2>6 DEF PublishFanout, TypeOK, client
  <1>7. CASE DrainRetry
    <2>1. Head(retry) \in Event /\ Tail(retry) \in Seq(Event)
      BY <1>7 DEF DrainRetry, TypeOK
    <2>2. /\ Append(stream, Head(retry)) \in Seq(Event)
          /\ Append(Tail(retry), Head(retry)) \in Seq(Event)
      BY <2>1 DEF TypeOK
    <2>3. stream' \in Seq(Event)
      BY <1>7, <2>2, TrimmedType DEF DrainRetry, TypeOK
    <2>4. retry' \in Seq(Event)
      BY <1>7, <2>1, <2>2 DEF DrainRetry
    <2>5. faults' \in Nat
      BY <1>7 DEF DrainRetry, Fault, TypeOK
    <2>6. raced' \in SUBSET Nat
      <3>1. Head(retry).change \in Nat
        BY <2>1, EventChange
      <3> QED BY <1>7, <3>1 DEF DrainRetry, TypeOK
    <2> QED BY <1>7, <2>3, <2>4, <2>5, <2>6 DEF DrainRetry, TypeOK, client
  <1>8. CASE StreamExpire
    BY <1>8 DEF StreamExpire, Fault, TypeOK, client
  <1>9. CASE SubscriberWorker
    <2>1. Head(workQueue) \in Event /\ Tail(workQueue) \in Seq(Event)
      BY <1>9 DEF SubscriberWorker, TypeOK
    <2>2. ASSUME NEW c \in Clients
          PROVE  [conn[c] EXCEPT !.out = Append(@, Head(workQueue))] \in Connection
      <3>1. conn[c] \in Connection
        BY DEF TypeOK
      <3>2. conn[c].out \in Seq(Event)
        BY <3>1, ConnectionUpdates
      <3>3. Append(conn[c].out, Head(workQueue)) \in Seq(Event)
        BY <2>1, <3>2
      <3> QED BY <3>1, <3>3, ConnectionUpdates
    <2>3. conn' \in [Clients -> Connection]
      BY <1>9, <2>2, RestType DEF SubscriberWorker, TypeOK
    <2> QED BY <1>9, <2>1, <2>3 DEF SubscriberWorker, TypeOK, client, history
  <1>10. ASSUME NEW c \in Clients, HandleEvents(c)
         PROVE  TypeOK'
    <2>1. [Down EXCEPT !.pc = "registered", !.since = applied[c]] \in Connection
      BY RestType, ConnectionUpdates DEF TypeOK
    <2>2. conn' \in [Clients -> Connection]
      BY <1>10, <2>1 DEF HandleEvents, TypeOK
    <2> QED BY <1>10, <2>2 DEF HandleEvents, TypeOK, server, client, history
  <1>11. ASSUME NEW c \in Clients, AuthOk(c)
         PROVE  TypeOK'
    <2>1. conn[c] \in Connection /\ rev + 1 \in Nat
      BY DEF TypeOK
    <2>2. /\ [conn[c] EXCEPT !.pc = "authed", !.base = rev + 1] \in Connection
          /\ [conn[c] EXCEPT !.pc = "authed"] \in Connection
      BY <2>1, ConnectionUpdates
    <2>3. conn' \in [Clients -> Connection]
      BY <1>11, <2>2 DEF AuthOk, TypeOK
    <2>4. rev' \in Nat /\ faults' \in Nat
      BY <1>11 DEF AuthOk, Fault, TypeOK
    <2> QED BY <1>11, <2>3, <2>4 DEF AuthOk, TypeOK, client
  <1>12. ASSUME NEW c \in Clients, Resume(c)
         PROVE  TypeOK'
    <2>1. InFlight(c) \subseteq Nat /\ Hidden \subseteq Nat
      <3>1. \A i \in DOMAIN retry : retry[i].change \in Nat
        <4>1. \A i \in DOMAIN retry : retry[i] \in Event
          BY DEF TypeOK
        <4> QED BY <4>1, EventChange
      <3>2. InFlight(c) \subseteq Nat
        BY <3>1, PendingChanges DEF InFlight
      <3>3. \A e \in published : e.change \in Nat
        BY EventChange DEF TypeOK
      <3>4. Hidden \subseteq Nat
        BY <3>3 DEF Hidden
      <3> QED BY <3>2, <3>4
    <2>2. conn[c] \in Connection /\ StreamWindow \in Seq(Event)
      BY WindowType DEF TypeOK
    <2>3. [conn[c] EXCEPT !.pc = "replay", !.todo = StreamWindow] \in Connection
      BY <2>2, ConnectionUpdates
    <2>4. conn' \in [Clients -> Connection]
      BY <1>12, <2>3 DEF Resume, TypeOK
    <2> QED BY <1>12, <2>1, <2>4 DEF Resume, TypeOK, server, client
  <1>13. ASSUME NEW c \in Clients, SnapshotRequired(c)
         PROVE  TypeOK'
    <2>1. [conn[c] EXCEPT !.pc = "snapshot", !.since = 0] \in Connection
      BY ConnectionUpdates DEF TypeOK
    <2>2. conn' \in [Clients -> Connection]
      BY <1>13, <2>1 DEF SnapshotRequired, TypeOK
    <2>3. faults' \in Nat
      BY <1>13 DEF SnapshotRequired, Fault, TypeOK
    <2> QED BY <1>13, <2>2, <2>3 DEF SnapshotRequired, TypeOK, server, client
  <1>14. ASSUME NEW c \in Clients, BuildSnapshot(c)
         PROVE  TypeOK'
    <2>1. [conn[c] EXCEPT !.pc = "built", !.snap = db] \in Connection
      BY ConnectionUpdates DEF TypeOK
    <2>2. conn' \in [Clients -> Connection]
      BY <1>14, <2>1 DEF BuildSnapshot, TypeOK
    <2> QED BY <1>14, <2>2 DEF BuildSnapshot, TypeOK, server, client, history
  <1>15. ASSUME NEW c \in Clients, WriteReplay(c)
         PROVE  TypeOK'
    <2>1. conn[c] \in Connection
      BY DEF TypeOK
    <2>2. conn[c].todo \in Seq(Event) /\ conn[c].todo # <<>>
      BY <1>15, <2>1, ConnectionUpdates DEF WriteReplay
    <2>3. Head(conn[c].todo) \in Event /\ Tail(conn[c].todo) \in Seq(Event)
      BY <2>2
    <2>4. [conn[c] EXCEPT !.todo = Tail(@)] \in Connection
      BY <2>1, <2>3, ConnectionUpdates
    <2>5. /\ conn' \in [Clients -> Connection]
          /\ applied' \in [Clients -> Nat]
          /\ mirror' \in [Clients -> [Keys -> Nat]]
          /\ loggedIn' \in [Clients -> BOOLEAN]
      <3>1. CASE OnEvent(c, Head(conn[c].todo), [conn[c] EXCEPT !.todo = Tail(@)])
        BY <2>3, <2>4, <3>1, OnEventType
      <3>2. CASE /\ conn' = [conn EXCEPT ![c] = [conn[c] EXCEPT !.todo = Tail(@)]]
                 /\ UNCHANGED client
        BY <2>4, <3>2 DEF TypeOK, client
      <3> QED BY <1>15, <3>1, <3>2 DEF WriteReplay
    <2> QED BY <1>15, <2>5 DEF WriteReplay, TypeOK, server, history
  <1>16. ASSUME NEW c \in Clients, WriteSnapshot(c)
         PROVE  TypeOK'
    <2>1. conn[c] \in Connection
      BY DEF TypeOK
    <2>2. /\ conn[c].snap \in [Keys -> Nat] /\ conn[c].base \in Nat
          /\ [conn[c] EXCEPT !.pc = "baselined", !.snap = NoRows] \in Connection
      BY <2>1, ConnectionUpdates
    <2>3. conn' \in [Clients -> Connection]
      BY <1>16, <2>2 DEF WriteSnapshot, TypeOK
    <2>4. applied' \in [Clients -> Nat] /\ mirror' \in [Clients -> [Keys -> Nat]]
      BY <1>16, <2>2 DEF WriteSnapshot, TypeOK
    <2>5. lost' \in SUBSET Nat
      <3>1. {conn[c].snap[k] : k \in Keys} \subseteq Nat
        BY <2>2
      <3>2. \A e \in published : e.change \in Nat
        BY EventChange DEF TypeOK
      <3>3. Carried(c) \subseteq Nat
        BY <3>1, <3>2 DEF Carried
      <3> QED BY <1>16, <3>3 DEF WriteSnapshot, TypeOK
    <2> QED BY <1>16, <2>3, <2>4, <2>5 DEF WriteSnapshot, TypeOK, server
  <1>17. ASSUME NEW c \in Clients, BootstrapDone(c)
         PROVE  TypeOK'
    <2>1. conn[c] \in Connection
      BY DEF TypeOK
    <2>2. /\ conn[c].base \in Nat
          /\ [Down EXCEPT !.pc = "live", !.out = conn[c].out] \in Connection
      BY <2>1, RestType, ConnectionUpdates
    <2>3. conn' \in [Clients -> Connection] /\ applied' \in [Clients -> Nat]
      BY <1>17, <2>2 DEF BootstrapDone, TypeOK
    <2> QED BY <1>17, <2>3 DEF BootstrapDone, TypeOK, server, history
  <1>18. ASSUME NEW c \in Clients, Writer(c)
         PROVE  TypeOK'
    <2>1. conn[c] \in Connection
      BY DEF TypeOK
    <2>2. conn[c].out \in Seq(Event) /\ conn[c].out # <<>>
      BY <1>18, <2>1, ConnectionUpdates DEF Writer
    <2>3. Head(conn[c].out) \in Event /\ Tail(conn[c].out) \in Seq(Event)
      BY <2>2
    <2>4. [conn[c] EXCEPT !.out = Tail(@)] \in Connection
      BY <2>1, <2>3, ConnectionUpdates
    <2>5. /\ conn' \in [Clients -> Connection]
          /\ applied' \in [Clients -> Nat]
          /\ mirror' \in [Clients -> [Keys -> Nat]]
          /\ loggedIn' \in [Clients -> BOOLEAN]
      BY <1>18, <2>3, <2>4, OnEventType DEF Writer
    <2> QED BY <1>18, <2>5 DEF Writer, TypeOK, server, history
  <1>19. ASSUME NEW c \in Clients, SessionEnded(c)
         PROVE  TypeOK'
    <2>1. /\ conn' \in [Clients -> Connection]
          /\ applied' \in [Clients -> Nat]
          /\ mirror' \in [Clients -> [Keys -> Nat]]
          /\ loggedIn' \in [Clients -> BOOLEAN]
      BY <1>19, StopType DEF SessionEnded
    <2> QED BY <1>19, <2>1 DEF SessionEnded, TypeOK, server, history
  <1>20. ASSUME NEW c \in Clients, Disconnect(c)
         PROVE  TypeOK'
    BY <1>20, RestType DEF Disconnect, Fault, TypeOK, server, client
  <1>21. CASE ServerCrash
    <2>1. lost' \in SUBSET Nat
      <3>1. lost \in SUBSET Nat /\ \A q \in Publishers : pub[q].evt.change \in Nat
        BY PendingChanges DEF TypeOK
      <3>2. \A n \in lost' : n \in lost \/ \E q \in Publishers : n = pub[q].evt.change
        BY <1>21 DEF ServerCrash
      <3> QED BY <3>1, <3>2
    <2>2. /\ pub' \in [Publishers -> Publisher]
          /\ conn' \in [Clients -> Connection]
          /\ workQueue' \in Seq(Event)
      BY <1>21, RestType DEF ServerCrash
    <2> QED BY <1>21, <2>1, <2>2 DEF ServerCrash, Fault, TypeOK, client
  <1>22. ASSUME NEW c \in Clients, ResumeFrame(c)
         PROVE  TypeOK'
    <2>1. PICK since \in 0 .. applied[c] :
            LET reading == [conn[c] EXCEPT !.pc = "resumed", !.since = since] IN
            \/ /\ Truncated(since)
               /\ Send(c, SnapshotHint, reading)
               /\ UNCHANGED raced
            \/ /\ ~Truncated(since)
               /\ conn' = [conn EXCEPT ![c] = [reading EXCEPT !.todo = StreamWindow]]
               /\ raced' = raced \cup {retry[i].change : i \in DOMAIN retry} \cup Hidden
      BY <1>22 DEF ResumeFrame
    <2> DEFINE x == [conn[c] EXCEPT !.pc = "resumed", !.since = since]
    <2>2. since \in Nat /\ conn[c] \in Connection
      BY DEF TypeOK
    <2>3. x \in Connection
      BY <2>2, ConnectionUpdates
    <2>4. [x EXCEPT !.todo = StreamWindow] \in Connection
      BY <2>3, WindowType, ConnectionUpdates DEF TypeOK
    <2>5. SnapshotHint \in Event
      BY DEF SnapshotHint, Idle, Event, Families
    <2>6. \/ Send(c, SnapshotHint, x) /\ UNCHANGED raced
          \/ /\ conn' = [conn EXCEPT ![c] = [x EXCEPT !.todo = StreamWindow]]
             /\ raced' = raced \cup {retry[i].change : i \in DOMAIN retry} \cup Hidden
      BY <2>1
    <2> HIDE DEF x
    <2>7. conn' \in [Clients -> Connection]
      BY <2>3, <2>4, <2>5, <2>6, SendType DEF TypeOK
    <2>8. raced' \in SUBSET Nat
      <3>1. \A i \in DOMAIN retry : retry[i].change \in Nat
        <4>1. \A i \in DOMAIN retry : retry[i] \in Event
          BY DEF TypeOK
        <4> QED BY <4>1, EventChange
      <3>2. \A e \in published : e.change \in Nat
        BY EventChange DEF TypeOK
      <3>3. Hidden \subseteq Nat
        BY <3>2 DEF Hidden
      <3>4. {retry[i].change : i \in DOMAIN retry} \subseteq Nat
        BY <3>1
      <3>5. raced \subseteq Nat
        BY DEF TypeOK
      <3>6. raced' = raced \/ raced' = raced \cup {retry[i].change : i \in DOMAIN retry} \cup Hidden
        BY <2>6
      <3> QED BY <3>3, <3>4, <3>5, <3>6
    <2>9. faults' \in Nat /\ UNCHANGED <<published, lost>> /\ UNCHANGED server
          /\ UNCHANGED client
      BY <1>22 DEF ResumeFrame, Fault, TypeOK
    <2> QED BY <2>7, <2>8, <2>9 DEF TypeOK, server, client
  <1>23. ASSUME NEW c \in Clients, ReaderSend(c)
         PROVE  TypeOK'
    <2>1. conn[c] \in Connection
      BY DEF TypeOK
    <2>2. conn[c].todo \in Seq(Event) /\ conn[c].todo # <<>>
      BY <1>23, <2>1, ConnectionUpdates DEF ReaderSend
    <2>3. Head(conn[c].todo) \in Event /\ Tail(conn[c].todo) \in Seq(Event)
      BY <2>2
    <2>4. [conn[c] EXCEPT !.todo = Tail(@)] \in Connection
      BY <2>1, <2>3, ConnectionUpdates
    <2>5. conn' \in [Clients -> Connection]
      <3>1. CASE Send(c, Head(conn[c].todo), [conn[c] EXCEPT !.todo = Tail(@)])
        BY <2>3, <2>4, <3>1, SendType
      <3>2. CASE conn' = [conn EXCEPT ![c] = [conn[c] EXCEPT !.todo = Tail(@)]]
        BY <2>4, <3>2 DEF TypeOK
      <3> QED BY <1>23, <3>1, <3>2 DEF ReaderSend
    <2> QED BY <1>23, <2>5 DEF ReaderSend, TypeOK, server, client, history
  <1> QED
    BY <1>1, <1>2, <1>3, <1>4, <1>5, <1>6, <1>7, <1>8, <1>9, <1>10, <1>11, <1>12,
       <1>13, <1>14, <1>15, <1>16, <1>17, <1>18, <1>19, <1>20, <1>21, <1>22, <1>23
    DEF Next, Publish, Bootstrap

\* Every variable of the pipeline stays in its type, whatever the faults.
THEOREM TypeCorrect == Spec => []TypeOK
  <1>1. Init => TypeOK
    BY RestType DEF Init, TypeOK
  <1>2. TypeOK /\ [Next]_vars => TypeOK'
    BY TypeStep, ConstantsAssumption
  <1> QED BY <1>1, <1>2, PTL DEF Spec

----------------------------------------------------------------------------
(***************************************************************************)
(* Fan-out order.  FanoutOrdered alone is not inductive: an event enters   *)
(* workQueue two steps after it was stamped.  What makes it newest then is *)
(* that publishMu admits one handler at a time, so nothing was stamped in  *)
(* between, and that whatever is queued was stamped before.                *)
(***************************************************************************)
InPublish(p) == pub[p].pc \in {"stamped", "streamed"}

\* Every event of s was stamped before rev r.
Before(s, r) == \A i \in DOMAIN s : s[i].rev > 0 /\ r > 0 => s[i].rev < r

\* No event of s is newer than r.
UpTo(s, r) == \A i \in DOMAIN s : s[i].rev <= r

\* One handler at a time is inside Publish, and a handler that is not yet
\* inside has no rev.
OneInPublish ==
    /\ \A p, q \in Publishers : InPublish(p) /\ InPublish(q) => p = q
    /\ \A p \in Publishers : pub[p].pc = "committed" => pub[p].evt.rev = 0

\* The counter bounds every queued event.
CounterBounds ==
    /\ UpTo(workQueue, rev)
    /\ \A c \in Clients : conn[c].pc # "resumed" => UpTo(conn[c].out, rev)

\* The event being published is newer than every queued one.
PublishedIsNewest ==
    \A p \in Publishers : InPublish(p) =>
        /\ pub[p].evt.rev <= rev
        /\ Before(workQueue, pub[p].evt.rev)
        /\ \A c \in Clients : conn[c].pc # "resumed" => Before(conn[c].out, pub[p].evt.rev)

OrderInv == OneInPublish /\ CounterBounds /\ PublishedIsNewest /\ FanoutOrdered

\* Events in a sequence are events, and their revs are numbers.
LEMMA SeqRevs ==
    ASSUME NEW s \in Seq(Event)
    PROVE  \A i \in DOMAIN s : s[i] \in Event /\ s[i].rev \in Nat
  <1>1. \A i \in DOMAIN s : s[i] \in Event
    OBVIOUS
  <1>2. \A e \in Event : e.rev \in Nat
    BY DEF Event
  <1> QED BY <1>1, <1>2

\* Appending an event that is newer than a queue keeps the queue ordered.
LEMMA OrderedAppend ==
    ASSUME NEW s \in Seq(Event), NEW e \in Event,
           OrderedByRev(s), Before(s, e.rev)
    PROVE  OrderedByRev(Append(s, e))
  BY DEF OrderedByRev, Before, Event

\* Taking the head off a queue keeps every order and bound.
LEMMA OrderedTail ==
    ASSUME NEW s \in Seq(Event), s # <<>>, NEW t \in Seq(Event), NEW r \in Nat
    PROVE  /\ OrderedByRev(s) => OrderedByRev(Tail(s))
           /\ Before(s, r) => Before(Tail(s), r)
           /\ UpTo(s, r) => UpTo(Tail(s), r)
           /\ StampedBefore(s, t) => StampedBefore(Tail(s), t)
           /\ StampedBefore(t, s) => StampedBefore(t, Tail(s))
  <1>1. /\ Tail(s) \in Seq(Event) /\ DOMAIN Tail(s) = 1 .. Len(s) - 1
        /\ DOMAIN s = 1 .. Len(s) /\ Len(s) \in Nat
        /\ \A i \in DOMAIN Tail(s) : Tail(s)[i] = s[i + 1] /\ i + 1 \in DOMAIN s
    OBVIOUS
  <1>2. OrderedByRev(s) => OrderedByRev(Tail(s))
    BY <1>1 DEF OrderedByRev
  <1>3. Before(s, r) => Before(Tail(s), r)
    BY <1>1 DEF Before
  <1>4. UpTo(s, r) => UpTo(Tail(s), r)
    BY <1>1 DEF UpTo
  <1>5. StampedBefore(s, t) => StampedBefore(Tail(s), t)
    BY <1>1 DEF StampedBefore
  <1>6. StampedBefore(t, s) => StampedBefore(t, Tail(s))
    BY <1>1 DEF StampedBefore
  <1> QED BY <1>2, <1>3, <1>4, <1>5, <1>6

\* Moving the head of the work queue to a connection's queue keeps both.
LEMMA HandOn ==
    ASSUME NEW out \in Seq(Event), NEW wq \in Seq(Event), wq # <<>>,
           OrderedByRev(out), OrderedByRev(wq), StampedBefore(out, wq)
    PROVE  /\ OrderedByRev(Append(out, Head(wq)))
           /\ StampedBefore(Append(out, Head(wq)), Tail(wq))
  <1>1. /\ Tail(wq) \in Seq(Event) /\ DOMAIN Tail(wq) = 1 .. Len(wq) - 1
        /\ DOMAIN wq = 1 .. Len(wq) /\ Len(wq) \in Nat /\ Len(wq) >= 1
        /\ \A i \in DOMAIN Tail(wq) : Tail(wq)[i] = wq[i + 1] /\ i + 1 \in DOMAIN wq
        /\ Head(wq) = wq[1] /\ Head(wq) \in Event /\ 1 \in DOMAIN wq
    OBVIOUS
  <1>2. Before(out, Head(wq).rev)
    BY <1>1 DEF StampedBefore, Before
  <1>3. OrderedByRev(Append(out, Head(wq)))
    BY <1>1, <1>2, OrderedAppend
  <1>4. /\ DOMAIN Append(out, Head(wq)) = 1 .. Len(out) + 1
        /\ \A i \in 1 .. Len(out) : Append(out, Head(wq))[i] = out[i]
        /\ Append(out, Head(wq))[Len(out) + 1] = Head(wq)
        /\ DOMAIN out = 1 .. Len(out) /\ Len(out) \in Nat
    BY <1>1
  <1>5. ASSUME NEW i \in DOMAIN Append(out, Head(wq)), NEW j \in DOMAIN Tail(wq),
               Append(out, Head(wq))[i].rev > 0, Tail(wq)[j].rev > 0
        PROVE  Append(out, Head(wq))[i].rev < Tail(wq)[j].rev
    <2>1. CASE i \in 1 .. Len(out)
      BY <1>1, <1>4, <1>5, <2>1 DEF StampedBefore
    <2>2. CASE i = Len(out) + 1
      <3>1. 1 < j + 1 /\ j + 1 \in DOMAIN wq
        BY <1>1
      <3> QED BY <1>1, <1>4, <1>5, <2>2, <3>1 DEF OrderedByRev
    <2> QED BY <1>4, <2>1, <2>2
  <1> QED BY <1>3, <1>5 DEF StampedBefore

\* Appending an event that is newer than everything to the work queue.
LEMMA QueueAppend ==
    ASSUME NEW out \in Seq(Event), NEW wq \in Seq(Event), NEW e \in Event,
           StampedBefore(out, wq), Before(out, e.rev)
    PROVE  StampedBefore(out, Append(wq, e))
  <1>1. /\ DOMAIN Append(wq, e) = 1 .. Len(wq) + 1
        /\ \A i \in 1 .. Len(wq) : Append(wq, e)[i] = wq[i]
        /\ Append(wq, e)[Len(wq) + 1] = e
        /\ DOMAIN wq = 1 .. Len(wq) /\ Len(wq) \in Nat
    OBVIOUS
  <1>2. ASSUME NEW i \in DOMAIN out, NEW j \in DOMAIN Append(wq, e),
               out[i].rev > 0, Append(wq, e)[j].rev > 0
        PROVE  out[i].rev < Append(wq, e)[j].rev
    <2>1. CASE j \in 1 .. Len(wq)
      BY <1>1, <1>2, <2>1 DEF StampedBefore
    <2>2. CASE j = Len(wq) + 1
      BY <1>1, <1>2, <2>2 DEF Before
    <2> QED BY <1>1, <2>1, <2>2
  <1> QED BY <1>2 DEF StampedBefore

\* A bound on a queue and on a new event bounds the longer queue.
LEMMA UpToAppend ==
    ASSUME NEW s \in Seq(Event), NEW e \in Event, NEW r \in Nat,
           UpTo(s, r), e.rev <= r
    PROVE  UpTo(Append(s, e), r)
  BY DEF UpTo, Event

\* The sequences and numbers the order argument is about.
LEMMA OrderTypes ==
    ASSUME TypeOK
    PROVE  /\ rev \in Nat /\ workQueue \in Seq(Event)
           /\ \A c \in Clients : conn[c].out \in Seq(Event)
           /\ \A p \in Publishers : pub[p].evt \in Event /\ pub[p].evt.rev \in Nat
  <1>1. /\ \A c \in Clients : conn[c] \in Connection
        /\ \A p \in Publishers : pub[p] \in Publisher
    BY DEF TypeOK
  <1>2. \A c \in Clients : conn[c].out \in Seq(Event)
    BY <1>1, ConnectionUpdates
  <1>3. \A p \in Publishers : pub[p].evt \in Event /\ pub[p].evt.rev \in Nat
    BY <1>1, PublisherUpdates
  <1> QED BY <1>2, <1>3 DEF TypeOK

\* A step that leaves the handlers and the work queue alone, and only shortens
\* or empties the queues of connections without a resume frame, keeps the order.
LEMMA OrderFrame ==
    ASSUME TypeOK, TypeOK', OrderInv,
           workQueue' = workQueue, pub' = pub, rev' >= rev,
           \A c \in Clients :
              \/ conn'[c].pc = "resumed" \/ conn'[c].out = <<>>
              \/ /\ conn[c].pc # "resumed"
                 /\ \/ conn'[c].out = conn[c].out
                    \/ conn[c].out # <<>> /\ conn'[c].out = Tail(conn[c].out)
    PROVE  OrderInv'
  <1>1. /\ rev \in Nat /\ rev' \in Nat /\ workQueue \in Seq(Event)
        /\ \A c \in Clients : conn[c].out \in Seq(Event)
        /\ \A p \in Publishers : pub[p].evt \in Event /\ pub[p].evt.rev \in Nat
    BY OrderTypes DEF TypeOK
  <1>2. OneInPublish'
    BY DEF OrderInv, OneInPublish, InPublish
  <1>3. ASSUME NEW c \in Clients, conn'[c].pc # "resumed"
        PROVE  /\ UpTo(conn'[c].out, rev)
               /\ OrderedByRev(conn'[c].out)
               /\ StampedBefore(conn'[c].out, workQueue)
               /\ \A p \in Publishers : InPublish(p) => Before(conn'[c].out, pub[p].evt.rev)
    <2>1. ASSUME conn[c].pc # "resumed"
          PROVE  /\ UpTo(conn[c].out, rev)
                 /\ OrderedByRev(conn[c].out)
                 /\ StampedBefore(conn[c].out, workQueue)
                 /\ \A p \in Publishers : InPublish(p) => Before(conn[c].out, pub[p].evt.rev)
      BY <2>1 DEF OrderInv, CounterBounds, FanoutOrdered, PublishedIsNewest
    <2>2. CASE conn[c].pc # "resumed" /\ conn'[c].out = conn[c].out
      BY <2>1, <2>2
    <2>3. CASE conn'[c].out = <<>>
      BY <2>3 DEF UpTo, OrderedByRev, StampedBefore, Before
    <2>4. CASE conn[c].pc # "resumed" /\ conn[c].out # <<>> /\ conn'[c].out = Tail(conn[c].out)
      BY <1>1, <2>1, <2>4, OrderedTail
    <2> QED BY <1>3, <2>2, <2>3, <2>4
  <1>4. CounterBounds'
    <2>1. \A i \in DOMAIN workQueue : workQueue[i].rev \in Nat
      BY <1>1, SeqRevs
    <2>2. UpTo(workQueue', rev')
      BY <1>1, <2>1 DEF OrderInv, CounterBounds, UpTo
    <2>3. ASSUME NEW c \in Clients, conn'[c].pc # "resumed"
          PROVE  UpTo(conn'[c].out, rev')
      <3>1. conn'[c].out \in Seq(Event)
        <4>1. conn'[c] \in Connection
          BY DEF TypeOK
        <4> QED BY <4>1, ConnectionUpdates
      <3>2. \A i \in DOMAIN conn'[c].out : conn'[c].out[i].rev \in Nat
        BY <3>1, SeqRevs
      <3> QED BY <1>1, <1>3, <2>3, <3>2 DEF UpTo
    <2> QED BY <2>2, <2>3 DEF CounterBounds
  <1>5. PublishedIsNewest'
    BY <1>1, <1>3 DEF OrderInv, PublishedIsNewest, InPublish
  <1>6. FanoutOrdered'
    BY <1>3 DEF OrderInv, FanoutOrdered
  <1> QED BY <1>2, <1>4, <1>5, <1>6 DEF OrderInv

\* Applying a frame leaves the connection as next or closes it.
LEMMA OnEventConn ==
    ASSUME TypeOK, NEW c \in Clients, NEW e, NEW next, OnEvent(c, e, next)
    PROVE  /\ \/ conn'[c].out = <<>>
              \/ conn'[c].out = next.out /\ conn'[c].pc = next.pc
           /\ \A d \in Clients \ {c} : conn'[d] = conn[d]
  <1>1. Down.out = <<>>
    BY DEF Down
  <1>2. conn \in [Clients -> Connection]
    BY DEF TypeOK
  <1>3. conn' = [conn EXCEPT ![c] = next] \/ conn' = [conn EXCEPT ![c] = Down]
    BY DEF OnEvent, Stop
  <1> QED BY <1>1, <1>2, <1>3

\* What Send does to the connections: it closes c's, or queues the event there.
LEMMA SendMoves ==
    ASSUME conn \in [Clients -> Connection], NEW c \in Clients, NEW e, NEW x \in Connection,
           Send(c, e, x)
    PROVE  /\ \A d \in Clients \ {c} : conn'[d] = conn[d]
           /\ \/ conn'[c] = Down
              \/ /\ conn'[c].out = Append(x.out, e)
                 /\ conn'[c].pc = x.pc /\ conn'[c].since = x.since
                 /\ conn'[c].base = x.base /\ conn'[c].todo = x.todo
                 /\ conn'[c].snap = x.snap
  <1> DEFINE y == [x EXCEPT !.out = Append(@, e)]
  <1>1. /\ y.out = Append(x.out, e) /\ y.pc = x.pc /\ y.since = x.since
        /\ y.base = x.base /\ y.todo = x.todo /\ y.snap = x.snap
    BY DEF Connection
  <1>2. conn' = [conn EXCEPT ![c] = Down] \/ conn' = [conn EXCEPT ![c] = y]
    BY DEF Send
  <1> HIDE DEF y
  <1> QED BY <1>1, <1>2

\* A resume frame closes the connection, queues the hint or reads the stream.
LEMMA FrameRead ==
    ASSUME TypeOK, NEW c \in Clients, ResumeFrame(c)
    PROVE  /\ \A d \in Clients \ {c} : conn'[d] = conn[d]
           /\ Bootstrapped(c) /\ conn[c].todo = <<>>
           /\ \/ conn'[c] = Down /\ raced' = raced
              \/ /\ conn'[c].pc = "resumed" /\ conn'[c].base = conn[c].base
                 /\ conn'[c].since \in 0 .. applied[c]
                 /\ \/ /\ conn'[c].out = Append(conn[c].out, SnapshotHint)
                       /\ conn'[c].todo = <<>> /\ raced' = raced
                    \/ /\ ~Truncated(conn'[c].since)
                       /\ conn'[c].out = conn[c].out /\ conn'[c].todo = StreamWindow
                       /\ raced' = raced \cup {retry[i].change : i \in DOMAIN retry}
                                         \cup Hidden
  <1>0. conn \in [Clients -> Connection] /\ conn[c] \in Connection /\ applied[c] \in Nat
    BY DEF TypeOK
  <1>1. PICK since \in 0 .. applied[c] :
            LET reading == [conn[c] EXCEPT !.pc = "resumed", !.since = since] IN
            \/ /\ Truncated(since)
               /\ Send(c, SnapshotHint, reading)
               /\ UNCHANGED raced
            \/ /\ ~Truncated(since)
               /\ conn' = [conn EXCEPT ![c] = [reading EXCEPT !.todo = StreamWindow]]
               /\ raced' = raced \cup {retry[i].change : i \in DOMAIN retry} \cup Hidden
    BY DEF ResumeFrame
  <1> DEFINE x == [conn[c] EXCEPT !.pc = "resumed", !.since = since]
             y == [x EXCEPT !.todo = StreamWindow]
  <1>2. x \in Connection
    <2>1. since \in Nat
      BY <1>0
    <2> QED BY <1>0, <2>1, ConnectionUpdates
  <1>3. /\ x.pc = "resumed" /\ x.base = conn[c].base /\ x.since = since
        /\ x.out = conn[c].out /\ x.todo = conn[c].todo
        /\ y.pc = "resumed" /\ y.base = conn[c].base /\ y.since = since
        /\ y.out = conn[c].out /\ y.todo = StreamWindow
    BY <1>0 DEF Connection
  <1>4. \/ Send(c, SnapshotHint, x) /\ raced' = raced
        \/ /\ ~Truncated(since) /\ conn' = [conn EXCEPT ![c] = y]
           /\ raced' = raced \cup {retry[i].change : i \in DOMAIN retry} \cup Hidden
    BY <1>1
  <1> HIDE DEF x, y
  <1>5. Bootstrapped(c) /\ conn[c].todo = <<>>
    BY DEF ResumeFrame
  <1>6. CASE Send(c, SnapshotHint, x) /\ raced' = raced
    BY <1>0, <1>2, <1>3, <1>5, <1>6, SendMoves
  <1>7. CASE /\ ~Truncated(since) /\ conn' = [conn EXCEPT ![c] = y]
             /\ raced' = raced \cup {retry[i].change : i \in DOMAIN retry} \cup Hidden
    BY <1>0, <1>3, <1>5, <1>7
  <1> QED BY <1>4, <1>6, <1>7

\* The reader's next event is queued, skipped, or too much for the queue.
LEMMA ReaderMoves ==
    ASSUME TypeOK, NEW c \in Clients, ReaderSend(c)
    PROVE  /\ \A d \in Clients \ {c} : conn'[d] = conn[d]
           /\ conn[c].pc = "resumed" /\ conn[c].todo # <<>>
           /\ \/ conn'[c] = Down
              \/ /\ conn'[c].pc = "resumed" /\ conn'[c].base = conn[c].base
                 /\ conn'[c].since = conn[c].since /\ conn'[c].todo = Tail(conn[c].todo)
                 /\ \/ /\ conn'[c].out = Append(conn[c].out, Head(conn[c].todo))
                       /\ EventVisibleToFamily(Head(conn[c].todo), c)
                    \/ /\ conn'[c].out = conn[c].out
                       /\ ~(/\ Head(conn[c].todo).rev > conn[c].since
                            /\ EventVisibleToFamily(Head(conn[c].todo), c))
  <1> DEFINE e == Head(conn[c].todo)
             x == [conn[c] EXCEPT !.todo = Tail(@)]
  <1>0. /\ conn \in [Clients -> Connection] /\ conn[c] \in Connection
        /\ conn[c].pc = "resumed" /\ conn[c].todo # <<>> /\ conn[c].todo \in Seq(Event)
    BY ConnectionUpdates DEF TypeOK, ReaderSend
  <1>1. /\ x.pc = "resumed" /\ x.base = conn[c].base /\ x.since = conn[c].since
        /\ x.out = conn[c].out /\ x.todo = Tail(conn[c].todo)
    BY <1>0 DEF Connection
  <1>2. x \in Connection
    <2>1. Tail(conn[c].todo) \in Seq(Event)
      BY <1>0
    <2> QED BY <1>0, <2>1, ConnectionUpdates
  <1>3. IF e.rev > conn[c].since /\ EventVisibleToFamily(e, c)
        THEN Send(c, e, x) ELSE conn' = [conn EXCEPT ![c] = x]
    BY DEF ReaderSend
  <1> HIDE DEF x, e
  <1>4. CASE e.rev > conn[c].since /\ EventVisibleToFamily(e, c)
    BY <1>0, <1>1, <1>2, <1>3, <1>4, SendMoves DEF e
  <1>5. CASE ~(e.rev > conn[c].since /\ EventVisibleToFamily(e, c))
    BY <1>0, <1>1, <1>3, <1>5 DEF e
  <1> QED BY <1>4, <1>5

\* Every step keeps the order.
LEMMA OrderStep ==
    ASSUME ConstantsAssumption, TypeOK, TypeOK', OrderInv, [Next]_vars
    PROVE  OrderInv'
  <1> USE OrderTypes
  <1>0. conn \in [Clients -> Connection] /\ pub \in [Publishers -> Publisher]
    BY DEF TypeOK
  <1>1. CASE UNCHANGED vars
    BY <1>1, OrderFrame DEF vars
  <1>2. ASSUME NEW p \in Publishers,
               pub'[p].pc = "committed", pub'[p].evt.rev = 0,
               \A q \in Publishers \ {p} : pub'[q] = pub[q],
               UNCHANGED <<rev, workQueue, conn>>
        PROVE  OrderInv'
    <2>1. /\ ~InPublish(p)' /\ pub'[p].evt.rev = 0
          /\ \A q \in Publishers \ {p} : pub'[q] = pub[q]
      BY <1>2 DEF InPublish
    <2>2. OneInPublish'
      BY <2>1 DEF OrderInv, OneInPublish, InPublish
    <2>3. PublishedIsNewest'
      BY <1>2, <2>1 DEF OrderInv, PublishedIsNewest, InPublish
    <2>4. CounterBounds' /\ FanoutOrdered'
      BY <1>2 DEF OrderInv, CounterBounds, FanoutOrdered
    <2> QED BY <2>2, <2>3, <2>4 DEF OrderInv
  <1>3. ASSUME NEW p \in Publishers, NEW k \in Keys, CommitRow(p, k)
        PROVE  OrderInv'
    <2>1. /\ pub'[p].pc = "committed" /\ pub'[p].evt.rev = 0
          /\ \A q \in Publishers \ {p} : pub'[q] = pub[q]
          /\ UNCHANGED <<rev, workQueue, conn>>
      BY <1>0, <1>3 DEF CommitRow
    <2> QED BY <1>2, <2>1
  <1>4. ASSUME NEW p \in Publishers, NEW f \in Families, CommitRevoke(p, f)
        PROVE  OrderInv'
    <2>1. /\ pub'[p].pc = "committed" /\ pub'[p].evt.rev = 0
          /\ \A q \in Publishers \ {p} : pub'[q] = pub[q]
          /\ UNCHANGED <<rev, workQueue, conn>>
      BY <1>0, <1>4 DEF CommitRevoke
    <2> QED BY <1>2, <2>1
  <1>5. ASSUME NEW p \in Publishers, PublishStamp(p)
        PROVE  OrderInv'
    <2>1. /\ workQueue' = workQueue /\ conn' = conn
          /\ pub[p].pc = "committed" /\ pub[p].evt.rev = 0
          /\ \A q \in Publishers : ~InPublish(q)
      BY <1>5 DEF PublishStamp, PublishMuFree, InPublish, OrderInv, OneInPublish
    <2>2. /\ \A q \in Publishers \ {p} : pub'[q] = pub[q]
          /\ pub'[p].pc = "stamped"
          /\ \/ rev' = rev + 1 /\ pub'[p].evt.rev = rev + 1
             \/ rev' = rev /\ pub'[p].evt.rev = 0
      <3> DEFINE e == [pub[p].evt EXCEPT !.rev = rev + 1]
      <3>1. pub[p] \in Publisher /\ pub[p].evt \in Event
        BY <1>0
      <3>2. e.rev = rev + 1
        BY <3>1 DEF Event
      <3>3. /\ [pub[p] EXCEPT !.pc = "stamped"].pc = "stamped"
            /\ [pub[p] EXCEPT !.pc = "stamped"].evt = pub[p].evt
        BY <3>1 DEF Publisher
      <3>4. /\ [pub[p] EXCEPT !.pc = "stamped", !.evt = e].pc = "stamped"
            /\ [pub[p] EXCEPT !.pc = "stamped", !.evt = e].evt = e
        BY <3>1 DEF Publisher
      <3> HIDE DEF e
      <3>5. \/ /\ rev' = rev + 1
               /\ pub' = [pub EXCEPT ![p] = [@ EXCEPT !.pc = "stamped", !.evt = e]]
            \/ rev' = rev /\ pub' = [pub EXCEPT ![p] = [@ EXCEPT !.pc = "stamped"]]
        BY <1>5 DEF PublishStamp, e
      <3> QED BY <1>0, <2>1, <3>2, <3>3, <3>4, <3>5
    <2>3. OneInPublish'
      BY <2>1, <2>2 DEF OrderInv, OneInPublish, InPublish
    <2>4. /\ \A i \in DOMAIN workQueue : workQueue[i].rev \in Nat
          /\ \A c \in Clients : \A i \in DOMAIN conn[c].out : conn[c].out[i].rev \in Nat
      BY SeqRevs
    <2>5. rev \in Nat /\ CounterBounds
      BY DEF OrderInv
    <2>6. CounterBounds'
      BY <2>1, <2>2, <2>4, <2>5 DEF CounterBounds, UpTo
    <2>7. PublishedIsNewest'
      BY <2>1, <2>2, <2>4, <2>5 DEF PublishedIsNewest, InPublish, CounterBounds, UpTo, Before
    <2>8. FanoutOrdered'
      BY <2>1 DEF OrderInv, FanoutOrdered
    <2> QED BY <2>3, <2>6, <2>7, <2>8 DEF OrderInv
  <1>6. ASSUME NEW p \in Publishers, PublishStream(p)
        PROVE  OrderInv'
    <2>1. /\ workQueue' = workQueue /\ conn' = conn /\ rev' = rev
          /\ InPublish(p) /\ InPublish(p)' /\ pub'[p].pc = "streamed"
          /\ pub'[p].evt = pub[p].evt
          /\ \A q \in Publishers \ {p} : pub'[q] = pub[q]
      <3>1. pub[p] \in Publisher
        BY <1>0
      <3>2. /\ [pub[p] EXCEPT !.pc = "streamed"].pc = "streamed"
            /\ [pub[p] EXCEPT !.pc = "streamed"].evt = pub[p].evt
        BY <3>1 DEF Publisher
      <3>3. /\ [pub[p] EXCEPT !.pc = "streamed", !.streamOK = FALSE].pc = "streamed"
            /\ [pub[p] EXCEPT !.pc = "streamed", !.streamOK = FALSE].evt = pub[p].evt
        BY <3>1 DEF Publisher
      <3>4. /\ pub[p].pc = "stamped"
            /\ \/ pub' = [pub EXCEPT ![p] = [@ EXCEPT !.pc = "streamed"]]
               \/ pub' = [pub EXCEPT ![p] = [@ EXCEPT !.pc = "streamed", !.streamOK = FALSE]]
            /\ workQueue' = workQueue /\ conn' = conn /\ rev' = rev
        BY <1>6 DEF PublishStream
      <3> QED BY <1>0, <3>2, <3>3, <3>4 DEF InPublish
    <2>2. OneInPublish'
      BY <2>1 DEF OrderInv, OneInPublish, InPublish
    <2>3. PublishedIsNewest'
      BY <2>1 DEF OrderInv, PublishedIsNewest, InPublish
    <2>4. CounterBounds' /\ FanoutOrdered'
      BY <2>1 DEF OrderInv, CounterBounds, FanoutOrdered
    <2> QED BY <2>2, <2>3, <2>4 DEF OrderInv
  <1>7. ASSUME NEW p \in Publishers, PublishFanout(p)
        PROVE  OrderInv'
    <2> DEFINE e == pub[p].evt
    <2>1. /\ conn' = conn /\ rev' = rev /\ InPublish(p)
          /\ workQueue' \in {workQueue, Append(workQueue, e)}
          /\ \A q \in Publishers \ {p} : pub'[q] = pub[q]
          /\ pub'[p].pc = "idle"
      BY <1>0, <1>7 DEF PublishFanout, InPublish, Idle
    <2>2. \A q \in Publishers : ~InPublish(q)'
      BY <2>1 DEF OrderInv, OneInPublish, InPublish
    <2>3. /\ e \in Event /\ e.rev \in Nat /\ e.rev <= rev /\ Before(workQueue, e.rev)
          /\ \A c \in Clients : conn[c].pc # "resumed" => Before(conn[c].out, e.rev)
      BY <2>1 DEF OrderInv, PublishedIsNewest
    <2> HIDE DEF e
    <2>4. OneInPublish' /\ PublishedIsNewest'
      BY <2>1, <2>2 DEF OrderInv, OneInPublish, PublishedIsNewest
    <2>5. CounterBounds'
      BY <2>1, <2>3, UpToAppend DEF OrderInv, CounterBounds
    <2>6. FanoutOrdered'
      BY <2>1, <2>3, OrderedAppend, QueueAppend DEF OrderInv, FanoutOrdered
    <2> QED BY <2>4, <2>5, <2>6 DEF OrderInv
  <1>8. CASE DrainRetry \/ StreamExpire
    <2>1. workQueue' = workQueue /\ pub' = pub /\ rev' = rev /\ conn' = conn
      BY <1>8 DEF DrainRetry, StreamExpire
    <2> QED BY <2>1, OrderFrame
  <1>9. CASE SubscriberWorker
    <2> DEFINE e == Head(workQueue)
    <2>1. /\ workQueue # <<>> /\ workQueue' = Tail(workQueue)
          /\ pub' = pub /\ rev' = rev
          /\ \A c \in Clients :
                \/ conn'[c].out = <<>>
                \/ /\ conn'[c].out \in {conn[c].out, Append(conn[c].out, e)}
                   /\ conn'[c].pc = conn[c].pc
      BY <1>0, <1>9 DEF SubscriberWorker, Down, Connection
    <2>2. /\ e \in Event /\ e.rev \in Nat /\ e = workQueue[1] /\ 1 \in DOMAIN workQueue
          /\ Tail(workQueue) \in Seq(Event)
      BY <2>1, SeqRevs
    <2>3. /\ OrderedByRev(workQueue') /\ UpTo(workQueue', rev)
          /\ \A p \in Publishers : InPublish(p) => Before(workQueue', pub[p].evt.rev)
      BY <2>1, OrderedTail DEF OrderInv, FanoutOrdered, CounterBounds, PublishedIsNewest
    <2>4. ASSUME NEW c \in Clients, conn'[c].pc # "resumed"
          PROVE  /\ OrderedByRev(conn'[c].out)
                 /\ StampedBefore(conn'[c].out, workQueue')
                 /\ UpTo(conn'[c].out, rev)
                 /\ \A p \in Publishers :
                       InPublish(p) => Before(conn'[c].out, pub[p].evt.rev)
      <3>1. CASE conn'[c].out = conn[c].out /\ conn[c].pc # "resumed"
        BY <2>1, <3>1, OrderedTail
           DEF OrderInv, FanoutOrdered, CounterBounds, PublishedIsNewest
      <3>2. CASE conn'[c].out = <<>>
        BY <3>2 DEF OrderedByRev, StampedBefore, UpTo, Before
      <3>3. CASE conn'[c].out = Append(conn[c].out, e) /\ conn[c].pc # "resumed"
        <4>1. OrderedByRev(conn'[c].out) /\ StampedBefore(conn'[c].out, workQueue')
          BY <2>1, <3>3, HandOn DEF OrderInv, FanoutOrdered
        <4>2. e.rev <= rev
          BY <2>2 DEF OrderInv, CounterBounds, UpTo
        <4>3. UpTo(conn'[c].out, rev)
          BY <2>2, <3>3, <4>2, UpToAppend DEF OrderInv, CounterBounds
        <4>4. ASSUME NEW p \in Publishers, InPublish(p)
              PROVE  Before(conn'[c].out, pub[p].evt.rev)
          <5>1. Before(workQueue, pub[p].evt.rev) /\ Before(conn[c].out, pub[p].evt.rev)
            BY <3>3, <4>4 DEF OrderInv, PublishedIsNewest
          <5>2. e.rev > 0 /\ pub[p].evt.rev > 0 => e.rev < pub[p].evt.rev
            BY <2>2, <5>1 DEF Before
          <5>3. /\ DOMAIN conn'[c].out = 1 .. Len(conn[c].out) + 1
                /\ \A i \in 1 .. Len(conn[c].out) : conn'[c].out[i] = conn[c].out[i]
                /\ conn'[c].out[Len(conn[c].out) + 1] = e
                /\ DOMAIN conn[c].out = 1 .. Len(conn[c].out)
                /\ Len(conn[c].out) \in Nat
            BY <2>2, <3>3
          <5> HIDE DEF e
          <5>4. ASSUME NEW i \in DOMAIN conn'[c].out,
                       conn'[c].out[i].rev > 0, pub[p].evt.rev > 0
                PROVE  conn'[c].out[i].rev < pub[p].evt.rev
            <6>1. CASE i \in 1 .. Len(conn[c].out)
              BY <5>1, <5>3, <5>4, <6>1 DEF Before
            <6>2. CASE i = Len(conn[c].out) + 1
              BY <5>2, <5>3, <5>4, <6>2
            <6> QED BY <5>3, <6>1, <6>2
          <5> QED BY <5>4 DEF Before
        <4> QED BY <4>1, <4>3, <4>4
      <3> QED BY <2>1, <2>4, <3>1, <3>2, <3>3
    <2>5. OneInPublish'
      BY <2>1 DEF OrderInv, OneInPublish, InPublish
    <2>6. PublishedIsNewest'
      BY <2>1, <2>3, <2>4 DEF OrderInv, PublishedIsNewest, InPublish
    <2>7. CounterBounds' /\ FanoutOrdered'
      BY <2>1, <2>3, <2>4 DEF CounterBounds, FanoutOrdered
    <2> QED BY <2>5, <2>6, <2>7 DEF OrderInv
  <1>10. ASSUME NEW c \in Clients, HandleEvents(c)
         PROVE  OrderInv'
    <2>1. /\ workQueue' = workQueue /\ pub' = pub /\ rev' = rev
          /\ \A d \in Clients : conn'[d] = conn[d] \/ conn'[d].out = <<>>
      BY <1>0, <1>10 DEF HandleEvents, server, Down
    <2> QED BY <2>1, OrderFrame
  <1>11. ASSUME NEW c \in Clients,
                AuthOk(c) \/ Resume(c) \/ SnapshotRequired(c) \/ BuildSnapshot(c)
                \/ WriteSnapshot(c) \/ BootstrapDone(c)
         PROVE  OrderInv'
    <2>1. workQueue' = workQueue /\ pub' = pub /\ rev' >= rev
      BY <1>11 DEF AuthOk, Resume, SnapshotRequired, BuildSnapshot, WriteSnapshot,
                   BootstrapDone, server
    <2>2. /\ conn'[c].out = conn[c].out /\ conn[c].pc # "resumed"
          /\ \A d \in Clients \ {c} : conn'[d] = conn[d]
      <3> DEFINE x == conn[c]
      <3>1. x \in Connection
        BY <1>0
      <3>2. /\ \A q : [x EXCEPT !.pc = q].out = x.out
            /\ \A q, n : [x EXCEPT !.pc = q, !.base = n].out = x.out
            /\ \A q, n : [x EXCEPT !.pc = q, !.todo = n].out = x.out
            /\ \A q, n : [x EXCEPT !.pc = q, !.since = n].out = x.out
            /\ \A q, n : [x EXCEPT !.pc = q, !.snap = n].out = x.out
            /\ \A q : [Down EXCEPT !.pc = q, !.out = x.out].out = x.out
        BY <3>1 DEF Connection, Down
      <3>3. conn'[c].out = x.out /\ \A d \in Clients \ {c} : conn'[d] = conn[d]
        <4>1. CASE AuthOk(c)
          <5>1. \/ conn' = [conn EXCEPT ![c] = [x EXCEPT !.pc = "authed", !.base = rev + 1]]
                \/ conn' = [conn EXCEPT ![c] = [x EXCEPT !.pc = "authed"]]
            BY <4>1 DEF AuthOk
          <5>2. /\ [x EXCEPT !.pc = "authed", !.base = rev + 1].out = x.out
                /\ [x EXCEPT !.pc = "authed"].out = x.out
            BY <3>2
          <5> QED BY <1>0, <5>1, <5>2
        <4>2. CASE Resume(c)
          BY <1>0, <3>2, <4>2 DEF Resume
        <4>3. CASE SnapshotRequired(c)
          BY <1>0, <3>2, <4>3 DEF SnapshotRequired
        <4>4. CASE BuildSnapshot(c)
          BY <1>0, <3>2, <4>4 DEF BuildSnapshot
        <4>5. CASE WriteSnapshot(c)
          BY <1>0, <3>2, <4>5 DEF WriteSnapshot
        <4>6. CASE BootstrapDone(c)
          BY <1>0, <3>2, <4>6 DEF BootstrapDone
        <4> QED BY <1>11, <4>1, <4>2, <4>3, <4>4, <4>5, <4>6
      <3>4. conn[c].pc # "resumed"
        BY <1>11 DEF AuthOk, Resume, SnapshotRequired, BuildSnapshot, WriteSnapshot,
                     BootstrapDone
      <3> QED BY <3>3, <3>4
    <2>3. \A d \in Clients : \/ conn'[d].pc = "resumed"
                              \/ (conn[d].pc # "resumed" /\ conn'[d].out = conn[d].out)
      BY <2>2
    <2> QED BY <2>1, <2>3, OrderFrame
  <1>12. ASSUME NEW c \in Clients, WriteReplay(c)
         PROVE  OrderInv'
    <2> DEFINE next == [conn[c] EXCEPT !.todo = Tail(@)]
    <2>1. next.out = conn[c].out /\ conn[c].pc # "resumed"
      BY <1>0, <1>12 DEF Connection, WriteReplay
    <2>2. workQueue' = workQueue /\ pub' = pub /\ rev' = rev
      BY <1>12 DEF WriteReplay, server
    <2>3. OnEvent(c, Head(conn[c].todo), next) \/ conn' = [conn EXCEPT ![c] = next]
      BY <1>12 DEF WriteReplay
    <2> HIDE DEF next
    <2>4. /\ conn'[c].out = conn[c].out \/ conn'[c].out = <<>>
          /\ \A d \in Clients \ {c} : conn'[d] = conn[d]
      BY <1>0, <2>1, <2>3, OnEventConn
    <2>5. \A d \in Clients : conn'[d] = conn[d] \/ conn'[d].out = <<>>
                              \/ (conn[d].pc # "resumed" /\ conn'[d].out = conn[d].out)
      BY <2>1, <2>4
    <2> QED BY <2>2, <2>5, OrderFrame
  <1>13. ASSUME NEW c \in Clients, Writer(c)
         PROVE  OrderInv'
    <2> DEFINE next == [conn[c] EXCEPT !.out = Tail(@)]
    <2>1. next.out = Tail(conn[c].out) /\ next.pc = conn[c].pc
      BY <1>0 DEF Connection
    <2>2. /\ workQueue' = workQueue /\ pub' = pub /\ rev' = rev
          /\ conn[c].out # <<>> /\ OnEvent(c, Head(conn[c].out), next)
      BY <1>13 DEF Writer, server
    <2> HIDE DEF next
    <2>3. /\ \/ conn'[c].out = <<>>
             \/ conn'[c].out = Tail(conn[c].out) /\ conn'[c].pc = conn[c].pc
          /\ \A d \in Clients \ {c} : conn'[d] = conn[d]
      BY <2>1, <2>2, OnEventConn
    <2>4. \A d \in Clients :
             \/ conn'[d].pc = "resumed" \/ conn'[d].out = <<>>
             \/ /\ conn[d].pc # "resumed"
                /\ \/ conn'[d].out = conn[d].out
                   \/ conn[d].out # <<>> /\ conn'[d].out = Tail(conn[d].out)
      <3>1. TAKE d \in Clients
      <3>2. CASE d = c
        BY <2>2, <2>3, <3>2
      <3>3. CASE d # c
        BY <2>3, <3>3
      <3> QED BY <3>2, <3>3
    <2>5. rev' >= rev
      BY <2>2
    <2> QED BY <2>2, <2>4, <2>5, OrderFrame
  <1>14. ASSUME NEW c \in Clients, SessionEnded(c) \/ Disconnect(c)
         PROVE  OrderInv'
    <2>1. workQueue' = workQueue /\ pub' = pub /\ rev' = rev
      BY <1>14 DEF SessionEnded, Disconnect, server
    <2>2. conn' = [conn EXCEPT ![c] = Down]
      BY <1>14 DEF SessionEnded, Disconnect, Stop
    <2>3. Down.out = <<>>
      BY DEF Down
    <2>4. conn \in [Clients -> Connection]
      BY <1>0
    <2>5. \A d \in Clients : conn'[d] = conn[d] \/ conn'[d].out = <<>>
      BY <2>2, <2>3, <2>4
    <2> QED BY <2>1, <2>5, OrderFrame
  <1>15. CASE ServerCrash
    <2>1. /\ workQueue' = <<>> /\ \A p \in Publishers : pub'[p] = Idle
          /\ \A c \in Clients : conn'[c].out = <<>>
      BY <1>15 DEF ServerCrash, Down
    <2>2. \A p \in Publishers : pub'[p].pc = "idle"
      BY <2>1 DEF Idle
    <2>3. OneInPublish' /\ PublishedIsNewest'
      BY <2>2 DEF OneInPublish, PublishedIsNewest, InPublish
    <2>4. CounterBounds' /\ FanoutOrdered'
      BY <2>1 DEF CounterBounds, FanoutOrdered, UpTo, OrderedByRev, StampedBefore
    <2> QED BY <2>3, <2>4 DEF OrderInv
  <1>16. ASSUME NEW c \in Clients, ResumeFrame(c) \/ ReaderSend(c)
         PROVE  OrderInv'
    <2>1. workQueue' = workQueue /\ pub' = pub /\ rev' = rev
      BY <1>16 DEF ResumeFrame, ReaderSend, server
    <2>2. Down.out = <<>>
      BY DEF Down
    <2>3. \A d \in Clients : conn'[d].pc = "resumed" \/ conn'[d].out = <<>>
                              \/ conn'[d] = conn[d]
      BY <1>16, <2>2, FrameRead, ReaderMoves
    <2> QED BY <2>1, <2>3, OrderFrame
  <1> QED
    BY <1>1, <1>3, <1>4, <1>5, <1>6, <1>7, <1>8, <1>9, <1>10, <1>11, <1>12,
       <1>13, <1>14, <1>15, <1>16
    DEF Next, Publish, Bootstrap

\* The counter, the mutex and the queues agree from the start.
LEMMA OrderCorrect == Spec => []OrderInv
  <1>1. Init => OrderInv
    <2> SUFFICES ASSUME Init PROVE OrderInv
      OBVIOUS
    <2>1. /\ workQueue = <<>> /\ \A p \in Publishers : pub[p].pc = "idle"
          /\ \A c \in Clients : conn[c].out = <<>>
      BY DEF Init, Idle, Down
    <2> QED
      BY <2>1 DEF OrderInv, OneInPublish, PublishedIsNewest, CounterBounds,
                  FanoutOrdered, InPublish, UpTo, OrderedByRev, StampedBefore
  <1>2. TypeOK /\ TypeOK' /\ OrderInv /\ [Next]_vars => OrderInv'
    BY OrderStep, ConstantsAssumption
  <1> QED BY <1>1, <1>2, TypeCorrect, PTL DEF Spec

\* For any number of concurrent handlers and any queue sizes, subscribers and
\* connections see events in the order Publish stamped them.
THEOREM FanoutInOrder == Spec => []FanoutOrdered
  <1>1. OrderInv => FanoutOrdered
    BY DEF OrderInv
  <1> QED BY <1>1, OrderCorrect, PTL

----------------------------------------------------------------------------
(***************************************************************************)
(* Scope of a revocation.  A client ends its session when a                *)
(* session.revoked reaches it, so every such event on its way, in the      *)
(* handlers, the stream, the retry list, a replay or a queue, must be      *)
(* warranted: the family it names has been revoked.  Once it is in a       *)
(* connection's queue, it must be that connection's family, for the writer *)
(* and the client look at it no more.                                      *)
(***************************************************************************)

\* Events whose revocation, if they announce one, has happened.
Warranted ==
    {e \in Event : e.type = "session.revoked" =>
        \A c \in Clients : EventVisibleToFamily(e, c) => c \in revoked}

\* Events that may end the session of client c only if c is revoked.
WarrantedFor(c) == {e \in Event : e.type = "session.revoked" => c \in revoked}

\* What one connection of c still has to write.
WarrantedConn(x, c) == x.todo \in Seq(Warranted) /\ x.out \in Seq(WarrantedFor(c))

ScopeInv ==
    /\ \A p \in Publishers : pub[p].evt \in Warranted
    /\ stream \in Seq(Warranted)
    /\ retry \in Seq(Warranted)
    /\ workQueue \in Seq(Warranted)
    /\ \A c \in Clients : WarrantedConn(conn[c], c)
    /\ RevocationScoped

\* A revocation is never taken back, so a warrant stays valid.
LEMMA WarrantsStay ==
    ASSUME revoked \subseteq revoked'
    PROVE  /\ Warranted \subseteq Warranted' /\ Seq(Warranted) \subseteq Seq(Warranted')
           /\ \A c \in Clients : Seq(WarrantedFor(c)) \subseteq Seq(WarrantedFor(c)')
  <1>1. Warranted \subseteq Warranted'
    BY DEF Warranted, EventVisibleToFamily
  <1>2. \A c \in Clients : WarrantedFor(c) \subseteq WarrantedFor(c)'
    BY DEF WarrantedFor
  <1>3. \A S, T : S \subseteq T => Seq(S) \subseteq Seq(T)
    OBVIOUS
  <1> QED BY <1>1, <1>2, <1>3

\* Trimming a stream keeps what is left of it warranted.
LEMMA TrimmedWarrants ==
    ASSUME ConstantsAssumption, NEW S, NEW s \in Seq(S), NEW t \in Trimmed(s)
    PROVE  t \in Seq(S)
  <1>1. PICK i \in 1 .. (IF Len(s) > StreamMax THEN Len(s) - StreamMax + 1 ELSE 1) :
             t = SubSeq(s, i, Len(s))
    BY DEF Trimmed
  <1>2. i \in Int /\ i >= 1 /\ Len(s) \in Nat
    BY <1>1 DEF ConstantsAssumption
  <1>3. \A j \in i .. Len(s) : s[j] \in S
    BY <1>2
  <1> QED BY <1>1, <1>2, <1>3, SubSeqProperties

\* The replay window holds entries of the stream.
LEMMA WindowWarrants ==
    ASSUME ConstantsAssumption, NEW S, stream \in Seq(S)
    PROVE  StreamWindow \in Seq(S)
  <1> DEFINE i == IF Len(stream) > StreamMax THEN Len(stream) - StreamMax + 1 ELSE 1
  <1>1. i \in Int /\ i >= 1 /\ Len(stream) \in Nat
    BY DEF ConstantsAssumption
  <1>2. \A j \in i .. Len(stream) : stream[j] \in S
    BY <1>1
  <1>3. SubSeq(stream, i, Len(stream)) \in Seq(S)
    <2> HIDE DEF i
    <2> QED BY <1>1, <1>2, SubSeqProperties
  <1> QED BY <1>3 DEF StreamWindow

\* A closed connection has nothing to write, and no handler's record
\* announces a revocation while it rests.
LEMMA RestWarrants ==
    /\ \A c \in Clients : WarrantedConn(Down, c)
    /\ Idle.evt \in Warranted
  <1>1. Idle.evt \in Event /\ Idle.evt.type = "row"
    BY DEF Idle, Event, Families
  <1> QED BY <1>1 DEF WarrantedConn, Down, Warranted

\* A step of client c that leaves the server's queues alone, and leaves c a
\* connection with nothing unwarranted to write.
LEMMA ScopeFrame ==
    ASSUME TypeOK, ScopeInv, NEW c \in Clients, NEW x,
           UNCHANGED <<revoked, stream, retry, workQueue, pub>>,
           conn' = [conn EXCEPT ![c] = x], WarrantedConn(x, c),
           \/ loggedIn' = loggedIn
           \/ loggedIn' = [loggedIn EXCEPT ![c] = FALSE] /\ c \in revoked
    PROVE  ScopeInv'
  <1>1. Warranted' = Warranted /\ \A d \in Clients : WarrantedFor(d)' = WarrantedFor(d)
    BY DEF Warranted, WarrantedFor, EventVisibleToFamily
  <1>2. \A d \in Clients : WarrantedConn(conn'[d], d)
    <2>1. conn \in [Clients -> Connection]
      BY DEF TypeOK
    <2>2. conn'[c] = x /\ \A d \in Clients : d # c => conn'[d] = conn[d]
      BY <2>1
    <2> QED BY <2>2 DEF ScopeInv
  <1>3. \A d \in Clients : WarrantedConn(conn[d], d)'
    BY <1>1, <1>2 DEF WarrantedConn
  <1>4. RevocationScoped'
    <2>1. loggedIn \in [Clients -> BOOLEAN]
      BY DEF TypeOK
    <2> QED BY <2>1 DEF ScopeInv, RevocationScoped
  <1> QED BY <1>1, <1>3, <1>4 DEF ScopeInv

\* The reader of c queues only what the stream holds and c may see.
LEMMA ScopeReader ==
    ASSUME ConstantsAssumption, TypeOK, ScopeInv, NEW c \in Clients,
           ResumeFrame(c) \/ ReaderSend(c)
    PROVE  ScopeInv'
  <1>0. /\ WarrantedConn(conn[c], c) /\ stream \in Seq(Warranted)
        /\ conn[c].todo \in Seq(Warranted) /\ conn[c].out \in Seq(WarrantedFor(c))
    BY DEF ScopeInv, WarrantedConn
  <1>1. UNCHANGED <<revoked, stream, retry, workQueue, pub, loggedIn>>
    BY DEF ResumeFrame, ReaderSend, server, client
  <1>2. WarrantedConn(conn'[c], c)
    <2>1. CASE conn'[c] = Down
      BY <2>1, RestWarrants
    <2>2. CASE conn'[c] # Down /\ ResumeFrame(c)
      <3>1. <<>> \in Seq(Warranted) /\ StreamWindow \in Seq(Warranted)
        BY <1>0, WindowWarrants
      <3>2. SnapshotHint \in WarrantedFor(c)
        BY DEF SnapshotHint, Idle, WarrantedFor, Event, Families
      <3>3. Append(conn[c].out, SnapshotHint) \in Seq(WarrantedFor(c))
        BY <1>0, <3>2
      <3> QED BY <1>0, <2>2, <3>1, <3>3, FrameRead DEF WarrantedConn
    <2>3. CASE conn'[c] # Down /\ ReaderSend(c)
      <3> DEFINE e == Head(conn[c].todo)
      <3>1. conn[c].todo # <<>>
        BY <2>3 DEF ReaderSend
      <3>2. e \in Warranted /\ Tail(conn[c].todo) \in Seq(Warranted)
        BY <1>0, <3>1
      <3>3. EventVisibleToFamily(e, c) => e \in WarrantedFor(c)
        BY <3>2 DEF Warranted, WarrantedFor
      <3>4. EventVisibleToFamily(e, c) => Append(conn[c].out, e) \in Seq(WarrantedFor(c))
        BY <1>0, <3>3
      <3>5. /\ conn'[c].todo = Tail(conn[c].todo)
            /\ \/ conn'[c].out = conn[c].out
               \/ conn'[c].out = Append(conn[c].out, e) /\ EventVisibleToFamily(e, c)
        BY <2>3, ReaderMoves
      <3> QED BY <1>0, <3>2, <3>4, <3>5 DEF WarrantedConn
    <2> QED BY <2>1, <2>2, <2>3
  <1>3. \A d \in Clients : WarrantedConn(conn'[d], d)
    BY <1>2, FrameRead, ReaderMoves DEF ScopeInv
  <1>4. Warranted' = Warranted /\ \A d \in Clients : WarrantedFor(d)' = WarrantedFor(d)
    BY <1>1 DEF Warranted, WarrantedFor, EventVisibleToFamily
  <1>5. \A d \in Clients : WarrantedConn(conn[d], d)'
    BY <1>3, <1>4 DEF WarrantedConn
  <1>6. RevocationScoped'
    BY <1>1 DEF ScopeInv, RevocationScoped
  <1> QED BY <1>1, <1>4, <1>5, <1>6 DEF ScopeInv

\* A frame that c gets to see ends its session only when c is revoked.
LEMMA ScopeFrameEvent ==
    ASSUME TypeOK, ScopeInv, NEW c \in Clients, NEW e \in WarrantedFor(c), NEW next,
           UNCHANGED <<revoked, stream, retry, workQueue, pub>>,
           OnEvent(c, e, next), WarrantedConn(next, c)
    PROVE  ScopeInv'
  <1>1. CASE ~ShouldApplyFrame(c, e.rev)
    BY <1>1, ScopeFrame DEF OnEvent, client
  <1>2. CASE ShouldApplyFrame(c, e.rev) /\ e.type = "session.revoked"
    <2>1. c \in revoked
      BY <1>2 DEF WarrantedFor
    <2>2. conn' = [conn EXCEPT ![c] = Down] /\ loggedIn' = [loggedIn EXCEPT ![c] = FALSE]
      BY <1>2 DEF OnEvent, Stop
    <2> QED BY <2>1, <2>2, RestWarrants, ScopeFrame
  <1>3. CASE ShouldApplyFrame(c, e.rev) /\ e.type # "session.revoked"
    BY <1>3, ScopeFrame DEF OnEvent
  <1> QED BY <1>1, <1>2, <1>3

\* A handler commits: what was warranted stays so, and its own event is.
LEMMA ScopeCommit ==
    ASSUME TypeOK, ScopeInv, NEW p \in Publishers, revoked \subseteq revoked',
           UNCHANGED <<stream, retry, workQueue, conn, loggedIn>>,
           pub'[p].evt \in Warranted', \A q \in Publishers \ {p} : pub'[q] = pub[q]
    PROVE  ScopeInv'
  <1>1. \A q \in Publishers : pub'[q].evt \in Warranted'
    BY WarrantsStay DEF ScopeInv
  <1>2. \A c \in Clients : WarrantedConn(conn[c], c)'
    BY WarrantsStay DEF ScopeInv, WarrantedConn
  <1>3. RevocationScoped'
    BY DEF ScopeInv, RevocationScoped
  <1> QED BY <1>1, <1>2, <1>3, WarrantsStay DEF ScopeInv

\* A step of the event bus that revokes and delivers nothing.
LEMMA ScopeBus ==
    ASSUME ScopeInv, UNCHANGED <<revoked, conn, loggedIn>>,
           \A p \in Publishers : pub'[p].evt \in Warranted,
           stream' \in Seq(Warranted), retry' \in Seq(Warranted),
           workQueue' \in Seq(Warranted)
    PROVE  ScopeInv'
  <1>1. Warranted' = Warranted /\ \A d \in Clients : WarrantedFor(d)' = WarrantedFor(d)
    BY DEF Warranted, WarrantedFor, EventVisibleToFamily
  <1>2. \A d \in Clients : WarrantedConn(conn[d], d)'
    BY <1>1 DEF ScopeInv, WarrantedConn
  <1>3. RevocationScoped'
    BY DEF ScopeInv, RevocationScoped
  <1> QED BY <1>1, <1>2, <1>3 DEF ScopeInv

\* Bootstrapping a connection hands it nothing but what the stream holds.
LEMMA WarrantUpdates ==
    ASSUME NEW x \in Connection, NEW c \in Clients, WarrantedConn(x, c)
    PROVE  /\ \A q : WarrantedConn([x EXCEPT !.pc = q], c)
           /\ \A q, n : WarrantedConn([x EXCEPT !.pc = q, !.since = n], c)
           /\ \A q, n : WarrantedConn([x EXCEPT !.pc = q, !.base = n], c)
           /\ \A q, n : WarrantedConn([x EXCEPT !.pc = q, !.snap = n], c)
           /\ \A q : \A s \in Seq(Warranted) : WarrantedConn([x EXCEPT !.pc = q, !.todo = s], c)
           /\ \A s \in Seq(Warranted) : WarrantedConn([x EXCEPT !.todo = s], c)
           /\ \A s \in Seq(WarrantedFor(c)) : WarrantedConn([x EXCEPT !.out = s], c)
  <1>1. /\ \A q : WarrantedConn([x EXCEPT !.pc = q], c)
        /\ \A q, n : WarrantedConn([x EXCEPT !.pc = q, !.since = n], c)
        /\ \A q, n : WarrantedConn([x EXCEPT !.pc = q, !.base = n], c)
        /\ \A q, n : WarrantedConn([x EXCEPT !.pc = q, !.snap = n], c)
    BY DEF WarrantedConn, Connection
  <1>2. \A q : \A s \in Seq(Warranted) : WarrantedConn([x EXCEPT !.pc = q, !.todo = s], c)
    BY DEF WarrantedConn, Connection
  <1>3. \A s \in Seq(Warranted) : WarrantedConn([x EXCEPT !.todo = s], c)
    BY DEF WarrantedConn, Connection
  <1>4. \A s \in Seq(WarrantedFor(c)) : WarrantedConn([x EXCEPT !.out = s], c)
    BY DEF WarrantedConn, Connection
  <1> QED BY <1>1, <1>2, <1>3, <1>4

\* Every step keeps revocations in scope.
LEMMA ScopeStep ==
    ASSUME ConstantsAssumption, TypeOK, ScopeInv, [Next]_vars
    PROVE  ScopeInv'
  <1>0. /\ conn \in [Clients -> Connection] /\ pub \in [Publishers -> Publisher]
        /\ \A c \in Clients : conn[c] \in Connection /\ WarrantedConn(conn[c], c)
        /\ \A p \in Publishers : pub[p] \in Publisher /\ pub[p].evt \in Warranted
        /\ stream \in Seq(Warranted) /\ retry \in Seq(Warranted)
        /\ workQueue \in Seq(Warranted)
    BY DEF TypeOK, ScopeInv
  <1>1. CASE UNCHANGED vars
    BY <1>0, <1>1, ScopeBus DEF vars
  <1>2. ASSUME NEW p \in Publishers, NEW k \in Keys, CommitRow(p, k)
        PROVE  ScopeInv'
    <2> DEFINE e == [type |-> "row", key |-> k, change |-> commits + 1,
                     family |-> AllFamilies, rev |-> 0]
    <2>1. e \in Event /\ e.type = "row"
      BY DEF Event, Families, TypeOK
    <2>2. e \in Warranted'
      BY <2>1 DEF Warranted
    <2> HIDE DEF e
    <2>3. pub' = [pub EXCEPT ![p] = [pc |-> "committed", streamOK |-> TRUE, evt |-> e]]
      BY <1>2 DEF CommitRow, e
    <2>4. pub'[p].evt = e /\ \A q \in Publishers \ {p} : pub'[q] = pub[q]
      BY <1>0, <2>3
    <2> QED BY <1>2, <2>2, <2>4, ScopeCommit DEF CommitRow, client
  <1>3. ASSUME NEW p \in Publishers, NEW f \in Families, CommitRevoke(p, f)
        PROVE  ScopeInv'
    <2> DEFINE e == [type |-> "session.revoked", key |-> NoKey,
                     change |-> commits + 1, family |-> f, rev |-> 0]
    <2>1. e \in Event /\ e.family = f
      BY DEF Event, TypeOK
    <2>2. /\ revoked \subseteq revoked'
          /\ \A c \in Clients : f \in {AllFamilies, c} => c \in revoked'
      BY <1>3 DEF CommitRevoke, TypeOK, ConstantsAssumption
    <2> HIDE DEF e
    <2>3. e \in Warranted'
      BY <2>1, <2>2 DEF Warranted, EventVisibleToFamily
    <2>4. pub' = [pub EXCEPT ![p] = [pc |-> "committed", streamOK |-> TRUE, evt |-> e]]
      BY <1>3 DEF CommitRevoke, e
    <2>5. pub'[p].evt = e /\ \A q \in Publishers \ {p} : pub'[q] = pub[q]
      BY <1>0, <2>4
    <2> QED BY <1>3, <2>2, <2>3, <2>5, ScopeCommit DEF CommitRevoke, client
  <1>4. ASSUME NEW p \in Publishers, PublishStamp(p)
        PROVE  ScopeInv'
    <2> DEFINE e == [pub[p].evt EXCEPT !.rev = rev + 1]
    <2>1. e \in Warranted
      <3>1. pub[p].evt \in Event /\ rev + 1 \in Nat
        <4>1. pub[p] \in Publisher
          BY <1>0
        <4>2. rev + 1 \in Nat
          BY DEF TypeOK
        <4> QED BY <4>1, <4>2, PublisherUpdates
      <3>2. e \in Event
        BY <1>0, <3>1, PublisherUpdates
      <3>3. e.type = pub[p].evt.type /\ e.family = pub[p].evt.family
        BY <3>1 DEF Event
      <3> QED BY <1>0, <3>2, <3>3 DEF Warranted, EventVisibleToFamily
    <2>2. /\ [pub[p] EXCEPT !.pc = "stamped"].evt = pub[p].evt
          /\ \A v : [pub[p] EXCEPT !.pc = "stamped", !.evt = v].evt = v
      BY <1>0 DEF Publisher
    <2> HIDE DEF e
    <2>3. \/ pub' = [pub EXCEPT ![p] = [pub[p] EXCEPT !.pc = "stamped", !.evt = e]]
          \/ pub' = [pub EXCEPT ![p] = [pub[p] EXCEPT !.pc = "stamped"]]
      BY <1>4 DEF PublishStamp, e
    <2>4. pub'[p].evt \in {pub[p].evt, e} /\ \A q \in Publishers \ {p} : pub'[q] = pub[q]
      BY <1>0, <2>2, <2>3
    <2>5. \A q \in Publishers : pub'[q].evt \in Warranted
      BY <1>0, <2>1, <2>4
    <2> QED BY <1>0, <1>4, <2>5, ScopeBus DEF PublishStamp, client
  <1>5. ASSUME NEW p \in Publishers, PublishStream(p)
        PROVE  ScopeInv'
    <2>1. /\ [pub[p] EXCEPT !.pc = "streamed"].evt = pub[p].evt
          /\ [pub[p] EXCEPT !.pc = "streamed", !.streamOK = FALSE].evt = pub[p].evt
      BY <1>0 DEF Publisher
    <2>2. \/ pub' = [pub EXCEPT ![p] = [@ EXCEPT !.pc = "streamed"]]
          \/ pub' = [pub EXCEPT ![p] = [@ EXCEPT !.pc = "streamed", !.streamOK = FALSE]]
      BY <1>5 DEF PublishStream
    <2>3. \A q \in Publishers : pub'[q].evt \in Warranted
      BY <1>0, <2>1, <2>2
    <2>4. Append(stream, pub[p].evt) \in Seq(Warranted)
      BY <1>0
    <2>5. stream' \in Seq(Warranted)
      BY <1>0, <1>5, <2>4, TrimmedWarrants DEF PublishStream
    <2> QED BY <1>0, <1>5, <2>3, <2>5, ScopeBus DEF PublishStream, client
  <1>6. ASSUME NEW p \in Publishers, PublishFanout(p)
        PROVE  ScopeInv'
    <2>1. \A q \in Publishers : pub'[q].evt \in Warranted
      BY <1>0, <1>6, RestWarrants DEF PublishFanout
    <2>2. /\ Append(workQueue, pub[p].evt) \in Seq(Warranted)
          /\ Append(retry, pub[p].evt) \in Seq(Warranted)
      BY <1>0
    <2>3. workQueue' \in Seq(Warranted) /\ retry' \in Seq(Warranted)
      BY <1>0, <1>6, <2>2 DEF PublishFanout
    <2> QED BY <1>0, <1>6, <2>1, <2>3, ScopeBus DEF PublishFanout, client
  <1>7. CASE DrainRetry
    <2>1. Head(retry) \in Warranted /\ Tail(retry) \in Seq(Warranted)
      BY <1>0, <1>7 DEF DrainRetry
    <2>2. /\ Append(stream, Head(retry)) \in Seq(Warranted)
          /\ Append(Tail(retry), Head(retry)) \in Seq(Warranted)
      BY <1>0, <2>1
    <2>3. stream' \in Seq(Warranted)
      BY <1>0, <1>7, <2>2, TrimmedWarrants DEF DrainRetry
    <2>4. retry' \in Seq(Warranted)
      BY <1>7, <2>1, <2>2 DEF DrainRetry
    <2> QED BY <1>0, <1>7, <2>3, <2>4, ScopeBus DEF DrainRetry, client
  <1>8. CASE StreamExpire
    <2>1. <<>> \in Seq(Warranted)
      OBVIOUS
    <2> QED BY <1>0, <1>8, <2>1, ScopeBus DEF StreamExpire, client
  <1>9. CASE SubscriberWorker
    <2> DEFINE e == Head(workQueue)
    <2>1. /\ e \in Warranted /\ workQueue' \in Seq(Warranted)
          /\ UNCHANGED <<revoked, stream, retry, pub, loggedIn>>
      BY <1>0, <1>9 DEF SubscriberWorker, client
    <2>2. Warranted' = Warranted /\ \A d \in Clients : WarrantedFor(d)' = WarrantedFor(d)
      BY <2>1 DEF Warranted, WarrantedFor, EventVisibleToFamily
    <2>3. ASSUME NEW c \in Clients
          PROVE  WarrantedConn(conn'[c], c)
      <3> DEFINE x == [conn[c] EXCEPT !.out = Append(@, e)]
      <3>1. EventVisibleToFamily(e, c) => WarrantedConn(x, c)
        <4>1. EventVisibleToFamily(e, c) => e \in WarrantedFor(c)
          BY <2>1 DEF Warranted, WarrantedFor
        <4>2. conn[c].out \in Seq(WarrantedFor(c))
          BY <1>0 DEF WarrantedConn
        <4>3. EventVisibleToFamily(e, c) => Append(conn[c].out, e) \in Seq(WarrantedFor(c))
          BY <4>1, <4>2
        <4> QED BY <1>0, <4>3, WarrantUpdates
      <3>2. \/ conn'[c] = conn[c]
            \/ conn'[c] = Down
            \/ EventVisibleToFamily(e, c) /\ conn'[c] = x
        BY <1>9 DEF SubscriberWorker
      <3> QED BY <1>0, <3>1, <3>2, RestWarrants
    <2>4. \A c \in Clients : WarrantedConn(conn[c], c)'
      BY <2>2, <2>3 DEF WarrantedConn
    <2> QED BY <1>0, <2>1, <2>2, <2>4 DEF ScopeInv, RevocationScoped
  <1>10. ASSUME NEW c \in Clients,
                HandleEvents(c) \/ Disconnect(c) \/ SessionEnded(c)
         PROVE  ScopeInv'
    <2>1. WarrantedConn([Down EXCEPT !.pc = "registered", !.since = applied[c]], c)
      BY RestType, RestWarrants, WarrantUpdates
    <2>2. CASE HandleEvents(c)
      BY <2>1, <2>2, ScopeFrame DEF HandleEvents, server, client
    <2>3. CASE Disconnect(c)
      BY <2>3, RestWarrants, ScopeFrame DEF Disconnect, server, client
    <2>4. CASE SessionEnded(c)
      BY <2>4, RestWarrants, ScopeFrame DEF SessionEnded, Stop, server
    <2> QED BY <1>10, <2>2, <2>3, <2>4
  <1>11. ASSUME NEW c \in Clients,
                AuthOk(c) \/ Resume(c) \/ SnapshotRequired(c) \/ BuildSnapshot(c)
                \/ WriteSnapshot(c) \/ BootstrapDone(c)
         PROVE  ScopeInv'
    <2> DEFINE x == conn[c]
    <2>1. UNCHANGED <<revoked, stream, retry, workQueue, pub, loggedIn>>
      BY <1>11 DEF AuthOk, Resume, SnapshotRequired, BuildSnapshot, WriteSnapshot,
                   BootstrapDone, server, client
    <2>2. StreamWindow \in Seq(Warranted)
      BY <1>0, WindowWarrants
    <2>3. PICK y : conn' = [conn EXCEPT ![c] = y] /\ WarrantedConn(y, c)
      <3>0. x \in Connection /\ WarrantedConn(x, c)
        BY <1>0
      <3>1. CASE AuthOk(c)
        <4>1. \/ conn' = [conn EXCEPT ![c] = [x EXCEPT !.pc = "authed", !.base = rev + 1]]
              \/ conn' = [conn EXCEPT ![c] = [x EXCEPT !.pc = "authed"]]
          BY <3>1 DEF AuthOk
        <4> HIDE DEF x
        <4> QED BY <3>0, <4>1, WarrantUpdates
      <3>2. CASE Resume(c)
        <4>1. conn' = [conn EXCEPT ![c] = [x EXCEPT !.pc = "replay", !.todo = StreamWindow]]
          BY <3>2 DEF Resume
        <4> HIDE DEF x
        <4> QED BY <2>2, <3>0, <4>1, WarrantUpdates
      <3>3. CASE BuildSnapshot(c)
        <4>1. conn' = [conn EXCEPT ![c] = [x EXCEPT !.pc = "built", !.snap = db]]
          BY <3>3 DEF BuildSnapshot
        <4> HIDE DEF x
        <4> QED BY <3>0, <4>1, WarrantUpdates
      <3>4. CASE SnapshotRequired(c)
        <4>1. conn' = [conn EXCEPT ![c] = [x EXCEPT !.pc = "snapshot", !.since = 0]]
          BY <3>4 DEF SnapshotRequired
        <4> HIDE DEF x
        <4> QED BY <3>0, <4>1, WarrantUpdates
      <3>5. CASE WriteSnapshot(c)
        <4>1. conn' = [conn EXCEPT ![c] = [x EXCEPT !.pc = "baselined", !.snap = NoRows]]
          BY <3>5 DEF WriteSnapshot
        <4> HIDE DEF x
        <4> QED BY <3>0, <4>1, WarrantUpdates
      <3>6. CASE BootstrapDone(c)
        <4>1. conn' = [conn EXCEPT ![c] = [Down EXCEPT !.pc = "live", !.out = x.out]]
          BY <3>6 DEF BootstrapDone
        <4>2. WarrantedConn([Down EXCEPT !.pc = "live", !.out = x.out], c)
          <5>1. x.out \in Seq(WarrantedFor(c)) /\ <<>> \in Seq(Warranted)
            BY <3>0 DEF WarrantedConn
          <5> QED BY <5>1 DEF WarrantedConn, Down
        <4> HIDE DEF x
        <4> QED BY <4>1, <4>2
      <3> QED BY <1>11, <3>1, <3>2, <3>3, <3>4, <3>5, <3>6
    <2> QED BY <2>1, <2>3, ScopeFrame
  <1>12. ASSUME NEW c \in Clients, WriteReplay(c)
         PROVE  ScopeInv'
    <2> DEFINE e == Head(conn[c].todo)
               next == [conn[c] EXCEPT !.todo = Tail(@)]
    <2>1. conn[c].todo \in Seq(Warranted) /\ conn[c].todo # <<>>
      BY <1>0, <1>12 DEF WarrantedConn, WriteReplay
    <2>2. e \in Warranted /\ Tail(conn[c].todo) \in Seq(Warranted)
      BY <2>1
    <2>3. WarrantedConn(next, c)
      BY <1>0, <2>2, WarrantUpdates
    <2>4. EventVisibleToFamily(e, c) => e \in WarrantedFor(c)
      BY <2>2 DEF Warranted, WarrantedFor
    <2>5. /\ UNCHANGED <<revoked, stream, retry, workQueue, pub>>
          /\ \/ EventVisibleToFamily(e, c) /\ OnEvent(c, e, next)
             \/ conn' = [conn EXCEPT ![c] = next] /\ UNCHANGED client
      BY <1>12 DEF WriteReplay, server
    <2> HIDE DEF e, next
    <2>6. CASE EventVisibleToFamily(e, c) /\ OnEvent(c, e, next)
      BY <2>3, <2>4, <2>5, <2>6, ScopeFrameEvent
    <2>7. CASE conn' = [conn EXCEPT ![c] = next] /\ UNCHANGED client
      BY <2>3, <2>5, <2>7, ScopeFrame DEF client
    <2> QED BY <2>5, <2>6, <2>7
  <1>13. ASSUME NEW c \in Clients, Writer(c)
         PROVE  ScopeInv'
    <2> DEFINE e == Head(conn[c].out)
               next == [conn[c] EXCEPT !.out = Tail(@)]
    <2>1. conn[c].out \in Seq(WarrantedFor(c)) /\ conn[c].out # <<>>
      BY <1>0, <1>13 DEF WarrantedConn, Writer
    <2>2. e \in WarrantedFor(c) /\ Tail(conn[c].out) \in Seq(WarrantedFor(c))
      BY <2>1
    <2>3. WarrantedConn(next, c)
      BY <1>0, <2>2, WarrantUpdates
    <2>4. UNCHANGED <<revoked, stream, retry, workQueue, pub>> /\ OnEvent(c, e, next)
      BY <1>13 DEF Writer, server
    <2> HIDE DEF e, next
    <2> QED BY <2>2, <2>3, <2>4, ScopeFrameEvent
  <1>14. CASE ServerCrash
    <2>1. /\ UNCHANGED <<revoked, stream, retry, loggedIn>> /\ workQueue' = <<>>
          /\ \A p \in Publishers : pub'[p] = Idle
          /\ \A c \in Clients : conn'[c] = Down
      BY <1>14 DEF ServerCrash, client
    <2>2. Warranted' = Warranted /\ \A d \in Clients : WarrantedFor(d)' = WarrantedFor(d)
      BY <2>1 DEF Warranted, WarrantedFor, EventVisibleToFamily
    <2>3. \A c \in Clients : WarrantedConn(conn[c], c)'
      BY <2>1, <2>2, RestWarrants DEF WarrantedConn
    <2>4. <<>> \in Seq(Warranted)
      OBVIOUS
    <2> QED BY <1>0, <2>1, <2>2, <2>3, <2>4, RestWarrants DEF ScopeInv, RevocationScoped
  <1>15. CASE \E c \in Clients : ResumeFrame(c) \/ ReaderSend(c)
    BY <1>15, ScopeReader
  <1> QED
    BY <1>1, <1>2, <1>3, <1>4, <1>5, <1>6, <1>7, <1>8, <1>9, <1>10, <1>11, <1>12,
       <1>13, <1>14, <1>15
    DEF Next, Publish, Bootstrap

\* No client is logged out by a revocation that was not its own, live or
\* replayed, however often it reconnects and whatever fails on the way.
THEOREM RevocationInScope == Spec => []RevocationScoped
  <1>1. Init => ScopeInv
    <2> SUFFICES ASSUME Init PROVE ScopeInv
      OBVIOUS
    <2>1. /\ \A p \in Publishers : pub[p] = Idle
          /\ \A c \in Clients : conn[c] = Down /\ loggedIn[c]
          /\ stream = <<>> /\ retry = <<>> /\ workQueue = <<>>
      BY DEF Init
    <2>2. <<>> \in Seq(Warranted)
      OBVIOUS
    <2> QED BY <2>1, <2>2, RestWarrants DEF ScopeInv, RevocationScoped
  <1>2. TypeOK /\ ScopeInv /\ [Next]_vars => ScopeInv'
    BY ScopeStep, ConstantsAssumption
  <1>3. ScopeInv => RevocationScoped
    BY DEF ScopeInv
  <1> QED BY <1>1, <1>2, <1>3, TypeCorrect, PTL DEF Spec

----------------------------------------------------------------------------
(***************************************************************************)
(* The checkpoint.  What a client has not applied must still be on its     *)
(* way, so the invariant follows an event from its stamp to the mirror.    *)
(*                                                                         *)
(* Ledger: revisions number the published events, and the database has     *)
(* their changes.  StreamSound: behind an entry the stream is complete and *)
(* in order, except for what is still to be streamed, lost or late; that   *)
(* is why a stream that begins no later than the checkpoint serves a       *)
(* resume.  ClientSound: where, in each phase of the bootstrap, an event   *)
(* above the checkpoint is.                                                *)
(***************************************************************************)
Excused(e) == e.change \in lost \cup raced

\* Events of a queue: published, or without a revision.
Sent == {e \in Event : e.rev > 0 => e \in published}

SentConn(x) == x.todo \in Seq(Sent) /\ x.out \in Seq(Sent)

AllSent ==
    /\ \A p \in Publishers : pub[p].evt \in Sent
    /\ stream \in Seq(Sent) /\ retry \in Seq(Sent) /\ workQueue \in Seq(Sent)
    /\ \A c \in Clients : SentConn(conn[c])

\* Event e is inside Publish, or queued for c.
OnItsWay(e, c) ==
    \/ \E p \in Publishers : InPublish(p) /\ pub[p].evt = e
    \/ \E i \in DOMAIN workQueue : workQueue[i] = e
    \/ \E i \in DOMAIN conn[c].out : conn[c].out[i] = e

\* Handler p has stamped its event and not put it into the stream.
Unstreamed(p) ==
    \/ pub[p].pc = "stamped"
    \/ pub[p].pc = "streamed" /\ ~pub[p].streamOK

\* Event e is still to be put into the stream.
ToStream(e) ==
    \/ \E p \in Publishers : Unstreamed(p) /\ pub[p].evt = e
    \/ \E i \in DOMAIN retry : retry[i] = e

\* The database has the change that e announces, or a later one.
InDatabase(e) == e.type = "row" => e.key \in Keys /\ e.change <= db[e.key]

\* The event of p is newer than all others.
Newest(p) ==
    /\ \A e \in published : e.rev <= pub[p].evt.rev
    /\ \A i \in DOMAIN retry : retry[i].rev < pub[p].evt.rev
    /\ Unstreamed(p) => \A i \in DOMAIN stream : stream[i].rev < pub[p].evt.rev

Ledger ==
    /\ \A e \in published : e.rev > 0 /\ e.rev <= rev /\ InDatabase(e)
    /\ \A e, o \in published : e.rev = o.rev => e = o
    /\ \A p \in Publishers : pub[p].pc = "committed" => InDatabase(pub[p].evt)
    /\ \A k \in Keys : db[k] <= commits
    /\ \A p \in Publishers : pub[p].pc \in {"committed", "stamped"} => pub[p].streamOK
    /\ \A p \in Publishers : InPublish(p) /\ pub[p].evt.rev > 0 => Newest(p)

\* Entry e was put into the stream by Publish, with its revision.
OnTime(e) == e.rev > 0 /\ e.change \notin raced

\* Entries that are on time are newer than all before them.
InOrder(s) ==
    \A i, j \in DOMAIN s : i < j /\ OnTime(s[j]) => s[i].rev < s[j].rev

\* What becomes of an event that is newer than entry i of the stream.
Followed(i, e) ==
    \/ \E j \in DOMAIN stream : i < j /\ stream[j] = e
    \/ ToStream(e)
    \/ Excused(e)

StreamSound ==
    /\ InOrder(stream)
    /\ \A i \in DOMAIN stream, e \in published :
          OnTime(stream[i]) /\ e.rev > stream[i].rev => Followed(i, e)

\* Revisions of client c are revisions of the server, and a baseline is the
\* revision of no event.
ClientLedger(c) ==
    /\ applied[c] <= rev
    /\ conn[c].base <= rev
    /\ \A e \in published : e.rev # conn[c].base
    /\ conn[c].pc # "down" => conn[c].since <= applied[c]

\* Row events above the checkpoint of c that no failure excuses.
Awaited(c) == {e \in published : e.type = "row" /\ e.rev > applied[c] /\ ~Excused(e)}

\* Event e is above the baseline of c and on its way.
Live(e, c) == OnItsWay(e, c) /\ e.rev > conn[c].base

ReplaySound(c) ==
    /\ InOrder(conn[c].todo)
    /\ \A e \in Awaited(c) :
          \/ \E i \in DOMAIN conn[c].todo : conn[c].todo[i] = e
          \/ Live(e, c) /\ \A i \in DOMAIN conn[c].todo : conn[c].todo[i].rev < e.rev

SnapshotSound(c) ==
    \A e \in published : e.type = "row" =>
        e.change <= conn[c].snap[e.key] \/ Live(e, c) \/ Excused(e)

\* Events after the baseline of c are queued for c, whatever is read meanwhile.
Queued(c) ==
    \A e \in published :
        e.type = "row" /\ e.rev > conn[c].base => OnItsWay(e, c) \/ Excused(e)

\* After a resume frame the queue of c is out of order, but every awaited event
\* is queued before all that are newer.
Heralded(c) ==
    \A i \in DOMAIN conn[c].out, f \in Awaited(c) : f.rev < conn[c].out[i].rev =>
        \E j \in DOMAIN conn[c].out : j < i /\ conn[c].out[j] = f

\* And so it will be when the reader has queued what it read.
HeraldedAgain(c) ==
    \A i \in DOMAIN conn[c].todo, f \in Awaited(c) : f.rev < conn[c].todo[i].rev =>
        \/ \E j \in DOMAIN conn[c].out : conn[c].out[j] = f
        \/ \E j \in DOMAIN conn[c].todo : j < i /\ conn[c].todo[j] = f

ResumeSound(c) == Heralded(c) /\ HeraldedAgain(c)

ClientSound(c) ==
    /\ conn[c].pc = "registered" => conn[c].base = 0
    /\ conn[c].pc = "replay" => ReplaySound(c)
    /\ conn[c].pc \in {"authed", "snapshot", "built"} /\ conn[c].base > 0 => Queued(c)
    /\ conn[c].pc = "built" => SnapshotSound(c)
    /\ conn[c].pc = "baselined" => conn[c].base <= applied[c]
    /\ conn[c].pc \in {"baselined", "live", "resumed"} =>
          \A e \in Awaited(c) : OnItsWay(e, c)
    /\ conn[c].pc = "resumed" => ResumeSound(c)

\* What the checkpoint of c has passed its mirror has.
ClientCovered(c) ==
    \A e \in published : Passed(c, e) => Covered(c, e) \/ Excused(e)

ClientInv(c) == ClientLedger(c) /\ ClientSound(c) /\ ClientCovered(c)

CheckpointInv == AllSent /\ Ledger /\ StreamSound /\ \A c \in Clients : ClientInv(c)

\* The types that the argument about revisions needs.
LEMMA CheckpointTypes ==
    ASSUME TypeOK
    PROVE  /\ rev \in Nat /\ commits \in Nat /\ db \in [Keys -> Nat]
           /\ \A e \in published : e \in Event /\ e.rev \in Nat /\ e.change \in Nat
           /\ stream \in Seq(Event) /\ retry \in Seq(Event) /\ workQueue \in Seq(Event)
           /\ \A i \in DOMAIN stream : stream[i].rev \in Nat
           /\ \A i \in DOMAIN retry : retry[i].rev \in Nat
           /\ \A p \in Publishers : pub[p].evt \in Event /\ pub[p].evt.rev \in Nat
                                    /\ pub[p].evt.change \in Nat
           /\ \A c \in Clients :
                 /\ conn[c].base \in Nat /\ conn[c].since \in Nat /\ applied[c] \in Nat
                 /\ conn[c].todo \in Seq(Event) /\ conn[c].out \in Seq(Event)
                 /\ \A i \in DOMAIN conn[c].todo : conn[c].todo[i].rev \in Nat
                 /\ conn[c].snap \in [Keys -> Nat] /\ mirror[c] \in [Keys -> Nat]
  <1>1. \A e \in published : e \in Event /\ e.rev \in Nat /\ e.change \in Nat
    <2>1. \A e \in Event : e.rev \in Nat /\ e.change \in Nat
      BY DEF Event
    <2> QED BY <2>1 DEF TypeOK
  <1>2. /\ \A i \in DOMAIN stream : stream[i].rev \in Nat
        /\ \A i \in DOMAIN retry : retry[i].rev \in Nat
    BY SeqRevs DEF TypeOK
  <1>3. \A p \in Publishers : /\ pub[p].evt \in Event /\ pub[p].evt.rev \in Nat
                              /\ pub[p].evt.change \in Nat
    BY PublisherUpdates DEF TypeOK
  <1>4. ASSUME NEW c \in Clients
        PROVE  /\ conn[c].base \in Nat /\ conn[c].since \in Nat /\ applied[c] \in Nat
               /\ conn[c].todo \in Seq(Event) /\ conn[c].out \in Seq(Event)
               /\ \A i \in DOMAIN conn[c].todo : conn[c].todo[i].rev \in Nat
               /\ conn[c].snap \in [Keys -> Nat] /\ mirror[c] \in [Keys -> Nat]
    <2>1. conn[c] \in Connection
      BY DEF TypeOK
    <2>2. conn[c].todo \in Seq(Event)
      BY <2>1, ConnectionUpdates
    <2> QED BY <2>1, <2>2, ConnectionUpdates, SeqRevs DEF TypeOK
  <1> QED BY <1>1, <1>2, <1>3, <1>4 DEF TypeOK

\* What was sent stays sent.
LEMMA SentsStay ==
    ASSUME published \subseteq published'
    PROVE  /\ Sent \subseteq Sent' /\ Seq(Sent) \subseteq Seq(Sent')
           /\ \A x : SentConn(x) => x.todo \in Seq(Sent') /\ x.out \in Seq(Sent')
  <1>1. Sent \subseteq Sent'
    BY DEF Sent
  <1>2. \A S, T : S \subseteq T => Seq(S) \subseteq Seq(T)
    OBVIOUS
  <1> QED BY <1>1, <1>2 DEF SentConn

----------------------------------------------------------------------------
(***************************************************************************)
(* Queues: what is cut at the old end, and what stays in order.            *)
(***************************************************************************)
\* t is what is left of s when it is cut at the old end.
Suffix(t, s) == \E k \in Nat : Len(s) = Len(t) + k /\ \A i \in DOMAIN t : t[i] = s[i + k]

\* Trimming cuts at the old end, and so does reading a window.
LEMMA TrimmedSuffix ==
    ASSUME ConstantsAssumption, NEW S, NEW s \in Seq(S), NEW t \in Trimmed(s)
    PROVE  Suffix(t, s) /\ t \in Seq(S)
  <1>1. PICK i \in 1 .. (IF Len(s) > StreamMax THEN Len(s) - StreamMax + 1 ELSE 1) :
             t = SubSeq(s, i, Len(s))
    BY DEF Trimmed
  <1>2. i \in Int /\ i >= 1 /\ Len(s) \in Nat /\ i <= Len(s) + 1
    BY <1>1 DEF ConstantsAssumption
  <1>3. \A j \in i .. Len(s) : s[j] \in S
    BY <1>2
  <1>4. /\ t \in Seq(S) /\ Len(t) = Len(s) - i + 1
        /\ \A j \in 1 .. Len(s) - i + 1 : t[j] = s[i + j - 1]
    BY <1>1, <1>2, <1>3, SubSeqProperties
  <1>5. i - 1 \in Nat /\ Len(s) = Len(t) + (i - 1)
    BY <1>2, <1>4
  <1>6. \A j \in DOMAIN t : t[j] = s[j + (i - 1)]
    <2>1. DOMAIN t = 1 .. Len(s) - i + 1
      BY <1>4
    <2>2. \A j \in 1 .. Len(s) - i + 1 : i + j - 1 = j + (i - 1)
      BY <1>2
    <2> QED BY <1>4, <2>1, <2>2
  <1> QED BY <1>4, <1>5, <1>6 DEF Suffix

LEMMA WindowSuffix ==
    ASSUME ConstantsAssumption, NEW S, stream \in Seq(S)
    PROVE  Suffix(StreamWindow, stream) /\ StreamWindow \in Seq(S)
  <1> DEFINE i == IF Len(stream) > StreamMax THEN Len(stream) - StreamMax + 1 ELSE 1
  <1>1. i \in Int /\ i >= 1 /\ Len(stream) \in Nat /\ i <= Len(stream) + 1
    BY DEF ConstantsAssumption
  <1>2. StreamWindow = SubSeq(stream, i, Len(stream))
    BY DEF StreamWindow
  <1>3. \A j \in i .. Len(stream) : stream[j] \in S
    BY <1>1
  <1> HIDE DEF i
  <1>4. /\ StreamWindow \in Seq(S) /\ Len(StreamWindow) = Len(stream) - i + 1
        /\ \A j \in 1 .. Len(stream) - i + 1 : StreamWindow[j] = stream[i + j - 1]
    BY <1>1, <1>2, <1>3, SubSeqProperties
  <1>5. i - 1 \in Nat /\ Len(stream) = Len(StreamWindow) + (i - 1)
    BY <1>1, <1>4
  <1>6. \A j \in DOMAIN StreamWindow : StreamWindow[j] = stream[j + (i - 1)]
    BY <1>1, <1>4
  <1> QED BY <1>4, <1>5, <1>6 DEF Suffix

\* Cutting keeps the order, and so does taking the head off a queue.
LEMMA InOrderSuffix ==
    ASSUME NEW s \in Seq(Event), NEW t \in Seq(Event), Suffix(t, s), InOrder(s)
    PROVE  InOrder(t)
  <1>1. PICK k \in Nat : Len(s) = Len(t) + k /\ \A i \in DOMAIN t : t[i] = s[i + k]
    BY DEF Suffix
  <1>2. /\ DOMAIN s = 1 .. Len(s) /\ DOMAIN t = 1 .. Len(t)
        /\ Len(s) \in Nat /\ Len(t) \in Nat
    OBVIOUS
  <1>3. ASSUME NEW i \in DOMAIN t, NEW j \in DOMAIN t, i < j, OnTime(t[j])
        PROVE  t[i].rev < t[j].rev
    <2>1. i + k \in DOMAIN s /\ j + k \in DOMAIN s /\ i + k < j + k
      BY <1>1, <1>2, <1>3
    <2> QED BY <1>1, <1>3, <2>1 DEF InOrder
  <1> QED BY <1>3 DEF InOrder

LEMMA TailSuffix ==
    ASSUME NEW s \in Seq(Event), s # <<>>
    PROVE  /\ Suffix(Tail(s), s) /\ Tail(s) \in Seq(Event)
           /\ Head(s) = s[1] /\ 1 \in DOMAIN s
           /\ \A i \in DOMAIN Tail(s) : Tail(s)[i] = s[i + 1] /\ i + 1 \in DOMAIN s
           /\ \A i \in DOMAIN s : i = 1 \/ (i - 1 \in DOMAIN Tail(s) /\ Tail(s)[i - 1] = s[i])
  <1>1. /\ Tail(s) \in Seq(Event) /\ Len(s) = Len(Tail(s)) + 1 /\ 1 \in DOMAIN s
        /\ Head(s) = s[1] /\ DOMAIN s = 1 .. Len(s) /\ DOMAIN Tail(s) = 1 .. Len(Tail(s))
        /\ Len(Tail(s)) \in Nat
        /\ \A i \in DOMAIN Tail(s) : Tail(s)[i] = s[i + 1]
    <2>1. Tail(s) \in Seq(Event) /\ Len(s) = Len(Tail(s)) + 1 /\ Head(s) = s[1]
      OBVIOUS
    <2>2. Len(Tail(s)) \in Nat /\ DOMAIN s = 1 .. Len(s) /\ DOMAIN Tail(s) = 1 .. Len(Tail(s))
      BY <2>1
    <2>3. \A i \in DOMAIN Tail(s) : Tail(s)[i] = s[i + 1]
      BY <2>2, HeadTailProperties
    <2> QED BY <2>1, <2>2, <2>3
  <1>2. Suffix(Tail(s), s)
    BY <1>1 DEF Suffix
  <1>3. \A i \in DOMAIN Tail(s) : i + 1 \in DOMAIN s
    BY <1>1
  <1>4. ASSUME NEW i \in DOMAIN s, i # 1
        PROVE  i - 1 \in DOMAIN Tail(s) /\ Tail(s)[i - 1] = s[i]
    <2>1. i - 1 \in DOMAIN Tail(s) /\ (i - 1) + 1 = i
      BY <1>1, <1>4
    <2> QED BY <1>1, <2>1
  <1>5. \A i \in DOMAIN s : i = 1 \/ (i - 1 \in DOMAIN Tail(s) /\ Tail(s)[i - 1] = s[i])
    BY <1>4
  <1>6. \A i \in DOMAIN Tail(s) : Tail(s)[i] = s[i + 1] /\ i + 1 \in DOMAIN s
    BY <1>1, <1>3
  <1> QED BY <1>1, <1>2, <1>5, <1>6

----------------------------------------------------------------------------
(***************************************************************************)
(* A step of the bus or of another client: it keeps what holds of client c *)
(* if it changes nothing of c, moves revisions forward only and takes no   *)
(* event that c waits for off its way; or if it closes c's connection.     *)
(***************************************************************************)
\* What a step that does not touch client c's side may do to c's connection:
\* close it, or leave its bootstrap alone and lose no event that is on its way.
Stays(c) ==
    /\ UNCHANGED <<applied[c], mirror[c], loggedIn[c]>>
    /\ rev <= rev' /\ published \subseteq published'
    /\ lost \subseteq lost' /\ raced \subseteq raced'
    /\ \A e \in published' \ published : e.rev > rev /\ OnItsWay(e, c)'
    /\ \/ conn'[c] = Down
       \/ /\ UNCHANGED <<conn[c].pc, conn[c].base, conn[c].since, conn[c].todo,
                         conn[c].snap>>
          /\ \/ conn[c].pc = "down"
             \/ \A e \in published : e.type = "row" /\ OnItsWay(e, c) =>
                   OnItsWay(e, c)' \/ Excused(e)'
          /\ conn[c].pc = "resumed" => ResumeSound(c)'

\* The queues of c do not change: what is awaited then is no more than before,
\* or newer than all that is queued.
LEMMA ResumeStays ==
    ASSUME TypeOK, AllSent, Ledger, NEW c \in Clients, ResumeSound(c),
           UNCHANGED <<conn[c], applied[c]>>, published' \subseteq Event,
           \A e \in published' \ published : e.rev > rev,
           lost \subseteq lost', raced \subseteq raced'
    PROVE  ResumeSound(c)'
  <1>1. \A f \in Awaited(c)' : f \in Awaited(c) \/ f.rev > rev
    BY DEF Awaited, Excused
  <1>2. /\ \A i \in DOMAIN conn[c].todo : conn[c].todo[i].rev \in Nat /\ conn[c].todo[i].rev <= rev
        /\ \A i \in DOMAIN conn[c].out : conn[c].out[i].rev \in Nat /\ conn[c].out[i].rev <= rev
    <2>1. \A e \in Sent : e.rev \in Nat /\ e.rev <= rev
      <3>1. rev \in Nat /\ \A e \in Event : e.rev \in Nat
        BY CheckpointTypes DEF Event
      <3> QED BY <3>1 DEF Sent, Ledger
    <2>2. conn[c].todo \in Seq(Sent) /\ conn[c].out \in Seq(Sent)
      BY DEF AllSent, SentConn
    <2>3. /\ \A i \in DOMAIN conn[c].todo : conn[c].todo[i] \in Sent
          /\ \A i \in DOMAIN conn[c].out : conn[c].out[i] \in Sent
      BY <2>2
    <2> QED BY <2>1, <2>3
  <1>3. rev \in Nat /\ \A f \in Awaited(c)' : f.rev \in Nat
    <2>1. \A e \in Event : e.rev \in Nat
      BY DEF Event
    <2> QED BY <2>1, CheckpointTypes DEF Awaited
  <1>4. Heralded(c)'
    <2>1. ASSUME NEW i \in DOMAIN conn[c].out, NEW f \in Awaited(c)',
                 f.rev < conn[c].out[i].rev
          PROVE  f \in Awaited(c)
      BY <1>1, <1>2, <1>3, <2>1
    <2> QED BY <2>1 DEF Heralded, ResumeSound
  <1>5. HeraldedAgain(c)'
    <2>1. ASSUME NEW i \in DOMAIN conn[c].todo, NEW f \in Awaited(c)',
                 f.rev < conn[c].todo[i].rev
          PROVE  f \in Awaited(c)
      BY <1>1, <1>2, <1>3, <2>1
    <2> QED BY <2>1 DEF HeraldedAgain, ResumeSound
  <1> QED BY <1>4, <1>5 DEF ResumeSound

\* Such a step keeps what holds of c.
LEMMA ClientStays ==
    ASSUME TypeOK, TypeOK', AllSent, Ledger, Ledger', NEW c \in Clients,
           ClientInv(c), Stays(c)
    PROVE  ClientInv(c)'
  <1>0. /\ rev \in Nat /\ rev' \in Nat /\ rev <= rev' /\ published \subseteq published'
        /\ applied'[c] = applied[c] /\ mirror'[c] = mirror[c] /\ loggedIn'[c] = loggedIn[c]
        /\ applied[c] \in Nat /\ conn[c].base \in Nat
        /\ \A e \in published' : e.rev \in Nat /\ e.rev > 0
        /\ \A e \in published' : e \in published \/ (e.rev > rev /\ OnItsWay(e, c)')
        /\ \A e \in published : e.rev <= rev
        /\ applied[c] <= rev /\ conn[c].base <= rev
        /\ \A i \in DOMAIN conn[c].todo : conn[c].todo[i].rev \in Nat
        /\ \A e : Excused(e) => Excused(e)'
        /\ \A e : OnTime(e)' => OnTime(e)
    <2>1. /\ rev \in Nat /\ applied[c] \in Nat /\ conn[c].base \in Nat
          /\ \A i \in DOMAIN conn[c].todo : conn[c].todo[i].rev \in Nat
      BY CheckpointTypes
    <2>2. rev' \in Nat /\ \A e \in published' : e \in Event
      BY DEF TypeOK
    <2>3. \A e \in Event : e.rev \in Nat
      BY DEF Event
    <2>4. /\ rev <= rev' /\ published \subseteq published'
          /\ applied'[c] = applied[c] /\ mirror'[c] = mirror[c] /\ loggedIn'[c] = loggedIn[c]
          /\ \A e \in published' \ published : e.rev > rev /\ OnItsWay(e, c)'
      BY DEF Stays
    <2>5. /\ \A e \in published' : e.rev > 0
          /\ \A e \in published : e.rev <= rev
          /\ applied[c] <= rev /\ conn[c].base <= rev
      BY DEF Ledger, ClientInv, ClientLedger
    <2>6. /\ \A e : Excused(e) => Excused(e)'
          /\ \A e : OnTime(e)' => OnTime(e)
      BY DEF Stays, Excused, OnTime
    <2>7. \A e \in published' : e.rev \in Nat /\ e.rev > 0
      BY <2>2, <2>3, <2>5
    <2>8. ASSUME NEW e \in published', e \notin published
          PROVE  e.rev > rev /\ OnItsWay(e, c)'
      BY <2>8 DEF Stays
    <2> QED BY <2>1, <2>2, <2>4, <2>5, <2>6, <2>7, <2>8
  <1>1. \A i \in DOMAIN conn[c].todo : conn[c].todo[i].rev <= rev
    <2>1. conn[c].todo \in Seq(Sent)
      BY DEF AllSent, SentConn
    <2>2. \A i \in DOMAIN conn[c].todo : conn[c].todo[i] \in Sent
      BY <2>1
    <2> QED BY <1>0, <2>2 DEF Sent
  <1>2. ClientCovered(c)'
    <2> SUFFICES ASSUME NEW e \in published', Passed(c, e)'
                 PROVE  Covered(c, e)' \/ Excused(e)'
      BY DEF ClientCovered
    <2>1. e.rev <= applied[c] /\ e \in published /\ Passed(c, e)
      BY <1>0 DEF Passed
    <2>2. Covered(c, e) \/ Excused(e)
      BY <2>1 DEF ClientInv, ClientCovered
    <2>3. Covered(c, e) => Covered(c, e)'
      BY <1>0 DEF Covered, Overtaken
    <2> QED BY <1>0, <2>2, <2>3
  <1>3. CASE conn'[c] = Down
    <2>1. conn'[c].pc = "down" /\ conn'[c].base = 0
      BY <1>3 DEF Down
    <2>2. ClientLedger(c)'
      BY <1>0, <2>1 DEF ClientLedger
    <2>3. ClientSound(c)'
      BY <2>1 DEF ClientSound
    <2> QED BY <1>2, <2>2, <2>3 DEF ClientInv
  <1>4. CASE conn'[c] # Down
    <2>1. /\ conn'[c].pc = conn[c].pc /\ conn'[c].base = conn[c].base
          /\ conn'[c].since = conn[c].since /\ conn'[c].todo = conn[c].todo
          /\ conn'[c].snap = conn[c].snap
          /\ conn[c].pc # "down" => \A e \in published :
                e.type = "row" /\ OnItsWay(e, c) => OnItsWay(e, c)' \/ Excused(e)'
      BY <1>4 DEF Stays
    <2>2. ClientLedger(c)'
      BY <1>0, <2>1 DEF ClientLedger, ClientInv
    <2>3. \A e \in Awaited(c)' : e \in Awaited(c) \/ (e.rev > rev /\ OnItsWay(e, c)')
      BY <1>0 DEF Awaited
    <2>4. \A e \in Awaited(c) : e \in published /\ e.type = "row"
      BY DEF Awaited
    <2>5. \A e \in Awaited(c)' : ~Excused(e)'
      BY DEF Awaited
    <2>6. CASE conn[c].pc = "replay"
      <3>1. ReplaySound(c)
        BY <2>6 DEF ClientInv, ClientSound
      <3>2. InOrder(conn[c].todo)'
        BY <1>0, <2>1, <3>1 DEF ReplaySound, InOrder
      <3>3. ASSUME NEW e \in Awaited(c)'
            PROVE  \/ \E i \in DOMAIN conn[c].todo : conn[c].todo[i] = e
                   \/ /\ Live(e, c)'
                      /\ \A i \in DOMAIN conn[c].todo : conn[c].todo[i].rev < e.rev
        <4>1. CASE e \in Awaited(c)
          <5>1. Live(e, c) => Live(e, c)'
            BY <2>1, <2>4, <2>5, <2>6, <3>3, <4>1 DEF Live
          <5> QED BY <3>1, <4>1, <5>1 DEF ReplaySound
        <4>2. CASE e.rev > rev /\ OnItsWay(e, c)'
          <5>1. e.rev \in Nat
            BY <1>0 DEF Awaited
          <5>2. Live(e, c)'
            BY <1>0, <2>1, <4>2, <5>1 DEF Live
          <5> QED BY <1>0, <1>1, <4>2, <5>1, <5>2
        <4> QED BY <2>3, <4>1, <4>2
      <3>4. ReplaySound(c)'
        BY <2>1, <3>2, <3>3 DEF ReplaySound
      <3>5. ClientSound(c)'
        BY <2>1, <2>6, <3>4 DEF ClientSound
      <3> QED BY <1>2, <2>2, <3>5 DEF ClientInv
    <2>7. CASE conn[c].pc \in {"authed", "snapshot", "built"}
      <3>1. ASSUME conn[c].base > 0
            PROVE  Queued(c)'
        <4>1. Queued(c)
          BY <2>7, <3>1 DEF ClientInv, ClientSound
        <4> QED BY <1>0, <2>1, <2>7, <4>1 DEF Queued
      <3>2. ASSUME conn[c].pc = "built"
            PROVE  SnapshotSound(c)'
        <4>1. SnapshotSound(c)
          BY <3>2 DEF ClientInv, ClientSound
        <4>2. ASSUME NEW e \in published', e.type = "row"
              PROVE  e.change <= conn[c].snap[e.key] \/ Live(e, c)' \/ Excused(e)'
          <5>1. CASE e \in published
            BY <1>0, <2>1, <2>7, <4>1, <4>2, <5>1 DEF SnapshotSound, Live
          <5>2. CASE e.rev > rev /\ OnItsWay(e, c)'
            BY <1>0, <2>1, <5>2 DEF Live
          <5> QED BY <1>0, <5>1, <5>2
        <4> QED BY <2>1, <4>2 DEF SnapshotSound
      <3>3. ClientSound(c)'
        BY <2>1, <2>7, <3>1, <3>2 DEF ClientSound
      <3> QED BY <1>2, <2>2, <3>3 DEF ClientInv
    <2>8. CASE conn[c].pc \in {"baselined", "live", "resumed"}
      <3>1. \A e \in Awaited(c) : OnItsWay(e, c)
        BY <2>8 DEF ClientInv, ClientSound
      <3>2. \A e \in Awaited(c)' : OnItsWay(e, c)'
        BY <2>1, <2>3, <2>4, <2>5, <2>8, <3>1
      <3>3. conn[c].pc = "baselined" => conn[c].base <= applied[c]
        BY DEF ClientInv, ClientSound
      <3>4. ClientSound(c)'
        BY <1>0, <1>4, <2>1, <2>8, <3>2, <3>3 DEF ClientSound, Stays
      <3> QED BY <1>2, <2>2, <3>4 DEF ClientInv
    <2>9. CASE conn[c].pc \in {"down", "registered"}
      <3>1. ClientSound(c)'
        BY <2>1, <2>9 DEF ClientInv, ClientSound
      <3> QED BY <1>2, <2>2, <3>1 DEF ClientInv
    <2>10. conn[c].pc \in {"down", "registered", "authed", "replay", "snapshot",
                           "built", "baselined", "live", "resumed"}
      <3>1. conn[c] \in Connection
        BY DEF TypeOK
      <3> QED BY <3>1 DEF Connection
    <2> QED BY <2>6, <2>7, <2>8, <2>9, <2>10
  <1> QED BY <1>3, <1>4

\* A step of client c alone.
ClientStep(c) ==
    /\ UNCHANGED <<db, commits, stream, retry, workQueue, pub, published>>
    /\ rev <= rev' /\ lost \subseteq lost' /\ raced \subseteq raced'
    /\ \A d \in Clients \ {c} : UNCHANGED <<conn[d], applied[d], mirror[d], loggedIn[d]>>

\* The stream stays sound when it does not change and no event is forgotten.
LEMMA StreamStays ==
    ASSUME StreamSound, UNCHANGED stream, published \subseteq published',
           lost \subseteq lost', raced \subseteq raced',
           \A e \in published : ToStream(e) => ToStream(e)' \/ Excused(e)',
           \A e \in published' \ published : ToStream(e)'
    PROVE  StreamSound'
  <1>1. /\ \A e : Excused(e) => Excused(e)'
        /\ \A e : OnTime(e)' => OnTime(e)
    BY DEF Excused, OnTime
  <1>2. InOrder(stream)'
    BY <1>1 DEF StreamSound, InOrder
  <1>3. ASSUME NEW i \in DOMAIN stream, NEW e \in published',
               OnTime(stream[i])', e.rev > stream[i].rev
        PROVE  Followed(i, e)'
    <2>1. CASE e \in published
      <3>1. Followed(i, e)
        BY <1>1, <1>3, <2>1 DEF StreamSound
      <3> QED BY <1>1, <2>1, <3>1 DEF Followed
    <2>2. CASE e \notin published
      BY <2>2, <1>3 DEF Followed
    <2> QED BY <2>1, <2>2
  <1> QED BY <1>2, <1>3 DEF StreamSound

\* What holds of all of them holds after a step of client c.
LEMMA ClientFrame ==
    ASSUME TypeOK, TypeOK', CheckpointInv, NEW c \in Clients, ClientStep(c),
           SentConn(conn'[c]), ClientInv(c)'
    PROVE  CheckpointInv'
  <1>0. rev \in Nat /\ rev' \in Nat
    BY DEF TypeOK
  <1>1. AllSent'
    <2>1. Sent' = Sent
      BY DEF Sent, ClientStep
    <2>2. \A d \in Clients : SentConn(conn'[d])
      BY DEF CheckpointInv, AllSent, ClientStep
    <2>3. \A d \in Clients : SentConn(conn[d])'
      BY <2>1, <2>2 DEF SentConn
    <2> QED BY <2>1, <2>3 DEF CheckpointInv, AllSent, ClientStep
  <1>2. Ledger'
    <2>1. \A e \in published : e.rev \in Nat
      BY CheckpointTypes
    <2>2. \A p \in Publishers : Newest(p) => Newest(p)'
      BY DEF Newest, Unstreamed, ClientStep
    <2>3. \A e : InDatabase(e) => InDatabase(e)'
      BY DEF InDatabase, ClientStep
    <2>4. \A e \in published' : e.rev > 0 /\ e.rev <= rev' /\ InDatabase(e)'
      BY <1>0, <2>1, <2>3 DEF CheckpointInv, Ledger, ClientStep
    <2> QED BY <2>2, <2>3, <2>4 DEF CheckpointInv, Ledger, ClientStep, InPublish
  <1>3. StreamSound'
    <2>1. \A e : ToStream(e) => ToStream(e)'
      BY DEF ToStream, Unstreamed, ClientStep
    <2> QED BY <2>1, StreamStays DEF CheckpointInv, ClientStep
  <1>4. ASSUME NEW d \in Clients, d # c
        PROVE  ClientInv(d)'
    <2>1. \A e : OnItsWay(e, d) => OnItsWay(e, d)'
      BY <1>4 DEF OnItsWay, InPublish, ClientStep
    <2>2. conn[d].pc = "resumed" => ResumeSound(d)'
      <3>1. /\ UNCHANGED <<conn[d], applied[d]>> /\ published' \subseteq Event
            /\ published' \ published = {}
            /\ lost \subseteq lost' /\ raced \subseteq raced'
        BY <1>4 DEF ClientStep, TypeOK
      <3> QED BY <3>1, ResumeStays DEF CheckpointInv, ClientInv, ClientSound
    <2>3. Stays(d)
      BY <1>4, <2>1, <2>2 DEF Stays, ClientStep
    <2> QED BY <1>2, <2>3, ClientStays DEF CheckpointInv
  <1> QED BY <1>1, <1>2, <1>3, <1>4 DEF CheckpointInv

\* What holds of all of them holds after a step of the bus.
LEMMA BusFrame ==
    ASSUME TypeOK, TypeOK', CheckpointInv, AllSent', Ledger', StreamSound',
           UNCHANGED <<conn, applied, mirror, loggedIn>>,
           rev <= rev', published \subseteq published',
           lost \subseteq lost', raced \subseteq raced',
           \A e \in published' \ published :
              e.rev > rev /\ \E p \in Publishers : InPublish(p)' /\ pub'[p].evt = e,
           \A p \in Publishers : InPublish(p) =>
              \/ \E q \in Publishers : InPublish(q)' /\ pub'[q].evt = pub[p].evt
              \/ \E i \in DOMAIN workQueue' : workQueue'[i] = pub[p].evt
              \/ pub[p].evt.change \in lost' \cup raced',
           \A i \in DOMAIN workQueue : \E j \in DOMAIN workQueue' : workQueue'[j] = workQueue[i]
    PROVE  CheckpointInv'
  <1>1. ASSUME NEW c \in Clients
        PROVE  Stays(c)
    <2>1. ASSUME NEW e \in published' \ published
          PROVE  e.rev > rev /\ OnItsWay(e, c)'
      BY <2>1 DEF OnItsWay
    <2>2. ASSUME NEW e \in published, OnItsWay(e, c)
          PROVE  OnItsWay(e, c)' \/ Excused(e)'
      BY <2>2 DEF OnItsWay, Excused
    <2>3. conn[c].pc = "resumed" => ResumeSound(c)'
      <3>1. published' \subseteq Event
        BY DEF TypeOK
      <3> QED BY <2>1, <3>1, ResumeStays DEF CheckpointInv, ClientInv, ClientSound
    <2> QED BY <2>1, <2>2, <2>3 DEF Stays
  <1>2. \A c \in Clients : ClientInv(c)'
    BY <1>1, ClientStays DEF CheckpointInv
  <1> QED BY <1>2 DEF CheckpointInv

----------------------------------------------------------------------------
(***************************************************************************)
(* The steps of the handlers, the stream and the worker, one lemma each.   *)
(***************************************************************************)
\* Events that the bus keeps were sent.
LEMMA SentBus ==
    ASSUME AllSent, published \subseteq published', UNCHANGED conn,
           \A p \in Publishers : pub'[p].evt \in Sent',
           stream' \in Seq(Sent), retry' \in Seq(Sent), workQueue' \in Seq(Sent)
    PROVE  AllSent'
  <1>1. \A c \in Clients : SentConn(conn[c])'
    BY SentsStay DEF AllSent, SentConn
  <1> QED BY <1>1, SentsStay DEF AllSent

\* Appending to the stream keeps it sound when the new entry is newer than all
\* others, or late.
LEMMA StreamAppend ==
    ASSUME ConstantsAssumption, StreamSound, stream \in Seq(Event), NEW e \in Event,
           stream' \in Trimmed(Append(stream, e)), UNCHANGED published,
           lost \subseteq lost', raced \subseteq raced',
           OnTime(e)' => /\ \A i \in DOMAIN stream : stream[i].rev < e.rev
                         /\ \A f \in published : ~(f.rev > e.rev),
           \A f \in published : ToStream(f) => f = e \/ ToStream(f)' \/ Excused(f)'
    PROVE  StreamSound'
  <1> DEFINE u == Append(stream, e)
  <1>1. /\ u \in Seq(Event) /\ Len(u) = Len(stream) + 1 /\ u[Len(u)] = e
        /\ \A i \in DOMAIN stream : u[i] = stream[i]
        /\ DOMAIN stream = 1 .. Len(stream) /\ Len(stream) \in Nat
    OBVIOUS
  <1> HIDE DEF u
  <1>2. stream' \in Seq(Event) /\ Suffix(stream', u)
    BY <1>1, TrimmedSuffix DEF u
  <1>3. PICK k \in Nat : /\ Len(u) = Len(stream') + k
                         /\ \A i \in DOMAIN stream' : stream'[i] = u[i + k]
    BY <1>2 DEF Suffix
  <1>4. DOMAIN stream' = 1 .. Len(stream') /\ Len(stream') \in Nat
    BY <1>2
  <1>5. ASSUME NEW i \in DOMAIN stream'
        PROVE  \/ i + k \in DOMAIN stream /\ stream'[i] = stream[i + k]
               \/ i = Len(stream') /\ stream'[i] = e
    BY <1>1, <1>3, <1>4
  <1>6. /\ \A f : Excused(f) => Excused(f)'
        /\ \A f : OnTime(f)' => OnTime(f)
    BY DEF Excused, OnTime
  <1>7. ASSUME NEW i \in DOMAIN stream', NEW j \in DOMAIN stream', i < j,
               OnTime(stream[j])'
        PROVE  stream'[i].rev < stream'[j].rev
    <2>1. i + k \in DOMAIN stream /\ stream'[i] = stream[i + k]
      BY <1>4, <1>5, <1>7
    <2>2. CASE j + k \in DOMAIN stream /\ stream'[j] = stream[j + k]
      <3>1. OnTime(stream[j + k])
        BY <1>6, <1>7, <2>2 DEF OnTime
      <3>2. i + k < j + k
        BY <1>4, <1>7
      <3> QED BY <2>1, <2>2, <3>1, <3>2 DEF StreamSound, InOrder
    <2>3. CASE j = Len(stream') /\ stream'[j] = e
      <3>1. OnTime(e)'
        BY <1>7, <2>3 DEF OnTime
      <3> QED BY <2>1, <2>3, <3>1
    <2> QED BY <1>5, <2>2, <2>3
  <1>8. ASSUME NEW i \in DOMAIN stream', NEW f \in published,
               OnTime(stream[i])', f.rev > stream'[i].rev
        PROVE  Followed(i, f)'
    <2>1. CASE i + k \in DOMAIN stream /\ stream'[i] = stream[i + k]
      <3>1. OnTime(stream[i + k])
        BY <1>6, <1>8, <2>1 DEF OnTime
      <3>2. Followed(i + k, f)
        BY <1>8, <2>1, <3>1 DEF StreamSound
      <3>3. ASSUME NEW j \in DOMAIN stream, i + k < j, stream[j] = f
            PROVE  Followed(i, f)'
        <4>1. j - k \in DOMAIN stream' /\ i < j - k /\ (j - k) + k = j
          BY <1>1, <1>3, <1>4, <3>3
        <4>2. stream'[j - k] = f
          BY <1>1, <1>3, <3>3, <4>1
        <4> QED BY <4>1, <4>2 DEF Followed
      <3>4. CASE f = e
        <4>1. /\ Len(stream') \in DOMAIN stream' /\ i < Len(stream')
              /\ stream'[Len(stream')] = e
          BY <1>1, <1>3, <1>4, <2>1
        <4> QED BY <3>4, <4>1 DEF Followed
      <3>5. CASE ToStream(f)' \/ Excused(f)'
        BY <3>5 DEF Followed
      <3> QED BY <1>6, <3>2, <3>3, <3>4, <3>5 DEF Followed
    <2>2. CASE i = Len(stream') /\ stream'[i] = e
      <3>1. OnTime(e)'
        BY <1>8, <2>2 DEF OnTime
      <3> QED BY <1>8, <2>2, <3>1
    <2> QED BY <1>5, <2>1, <2>2
  <1>9. InOrder(stream)'
    BY <1>7 DEF InOrder
  <1> QED BY <1>8, <1>9 DEF StreamSound

\* A handler commits a change.
LEMMA CheckpointCommit ==
    ASSUME TypeOK, TypeOK', CheckpointInv, NEW p \in Publishers, pub[p].pc = "idle",
           pub'[p].pc = "committed", pub'[p].evt \in Event, pub'[p].evt.rev = 0,
           pub'[p].streamOK,
           InDatabase(pub[p].evt)', \A q \in Publishers \ {p} : pub'[q] = pub[q],
           \A k \in Keys : db[k] <= db'[k] /\ db'[k] <= commits',
           UNCHANGED <<rev, stream, retry, workQueue, conn, published, lost, raced,
                       applied, mirror, loggedIn>>
    PROVE  CheckpointInv'
  <1>0. /\ rev \in Nat /\ db \in [Keys -> Nat] /\ db' \in [Keys -> Nat]
        /\ \A e \in published : e.change \in Nat
        /\ \A q \in Publishers : pub[q].evt.change \in Nat
    BY CheckpointTypes DEF TypeOK
  <1>1. ~InPublish(p) /\ ~InPublish(p)' /\ ~Unstreamed(p) /\ ~Unstreamed(p)'
    BY DEF InPublish, Unstreamed
  <1>2. AllSent'
    <2>1. pub'[p].evt \in Sent'
      BY DEF Sent
    <2> QED BY <2>1, SentsStay, SentBus DEF CheckpointInv, AllSent
  <1>3. Ledger'
    <2>1. \A e \in published : InDatabase(e)'
      BY <1>0 DEF CheckpointInv, Ledger, InDatabase
    <2>2. \A q \in Publishers : pub'[q].pc = "committed" => InDatabase(pub[q].evt)'
      BY <1>0 DEF CheckpointInv, Ledger, InDatabase
    <2>3. \A q \in Publishers : InPublish(q)' /\ pub'[q].evt.rev > 0 => Newest(q)'
      BY <1>1 DEF CheckpointInv, Ledger, Newest, Unstreamed, InPublish
    <2> QED BY <2>1, <2>2, <2>3 DEF CheckpointInv, Ledger
  <1>4. StreamSound'
    <2>1. \A e \in published : ToStream(e) => ToStream(e)'
      BY <1>1 DEF ToStream, Unstreamed
    <2> QED BY <2>1, StreamStays DEF CheckpointInv
  <1>5. ASSUME NEW q \in Publishers, InPublish(q)
        PROVE  InPublish(q)' /\ pub'[q].evt = pub[q].evt
    BY <1>1, <1>5 DEF InPublish
  <1> QED BY <1>0, <1>2, <1>3, <1>4, <1>5, BusFrame

\* What PublishStamp does to the handler's event.
LEMMA StampMoves ==
    ASSUME TypeOK, OneInPublish, NEW p \in Publishers, PublishStamp(p)
    PROVE  /\ pub[p].pc = "committed" /\ \A q \in Publishers : ~InPublish(q)
           /\ pub'[p].streamOK = pub[p].streamOK
           /\ pub'[p].pc = "stamped" /\ \A q \in Publishers \ {p} : pub'[q] = pub[q]
           /\ \/ /\ rev' = rev + 1 /\ lost' = lost
                 /\ pub'[p].evt.rev = rev + 1
                 /\ pub'[p].evt.type = pub[p].evt.type
                 /\ pub'[p].evt.key = pub[p].evt.key
                 /\ pub'[p].evt.change = pub[p].evt.change
                 /\ published' = published \cup {pub'[p].evt}
              \/ /\ rev' = rev /\ published' = published /\ pub'[p].evt = pub[p].evt
                 /\ pub'[p].evt.rev = 0 /\ lost \subseteq lost'
           /\ UNCHANGED <<db, commits, stream, retry, workQueue, conn, raced,
                          applied, mirror, loggedIn>>
  <1> DEFINE e == [pub[p].evt EXCEPT !.rev = rev + 1]
  <1>1. pub[p] \in Publisher /\ pub[p].evt \in Event /\ pub \in [Publishers -> Publisher]
    BY PublisherUpdates DEF TypeOK
  <1>2. /\ e.rev = rev + 1 /\ e.type = pub[p].evt.type /\ e.key = pub[p].evt.key
        /\ e.change = pub[p].evt.change
    BY <1>1 DEF Event
  <1>3. /\ [pub[p] EXCEPT !.pc = "stamped"].pc = "stamped"
        /\ [pub[p] EXCEPT !.pc = "stamped"].evt = pub[p].evt
        /\ [pub[p] EXCEPT !.pc = "stamped"].streamOK = pub[p].streamOK
    BY <1>1 DEF Publisher
  <1>4. /\ [pub[p] EXCEPT !.pc = "stamped", !.evt = e].pc = "stamped"
        /\ [pub[p] EXCEPT !.pc = "stamped", !.evt = e].evt = e
        /\ [pub[p] EXCEPT !.pc = "stamped", !.evt = e].streamOK = pub[p].streamOK
    BY <1>1 DEF Publisher
  <1>5. /\ pub[p].pc = "committed" /\ pub[p].evt.rev = 0
        /\ \A q \in Publishers : ~InPublish(q)
    BY DEF PublishStamp, PublishMuFree, InPublish, OneInPublish
  <1>6. UNCHANGED <<db, commits, stream, retry, workQueue, conn, raced,
                    applied, mirror, loggedIn>>
    BY DEF PublishStamp, client
  <1> HIDE DEF e
  <1>7. CASE /\ rev' = rev + 1 /\ lost' = lost /\ published' = published \cup {e}
             /\ pub' = [pub EXCEPT ![p] = [pub[p] EXCEPT !.pc = "stamped", !.evt = e]]
    <2>1. /\ pub'[p].evt = e /\ pub'[p].pc = "stamped"
          /\ pub'[p].streamOK = pub[p].streamOK
          /\ \A q \in Publishers \ {p} : pub'[q] = pub[q]
      BY <1>1, <1>4, <1>7
    <2> QED BY <1>2, <1>5, <1>6, <1>7, <2>1
  <1>8. CASE /\ rev' = rev /\ published' = published /\ lost \subseteq lost'
             /\ pub' = [pub EXCEPT ![p] = [pub[p] EXCEPT !.pc = "stamped"]]
    <2>1. /\ pub'[p].evt = pub[p].evt /\ pub'[p].pc = "stamped"
          /\ pub'[p].streamOK = pub[p].streamOK
          /\ \A q \in Publishers \ {p} : pub'[q] = pub[q]
      BY <1>1, <1>3, <1>8
    <2> QED BY <1>5, <1>6, <1>8, <2>1
  <1>9. \/ /\ rev' = rev + 1 /\ lost' = lost /\ published' = published \cup {e}
           /\ pub' = [pub EXCEPT ![p] = [pub[p] EXCEPT !.pc = "stamped", !.evt = e]]
        \/ /\ rev' = rev /\ published' = published /\ lost \subseteq lost'
           /\ pub' = [pub EXCEPT ![p] = [pub[p] EXCEPT !.pc = "stamped"]]
    BY DEF PublishStamp, e
  <1> QED BY <1>7, <1>8, <1>9

\* The stamp makes the event newer than all others.
LEMMA CheckpointStamp ==
    ASSUME TypeOK, TypeOK', OneInPublish, CheckpointInv, NEW p \in Publishers,
           PublishStamp(p)
    PROVE  CheckpointInv'
  <1>e. PICK e \in Event : e = pub'[p].evt
    <2>1. pub'[p] \in Publisher
      BY DEF TypeOK
    <2> QED BY <2>1, PublisherUpdates
  <1>0. /\ rev \in Nat
        /\ e.rev \in Nat
        /\ \A f \in published : f.rev \in Nat /\ f.rev > 0 /\ f.rev <= rev
        /\ \A i \in DOMAIN retry : retry[i].rev \in Nat
        /\ \A i \in DOMAIN stream : stream[i].rev \in Nat
    <2>1. e.rev \in Nat
      BY DEF Event
    <2> QED BY <2>1, CheckpointTypes DEF CheckpointInv, Ledger
  <1>1. /\ pub[p].pc = "committed" /\ \A q \in Publishers : ~InPublish(q)
        /\ pub'[p].streamOK = pub[p].streamOK
        /\ pub'[p].pc = "stamped" /\ \A q \in Publishers \ {p} : pub'[q] = pub[q]
        /\ \/ /\ rev' = rev + 1 /\ lost' = lost /\ e.rev = rev + 1
              /\ e.type = pub[p].evt.type /\ e.key = pub[p].evt.key
              /\ e.change = pub[p].evt.change /\ published' = published \cup {e}
           \/ /\ rev' = rev /\ published' = published /\ e.rev = 0 /\ lost \subseteq lost'
        /\ UNCHANGED <<db, commits, stream, retry, workQueue, conn, raced,
                       applied, mirror, loggedIn>>
    BY <1>e, StampMoves
  <1>2. InPublish(p)' /\ Unstreamed(p)'
    BY <1>1 DEF InPublish, Unstreamed
  <1>3. \A q \in Publishers : ~Unstreamed(q)
    BY <1>1 DEF Unstreamed, InPublish
  <1>4. \A q \in Publishers \ {p} : ~InPublish(q)'
    BY <1>1 DEF InPublish
  <1>5. \A i \in DOMAIN retry : retry[i].rev <= rev
    <2>1. \A i \in DOMAIN retry : retry[i] \in Sent
      BY DEF CheckpointInv, AllSent
    <2> QED BY <1>0, <2>1 DEF Sent
  <1>6. \A i \in DOMAIN stream : stream[i].rev <= rev
    <2>1. \A i \in DOMAIN stream : stream[i] \in Sent
      BY DEF CheckpointInv, AllSent
    <2> QED BY <1>0, <2>1 DEF Sent
  <1>7. AllSent'
    <2>1. published \subseteq published'
      BY <1>1
    <2>2. e \in Sent'
      BY <1>0, <1>1 DEF Sent
    <2>3. \A q \in Publishers : pub'[q].evt \in Sent'
      BY <1>1, <2>1, <2>2, <1>e, SentsStay DEF CheckpointInv, AllSent
    <2> QED BY <1>1, <2>1, <2>3, SentBus DEF CheckpointInv, AllSent
  <1>8. Ledger'
    <2>1. \A f : InDatabase(f) => InDatabase(f)'
      BY <1>1 DEF InDatabase
    <2>2. e.rev > 0 => InDatabase(e)
      <3>1. InDatabase(pub[p].evt)
        BY <1>1 DEF CheckpointInv, Ledger
      <3> QED BY <1>1, <3>1 DEF InDatabase
    <2>3. \A f \in published' : f.rev > 0 /\ f.rev <= rev' /\ InDatabase(f)'
      <3>1. \A f \in published : InDatabase(f)'
        BY <2>1 DEF CheckpointInv, Ledger
      <3>2. e.rev > 0 => InDatabase(e)'
        BY <2>1, <2>2
      <3> QED BY <1>0, <1>1, <3>1, <3>2
    <2>4. \A f, o \in published' : f.rev = o.rev => f = o
      <3>1. \A f, o \in published : f.rev = o.rev => f = o
        BY DEF CheckpointInv, Ledger
      <3> QED BY <1>0, <1>1, <3>1
    <2>5. \A q \in Publishers : pub'[q].pc = "committed" => InDatabase(pub[q].evt)'
      <3>1. \A q \in Publishers : pub[q].pc = "committed" => InDatabase(pub[q].evt)
        BY DEF CheckpointInv, Ledger
      <3> QED BY <1>1, <3>1 DEF InDatabase
    <2>6. e.rev > 0 => Newest(p)'
      BY <1>0, <1>1, <1>e, <1>5, <1>6 DEF Newest
    <2>7. \A q \in Publishers : InPublish(q)' /\ pub'[q].evt.rev > 0 => Newest(q)'
      BY <1>4, <1>e, <2>6
    <2>8. \A q \in Publishers : pub'[q].pc \in {"committed", "stamped"} => pub'[q].streamOK
      BY <1>1 DEF CheckpointInv, Ledger
    <2> QED BY <1>1, <2>3, <2>4, <2>5, <2>7, <2>8 DEF CheckpointInv, Ledger
  <1>9. StreamSound'
    <2>1. \A f \in published : ToStream(f) => ToStream(f)'
      BY <1>1, <1>3 DEF ToStream
    <2>2. \A f \in published' \ published : ToStream(f)'
      BY <1>1, <1>2, <1>e DEF ToStream
    <2> QED BY <1>1, <2>1, <2>2, StreamStays DEF CheckpointInv
  <1>10. ASSUME NEW f \in published' \ published
         PROVE  f.rev > rev /\ \E q \in Publishers : InPublish(q)' /\ pub'[q].evt = f
    BY <1>0, <1>1, <1>2, <1>e, <1>10
  <1>11. rev <= rev' /\ published \subseteq published' /\ lost \subseteq lost'
    BY <1>0, <1>1
  <1>12. \A i \in DOMAIN workQueue : \E j \in DOMAIN workQueue' : workQueue'[j] = workQueue[i]
    BY <1>1
  <1> QED BY <1>1, <1>7, <1>8, <1>9, <1>10, <1>11, <1>12, BusFrame

\* Publish appends the newest event.
LEMMA CheckpointStream ==
    ASSUME ConstantsAssumption, TypeOK, TypeOK', OneInPublish, CheckpointInv,
           NEW p \in Publishers, PublishStream(p)
    PROVE  CheckpointInv'
  <1>e. PICK e \in Event : e = pub[p].evt
    BY CheckpointTypes
  <1>0. /\ e.rev \in Nat /\ e.change \in Nat
        /\ \A f \in published : f.rev \in Nat
        /\ stream \in Seq(Event) /\ pub[p] \in Publisher
        /\ pub \in [Publishers -> Publisher]
    BY <1>e, CheckpointTypes DEF TypeOK
  <1>1. /\ pub[p].pc = "stamped" /\ pub'[p].pc = "streamed" /\ pub'[p].evt = e
        /\ \A q \in Publishers \ {p} : pub'[q] = pub[q]
        /\ \/ stream' \in Trimmed(Append(stream, e)) /\ pub'[p].streamOK
           \/ ~pub'[p].streamOK /\ stream' = stream
        /\ UNCHANGED <<rev, db, commits, retry, workQueue, conn, published, lost, raced,
                       applied, mirror, loggedIn>>
    <2>1. /\ [pub[p] EXCEPT !.pc = "streamed"].pc = "streamed"
          /\ [pub[p] EXCEPT !.pc = "streamed"].evt = pub[p].evt
          /\ [pub[p] EXCEPT !.pc = "streamed"].streamOK = pub[p].streamOK
          /\ [pub[p] EXCEPT !.pc = "streamed", !.streamOK = FALSE].pc = "streamed"
          /\ [pub[p] EXCEPT !.pc = "streamed", !.streamOK = FALSE].evt = pub[p].evt
          /\ ~[pub[p] EXCEPT !.pc = "streamed", !.streamOK = FALSE].streamOK
      BY <1>0 DEF Publisher
    <2>2. \/ /\ stream' \in Trimmed(Append(stream, e))
             /\ pub' = [pub EXCEPT ![p] = [pub[p] EXCEPT !.pc = "streamed"]]
          \/ /\ stream' = stream
             /\ pub' = [pub EXCEPT ![p] =
                            [pub[p] EXCEPT !.pc = "streamed", !.streamOK = FALSE]]
      BY <1>e DEF PublishStream
    <2>3. /\ pub[p].pc = "stamped"
          /\ UNCHANGED <<rev, db, commits, retry, workQueue, conn, published, lost, raced,
                         applied, mirror, loggedIn>>
      BY DEF PublishStream, client
    <2>4. pub'[p].pc = "streamed" /\ pub'[p].evt = e
      BY <1>0, <1>e, <2>1, <2>2
    <2>5. \A q \in Publishers \ {p} : pub'[q] = pub[q]
      BY <1>0, <2>2
    <2>6. \/ stream' \in Trimmed(Append(stream, e)) /\ pub'[p].streamOK
          \/ ~pub'[p].streamOK /\ stream' = stream
      <3>1. pub[p].streamOK
        BY <2>3 DEF CheckpointInv, Ledger
      <3> QED BY <1>0, <2>1, <2>2, <3>1
    <2> QED BY <2>3, <2>4, <2>5, <2>6
  <1>2. InPublish(p) /\ InPublish(p)' /\ Unstreamed(p)
    BY <1>1 DEF InPublish, Unstreamed
  <1>3. e \in Sent /\ stream \in Seq(Sent) /\ \A q \in Publishers : pub[q].evt \in Sent
    BY <1>e DEF CheckpointInv, AllSent
  <1>4. AllSent'
    <2>1. Append(stream, e) \in Seq(Sent)
      BY <1>3
    <2>2. stream' \in Seq(Sent)
      BY <1>1, <1>3, <2>1, TrimmedSuffix
    <2>3. \A q \in Publishers : pub'[q].evt \in Sent
      BY <1>1, <1>3
    <2>4. \A q \in Publishers : pub'[q].evt \in Sent'
      BY <1>1, <2>3 DEF Sent
    <2> QED BY <1>1, <2>2, <2>4, SentBus DEF CheckpointInv, AllSent
  <1>5. \A q \in Publishers : InPublish(q) => q = p
    BY <1>2 DEF OneInPublish
  <1>6. e.rev > 0 => Newest(p)
    BY <1>2, <1>e DEF CheckpointInv, Ledger
  <1>7. Ledger'
    <2>1. \A q \in Publishers : InPublish(q)' => InPublish(q) /\ pub'[q].evt = pub[q].evt
      BY <1>1, <1>2, <1>e DEF InPublish
    <2>2. ASSUME NEW q \in Publishers, InPublish(q)', pub'[q].evt.rev > 0
          PROVE  Newest(q)'
      <3>1. q = p /\ Newest(p)
        BY <1>5, <1>6, <1>e, <2>1, <2>2
      <3>2. Unstreamed(p)' => stream' = stream
        BY <1>1 DEF Unstreamed
      <3> QED BY <1>1, <1>2, <1>e, <3>1, <3>2 DEF Newest
    <2>3. \A q \in Publishers : pub'[q].pc \in {"committed", "stamped"} =>
             pub'[q] = pub[q]
      BY <1>1
    <2> QED BY <1>1, <2>2, <2>3 DEF CheckpointInv, Ledger, InDatabase
  <1>8. StreamSound'
    <2>1. \A q \in Publishers : Unstreamed(q) => q = p
      BY <1>5 DEF Unstreamed, InPublish
    <2>2. CASE stream' \in Trimmed(Append(stream, e))
      <3>1. \A f \in published : ToStream(f) => f = e \/ ToStream(f)'
        BY <1>1, <1>e, <2>1 DEF ToStream
      <3>2. OnTime(e)' => /\ \A i \in DOMAIN stream : stream[i].rev < e.rev
                          /\ \A f \in published : ~(f.rev > e.rev)
        BY <1>0, <1>2, <1>6, <1>e DEF OnTime, Newest
      <3> QED BY <1>0, <1>1, <2>2, <3>1, <3>2, StreamAppend DEF CheckpointInv
    <2>3. CASE ~pub'[p].streamOK /\ stream' = stream
      <3>1. Unstreamed(p)'
        BY <1>1, <2>3 DEF Unstreamed
      <3>2. \A f \in published : ToStream(f) => ToStream(f)'
        BY <1>1, <1>e, <2>1, <3>1 DEF ToStream
      <3> QED BY <1>1, <2>3, <3>2, StreamStays DEF CheckpointInv
    <2> QED BY <1>1, <2>2, <2>3
  <1>9. ASSUME NEW q \in Publishers, InPublish(q)
        PROVE  InPublish(q)' /\ pub'[q].evt = pub[q].evt
    BY <1>1, <1>2, <1>5, <1>9, <1>e
  <1>10. rev <= rev'
    BY <1>1, CheckpointTypes
  <1> QED BY <1>1, <1>4, <1>7, <1>8, <1>9, <1>10, BusFrame

\* Publish hands the event to the worker, or a full queue or a failed retry
\* entry excuses it.
LEMMA CheckpointFanout ==
    ASSUME TypeOK, TypeOK', OneInPublish, CheckpointInv, NEW p \in Publishers,
           PublishFanout(p)
    PROVE  CheckpointInv'
  <1>e. PICK e \in Event : e = pub[p].evt
    BY CheckpointTypes
  <1>0. workQueue \in Seq(Event) /\ retry \in Seq(Event) /\ rev \in Nat
    BY CheckpointTypes
  <1>1. /\ pub[p].pc = "streamed" /\ pub'[p] = Idle
        /\ \A q \in Publishers \ {p} : pub'[q] = pub[q]
        /\ workQueue' = Append(workQueue, e) \/ (workQueue' = workQueue /\ e.change \in lost')
        /\ \/ retry' = retry /\ (pub[p].streamOK \/ e.change \in lost')
           \/ retry' = Append(retry, e)
        /\ lost \subseteq lost'
        /\ UNCHANGED <<rev, db, commits, stream, conn, published, raced,
                       applied, mirror, loggedIn>>
    BY <1>e DEF PublishFanout, client, TypeOK
  <1>2. InPublish(p)
    BY <1>1 DEF InPublish
  <1>3. \A q \in Publishers : ~InPublish(q)'
    BY <1>1, <1>2 DEF InPublish, OneInPublish, Idle
  <1>4. e \in Sent /\ \A q \in Publishers : pub[q].evt \in Sent
    BY <1>e DEF CheckpointInv, AllSent
  <1>5. AllSent'
    <2>1. Idle.evt \in Event /\ Idle.evt.rev = 0
      BY DEF Idle, Event, Families
    <2>2. Idle.evt \in Sent
      BY <2>1 DEF Sent
    <2>3. \A q \in Publishers : pub'[q].evt \in Sent
      BY <1>1, <1>4, <2>2
    <2>4. \A q \in Publishers : pub'[q].evt \in Sent'
      BY <1>1, <2>3 DEF Sent
    <2>5. workQueue' \in Seq(Sent) /\ retry' \in Seq(Sent)
      <3>1. workQueue \in Seq(Sent) /\ retry \in Seq(Sent)
        BY DEF CheckpointInv, AllSent
      <3>2. Append(workQueue, e) \in Seq(Sent) /\ Append(retry, e) \in Seq(Sent)
        BY <1>4, <3>1
      <3> QED BY <1>1, <3>1, <3>2
    <2> QED BY <1>1, <2>4, <2>5, SentBus DEF CheckpointInv, AllSent
  <1>6. Ledger'
    <2>1. \A q \in Publishers : pub'[q].pc \in {"committed", "stamped"} =>
             pub'[q] = pub[q]
      BY <1>1 DEF Idle
    <2> QED BY <1>1, <1>3, <2>1 DEF CheckpointInv, Ledger, InDatabase
  <1>7. /\ \A i \in DOMAIN retry : i \in DOMAIN retry' /\ retry'[i] = retry[i]
        /\ \A i \in DOMAIN workQueue : i \in DOMAIN workQueue' /\ workQueue'[i] = workQueue[i]
        /\ \/ \E i \in DOMAIN workQueue' : workQueue'[i] = e
           \/ e.change \in lost'
        /\ \/ \E i \in DOMAIN retry' : retry'[i] = e
           \/ pub[p].streamOK \/ e.change \in lost'
    <2>1. \A s \in Seq(Event) :
             /\ \A i \in DOMAIN s : i \in DOMAIN Append(s, e) /\ Append(s, e)[i] = s[i]
             /\ \E i \in DOMAIN Append(s, e) : Append(s, e)[i] = e
      <3> SUFFICES ASSUME NEW s \in Seq(Event)
                   PROVE  /\ \A i \in DOMAIN s : /\ i \in DOMAIN Append(s, e)
                                                 /\ Append(s, e)[i] = s[i]
                          /\ \E i \in DOMAIN Append(s, e) : Append(s, e)[i] = e
        OBVIOUS
      <3>1. Len(s) + 1 \in DOMAIN Append(s, e) /\ Append(s, e)[Len(s) + 1] = e
        OBVIOUS
      <3>2. \A i \in DOMAIN s : i \in DOMAIN Append(s, e) /\ Append(s, e)[i] = s[i]
        OBVIOUS
      <3> QED BY <3>1, <3>2
    <2> QED BY <1>0, <1>1, <2>1
  <1>8. StreamSound'
    <2>1. ASSUME NEW f \in published, ToStream(f)
          PROVE  ToStream(f)' \/ Excused(f)'
      <3>1. CASE \E i \in DOMAIN retry : retry[i] = f
        BY <1>7, <3>1 DEF ToStream
      <3>2. ASSUME NEW q \in Publishers, Unstreamed(q), pub[q].evt = f
            PROVE  ToStream(f)' \/ Excused(f)'
        <4>1. q = p
          BY <1>2, <3>2 DEF Unstreamed, InPublish, OneInPublish
        <4>2. f = e /\ ~pub[p].streamOK
          BY <1>1, <1>e, <3>2, <4>1 DEF Unstreamed
        <4> QED BY <1>7, <4>2 DEF ToStream, Excused
      <3> QED BY <2>1, <3>1, <3>2 DEF ToStream
    <2> QED BY <1>1, <2>1, StreamStays DEF CheckpointInv
  <1>9. ASSUME NEW q \in Publishers, InPublish(q)
        PROVE  \/ \E i \in DOMAIN workQueue' : workQueue'[i] = pub[q].evt
               \/ pub[q].evt.change \in lost' \cup raced'
    <2>1. q = p
      BY <1>2, <1>9 DEF OneInPublish
    <2> QED BY <1>7, <1>e, <2>1
  <1>10. /\ \A i \in DOMAIN workQueue : \E j \in DOMAIN workQueue' : workQueue'[j] = workQueue[i]
         /\ rev <= rev'
    BY <1>0, <1>1, <1>7
  <1> QED BY <1>1, <1>5, <1>6, <1>8, <1>9, <1>10, BusFrame

\* Appending keeps the entries there are and adds one.
LEMMA AppendEntries ==
    ASSUME NEW S, NEW s \in Seq(S), NEW e \in S
    PROVE  /\ Append(s, e) \in Seq(S)
           /\ \A i \in DOMAIN s : i \in DOMAIN Append(s, e) /\ Append(s, e)[i] = s[i]
           /\ \A i \in DOMAIN Append(s, e) :
                 Append(s, e)[i] = e \/ (i \in DOMAIN s /\ Append(s, e)[i] = s[i])
           /\ \E i \in DOMAIN Append(s, e) : Append(s, e)[i] = e
  <1>1. /\ Append(s, e) \in Seq(S) /\ DOMAIN s = 1 .. Len(s) /\ Len(s) \in Nat
        /\ DOMAIN Append(s, e) = 1 .. Len(s) + 1
        /\ \A i \in 1 .. Len(s) : Append(s, e)[i] = s[i]
        /\ Append(s, e)[Len(s) + 1] = e
    OBVIOUS
  <1>2. \A i \in DOMAIN s : i \in DOMAIN Append(s, e) /\ Append(s, e)[i] = s[i]
    BY <1>1
  <1>3. ASSUME NEW i \in DOMAIN Append(s, e)
        PROVE  Append(s, e)[i] = e \/ (i \in DOMAIN s /\ Append(s, e)[i] = s[i])
    BY <1>1
  <1>4. Len(s) + 1 \in DOMAIN Append(s, e)
    BY <1>1
  <1>5. \E i \in DOMAIN Append(s, e) : Append(s, e)[i] = e
    BY <1>1, <1>4
  <1> QED BY <1>1, <1>2, <1>3, <1>5

\* A queue whose head goes to the far end holds the same events.
LEMMA Rotated ==
    ASSUME NEW s \in Seq(Event), s # <<>>
    PROVE  LET t == Append(Tail(s), Head(s)) IN
           /\ \A i \in DOMAIN t : \E j \in DOMAIN s : t[i] = s[j]
           /\ \A j \in DOMAIN s : \E i \in DOMAIN t : t[i] = s[j]
  <1> DEFINE r == Tail(s)
             e == Head(s)
             t == Append(r, e)
  <1>1. /\ r \in Seq(Event) /\ e = s[1] /\ 1 \in DOMAIN s /\ e \in Event
        /\ \A i \in DOMAIN r : r[i] = s[i + 1] /\ i + 1 \in DOMAIN s
        /\ \A i \in DOMAIN s : i = 1 \/ (i - 1 \in DOMAIN r /\ r[i - 1] = s[i])
    BY TailSuffix
  <1> HIDE DEF r, e
  <1>2. /\ \A i \in DOMAIN r : i \in DOMAIN t /\ t[i] = r[i]
        /\ \A i \in DOMAIN t : t[i] = e \/ (i \in DOMAIN r /\ t[i] = r[i])
        /\ \E i \in DOMAIN t : t[i] = e
    BY <1>1, AppendEntries DEF r, e
  <1> HIDE DEF t
  <1>3. ASSUME NEW i \in DOMAIN t
        PROVE  \E j \in DOMAIN s : t[i] = s[j]
    <2>1. CASE t[i] = e
      BY <1>1, <2>1
    <2>2. CASE i \in DOMAIN r /\ t[i] = r[i]
      BY <1>1, <2>2
    <2> QED BY <1>2, <2>1, <2>2
  <1>4. ASSUME NEW j \in DOMAIN s
        PROVE  \E i \in DOMAIN t : t[i] = s[j]
    <2>1. CASE j = 1
      BY <1>1, <1>2, <2>1
    <2>2. CASE j # 1
      <3>1. j - 1 \in DOMAIN r /\ r[j - 1] = s[j]
        BY <1>1, <2>2
      <3>2. j - 1 \in DOMAIN t /\ t[j - 1] = r[j - 1]
        BY <1>2, <3>1
      <3> QED BY <3>1, <3>2
    <2> QED BY <2>1, <2>2
  <1> QED BY <1>3, <1>4 DEF t, r, e

\* drainRetry appends an event late, which excuses it, or tries again later.
LEMMA CheckpointRetry ==
    ASSUME ConstantsAssumption, TypeOK, TypeOK', CheckpointInv, DrainRetry
    PROVE  CheckpointInv'
  <1>e. PICK e \in Event : e = Head(retry) /\ retry # <<>>
    BY CheckpointTypes DEF DrainRetry
  <1>0. /\ stream \in Seq(Event) /\ retry \in Seq(Event) /\ rev \in Nat
        /\ 1 \in DOMAIN retry /\ retry[1] = e
    BY <1>e, CheckpointTypes, TailSuffix
  <1>1. /\ UNCHANGED <<rev, db, commits, workQueue, pub, conn, published, lost,
                       applied, mirror, loggedIn>>
        /\ raced \subseteq raced'
        /\ \/ /\ stream' \in Trimmed(Append(stream, e)) /\ retry' = Tail(retry)
              /\ e.change \in raced'
           \/ stream' = stream /\ retry' = Append(Tail(retry), e)
    BY <1>e DEF DrainRetry, client
  <1>2. /\ \A i \in DOMAIN retry' : \E j \in DOMAIN retry : retry'[i] = retry[j]
        /\ \A j \in DOMAIN retry : \/ \E i \in DOMAIN retry' : retry'[i] = retry[j]
                                   \/ retry[j] = e /\ e.change \in raced'
    <2>1. CASE retry' = Tail(retry) /\ e.change \in raced'
      <3>1. /\ \A i \in DOMAIN retry' : retry'[i] = retry[i + 1] /\ i + 1 \in DOMAIN retry
            /\ \A i \in DOMAIN retry :
                  i = 1 \/ (i - 1 \in DOMAIN retry' /\ retry'[i - 1] = retry[i])
        BY <1>0, <1>e, <2>1, TailSuffix
      <3> QED BY <1>0, <2>1, <3>1
    <2>2. CASE retry' = Append(Tail(retry), e)
      <3>1. retry' = Append(Tail(retry), Head(retry))
        BY <1>e, <2>2
      <3>2. /\ \A i \in DOMAIN retry' : \E j \in DOMAIN retry : retry'[i] = retry[j]
            /\ \A j \in DOMAIN retry : \E i \in DOMAIN retry' : retry'[i] = retry[j]
        BY <1>0, <1>e, <3>1, Rotated
      <3> QED BY <3>2
    <2> QED BY <1>1, <2>1, <2>2
  <1>3. AllSent'
    <2>1. stream \in Seq(Sent) /\ retry \in Seq(Sent) /\ workQueue \in Seq(Sent)
      BY DEF CheckpointInv, AllSent
    <2>2. e \in Sent /\ Tail(retry) \in Seq(Sent)
      BY <1>e, <2>1
    <2>3. Append(stream, e) \in Seq(Sent) /\ Append(Tail(retry), e) \in Seq(Sent)
      BY <2>1, <2>2
    <2>4. stream' \in Seq(Sent)
      BY <1>1, <2>1, <2>3, TrimmedSuffix
    <2>5. retry' \in Seq(Sent)
      BY <1>1, <2>2, <2>3
    <2>6. \A q \in Publishers : pub'[q].evt \in Sent'
      BY <1>1 DEF CheckpointInv, AllSent, Sent
    <2> QED BY <1>1, <2>1, <2>4, <2>5, <2>6, SentBus DEF CheckpointInv
  <1>4. Ledger'
    <2>1. ASSUME NEW p \in Publishers, Newest(p)
          PROVE  Newest(p)'
      <3>1. e.rev < pub[p].evt.rev
        BY <1>0, <2>1 DEF Newest
      <3>2. \A i \in DOMAIN retry' : retry'[i].rev < pub[p].evt.rev
        BY <1>2, <2>1 DEF Newest
      <3>3. ASSUME Unstreamed(p)
            PROVE  \A i \in DOMAIN stream' : stream'[i].rev < pub[p].evt.rev
        <4>1. \A i \in DOMAIN stream : stream[i].rev < pub[p].evt.rev
          BY <2>1, <3>3 DEF Newest
        <4>2. CASE stream' \in Trimmed(Append(stream, e))
          <5> DEFINE u == Append(stream, e)
          <5>1. /\ u \in Seq(Event) /\ \A i \in DOMAIN u :
                      u[i] = e \/ (i \in DOMAIN stream /\ u[i] = stream[i])
            BY <1>0, AppendEntries
          <5> HIDE DEF u
          <5>2. Suffix(stream', u) /\ stream' \in Seq(Event)
            BY <4>2, <5>1, TrimmedSuffix DEF u
          <5>3. PICK k \in Nat : /\ Len(u) = Len(stream') + k
                                 /\ \A i \in DOMAIN stream' : stream'[i] = u[i + k]
            BY <5>2 DEF Suffix
          <5>4. \A i \in DOMAIN stream' : i + k \in DOMAIN u
            BY <5>1, <5>2, <5>3
          <5> QED BY <3>1, <4>1, <5>1, <5>3, <5>4
        <4> QED BY <1>1, <4>1, <4>2
      <3> QED BY <1>1, <2>1, <3>2, <3>3 DEF Newest, Unstreamed
    <2> QED BY <1>1, <2>1 DEF CheckpointInv, Ledger, InPublish, InDatabase
  <1>5. StreamSound'
    <2>1. \A f \in published : ToStream(f) => f = e \/ ToStream(f)'
      BY <1>1, <1>2 DEF ToStream, Unstreamed
    <2>2. CASE stream' \in Trimmed(Append(stream, e)) /\ e.change \in raced'
      <3>1. ~OnTime(e)'
        BY <2>2 DEF OnTime
      <3> QED BY <1>0, <1>1, <2>1, <2>2, <3>1, StreamAppend DEF CheckpointInv
    <2>3. CASE stream' = stream
      <3>1. \A f \in published : ToStream(f) => ToStream(f)' \/ Excused(f)'
        BY <1>1, <1>2 DEF ToStream, Unstreamed, Excused
      <3> QED BY <1>1, <2>3, <3>1, StreamStays DEF CheckpointInv
    <2> QED BY <1>1, <2>2, <2>3
  <1>6. /\ \A p \in Publishers : InPublish(p) => InPublish(p)' /\ pub'[p].evt = pub[p].evt
        /\ rev <= rev'
    BY <1>0, <1>1 DEF InPublish
  <1> QED BY <1>1, <1>3, <1>4, <1>5, <1>6, BusFrame

\* An expired stream holds nothing.
LEMMA CheckpointExpire ==
    ASSUME TypeOK, TypeOK', CheckpointInv, StreamExpire
    PROVE  CheckpointInv'
  <1>1. /\ stream' = <<>> /\ rev \in Nat
        /\ UNCHANGED <<rev, db, commits, retry, workQueue, pub, conn, published, lost,
                       raced, applied, mirror, loggedIn>>
    BY CheckpointTypes DEF StreamExpire, client
  <1>2. AllSent'
    <2>1. <<>> \in Seq(Sent)
      OBVIOUS
    <2>2. \A q \in Publishers : pub'[q].evt \in Sent'
      BY <1>1 DEF CheckpointInv, AllSent, Sent
    <2> QED BY <1>1, <2>1, <2>2, SentBus DEF CheckpointInv, AllSent
  <1>3. Ledger'
    <2>1. \A p \in Publishers : Newest(p) => Newest(p)'
      BY <1>1 DEF Newest, Unstreamed
    <2> QED BY <1>1, <2>1 DEF CheckpointInv, Ledger, InPublish, InDatabase
  <1>4. StreamSound'
    BY <1>1 DEF StreamSound, InOrder
  <1>5. /\ \A p \in Publishers : InPublish(p) => InPublish(p)' /\ pub'[p].evt = pub[p].evt
        /\ rev <= rev'
    BY <1>1 DEF InPublish
  <1> QED BY <1>1, <1>2, <1>3, <1>4, <1>5, BusFrame

\* The newest event in a queue: an awaited one that is older is in the queue.
LEMMA QueueHerald ==
    ASSUME NEW c \in Clients, NEW e \in Event, ResumeSound(c),
           conn[c].out \in Seq(Event),
           conn'[c].out = Append(conn[c].out, e),
           UNCHANGED <<published, applied[c]>>, lost \subseteq lost', raced \subseteq raced',
           \A f \in Awaited(c) : f.rev < e.rev => \E i \in DOMAIN conn[c].out : conn[c].out[i] = f
    PROVE  Heralded(c)'
  <1>1. \A f \in Awaited(c)' : f \in Awaited(c)
    BY DEF Awaited, Excused
  <1> DEFINE s == conn[c].out
             t == conn'[c].out
  <1>2. /\ t = Append(s, e) /\ s \in Seq(Event)
        /\ DOMAIN s = 1 .. Len(s) /\ DOMAIN t = 1 .. Len(s) + 1 /\ Len(s) \in Nat
        /\ \A i \in 1 .. Len(s) : t[i] = s[i]
        /\ t[Len(s) + 1] = e
    OBVIOUS
  <1>3. ASSUME NEW i \in DOMAIN t, NEW f \in Awaited(c)', f.rev < t[i].rev
        PROVE  \E j \in DOMAIN t : j < i /\ t[j] = f
    <2>1. f \in Awaited(c)
      BY <1>1
    <2>2. CASE i = Len(s) + 1
      <3>1. PICK j \in DOMAIN s : s[j] = f
        BY <1>2, <1>3, <2>1, <2>2
      <3> QED BY <1>2, <2>2, <3>1
    <2>3. CASE i \in 1 .. Len(s)
      <3>1. PICK j \in DOMAIN s : j < i /\ s[j] = f
        BY <1>2, <1>3, <2>1, <2>3 DEF ResumeSound, Heralded
      <3> QED BY <1>2, <3>1
    <2> QED BY <1>2, <2>2, <2>3
  <1> QED BY <1>3 DEF Heralded

\* The worker queues its event behind all awaited ones that are older.
LEMMA WorkerHerald ==
    ASSUME TypeOK, OrderInv, CheckpointInv, NEW c \in Clients, conn[c].pc = "resumed",
           NEW e \in Event, workQueue # <<>>, e = Head(workQueue),
           conn'[c].out = Append(conn[c].out, e), conn'[c].todo = conn[c].todo,
           UNCHANGED <<published, lost, raced, applied>>
    PROVE  ResumeSound(c)'
  <1>0. /\ conn[c].out \in Seq(Event) /\ workQueue \in Seq(Event) /\ workQueue \in Seq(Sent)
        /\ e.rev \in Nat /\ \A f \in published : f.rev \in Nat /\ f.rev > 0
    BY CheckpointTypes DEF CheckpointInv, AllSent, Ledger, Event
  <1>1. /\ e = workQueue[1] /\ 1 \in DOMAIN workQueue
        /\ \A i \in DOMAIN workQueue : i \in Nat /\ i >= 1
        /\ e \in Sent
    BY <1>0
  <1>2. ResumeSound(c) /\ \A f \in Awaited(c) : OnItsWay(f, c)
    BY DEF CheckpointInv, ClientInv, ClientSound
  <1>3. ASSUME NEW f \in Awaited(c), f.rev < e.rev
        PROVE  \E i \in DOMAIN conn[c].out : conn[c].out[i] = f
    <2>1. f \in published /\ f.rev \in Nat /\ f.rev > 0 /\ e \in published
      BY <1>0, <1>1, <1>3 DEF Awaited, Sent
    <2>2. ASSUME NEW p \in Publishers, InPublish(p), pub[p].evt = f
          PROVE  FALSE
      <3>1. e.rev <= f.rev
        BY <2>1, <2>2 DEF CheckpointInv, Ledger, Newest
      <3> QED BY <1>0, <1>3, <2>1, <3>1
    <2>3. ASSUME NEW i \in DOMAIN workQueue, workQueue[i] = f
          PROVE  FALSE
      <3>1. CASE i = 1
        BY <1>0, <1>1, <1>3, <2>1, <2>3, <3>1
      <3>2. CASE 1 < i
        <4>1. e.rev < f.rev
          BY <1>0, <1>1, <1>3, <2>1, <2>3, <3>2 DEF OrderInv, FanoutOrdered, OrderedByRev
        <4> QED BY <1>0, <1>3, <2>1, <4>1
      <3> QED BY <1>1, <3>1, <3>2
    <2> QED BY <1>2, <2>2, <2>3 DEF OnItsWay
  <1>4. Heralded(c)'
    BY <1>0, <1>2, <1>3, QueueHerald
  <1>5. HeraldedAgain(c)'
    <2>1. \A i \in DOMAIN conn[c].out : i \in DOMAIN conn'[c].out /\ conn'[c].out[i] = conn[c].out[i]
      BY <1>0, AppendEntries
    <2>2. \A f \in Awaited(c)' : f \in Awaited(c)
      BY DEF Awaited, Excused
    <2> QED BY <1>2, <2>1, <2>2 DEF ResumeSound, HeraldedAgain
  <1> QED BY <1>4, <1>5 DEF ResumeSound

\* The worker hands the next event to every registered connection, or closes
\* the connections that have no room for it.
LEMMA CheckpointWorker ==
    ASSUME TypeOK, TypeOK', OrderInv, CheckpointInv, SubscriberWorker
    PROVE  CheckpointInv'
  <1>e. PICK e \in Event : e = Head(workQueue) /\ workQueue # <<>>
    BY CheckpointTypes DEF SubscriberWorker
  <1>0. /\ workQueue \in Seq(Event) /\ rev \in Nat
        /\ \A i \in DOMAIN workQueue : i = 1
              \/ (i - 1 \in DOMAIN Tail(workQueue) /\ Tail(workQueue)[i - 1] = workQueue[i])
        /\ workQueue[1] = e
    BY <1>e, CheckpointTypes, TailSuffix
  <1>1. /\ workQueue' = Tail(workQueue)
        /\ UNCHANGED <<rev, db, commits, stream, retry, pub, published, lost, raced,
                       applied, mirror, loggedIn>>
    BY DEF SubscriberWorker, client, history
  <1>2. e \in Sent /\ workQueue' \in Seq(Sent) /\ Sent' = Sent
    <2>1. workQueue \in Seq(Sent)
      BY DEF CheckpointInv, AllSent
    <2> QED BY <1>1, <1>e, <2>1 DEF Sent
  <1>3. ASSUME NEW c \in Clients
        PROVE  \/ conn'[c] = Down
               \/ conn'[c] = conn[c]
                  /\ (conn[c].pc = "down" \/ e.type = "session.revoked")
               \/ /\ conn'[c].out = Append(conn[c].out, e)
                  /\ UNCHANGED <<conn[c].pc, conn[c].base, conn[c].since, conn[c].todo,
                                 conn[c].snap>>
    <2> DEFINE x == [conn[c] EXCEPT !.out = Append(@, e)]
    <2>1. conn[c] \in Connection
      BY DEF TypeOK
    <2>2. /\ x.out = Append(conn[c].out, e) /\ x.pc = conn[c].pc /\ x.base = conn[c].base
          /\ x.since = conn[c].since /\ x.todo = conn[c].todo /\ x.snap = conn[c].snap
      BY <2>1 DEF Connection
    <2>3. \/ conn'[c] = Down
          \/ conn'[c] = conn[c] /\ (~Registered(c) \/ ~EventVisibleToFamily(e, c))
          \/ conn'[c] = x
      BY <1>e DEF SubscriberWorker
    <2>4. ~EventVisibleToFamily(e, c) => e.type = "session.revoked"
      BY DEF EventVisibleToFamily
    <2> HIDE DEF x
    <2> QED BY <2>2, <2>3, <2>4 DEF Registered
  <1>4. ASSUME NEW c \in Clients
        PROVE  SentConn(conn'[c])
    <2>1. SentConn(conn[c])
      BY DEF CheckpointInv, AllSent
    <2>2. Append(conn[c].out, e) \in Seq(Sent)
      BY <1>2, <2>1 DEF SentConn
    <2>3. SentConn(Down)
      <3>1. <<>> \in Seq(Sent)
        OBVIOUS
      <3> QED BY <3>1 DEF SentConn, Down
    <2> QED BY <1>3, <2>1, <2>2, <2>3 DEF SentConn
  <1>5. AllSent'
    <2>1. \A c \in Clients : SentConn(conn[c])'
      BY <1>2, <1>4 DEF SentConn
    <2>2. /\ \A p \in Publishers : pub'[p].evt \in Sent'
          /\ stream' \in Seq(Sent') /\ retry' \in Seq(Sent') /\ workQueue' \in Seq(Sent')
      BY <1>1, <1>2 DEF CheckpointInv, AllSent
    <2> QED BY <2>1, <2>2 DEF AllSent
  <1>6. Ledger'
    <2>1. \A p \in Publishers : Newest(p) => Newest(p)'
      BY <1>1 DEF Newest, Unstreamed
    <2> QED BY <1>1, <2>1 DEF CheckpointInv, Ledger, InPublish, InDatabase
  <1>7. StreamSound'
    <2>1. \A f \in published : ToStream(f) => ToStream(f)'
      BY <1>1 DEF ToStream, Unstreamed
    <2> QED BY <1>1, <2>1, StreamStays DEF CheckpointInv
  <1>8. ASSUME NEW c \in Clients
        PROVE  Stays(c)
    <2>1. rev <= rev' /\ published' \ published = {}
      BY <1>0, <1>1
    <2>2. conn[c].out \in Seq(Event)
      BY CheckpointTypes
    <2>3. ASSUME conn'[c] # Down, conn[c].pc # "down", NEW f \in published,
                 f.type = "row", OnItsWay(f, c)
          PROVE  OnItsWay(f, c)'
      <3>1. /\ \A i \in DOMAIN conn[c].out : /\ i \in DOMAIN conn'[c].out
                                             /\ conn'[c].out[i] = conn[c].out[i]
            /\ f = e => \E i \in DOMAIN conn'[c].out : conn'[c].out[i] = e
        <4>1. CASE conn'[c].out = Append(conn[c].out, e)
          BY <2>2, <4>1, AppendEntries
        <4>2. CASE conn'[c] = conn[c] /\ e.type = "session.revoked"
          BY <2>3, <4>2
        <4> QED BY <1>3, <2>3, <4>1, <4>2
      <3>2. \A i \in DOMAIN workQueue : \/ \E j \in DOMAIN workQueue' : workQueue'[j] = workQueue[i]
                                        \/ workQueue[i] = e
        BY <1>0, <1>1
      <3>3. CASE \E p \in Publishers : InPublish(p) /\ pub[p].evt = f
        BY <1>1, <3>3 DEF OnItsWay, InPublish
      <3>4. CASE \E i \in DOMAIN workQueue : workQueue[i] = f
        BY <3>1, <3>2, <3>4 DEF OnItsWay
      <3>5. CASE \E i \in DOMAIN conn[c].out : conn[c].out[i] = f
        BY <3>1, <3>5 DEF OnItsWay
      <3> QED BY <2>3, <3>3, <3>4, <3>5 DEF OnItsWay
    <2>4. \/ conn'[c] = Down
          \/ UNCHANGED <<conn[c].pc, conn[c].base, conn[c].since, conn[c].todo,
                         conn[c].snap>>
      BY <1>3
    <2>5. ASSUME conn'[c] # Down, conn[c].pc = "resumed"
          PROVE  ResumeSound(c)'
      <3>1. ResumeSound(c)
        BY <2>5 DEF CheckpointInv, ClientInv, ClientSound
      <3>2. CASE conn'[c] = conn[c]
        BY <1>1, <3>1, <3>2 DEF ResumeSound, Heralded, HeraldedAgain, Awaited, Excused
      <3>3. CASE /\ conn'[c].out = Append(conn[c].out, e)
                 /\ conn'[c].todo = conn[c].todo
        BY <1>0, <1>1, <1>e, <2>5, <3>3, WorkerHerald
      <3> QED BY <1>3, <2>5, <3>2, <3>3
    <2> QED BY <1>1, <2>1, <2>3, <2>4, <2>5 DEF Stays
  <1>9. \A c \in Clients : ClientInv(c)'
    BY <1>6, <1>8, ClientStays DEF CheckpointInv
  <1> QED BY <1>5, <1>6, <1>7, <1>9 DEF CheckpointInv

\* A crash closes every connection and excuses what it forgets.
LEMMA CheckpointCrash ==
    ASSUME TypeOK, TypeOK', CheckpointInv, ServerCrash
    PROVE  CheckpointInv'
  <1>1. /\ workQueue' = <<>> /\ \A p \in Publishers : pub'[p] = Idle
        /\ \A c \in Clients : conn'[c] = Down
        /\ lost \subseteq lost'
        /\ \A p \in Publishers : Unstreamed(p) => pub[p].evt.change \in lost'
        /\ UNCHANGED <<rev, db, commits, stream, retry, published, raced,
                       applied, mirror, loggedIn>>
    BY DEF ServerCrash, client, Unstreamed
  <1>2. \A p \in Publishers : ~InPublish(p)' /\ pub'[p].pc = "idle"
    BY <1>1 DEF InPublish, Idle
  <1>3. AllSent'
    <2>1. Idle.evt \in Event /\ Idle.evt.rev = 0
      BY DEF Idle, Event, Families
    <2>2. <<>> \in Seq(Sent) /\ Idle.evt \in Sent /\ Sent' = Sent
      BY <1>1, <2>1 DEF Sent
    <2>3. \A c \in Clients : SentConn(conn[c])'
      <3>1. \A c \in Clients : conn'[c].todo = <<>> /\ conn'[c].out = <<>>
        BY <1>1 DEF Down
      <3> QED BY <2>2, <3>1 DEF SentConn
    <2>4. \A p \in Publishers : pub'[p].evt \in Sent'
      BY <1>1, <2>2
    <2> QED BY <1>1, <2>2, <2>3, <2>4 DEF CheckpointInv, AllSent
  <1>4. Ledger'
    BY <1>1, <1>2 DEF CheckpointInv, Ledger, InDatabase
  <1>5. StreamSound'
    <2>1. ASSUME NEW f \in published, ToStream(f)
          PROVE  ToStream(f)' \/ Excused(f)'
      BY <1>1, <2>1 DEF ToStream, Excused
    <2> QED BY <1>1, <2>1, StreamStays DEF CheckpointInv
  <1>6. ASSUME NEW c \in Clients
        PROVE  Stays(c)
    <2>1. rev <= rev' /\ published' \ published = {}
      BY <1>1, CheckpointTypes
    <2> QED BY <1>1, <2>1 DEF Stays
  <1>7. \A c \in Clients : ClientInv(c)'
    BY <1>4, <1>6, ClientStays DEF CheckpointInv
  <1> QED BY <1>3, <1>4, <1>5, <1>7 DEF CheckpointInv

----------------------------------------------------------------------------
(***************************************************************************)
(* The steps of a connection and its client, one lemma each.               *)
(***************************************************************************)
\* What a frame does to the client that reads it, and to no other.
LEMMA FrameMoves ==
    ASSUME TypeOK, NEW c \in Clients, NEW e \in Event, NEW next, OnEvent(c, e, next)
    PROVE  /\ \A d \in Clients \ {c} :
                 UNCHANGED <<conn[d], applied[d], mirror[d], loggedIn[d]>>
           /\ \/ /\ ~ShouldApplyFrame(c, e.rev) /\ conn'[c] = next
                 /\ UNCHANGED <<applied[c], mirror[c], loggedIn[c]>>
              \/ conn'[c] = Down /\ applied'[c] = 0 /\ ~loggedIn'[c]
              \/ /\ ShouldApplyFrame(c, e.rev) /\ conn'[c] = next /\ e.type = "row"
                 /\ applied'[c] = e.rev
                 /\ mirror'[c] = [mirror[c] EXCEPT ![e.key] = e.change]
                 /\ loggedIn'[c] = loggedIn[c]
  <1>0. /\ conn \in [Clients -> Connection] /\ applied \in [Clients -> Nat]
        /\ mirror \in [Clients -> [Keys -> Nat]] /\ loggedIn \in [Clients -> BOOLEAN]
    BY DEF TypeOK
  <1>1. CASE ~ShouldApplyFrame(c, e.rev)
    BY <1>0, <1>1 DEF OnEvent, client
  <1>2. CASE ShouldApplyFrame(c, e.rev) /\ e.type = "session.revoked"
    <2>1. Stop(c)
      BY <1>2 DEF OnEvent
    <2>2. conn'[c] = Down /\ applied'[c] = 0
      BY <1>0, <2>1 DEF Stop
    <2>3. loggedIn'[c] = FALSE
      BY <1>0, <2>1 DEF Stop
    <2>4. \A d \in Clients \ {c} : /\ conn'[d] = conn[d] /\ applied'[d] = applied[d]
                                   /\ mirror'[d] = mirror[d]
      BY <1>0, <2>1 DEF Stop
    <2>5. \A d \in Clients \ {c} : loggedIn'[d] = loggedIn[d]
      BY <1>0, <2>1 DEF Stop
    <2> QED BY <2>2, <2>3, <2>4, <2>5
  <1>3. CASE ShouldApplyFrame(c, e.rev) /\ e.type # "session.revoked"
    <2>1. e.type = "row"
      BY <1>3 DEF Event
    <2>2. /\ conn' = [conn EXCEPT ![c] = next]
          /\ applied' = [applied EXCEPT ![c] = e.rev]
          /\ mirror' = [mirror EXCEPT ![c][e.key] = e.change]
          /\ loggedIn' = loggedIn
      BY <1>3 DEF OnEvent
    <2>3. /\ mirror'[c] = [mirror[c] EXCEPT ![e.key] = e.change]
          /\ \A d \in Clients \ {c} : mirror'[d] = mirror[d]
      BY <1>0, <2>2
    <2>4. /\ conn'[c] = next /\ applied'[c] = e.rev
          /\ \A d \in Clients \ {c} : conn'[d] = conn[d] /\ applied'[d] = applied[d]
      BY <1>0, <2>2
    <2> QED BY <1>3, <2>1, <2>2, <2>3, <2>4
  <1> QED BY <1>1, <1>2, <1>3

\* Ending a session leaves nothing to cover.
LEMMA StopMoves ==
    ASSUME TypeOK, NEW c \in Clients, Stop(c)
    PROVE  /\ conn'[c] = Down /\ applied'[c] = 0 /\ ~loggedIn'[c]
           /\ \A d \in Clients \ {c} :
                 UNCHANGED <<conn[d], applied[d], mirror[d], loggedIn[d]>>
  <1>0. /\ conn \in [Clients -> Connection] /\ applied \in [Clients -> Nat]
        /\ mirror \in [Clients -> [Keys -> Nat]] /\ loggedIn \in [Clients -> BOOLEAN]
    BY DEF TypeOK
  <1>1. conn'[c] = Down /\ \A d \in Clients \ {c} : conn'[d] = conn[d]
    BY <1>0 DEF Stop
  <1>2. applied'[c] = 0 /\ \A d \in Clients \ {c} : applied'[d] = applied[d]
    BY <1>0 DEF Stop
  <1>3. \A d \in Clients \ {c} : mirror'[d] = mirror[d]
    BY <1>0 DEF Stop
  <1>4. loggedIn'[c] = FALSE /\ \A d \in Clients \ {c} : loggedIn'[d] = loggedIn[d]
    BY <1>0 DEF Stop
  <1> QED BY <1>1, <1>2, <1>3, <1>4

LEMMA ClientStopped ==
    ASSUME TypeOK, TypeOK', CheckpointInv, NEW c \in Clients, conn'[c] = Down,
           applied'[c] = 0, ~loggedIn'[c], published' = published
    PROVE  ClientInv(c)'
  <1>0. rev' \in Nat
    BY DEF TypeOK
  <1>1. conn'[c].pc = "down" /\ conn'[c].base = 0
    BY DEF Down
  <1>2. \A e \in published' : e.rev \in Nat /\ e.rev > 0
    BY CheckpointTypes DEF CheckpointInv, Ledger
  <1>3. ClientLedger(c)'
    BY <1>0, <1>1, <1>2 DEF ClientLedger
  <1>4. ClientSound(c)'
    BY <1>1 DEF ClientSound
  <1>5. ClientCovered(c)'
    BY DEF ClientCovered, Passed
  <1> QED BY <1>3, <1>4, <1>5 DEF ClientInv

\* Applying the oldest event that c waits for covers it, and skips nothing.
LEMMA EventCovered ==
    ASSUME TypeOK, CheckpointInv, NEW c \in Clients, NEW e \in published,
           e.type = "row", e.rev > applied[c], UNCHANGED published,
           lost \subseteq lost', raced \subseteq raced',
           applied'[c] = e.rev, mirror'[c] = [mirror[c] EXCEPT ![e.key] = e.change],
           loggedIn'[c] = loggedIn[c],
           \A f \in Awaited(c) : f.rev <= e.rev => f = e
    PROVE  ClientCovered(c)'
  <1>0. /\ e.key \in Keys /\ mirror[c] \in [Keys -> Nat] /\ applied[c] \in Nat
        /\ \A f \in published : f.rev \in Nat /\ f.change \in Nat
        /\ \A f \in published : f.type = "row" => f.key \in Keys
        /\ \A f, o \in published : f.rev = o.rev => f = o
    BY CheckpointTypes DEF CheckpointInv, Ledger, InDatabase
  <1>1. /\ mirror'[c][e.key] = e.change
        /\ \A k \in Keys \ {e.key} : mirror'[c][k] = mirror[c][k]
    BY <1>0
  <1>2. ASSUME NEW f \in published', Passed(c, f)'
        PROVE  Covered(c, f)' \/ Excused(f)'
    <2>1. f \in published /\ f.type = "row" /\ loggedIn[c] /\ f.rev <= e.rev /\ f.key \in Keys
      BY <1>0, <1>2 DEF Passed
    <2>2. CASE f.rev <= applied[c]
      <3>1. Covered(c, f) \/ Excused(f)
        BY <2>1, <2>2 DEF CheckpointInv, ClientInv, ClientCovered, Passed
      <3>2. Excused(f) => Excused(f)'
        BY DEF Excused
      <3>3. Overtaken(f) => Overtaken(f)'
        BY DEF Overtaken
      <3>4. CASE mirror[c][f.key] >= f.change
        <4>1. CASE f.key # e.key
          BY <1>1, <2>1, <3>4, <4>1 DEF Covered
        <4>2. CASE f.key = e.key /\ e.change >= f.change
          BY <1>1, <4>2 DEF Covered
        <4>3. CASE f.key = e.key /\ e.change < f.change
          <5>1. Overtaken(f)
            BY <1>0, <2>1, <2>2, <4>3 DEF Overtaken
          <5> QED BY <3>3, <5>1 DEF Covered
        <4> QED BY <1>0, <2>1, <4>1, <4>2, <4>3
      <3> QED BY <3>1, <3>2, <3>3, <3>4 DEF Covered
    <2>3. CASE f.rev > applied[c]
      <3>1. CASE f = e
        BY <1>0, <1>1, <3>1 DEF Covered
      <3>2. CASE f # e
        <4>1. Excused(f)
          BY <2>1, <2>3, <3>2 DEF Awaited
        <4> QED BY <4>1 DEF Excused
      <3> QED BY <3>1, <3>2
    <2> QED BY <1>0, <2>1, <2>2, <2>3
  <1> QED BY <1>2 DEF ClientCovered

\* A step that does not touch the mirror of c keeps it covered.
LEMMA CoveredStays ==
    ASSUME CheckpointInv, NEW c \in Clients,
           UNCHANGED <<published, applied[c], mirror[c], loggedIn[c]>>,
           lost \subseteq lost', raced \subseteq raced'
    PROVE  ClientCovered(c)'
  <1>1. ASSUME NEW e \in published', Passed(c, e)'
        PROVE  Covered(c, e)' \/ Excused(e)'
    <2>1. e \in published /\ Passed(c, e)
      BY <1>1 DEF Passed
    <2>2. Covered(c, e) \/ Excused(e)
      BY <2>1 DEF CheckpointInv, ClientInv, ClientCovered
    <2>3. Covered(c, e) => Covered(c, e)'
      BY DEF Covered, Overtaken
    <2>4. Excused(e) => Excused(e)'
      BY DEF Excused
    <2> QED BY <2>2, <2>3, <2>4
  <1> QED BY <1>1 DEF ClientCovered

\* A connection of c is opened or closed.
LEMMA CheckpointOpen ==
    ASSUME TypeOK, TypeOK', CheckpointInv, NEW c \in Clients,
           HandleEvents(c) \/ Disconnect(c)
    PROVE  CheckpointInv'
  <1>0. /\ conn \in [Clients -> Connection] /\ rev \in Nat /\ applied[c] \in Nat
        /\ \A e \in published : e.rev > 0 /\ e.rev \in Nat
    BY CheckpointTypes DEF TypeOK, CheckpointInv, Ledger
  <1>1. /\ conn'[c].todo = <<>> /\ conn'[c].out = <<>> /\ conn'[c].base = 0
        /\ conn'[c].pc = "down" \/ (conn'[c].pc = "registered" /\ conn'[c].since = applied[c])
        /\ \A d \in Clients \ {c} : conn'[d] = conn[d]
    <2> DEFINE x == [Down EXCEPT !.pc = "registered", !.since = applied[c]]
    <2>1. /\ x.todo = <<>> /\ x.out = <<>> /\ x.base = 0 /\ x.pc = "registered"
          /\ x.since = applied[c]
          /\ Down.todo = <<>> /\ Down.out = <<>> /\ Down.base = 0 /\ Down.pc = "down"
      BY DEF Down
    <2>2. conn' = [conn EXCEPT ![c] = x] \/ conn' = [conn EXCEPT ![c] = Down]
      BY DEF HandleEvents, Disconnect
    <2> HIDE DEF x
    <2> QED BY <1>0, <2>1, <2>2
  <1>2. UNCHANGED <<rev, db, commits, stream, retry, workQueue, pub, published, lost, raced,
                    applied, mirror, loggedIn>>
    BY DEF HandleEvents, Disconnect, server, client, history
  <1>3. ClientStep(c)
    BY <1>0, <1>1, <1>2 DEF ClientStep
  <1>4. SentConn(conn'[c])
    <2>1. <<>> \in Seq(Sent)
      OBVIOUS
    <2> QED BY <1>1, <2>1 DEF SentConn
  <1>5. ClientInv(c)'
    <2>1. ClientLedger(c)'
      BY <1>0, <1>1, <1>2 DEF CheckpointInv, ClientInv, ClientLedger
    <2>2. ClientSound(c)'
      BY <1>1 DEF ClientSound
    <2>3. ClientCovered(c)'
      BY <1>2, CoveredStays
    <2> QED BY <2>1, <2>2, <2>3 DEF ClientInv
  <1> QED BY <1>3, <1>4, <1>5, ClientFrame

\* The session of c ends.
LEMMA CheckpointEnd ==
    ASSUME TypeOK, TypeOK', CheckpointInv, NEW c \in Clients, Stop(c),
           UNCHANGED server, UNCHANGED history
    PROVE  CheckpointInv'
  <1>1. ClientStep(c)
    BY StopMoves, CheckpointTypes DEF ClientStep, server, history
  <1>2. SentConn(conn'[c])
    <2>1. <<>> \in Seq(Sent)
      OBVIOUS
    <2>2. conn'[c].todo = <<>> /\ conn'[c].out = <<>>
      BY StopMoves DEF Down
    <2> QED BY <2>1, <2>2 DEF SentConn
  <1>3. ClientInv(c)'
    BY StopMoves, ClientStopped DEF history
  <1> QED BY <1>1, <1>2, <1>3, ClientFrame

\* The handshake: a baseline is newer than all events there are.
LEMMA CheckpointAuth ==
    ASSUME TypeOK, TypeOK', CheckpointInv, NEW c \in Clients, AuthOk(c)
    PROVE  CheckpointInv'
  <1> DEFINE x == conn[c]
  <1>0. /\ conn \in [Clients -> Connection] /\ x \in Connection /\ rev \in Nat
        /\ applied[c] \in Nat /\ x.base \in Nat /\ x.pc = "registered"
        /\ \A e \in published : e.rev \in Nat /\ e.rev <= rev
        /\ \A e \in published : e.rev # x.base
    BY CheckpointTypes
       DEF TypeOK, CheckpointInv, Ledger, AuthOk, ClientInv, ClientLedger
  <1>1. /\ \/ rev' = rev + 1 /\ conn'[c].base = rev + 1
           \/ rev' = rev /\ conn'[c].base = x.base
        /\ conn'[c].pc = "authed" /\ conn'[c].since = x.since
        /\ conn'[c].todo = x.todo /\ conn'[c].out = x.out
        /\ \A d \in Clients \ {c} : conn'[d] = conn[d]
    <2> DEFINE y == [x EXCEPT !.pc = "authed", !.base = rev + 1]
               z == [x EXCEPT !.pc = "authed"]
    <2>1. /\ y.base = rev + 1 /\ y.pc = "authed" /\ y.since = x.since /\ y.todo = x.todo
          /\ y.out = x.out
          /\ z.base = x.base /\ z.pc = "authed" /\ z.since = x.since /\ z.todo = x.todo
          /\ z.out = x.out
      BY <1>0 DEF Connection
    <2>2. \/ rev' = rev + 1 /\ conn' = [conn EXCEPT ![c] = y]
          \/ rev' = rev /\ conn' = [conn EXCEPT ![c] = z]
      BY DEF AuthOk
    <2> HIDE DEF y, z
    <2>3. (conn'[c] = y \/ conn'[c] = z) /\ \A d \in Clients \ {c} : conn'[d] = conn[d]
      BY <1>0, <2>2
    <2> QED BY <1>0, <2>1, <2>2, <2>3
  <1>2. UNCHANGED <<db, commits, stream, retry, workQueue, pub, published, lost, raced,
                    applied, mirror, loggedIn>>
    BY DEF AuthOk, client
  <1>3. ClientStep(c)
    BY <1>0, <1>1, <1>2 DEF ClientStep
  <1>4. SentConn(conn'[c])
    BY <1>1 DEF CheckpointInv, AllSent, SentConn
  <1>5. ClientInv(c)'
    <2>1. ClientLedger(c)'
      BY <1>0, <1>1, <1>2 DEF CheckpointInv, ClientInv, ClientLedger
    <2>2. conn'[c].base > 0 => Queued(c)'
      <3>1. CASE conn'[c].base = rev + 1
        BY <1>0, <1>2, <3>1 DEF Queued
      <3>2. CASE conn'[c].base = x.base
        BY <1>0, <3>2 DEF CheckpointInv, ClientInv, ClientSound
      <3> QED BY <1>1, <3>1, <3>2
    <2>3. ClientSound(c)'
      BY <1>1, <2>2 DEF ClientSound
    <2>4. ClientCovered(c)'
      BY <1>2, CoveredStays
    <2> QED BY <2>1, <2>3, <2>4 DEF ClientInv
  <1> QED BY <1>3, <1>4, <1>5, ClientFrame

\* A window that is not truncated begins no later than since_rev: what it does
\* not have of the events above is excused, hidden or still to be streamed.
LEMMA WindowMisses ==
    ASSUME ConstantsAssumption, TypeOK, CheckpointInv, NEW since \in Nat, ~Truncated(since),
           StreamWindow # <<>>, NEW e \in published, e.rev > since, ~Excused(e),
           e.change \notin Hidden, ~ \E i \in DOMAIN StreamWindow : StreamWindow[i] = e
    PROVE  ToStream(e)
  <1> DEFINE w == StreamWindow
  <1>0. /\ e.rev \in Nat /\ stream \in Seq(Event) /\ stream \in Seq(Sent)
    BY CheckpointTypes DEF CheckpointInv, AllSent
  <1>1. /\ w \in Seq(Event) /\ w \in Seq(Sent) /\ Suffix(w, stream)
    BY <1>0, WindowSuffix
  <1>2. w[1].rev \in Nat /\ (w[1].rev = 0 \/ w[1].rev <= since + 1)
    <2>1. w[1].rev \in Nat
      BY <1>1, SeqRevs
    <2>2. ~(w[1].rev > 0 /\ w[1].rev > since + 1)
      BY DEF Truncated
    <2> QED BY <2>1, <2>2
  <1>3. OnTime(w[1])
    <2>1. ~(w[1].rev = 0 \/ w[1].change \in raced)
      BY DEF Hidden
    <2> QED BY <1>2, <2>1 DEF OnTime
  <1> HIDE DEF w
  <1>4. PICK k \in Nat : Len(stream) = Len(w) + k /\ \A i \in DOMAIN w : w[i] = stream[i + k]
    BY <1>1 DEF Suffix
  <1>5. /\ DOMAIN w = 1 .. Len(w) /\ Len(w) \in Nat /\ 1 \in DOMAIN w
        /\ DOMAIN stream = 1 .. Len(stream) /\ 1 + k \in DOMAIN stream
    BY <1>0, <1>1, <1>4 DEF w
  <1>6. Followed(1 + k, e)
    <2>1. w[1] = stream[1 + k] /\ w[1] \in published /\ w[1] # e
      BY <1>1, <1>3, <1>4, <1>5 DEF OnTime, Sent, w
    <2>2. w[1].rev # e.rev
      BY <2>1 DEF CheckpointInv, Ledger
    <2>3. e.rev > w[1].rev
      BY <1>0, <1>2, <2>2
    <2> QED BY <1>3, <1>5, <2>1, <2>3 DEF CheckpointInv, StreamSound
  <1>7. ASSUME NEW j \in DOMAIN stream, 1 + k < j, stream[j] = e
        PROVE  \E i \in DOMAIN w : w[i] = e
    <2>1. j - k \in DOMAIN w /\ (j - k) + k = j
      BY <1>4, <1>5, <1>7
    <2> QED BY <1>4, <1>7, <2>1
  <1> QED BY <1>6, <1>7 DEF Followed, w

\* What the window of a resume does not have of the events above since_rev is
\* excused, or is inside Publish with a revision above the baseline.
LEMMA ResumeWindow ==
    ASSUME ConstantsAssumption, TypeOK, CheckpointInv, NEW c \in Clients, Resume(c),
           NEW e \in published, e.rev > conn[c].since, e.change \notin lost \cup raced',
           ~ \E i \in DOMAIN StreamWindow : StreamWindow[i] = e
    PROVE  /\ \E p \in Publishers : Unstreamed(p) /\ pub[p].evt = e
           /\ ~(e.rev < conn[c].base)
  <1>1. /\ conn[c].since > 0 /\ ~Truncated(conn[c].since) /\ conn[c].since \in Nat
        /\ ~Excused(e) /\ e.change \notin InFlight(c) /\ e.change \notin Hidden
    BY CheckpointTypes DEF Resume, Excused
  <1>2. StreamWindow # <<>>
    BY <1>1 DEF Truncated
  <1>3. ToStream(e)
    BY <1>1, <1>2, WindowMisses
  <1>4. ~ \E i \in DOMAIN retry : retry[i] = e
    BY <1>1 DEF InFlight
  <1>5. PICK p \in Publishers : Unstreamed(p) /\ pub[p].evt = e
    BY <1>3, <1>4 DEF ToStream
  <1>6. ~(e.rev < conn[c].base)
    BY <1>1, <1>5 DEF InFlight, Unstreamed
  <1> QED BY <1>5, <1>6

\* A resume that the stream can serve: the window begins no later than the
\* checkpoint, so it holds all that c waits for, or it is on its way.
LEMMA CheckpointResume ==
    ASSUME ConstantsAssumption, TypeOK, TypeOK', CheckpointInv, NEW c \in Clients, Resume(c)
    PROVE  CheckpointInv'
  <1> DEFINE x == conn[c]
             w == StreamWindow
  <1>0. /\ conn \in [Clients -> Connection] /\ x \in Connection /\ rev \in Nat
        /\ applied[c] \in Nat /\ x.base \in Nat /\ x.since \in Nat
        /\ \A e \in published : e.rev \in Nat /\ e.rev > 0
        /\ \A i \in DOMAIN stream : stream[i].rev \in Nat
        /\ stream \in Seq(Event) /\ stream \in Seq(Sent)
    BY CheckpointTypes DEF TypeOK, CheckpointInv, Ledger, AllSent
  <1>1. /\ conn'[c].pc = "replay" /\ conn'[c].todo = w
        /\ conn'[c].base = x.base /\ conn'[c].since = x.since /\ conn'[c].out = x.out
        /\ \A d \in Clients \ {c} : conn'[d] = conn[d]
    <2> DEFINE y == [x EXCEPT !.pc = "replay", !.todo = w]
    <2>1. /\ y.pc = "replay" /\ y.todo = w /\ y.base = x.base /\ y.since = x.since
          /\ y.out = x.out
      BY <1>0 DEF Connection
    <2>2. conn' = [conn EXCEPT ![c] = y]
      BY DEF Resume
    <2> HIDE DEF y
    <2> QED BY <1>0, <2>1, <2>2
  <1>2. /\ x.pc = "authed" /\ x.since > 0 /\ ~Truncated(x.since)
        /\ raced' = raced \cup InFlight(c) \cup Hidden
        /\ UNCHANGED <<rev, db, commits, stream, retry, workQueue, pub, published, lost,
                       applied, mirror, loggedIn>>
    BY DEF Resume, server, client
  <1>3. /\ w \in Seq(Event) /\ w \in Seq(Sent) /\ Suffix(w, stream)
    BY <1>0, WindowSuffix
  <1> HIDE DEF w
  <1>4. ClientStep(c)
    BY <1>0, <1>1, <1>2 DEF ClientStep
  <1>5. SentConn(conn'[c])
    BY <1>1, <1>3 DEF CheckpointInv, AllSent, SentConn
  <1>6. x.since <= applied[c]
    BY <1>2 DEF CheckpointInv, ClientInv, ClientLedger
  <1>10. InOrder(conn[c].todo)'
    <2>1. InOrder(w)
      BY <1>0, <1>3, InOrderSuffix DEF CheckpointInv, StreamSound
    <2>2. \A e : OnTime(e)' => OnTime(e)
      BY <1>2 DEF OnTime
    <2> QED BY <1>1, <2>1, <2>2 DEF InOrder
  <1>11. ASSUME NEW e \in Awaited(c)'
         PROVE  \/ \E i \in DOMAIN w : w[i] = e
                \/ Live(e, c)' /\ \A i \in DOMAIN w : w[i].rev < e.rev
    <2>1. /\ e \in published /\ e.type = "row" /\ e.rev > applied[c] /\ ~Excused(e)
          /\ e.change \notin InFlight(c) /\ e.change \notin Hidden
      BY <1>2, <1>11 DEF Awaited, Excused
    <2>2. CASE \E i \in DOMAIN w : w[i] = e
      BY <2>2
    <2>3. CASE ~ \E i \in DOMAIN w : w[i] = e
      <3>1. /\ \E p \in Publishers : Unstreamed(p) /\ pub[p].evt = e
            /\ ~(e.rev < x.base)
        <4>1. e.rev > x.since /\ e.change \notin lost \cup raced'
          BY <1>0, <1>2, <1>6, <1>11, <2>1 DEF Awaited, Excused
        <4> QED BY <2>1, <2>3, <4>1, ResumeWindow DEF w
      <3>2. PICK p \in Publishers : Unstreamed(p) /\ pub[p].evt = e
        BY <3>1
      <3>3. e.rev > x.base
        BY <1>0, <2>1, <3>1 DEF CheckpointInv, ClientInv, ClientLedger
      <3>4. InPublish(p) /\ InPublish(p)' /\ pub'[p].evt = e
        BY <1>2, <3>2 DEF InPublish, Unstreamed
      <3>5. Live(e, c)'
        BY <1>1, <3>3, <3>4 DEF Live, OnItsWay
      <3>6. \A i \in DOMAIN stream : stream[i].rev < e.rev
        BY <1>0, <2>1, <3>2, <3>4 DEF CheckpointInv, Ledger, Newest
      <3>7. \A i \in DOMAIN w : \E j \in DOMAIN stream : w[i] = stream[j]
        BY <1>0, <1>3 DEF Suffix
      <3> QED BY <3>5, <3>6, <3>7
    <2> QED BY <2>2, <2>3
  <1>12. ClientInv(c)'
    <2>1. ClientLedger(c)'
      BY <1>0, <1>1, <1>2 DEF CheckpointInv, ClientInv, ClientLedger
    <2>2. ReplaySound(c)'
      BY <1>1, <1>10, <1>11 DEF ReplaySound
    <2>3. ClientSound(c)'
      BY <1>1, <2>2 DEF ClientSound
    <2>4. ClientCovered(c)'
      BY <1>2, CoveredStays
    <2> QED BY <2>1, <2>3, <2>4 DEF ClientInv
  <1> QED BY <1>4, <1>5, <1>12, ClientFrame

\* The way to a snapshot: what comes after the baseline stays queued, and a
\* snapshot that is read now has the changes of all events there are.
LEMMA CheckpointRead ==
    ASSUME TypeOK, TypeOK', CheckpointInv, NEW c \in Clients,
           SnapshotRequired(c) \/ BuildSnapshot(c)
    PROVE  CheckpointInv'
  <1> DEFINE x == conn[c]
  <1>0. /\ conn \in [Clients -> Connection] /\ x \in Connection /\ rev \in Nat
        /\ x.base \in Nat /\ x.pc \in {"authed", "snapshot"} /\ applied[c] \in Nat
    BY DEF TypeOK, Connection, SnapshotRequired, BuildSnapshot
  <1>1. /\ \/ conn'[c].pc = "snapshot"
           \/ conn'[c].pc = "built" /\ conn'[c].snap = db
        /\ conn'[c].base = x.base /\ conn'[c].since \in {0, x.since}
        /\ conn'[c].todo = x.todo /\ conn'[c].out = x.out
        /\ \A d \in Clients \ {c} : conn'[d] = conn[d]
    <2> DEFINE y == [x EXCEPT !.pc = "snapshot", !.since = 0]
               z == [x EXCEPT !.pc = "built", !.snap = db]
    <2>1. /\ y.pc = "snapshot" /\ y.base = x.base /\ y.since = 0
          /\ y.todo = x.todo /\ y.out = x.out
          /\ z.pc = "built" /\ z.base = x.base /\ z.since = x.since
          /\ z.todo = x.todo /\ z.out = x.out /\ z.snap = db
      BY <1>0 DEF Connection
    <2>2. conn' = [conn EXCEPT ![c] = y] \/ conn' = [conn EXCEPT ![c] = z]
      BY DEF SnapshotRequired, BuildSnapshot
    <2> HIDE DEF y, z
    <2>3. (conn'[c] = y \/ conn'[c] = z) /\ \A d \in Clients \ {c} : conn'[d] = conn[d]
      BY <1>0, <2>2
    <2> QED BY <2>1, <2>3
  <1>2. UNCHANGED <<rev, db, commits, stream, retry, workQueue, pub, published, lost, raced,
                    applied, mirror, loggedIn>>
    BY DEF SnapshotRequired, BuildSnapshot, server, client, history
  <1>3. ClientStep(c)
    BY <1>0, <1>1, <1>2 DEF ClientStep
  <1>4. SentConn(conn'[c])
    BY <1>1 DEF CheckpointInv, AllSent, SentConn
  <1>5. ClientInv(c)'
    <2>1. ClientLedger(c)'
      BY <1>0, <1>1, <1>2 DEF CheckpointInv, ClientInv, ClientLedger
    <2>2. conn'[c].base > 0 => Queued(c)'
      <3>1. x.base > 0 => Queued(c)
        BY <1>0 DEF CheckpointInv, ClientInv, ClientSound
      <3>2. \A e : OnItsWay(e, c) => OnItsWay(e, c)'
        BY <1>1, <1>2 DEF OnItsWay, InPublish
      <3> QED BY <1>1, <1>2, <3>1, <3>2 DEF Queued, Excused
    <2>3. conn'[c].pc = "built" => SnapshotSound(c)'
      BY <1>1, <1>2 DEF SnapshotSound, CheckpointInv, Ledger, InDatabase
    <2>4. ClientSound(c)'
      BY <1>1, <2>2, <2>3 DEF ClientSound
    <2>5. ClientCovered(c)'
      BY <1>2, CoveredStays
    <2> QED BY <2>1, <2>4, <2>5 DEF ClientInv
  <1> QED BY <1>3, <1>4, <1>5, ClientFrame

\* The snapshot frame.  Applied, it covers all that was stamped before the
\* baseline; passed over, it loses what it carried.
LEMMA CheckpointWritten ==
    ASSUME TypeOK, TypeOK', CheckpointInv, NEW c \in Clients, WriteSnapshot(c)
    PROVE  CheckpointInv'
  <1> DEFINE x == conn[c]
  <1>0. /\ conn \in [Clients -> Connection] /\ x \in Connection /\ rev \in Nat
        /\ x.base \in Nat /\ x.since \in Nat /\ applied[c] \in Nat /\ x.pc = "built"
        /\ applied \in [Clients -> Nat] /\ mirror \in [Clients -> [Keys -> Nat]]
        /\ x.snap \in [Keys -> Nat]
        /\ \A e \in published : e.rev \in Nat /\ e.change \in Nat
        /\ \A e \in published : e.type = "row" => e.key \in Keys
    BY CheckpointTypes DEF TypeOK, WriteSnapshot, CheckpointInv, Ledger, InDatabase
  <1>1. /\ conn'[c].pc = "baselined" /\ conn'[c].base = x.base /\ conn'[c].since = x.since
        /\ conn'[c].todo = x.todo /\ conn'[c].out = x.out
        /\ \A d \in Clients \ {c} : conn'[d] = conn[d]
    <2> DEFINE y == [x EXCEPT !.pc = "baselined", !.snap = NoRows]
    <2>1. /\ y.pc = "baselined" /\ y.base = x.base /\ y.since = x.since
          /\ y.todo = x.todo /\ y.out = x.out
      BY <1>0 DEF Connection
    <2>2. conn' = [conn EXCEPT ![c] = y]
      BY DEF WriteSnapshot
    <2> HIDE DEF y
    <2> QED BY <1>0, <2>1, <2>2
  <1>2. /\ UNCHANGED <<rev, db, commits, stream, retry, workQueue, pub, published, raced,
                       loggedIn>>
        /\ lost \subseteq lost'
        /\ \A d \in Clients \ {c} : applied'[d] = applied[d] /\ mirror'[d] = mirror[d]
    BY <1>0 DEF WriteSnapshot, server
  <1>3. ClientStep(c)
    BY <1>0, <1>1, <1>2 DEF ClientStep
  <1>4. SentConn(conn'[c])
    BY <1>1 DEF CheckpointInv, AllSent, SentConn
  <1>5. \A e : OnItsWay(e, c) => OnItsWay(e, c)'
    BY <1>1, <1>2 DEF OnItsWay, InPublish
  <1>6. SnapshotSound(c) /\ (x.base > 0 => Queued(c))
    BY <1>0 DEF CheckpointInv, ClientInv, ClientSound
  <1>7. CASE ShouldApplyFrame(c, x.base)
    <2>1. /\ applied'[c] = x.base /\ mirror'[c] = x.snap /\ lost' = lost
          /\ x.base > 0 /\ x.base > applied[c]
      BY <1>0, <1>7 DEF WriteSnapshot, ShouldApplyFrame
    <2>2. ClientLedger(c)'
      BY <1>0, <1>1, <1>2, <2>1 DEF CheckpointInv, ClientInv, ClientLedger
    <2>3. \A e \in Awaited(c)' : OnItsWay(e, c)'
      BY <1>2, <1>5, <1>6, <2>1 DEF Awaited, Queued, Excused
    <2>4. ClientSound(c)'
      BY <1>0, <1>1, <2>1, <2>3 DEF ClientSound
    <2>5. ASSUME NEW e \in published', Passed(c, e)'
          PROVE  Covered(c, e)' \/ Excused(e)'
      <3>1. e \in published /\ e.type = "row" /\ e.rev <= x.base /\ e.key \in Keys
        BY <1>0, <1>2, <2>1, <2>5 DEF Passed
      <3>2. ~Live(e, c)
        BY <1>0, <3>1 DEF Live
      <3>3. e.change <= x.snap[e.key] \/ Excused(e)
        BY <1>6, <3>1, <3>2 DEF SnapshotSound
      <3> QED BY <1>0, <1>2, <2>1, <3>1, <3>3 DEF Covered, Excused
    <2>6. ClientCovered(c)'
      BY <2>5 DEF ClientCovered
    <2>7. ClientInv(c)'
      BY <2>2, <2>4, <2>6 DEF ClientInv
    <2> QED BY <1>3, <1>4, <2>7, ClientFrame
  <1>8. CASE ~ShouldApplyFrame(c, x.base)
    <2>1. /\ UNCHANGED <<applied, mirror>> /\ lost' = lost \cup Carried(c)
          /\ x.base <= applied[c]
      BY <1>0, <1>8 DEF WriteSnapshot, ShouldApplyFrame
    <2>2. ClientLedger(c)'
      BY <1>0, <1>1, <1>2, <2>1 DEF CheckpointInv, ClientInv, ClientLedger
    <2>3. ASSUME NEW e \in Awaited(c)'
          PROVE  OnItsWay(e, c)'
      <3>1. /\ e \in published /\ e.type = "row" /\ ~Excused(e)
            /\ e.change \notin Carried(c)
        BY <1>2, <2>1, <2>3 DEF Awaited, Excused
      <3>2. ~(e.change <= x.snap[e.key])
        BY <3>1 DEF Carried
      <3>3. OnItsWay(e, c)
        BY <1>6, <3>1, <3>2 DEF SnapshotSound, Live
      <3> QED BY <1>5, <3>3
    <2>4. ClientSound(c)'
      BY <1>1, <2>1, <2>3 DEF ClientSound
    <2>5. ClientCovered(c)'
      BY <1>2, <2>1, CoveredStays
    <2>6. ClientInv(c)'
      BY <2>2, <2>4, <2>5 DEF ClientInv
    <2> QED BY <1>3, <1>4, <2>6, ClientFrame
  <1> QED BY <1>7, <1>8

\* bootstrap_done moves the checkpoint to the baseline: after a replay all
\* that is still awaited is above it.
LEMMA CheckpointDone ==
    ASSUME TypeOK, TypeOK', CheckpointInv, NEW c \in Clients, BootstrapDone(c)
    PROVE  CheckpointInv'
  <1> DEFINE x == conn[c]
  <1>0. /\ conn \in [Clients -> Connection] /\ x \in Connection /\ rev \in Nat
        /\ x.base \in Nat /\ x.since \in Nat /\ applied[c] \in Nat
        /\ applied \in [Clients -> Nat]
        /\ \A e \in published : e.rev \in Nat /\ e.rev > 0
    BY CheckpointTypes DEF TypeOK, CheckpointInv, Ledger
  <1>1. /\ conn'[c].pc = "live" /\ conn'[c].base = 0 /\ conn'[c].since = 0
        /\ conn'[c].todo = <<>> /\ conn'[c].out = x.out
        /\ \A d \in Clients \ {c} : conn'[d] = conn[d]
    <2> DEFINE y == [Down EXCEPT !.pc = "live", !.out = x.out]
    <2>1. /\ y.pc = "live" /\ y.base = 0 /\ y.since = 0
          /\ y.todo = <<>> /\ y.out = x.out
      BY DEF Down
    <2>2. conn' = [conn EXCEPT ![c] = y]
      BY DEF BootstrapDone
    <2> HIDE DEF y
    <2> QED BY <1>0, <2>1, <2>2
  <1>2. /\ UNCHANGED <<rev, db, commits, stream, retry, workQueue, pub, published, lost,
                       raced, mirror, loggedIn>>
        /\ \A d \in Clients \ {c} : applied'[d] = applied[d]
        /\ applied'[c] = IF x.base > applied[c] THEN x.base ELSE applied[c]
    BY <1>0 DEF BootstrapDone, server, history
  <1>3. ClientStep(c)
    BY <1>0, <1>1, <1>2 DEF ClientStep
  <1>4. SentConn(conn'[c])
    <2>1. <<>> \in Seq(Sent)
      OBVIOUS
    <2> QED BY <1>1, <2>1 DEF CheckpointInv, AllSent, SentConn
  <1>5. \A e : OnItsWay(e, c) => OnItsWay(e, c)'
    BY <1>1, <1>2 DEF OnItsWay, InPublish
  <1>6. /\ \A e \in Awaited(c) : OnItsWay(e, c)
        /\ \A e \in Awaited(c) : e.rev > applied'[c]
    <2>1. CASE x.pc = "baselined"
      BY <1>0, <1>2, <2>1 DEF CheckpointInv, ClientInv, ClientSound, Awaited
    <2>2. CASE x.pc = "replay" /\ x.todo = <<>>
      <3>1. \A e \in Awaited(c) : Live(e, c)
        BY <2>2 DEF CheckpointInv, ClientInv, ClientSound, ReplaySound
      <3> QED BY <1>2, <3>1 DEF Live, Awaited
    <2> QED BY <2>1, <2>2 DEF BootstrapDone
  <1>7. ClientInv(c)'
    <2>1. ClientLedger(c)'
      <3>1. ClientLedger(c)
        BY DEF CheckpointInv, ClientInv
      <3>2. applied[c] <= applied'[c] /\ applied'[c] <= rev
        BY <1>0, <1>2, <3>1 DEF ClientLedger
      <3>3. x.pc # "down" /\ applied'[c] \in Nat
        BY <1>0, <1>2 DEF BootstrapDone
      <3> QED BY <1>0, <1>1, <1>2, <3>1, <3>2, <3>3 DEF ClientLedger
    <2>2. \A e \in Awaited(c)' : e \in Awaited(c)
      BY <1>0, <1>2 DEF Awaited, Excused
    <2>3. ClientSound(c)'
      BY <1>1, <1>5, <1>6, <2>2 DEF ClientSound
    <2>4. ASSUME NEW e \in published', Passed(c, e)'
          PROVE  Covered(c, e)' \/ Excused(e)'
      <3>1. e \in published /\ e.type = "row" /\ loggedIn[c] /\ e.rev <= applied'[c]
        BY <1>2, <2>4 DEF Passed
      <3>2. CASE e.rev <= applied[c]
        BY <1>2, <3>1, <3>2
           DEF CheckpointInv, ClientInv, ClientCovered, Passed, Covered, Overtaken, Excused
      <3>3. CASE e.rev > applied[c]
        <4>1. e \notin Awaited(c)
          BY <1>0, <1>2, <1>6, <3>1
        <4> QED BY <1>2, <3>1, <3>3, <4>1 DEF Awaited, Excused
      <3> QED BY <1>0, <3>1, <3>2, <3>3
    <2>5. ClientCovered(c)'
      BY <2>4 DEF ClientCovered
    <2> QED BY <2>1, <2>3, <2>5 DEF ClientInv
  <1> QED BY <1>3, <1>4, <1>7, ClientFrame

\* The client takes event e: it passes it over, or patches the row and moves
\* the checkpoint.
TakesEvent(c, e) ==
    /\ UNCHANGED <<conn[c].base, conn[c].since, conn[c].pc, loggedIn[c]>>
    /\ \/ e \notin Awaited(c) /\ UNCHANGED <<applied[c], mirror[c]>>
       \/ /\ e.type = "row" /\ e.rev > applied[c] /\ applied'[c] = e.rev
          /\ mirror'[c] = [mirror[c] EXCEPT ![e.key] = e.change]

\* When e is the first of the awaited events, the checkpoint stays covered
\* and e is awaited no more.
LEMMA EventTaken ==
    ASSUME TypeOK, CheckpointInv, NEW c \in Clients, NEW e \in Sent, TakesEvent(c, e),
           UNCHANGED <<rev, published, lost, raced>>, conn[c].pc # "down",
           \A f \in Awaited(c) : f.rev <= e.rev => f = e
    PROVE  /\ ClientLedger(c)' /\ ClientCovered(c)'
           /\ \A f \in Awaited(c)' : f \in Awaited(c) /\ f # e
  <1>0. /\ rev \in Nat /\ applied[c] \in Nat /\ conn[c].since \in Nat
        /\ \A f \in published : f.rev \in Nat /\ f.rev <= rev
        /\ e.rev \in Nat
    BY CheckpointTypes DEF CheckpointInv, Ledger, Sent, Event
  <1>1. ClientLedger(c)
    BY DEF CheckpointInv, ClientInv
  <1>2. CASE e \notin Awaited(c) /\ UNCHANGED <<applied[c], mirror[c]>>
    <2>1. ClientCovered(c)'
      BY <1>2, CoveredStays DEF TakesEvent
    <2>2. ClientLedger(c)'
      BY <1>1, <1>2 DEF TakesEvent, ClientLedger
    <2>3. \A f \in Awaited(c)' : f \in Awaited(c) /\ f # e
      BY <1>2 DEF Awaited, Excused
    <2> QED BY <2>1, <2>2, <2>3
  <1>3. CASE /\ e.type = "row" /\ e.rev > applied[c] /\ applied'[c] = e.rev
             /\ mirror'[c] = [mirror[c] EXCEPT ![e.key] = e.change]
    <2>1. e \in published
      BY <1>0, <1>3 DEF Sent
    <2>2. ClientCovered(c)'
      BY <1>3, <2>1, EventCovered DEF TakesEvent
    <2>3. ClientLedger(c)'
      <3>1. applied'[c] <= rev /\ applied[c] <= applied'[c]
        BY <1>0, <1>3, <2>1
      <3> QED BY <1>0, <1>1, <1>3, <3>1 DEF TakesEvent, ClientLedger
    <2>4. \A f \in Awaited(c)' : f \in Awaited(c) /\ f # e
      BY <1>0, <1>3 DEF Awaited, Excused
    <2> QED BY <2>2, <2>3, <2>4
  <1> QED BY <1>2, <1>3 DEF TakesEvent

\* A replayed frame: the replay is in order, so what it carries first is the
\* first of the awaited events, or none of them.
LEMMA CheckpointReplayed ==
    ASSUME TypeOK, TypeOK', CheckpointInv, NEW c \in Clients, WriteReplay(c)
    PROVE  CheckpointInv'
  <1> DEFINE x == conn[c]
             e == Head(x.todo)
             y == [x EXCEPT !.todo = Tail(x.todo)]
  <1>0. /\ conn \in [Clients -> Connection] /\ x \in Connection /\ rev \in Nat
        /\ x.base \in Nat /\ x.since \in Nat /\ applied[c] \in Nat
        /\ x.todo \in Seq(Event) /\ x.todo \in Seq(Sent) /\ x.out \in Seq(Sent)
        /\ x.pc = "replay" /\ x.todo # <<>>
        /\ \A f \in published : f.rev \in Nat /\ f.rev > 0
        /\ x.since <= applied[c]
    BY CheckpointTypes
       DEF TypeOK, CheckpointInv, Ledger, AllSent, SentConn, WriteReplay, ClientInv,
           ClientLedger
  <1>1. /\ e \in Event /\ e \in Sent /\ e.rev \in Nat /\ e = x.todo[1]
        /\ 1 \in DOMAIN x.todo
        /\ Tail(x.todo) \in Seq(Event) /\ Tail(x.todo) \in Seq(Sent)
        /\ \A i \in DOMAIN x.todo : x.todo[i].rev \in Nat
    BY <1>0, SeqRevs
  <1>2. /\ y.pc = "replay" /\ y.base = x.base /\ y.since = x.since
        /\ y.todo = Tail(x.todo) /\ y.out = x.out
    BY <1>0 DEF Connection
  <1>3. /\ UNCHANGED <<rev, db, commits, stream, retry, workQueue, pub, published, lost,
                       raced>>
        /\ UNCHANGED server /\ UNCHANGED history
    BY DEF WriteReplay, server, history
  <1>4. /\ \A d \in Clients \ {c} : UNCHANGED <<conn[d], applied[d], mirror[d], loggedIn[d]>>
        /\ \/ conn'[c] = Down /\ applied'[c] = 0 /\ ~loggedIn'[c]
           \/ conn'[c] = y /\ TakesEvent(c, e)
    <2>1. CASE ~(e.rev > x.since /\ EventVisibleToFamily(e, c))
      <3>1. conn' = [conn EXCEPT ![c] = y] /\ UNCHANGED client
        BY <2>1 DEF WriteReplay
      <3> HIDE DEF y
      <3>2. conn'[c] = y /\ \A d \in Clients \ {c} : conn'[d] = conn[d]
        BY <1>0, <3>1
      <3>3. e \notin Awaited(c)
        BY <1>0, <1>1, <2>1 DEF Awaited, EventVisibleToFamily
      <3> QED BY <1>0, <1>2, <3>1, <3>2, <3>3 DEF TakesEvent, client
    <2>2. CASE e.rev > x.since /\ EventVisibleToFamily(e, c)
      <3>1. OnEvent(c, e, y)
        BY <2>2 DEF WriteReplay
      <3> HIDE DEF y, e
      <3>2. /\ \A d \in Clients \ {c} :
                 UNCHANGED <<conn[d], applied[d], mirror[d], loggedIn[d]>>
            /\ \/ /\ ~ShouldApplyFrame(c, e.rev) /\ conn'[c] = y
                  /\ UNCHANGED <<applied[c], mirror[c], loggedIn[c]>>
               \/ conn'[c] = Down /\ applied'[c] = 0 /\ ~loggedIn'[c]
               \/ /\ ShouldApplyFrame(c, e.rev) /\ conn'[c] = y /\ e.type = "row"
                  /\ applied'[c] = e.rev
                  /\ mirror'[c] = [mirror[c] EXCEPT ![e.key] = e.change]
                  /\ loggedIn'[c] = loggedIn[c]
        <4>1. e \in Event
          BY <1>1
        <4> HIDE DEF x
        <4> QED BY <3>1, <4>1, FrameMoves, Zenon
      <3>3. ~ShouldApplyFrame(c, e.rev) => e \notin Awaited(c)
        BY <1>0, <1>1 DEF ShouldApplyFrame, Awaited
      <3> QED BY <1>0, <1>2, <3>2, <3>3 DEF TakesEvent, ShouldApplyFrame
    <2> QED BY <2>1, <2>2
  <1> HIDE DEF y, e
  <1>5. ClientStep(c)
    BY <1>0, <1>3, <1>4 DEF ClientStep
  <1>6. CASE conn'[c] = Down /\ applied'[c] = 0 /\ ~loggedIn'[c]
    <2>1. SentConn(conn'[c])
      <3>1. <<>> \in Seq(Sent)
        OBVIOUS
      <3> QED BY <1>6, <3>1 DEF SentConn, Down
    <2>2. ClientInv(c)'
      BY <1>3, <1>6, ClientStopped
    <2> QED BY <1>5, <2>1, <2>2, ClientFrame
  <1>7. CASE conn'[c] = y /\ TakesEvent(c, e)
    <2>0. ReplaySound(c)
      BY <1>0 DEF CheckpointInv, ClientInv, ClientSound
    <2>1. ASSUME NEW f \in Awaited(c), f.rev <= e.rev
          PROVE  f = e
      <3>1. f \in published /\ OnTime(f)
        BY <1>0 DEF Awaited, Excused, OnTime
      <3>2. CASE \E i \in DOMAIN x.todo : x.todo[i] = f
        <4>1. PICK i \in DOMAIN x.todo : x.todo[i] = f
          BY <3>2
        <4>2. CASE i = 1
          BY <1>1, <4>1, <4>2
        <4>3. CASE i # 1
          <5>1. 1 < i
            BY <1>0, <4>3
          <5>2. e.rev < f.rev
            BY <1>1, <2>0, <3>1, <4>1, <5>1 DEF ReplaySound, InOrder
          <5> QED BY <1>0, <1>1, <2>1, <3>1, <5>2
        <4> QED BY <4>2, <4>3
      <3>3. CASE \A i \in DOMAIN x.todo : x.todo[i].rev < f.rev
        BY <1>0, <1>1, <2>1, <3>1, <3>3
      <3> QED BY <2>0, <3>2, <3>3 DEF ReplaySound
    <2>2. /\ ClientLedger(c)' /\ ClientCovered(c)'
          /\ \A f \in Awaited(c)' : f \in Awaited(c) /\ f # e
      BY <1>0, <1>1, <1>3, <1>7, <2>1, EventTaken
    <2>3. SentConn(conn'[c])
      BY <1>0, <1>1, <1>2, <1>7 DEF SentConn
    <2>4. InOrder(conn[c].todo)'
      <3>1. InOrder(Tail(x.todo))
        BY <1>0, <1>1, <2>0, TailSuffix, InOrderSuffix DEF ReplaySound
      <3>2. \A f : OnTime(f)' => OnTime(f)
        BY <1>3 DEF OnTime
      <3> QED BY <1>2, <1>7, <3>1, <3>2 DEF InOrder
    <2>5. ASSUME NEW f \in Awaited(c)'
          PROVE  \/ \E i \in DOMAIN conn'[c].todo : conn'[c].todo[i] = f
                 \/ Live(f, c)' /\ \A i \in DOMAIN conn'[c].todo : conn'[c].todo[i].rev < f.rev
      <3>1. f \in Awaited(c) /\ f # e
        BY <2>2, <2>5
      <3>2. conn'[c].todo = Tail(x.todo)
        BY <1>2, <1>7
      <3>3. CASE \E i \in DOMAIN x.todo : x.todo[i] = f
        <4>1. PICK i \in DOMAIN x.todo : x.todo[i] = f
          BY <3>3
        <4>2. i # 1
          BY <1>1, <3>1, <4>1
        <4>3. i - 1 \in DOMAIN Tail(x.todo) /\ Tail(x.todo)[i - 1] = f
          BY <1>0, <4>1, <4>2, TailSuffix
        <4> QED BY <3>2, <4>3
      <3>4. CASE Live(f, c) /\ \A i \in DOMAIN x.todo : x.todo[i].rev < f.rev
        <4>1. Live(f, c)'
          BY <1>2, <1>3, <1>7, <3>4 DEF Live, OnItsWay, InPublish
        <4>2. \A i \in DOMAIN Tail(x.todo) :
                 Tail(x.todo)[i] = x.todo[i + 1] /\ i + 1 \in DOMAIN x.todo
          BY <1>0, TailSuffix
        <4>3. \A i \in DOMAIN Tail(x.todo) : Tail(x.todo)[i].rev < f.rev
          BY <3>4, <4>2
        <4> QED BY <3>2, <4>1, <4>3
      <3> QED BY <2>0, <3>1, <3>3, <3>4 DEF ReplaySound
    <2>6. ClientSound(c)'
      <3>1. ReplaySound(c)'
        BY <2>4, <2>5 DEF ReplaySound
      <3> QED BY <1>2, <1>7, <3>1 DEF ClientSound
    <2>7. ClientInv(c)'
      BY <2>2, <2>6 DEF ClientInv
    <2> QED BY <1>5, <2>3, <2>7, ClientFrame
  <1> QED BY <1>4, <1>6, <1>7

\* Without a resume frame queues are in the order of the stamps, and what is not
\* yet queued for c is newer than what is.
LEMMA HeraldedPlain ==
    ASSUME TypeOK, OrderInv, CheckpointInv, NEW c \in Clients, conn[c].pc = "live"
    PROVE  Heralded(c)
  <1> DEFINE s == conn[c].out
  <1>0. /\ s \in Seq(Event) /\ \A i \in DOMAIN s : s[i].rev \in Nat
        /\ \A f \in published : f.rev \in Nat /\ f.rev > 0
        /\ \A i \in DOMAIN s : i \in Nat
    BY CheckpointTypes, SeqRevs DEF CheckpointInv, Ledger
  <1>1. \A f \in Awaited(c) : OnItsWay(f, c)
    BY DEF CheckpointInv, ClientInv, ClientSound
  <1>2. ASSUME NEW i \in DOMAIN s, NEW f \in Awaited(c), f.rev < s[i].rev
        PROVE  \E j \in DOMAIN s : j < i /\ s[j] = f
    <2>1. f.rev \in Nat /\ f.rev > 0 /\ s[i].rev \in Nat /\ s[i].rev > 0
      BY <1>0, <1>2 DEF Awaited
    <2>2. ASSUME NEW p \in Publishers, InPublish(p), pub[p].evt = f
          PROVE  FALSE
      <3>1. Before(s, f.rev)
        BY <2>2 DEF OrderInv, PublishedIsNewest
      <3>2. s[i].rev < f.rev
        BY <2>1, <3>1 DEF Before
      <3> QED BY <1>2, <2>1, <3>2
    <2>3. ASSUME NEW j \in DOMAIN workQueue, workQueue[j] = f
          PROVE  FALSE
      <3>1. StampedBefore(s, workQueue)
        BY DEF OrderInv, FanoutOrdered
      <3>2. s[i].rev < f.rev
        BY <2>1, <2>3, <3>1 DEF StampedBefore
      <3> QED BY <1>2, <2>1, <3>2
    <2>4. ASSUME NEW j \in DOMAIN s, s[j] = f
          PROVE  j < i
      <3>1. OrderedByRev(s)
        BY DEF OrderInv, FanoutOrdered
      <3>2. CASE i < j
        <4>1. s[i].rev < f.rev
          BY <2>1, <2>4, <3>1, <3>2 DEF OrderedByRev
        <4> QED BY <1>2, <2>1, <4>1
      <3>3. CASE i = j
        BY <1>2, <2>1, <2>4, <3>3
      <3> QED BY <1>0, <3>2, <3>3
    <2> QED BY <1>1, <2>2, <2>3, <2>4 DEF OnItsWay
  <1> QED BY <1>2 DEF Heralded

\* A live frame: what comes first in the queue is the oldest awaited event, or
\* none of them.
LEMMA CheckpointLive ==
    ASSUME TypeOK, TypeOK', OrderInv, CheckpointInv, NEW c \in Clients, Writer(c)
    PROVE  CheckpointInv'
  <1> DEFINE x == conn[c]
             e == Head(x.out)
             y == [x EXCEPT !.out = Tail(x.out)]
  <1>0. /\ conn \in [Clients -> Connection] /\ x \in Connection /\ rev \in Nat
        /\ applied[c] \in Nat
        /\ x.todo \in Seq(Sent) /\ x.out \in Seq(Sent) /\ x.out \in Seq(Event)
        /\ x.pc \in {"live", "resumed"} /\ x.out # <<>>
        /\ \A f \in published : f.rev \in Nat /\ f.rev > 0
        /\ workQueue \in Seq(Event)
    BY CheckpointTypes
       DEF TypeOK, CheckpointInv, Ledger, AllSent, SentConn, Writer, Bootstrapped
  <1>1. /\ e \in Event /\ e \in Sent /\ e.rev \in Nat /\ e = x.out[1]
        /\ 1 \in DOMAIN x.out /\ Tail(x.out) \in Seq(Sent)
    BY <1>0, SeqRevs
  <1>2. /\ y.pc = x.pc /\ y.base = x.base /\ y.since = x.since
        /\ y.todo = x.todo /\ y.out = Tail(x.out)
    BY <1>0 DEF Connection
  <1>3. /\ UNCHANGED <<rev, db, commits, stream, retry, workQueue, pub, published, lost,
                       raced>>
        /\ OnEvent(c, e, y)
    BY DEF Writer, server, history
  <1> HIDE DEF y, e
  <1>4. /\ \A d \in Clients \ {c} : UNCHANGED <<conn[d], applied[d], mirror[d], loggedIn[d]>>
        /\ \/ conn'[c] = Down /\ applied'[c] = 0 /\ ~loggedIn'[c]
           \/ conn'[c] = y /\ TakesEvent(c, e)
    <2>1. e \in Event
      BY <1>1
    <2>2. /\ \A d \in Clients \ {c} :
               UNCHANGED <<conn[d], applied[d], mirror[d], loggedIn[d]>>
          /\ \/ /\ ~ShouldApplyFrame(c, e.rev) /\ conn'[c] = y
                /\ UNCHANGED <<applied[c], mirror[c], loggedIn[c]>>
             \/ conn'[c] = Down /\ applied'[c] = 0 /\ ~loggedIn'[c]
             \/ /\ ShouldApplyFrame(c, e.rev) /\ conn'[c] = y /\ e.type = "row"
                /\ applied'[c] = e.rev
                /\ mirror'[c] = [mirror[c] EXCEPT ![e.key] = e.change]
                /\ loggedIn'[c] = loggedIn[c]
      <3> HIDE DEF x
      <3> QED BY <1>3, <2>1, FrameMoves, Zenon
    <2>3. ~ShouldApplyFrame(c, e.rev) => e \notin Awaited(c)
      BY <1>0, <1>1 DEF ShouldApplyFrame, Awaited
    <2> QED BY <1>0, <1>2, <2>2, <2>3 DEF TakesEvent, ShouldApplyFrame
  <1>5. ClientStep(c)
    BY <1>0, <1>3, <1>4 DEF ClientStep
  <1>6. CASE conn'[c] = Down /\ applied'[c] = 0 /\ ~loggedIn'[c]
    <2>1. SentConn(conn'[c])
      <3>1. <<>> \in Seq(Sent)
        OBVIOUS
      <3> QED BY <1>6, <3>1 DEF SentConn, Down
    <2>2. ClientInv(c)'
      BY <1>3, <1>6, ClientStopped
    <2> QED BY <1>5, <2>1, <2>2, ClientFrame
  <1>7. CASE conn'[c] = y /\ TakesEvent(c, e)
    <2>0. \A f \in Awaited(c) : OnItsWay(f, c)
      BY <1>0 DEF CheckpointInv, ClientInv, ClientSound
    <2>a. Heralded(c)
      BY <1>0, HeraldedPlain DEF CheckpointInv, ClientInv, ClientSound, ResumeSound
    <2>b. \A i \in DOMAIN x.out : i \in Nat /\ i >= 1
      BY <1>0
    <2>1. ASSUME NEW f \in Awaited(c), f.rev <= e.rev
          PROVE  f = e
      <3>1. f \in published /\ f.rev \in Nat /\ f.rev > 0 /\ e.rev > 0
        BY <1>0, <1>1, <2>1 DEF Awaited
      <3>2. ~(f.rev < e.rev)
        <4>1. ~ \E j \in DOMAIN x.out : j < 1 /\ x.out[j] = f
          BY <2>b
        <4> QED BY <1>1, <2>a, <4>1 DEF Heralded
      <3>3. e \in published /\ e.rev = f.rev
        BY <1>1, <2>1, <3>1, <3>2 DEF Sent
      <3> QED BY <3>1, <3>3 DEF CheckpointInv, Ledger
    <2>2. /\ ClientLedger(c)' /\ ClientCovered(c)'
          /\ \A f \in Awaited(c)' : f \in Awaited(c) /\ f # e
      BY <1>0, <1>1, <1>3, <1>7, <2>1, EventTaken
    <2>3. SentConn(conn'[c])
      BY <1>0, <1>1, <1>2, <1>7 DEF SentConn
    <2>4. ASSUME NEW f \in Awaited(c)'
          PROVE  OnItsWay(f, c)'
      <3>1. OnItsWay(f, c) /\ f # e
        BY <2>0, <2>2, <2>4
      <3>2. ASSUME NEW i \in DOMAIN x.out, x.out[i] = f
            PROVE  \E j \in DOMAIN Tail(x.out) : Tail(x.out)[j] = f
        <4>1. i # 1
          BY <1>1, <3>1, <3>2
        <4>2. i - 1 \in DOMAIN Tail(x.out) /\ Tail(x.out)[i - 1] = f
          BY <1>0, <3>2, <4>1, TailSuffix
        <4> QED BY <4>2
      <3>3. conn'[c].out = Tail(x.out)
        BY <1>2, <1>7
      <3> QED BY <1>3, <3>1, <3>2, <3>3 DEF OnItsWay, InPublish
    <2>7. /\ conn'[c].out = Tail(x.out) /\ conn'[c].todo = x.todo /\ conn'[c].pc = x.pc
          /\ \A i \in DOMAIN Tail(x.out) : /\ i \in Nat /\ i + 1 \in DOMAIN x.out
                                            /\ Tail(x.out)[i] = x.out[i + 1]
      BY <1>0, <1>2, <1>7, TailSuffix
    <2>8. ASSUME NEW f \in Awaited(c)', NEW j \in DOMAIN x.out, x.out[j] = f
          PROVE  j # 1 /\ j - 1 \in DOMAIN Tail(x.out) /\ Tail(x.out)[j - 1] = f
      <3>1. j # 1
        BY <1>1, <2>2, <2>8
      <3> QED BY <1>0, <2>8, <3>1, TailSuffix
    <2>9. ASSUME x.pc = "resumed"
          PROVE  ResumeSound(c)'
      <3>1. ASSUME NEW i \in DOMAIN Tail(x.out), NEW f \in Awaited(c)',
                   f.rev < Tail(x.out)[i].rev
            PROVE  \E j \in DOMAIN Tail(x.out) : j < i /\ Tail(x.out)[j] = f
        <4>1. PICK j \in DOMAIN x.out : j < i + 1 /\ x.out[j] = f
          BY <2>2, <2>7, <2>a, <3>1 DEF Heralded
        <4>2. j - 1 \in DOMAIN Tail(x.out) /\ Tail(x.out)[j - 1] = f /\ j - 1 < i
          BY <2>7, <2>8, <2>b, <4>1
        <4> QED BY <4>2
      <3>2. Heralded(c)'
        BY <2>7, <3>1 DEF Heralded
      <3>3. HeraldedAgain(c)
        BY <2>9 DEF CheckpointInv, ClientInv, ClientSound, ResumeSound
      <3>4. HeraldedAgain(c)'
        <4>1. ASSUME NEW i \in DOMAIN x.todo, NEW f \in Awaited(c)', f.rev < x.todo[i].rev
              PROVE  \/ \E j \in DOMAIN Tail(x.out) : Tail(x.out)[j] = f
                     \/ \E j \in DOMAIN x.todo : j < i /\ x.todo[j] = f
          <5>1. CASE \E j \in DOMAIN x.out : x.out[j] = f
            BY <2>8, <5>1
          <5> QED BY <2>2, <3>3, <4>1, <5>1 DEF HeraldedAgain
        <4> QED BY <2>7, <4>1 DEF HeraldedAgain
      <3> QED BY <3>2, <3>4 DEF ResumeSound
    <2>5. ClientSound(c)'
      BY <1>0, <2>4, <2>7, <2>9 DEF ClientSound
    <2>6. ClientInv(c)'
      BY <2>2, <2>5 DEF ClientInv
    <2> QED BY <1>5, <2>3, <2>6, ClientFrame
  <1> QED BY <1>4, <1>6, <1>7

\* A resume frame on a live connection: what the window has behind an awaited
\* event is newer.
LEMMA CheckpointResumeFrame ==
    ASSUME ConstantsAssumption, TypeOK, TypeOK', OrderInv, CheckpointInv,
           NEW c \in Clients, ResumeFrame(c)
    PROVE  CheckpointInv'
  <1> DEFINE x == conn[c]
             w == StreamWindow
  <1>0. /\ x.pc \in {"live", "resumed"} /\ x.todo = <<>> /\ applied[c] \in Nat /\ rev \in Nat
        /\ x.out \in Seq(Event) /\ x.out \in Seq(Sent)
        /\ stream \in Seq(Event) /\ stream \in Seq(Sent)
        /\ \A e \in published : e.rev \in Nat /\ e.rev > 0
        /\ \A i \in DOMAIN stream : stream[i].rev \in Nat
    BY FrameRead, CheckpointTypes DEF Bootstrapped, CheckpointInv, AllSent, SentConn, Ledger
  <1>1. /\ \A d \in Clients \ {c} : conn'[d] = conn[d]
        /\ \/ conn'[c] = Down /\ raced' = raced
           \/ /\ conn'[c].pc = "resumed" /\ conn'[c].base = x.base
              /\ conn'[c].since \in 0 .. applied[c]
              /\ \/ /\ conn'[c].out = Append(x.out, SnapshotHint)
                    /\ conn'[c].todo = <<>> /\ raced' = raced
                 \/ /\ ~Truncated(conn'[c].since)
                    /\ conn'[c].out = x.out /\ conn'[c].todo = w
                    /\ raced' = raced \cup {retry[i].change : i \in DOMAIN retry} \cup Hidden
    BY FrameRead
  <1>2. UNCHANGED <<rev, db, commits, stream, retry, workQueue, pub, published, lost,
                    applied, mirror, loggedIn>>
    BY DEF ResumeFrame, server, client
  <1>3. raced \subseteq raced'
    BY <1>1
  <1>4. ClientStep(c)
    BY <1>0, <1>1, <1>2, <1>3 DEF ClientStep
  <1>5. SnapshotHint \in Event /\ SnapshotHint \in Sent /\ SnapshotHint.rev = 0
    <2>1. SnapshotHint \in Event /\ SnapshotHint.rev = 0
      BY DEF SnapshotHint, Idle, Event, Families
    <2> QED BY <2>1 DEF Sent
  <1>6. /\ w \in Seq(Event) /\ w \in Seq(Sent) /\ Suffix(w, stream)
    BY <1>0, WindowSuffix
  <1> HIDE DEF w
  <1>11. /\ \A i \in DOMAIN x.out : /\ i \in DOMAIN Append(x.out, SnapshotHint)
                                     /\ Append(x.out, SnapshotHint)[i] = x.out[i]
         /\ \A i \in DOMAIN Append(x.out, SnapshotHint) :
               \/ Append(x.out, SnapshotHint)[i] = SnapshotHint
               \/ i \in DOMAIN x.out /\ Append(x.out, SnapshotHint)[i] = x.out[i]
    <2>1. x.out \in Seq(Event) /\ SnapshotHint \in Event
      BY <1>0, <1>5
    <2> HIDE DEF x
    <2> QED BY <2>1, AppendEntries
  <1>7. <<>> \in Seq(Sent) /\ \A i \in DOMAIN <<>> : FALSE
    OBVIOUS
  <1>8. ClientCovered(c)'
    BY <1>2, <1>3, CoveredStays
  <1>9. CASE conn'[c] = Down
    <2>1. /\ conn'[c].pc = "down" /\ conn'[c].base = 0
          /\ conn'[c].todo = <<>> /\ conn'[c].out = <<>>
      BY <1>9 DEF Down
    <2>2. ClientLedger(c)'
      BY <1>0, <1>2, <2>1 DEF CheckpointInv, ClientInv, ClientLedger
    <2>3. ClientInv(c)'
      BY <1>8, <2>1, <2>2 DEF ClientInv, ClientSound
    <2> QED BY <1>4, <1>7, <2>1, <2>3, ClientFrame DEF SentConn
  <1>10. CASE /\ conn'[c].pc = "resumed" /\ conn'[c].base = x.base
              /\ conn'[c].since \in 0 .. applied[c]
              /\ \/ /\ conn'[c].out = Append(x.out, SnapshotHint)
                    /\ conn'[c].todo = <<>>
                 \/ /\ ~Truncated(conn'[c].since)
                    /\ conn'[c].out = x.out /\ conn'[c].todo = w
                    /\ raced' = raced \cup {retry[i].change : i \in DOMAIN retry} \cup Hidden
    <2>1. ClientLedger(c)'
      BY <1>0, <1>2, <1>10 DEF CheckpointInv, ClientInv, ClientLedger
    <2>2. Heralded(c) /\ \A f \in Awaited(c) : OnItsWay(f, c)
      BY <1>0, HeraldedPlain DEF CheckpointInv, ClientInv, ClientSound, ResumeSound
    <2>3. \A f \in Awaited(c)' : f \in Awaited(c)
      BY <1>2, <1>3 DEF Awaited, Excused
    <2>4. \A i \in DOMAIN x.out : i \in DOMAIN conn'[c].out /\ conn'[c].out[i] = x.out[i]
      BY <1>10, <1>11
    <2>5. SentConn(conn'[c])
      <3>1. Append(x.out, SnapshotHint) \in Seq(Sent)
        BY <1>0, <1>5
      <3> QED BY <1>0, <1>6, <1>7, <1>10, <3>1 DEF SentConn
    <2>6. Heralded(c)'
      <3>1. ASSUME NEW i \in DOMAIN conn'[c].out, NEW f \in Awaited(c)',
                   f.rev < conn'[c].out[i].rev
            PROVE  \E j \in DOMAIN conn'[c].out : j < i /\ conn'[c].out[j] = f
        <4>1. f.rev \in Nat
          BY <1>0, <2>3, <3>1 DEF Awaited
        <4>2. i \in DOMAIN x.out /\ conn'[c].out[i] = x.out[i]
          <5>1. conn'[c].out[i] # SnapshotHint
            BY <1>5, <3>1, <4>1
          <5> QED BY <1>10, <1>11, <3>1, <5>1
        <4>3. PICK j \in DOMAIN x.out : j < i /\ x.out[j] = f
          BY <2>2, <2>3, <3>1, <4>2 DEF Heralded
        <4> QED BY <2>4, <4>3
      <3> QED BY <3>1 DEF Heralded
    <2>7. HeraldedAgain(c)'
      <3>1. CASE conn'[c].todo = <<>>
        BY <1>7, <3>1 DEF HeraldedAgain
      <3>2. CASE /\ ~Truncated(conn'[c].since) /\ conn'[c].todo = w
                 /\ raced' = raced \cup {retry[i].change : i \in DOMAIN retry} \cup Hidden
        <4>1. ASSUME NEW i \in DOMAIN w, NEW f \in Awaited(c)', f.rev < w[i].rev
              PROVE  \E j \in DOMAIN w : j < i /\ w[j] = f
          <5>1. /\ f \in published /\ f.rev \in Nat /\ f.rev > applied[c] /\ ~Excused(f)
                /\ f.change \notin Hidden /\ f.rev > 0
                /\ ~ \E k \in DOMAIN retry : retry[k] = f
            BY <1>0, <1>2, <2>3, <3>2, <4>1 DEF Awaited, Excused
          <5>2. PICK m \in DOMAIN stream : w[i] = stream[m]
            BY <1>0, <1>6, <4>1 DEF Suffix
          <5>3. w # <<>> /\ w[i].rev \in Nat /\ i \in Nat
            BY <1>6, <4>1, SeqRevs
          <5>4. CASE \E j \in DOMAIN w : w[j] = f
            <6>1. PICK j \in DOMAIN w : w[j] = f
              BY <5>4
            <6>2. InOrder(w) /\ OnTime(f)
              BY <1>0, <1>6, <5>1, InOrderSuffix DEF CheckpointInv, StreamSound, OnTime, Excused
            <6>3. CASE i < j
              <7>1. w[i].rev < f.rev
                BY <4>1, <6>1, <6>2, <6>3 DEF InOrder
              <7> QED BY <4>1, <5>1, <5>3, <7>1
            <6>4. i # j
              BY <4>1, <5>1, <5>3, <6>1
            <6>5. j \in Nat
              BY <1>6, <6>1
            <6> QED BY <5>3, <6>1, <6>3, <6>4, <6>5
          <5>5. CASE ~ \E j \in DOMAIN w : w[j] = f
            <6>1. conn'[c].since \in Nat /\ f.rev > conn'[c].since
              BY <1>0, <1>10, <5>1
            <6>2. ToStream(f)
              BY <3>2, <5>1, <5>3, <5>5, <6>1, WindowMisses DEF w
            <6>3. PICK p \in Publishers : Unstreamed(p) /\ pub[p].evt = f
              BY <5>1, <6>2 DEF ToStream
            <6>4. InPublish(p)
              BY <6>3 DEF Unstreamed, InPublish
            <6>5. stream[m].rev < f.rev
              BY <5>1, <6>3, <6>4 DEF CheckpointInv, Ledger, Newest
            <6> QED BY <4>1, <5>1, <5>2, <5>3, <6>5
          <5> QED BY <5>4, <5>5
        <4> QED BY <3>2, <4>1 DEF HeraldedAgain
      <3> QED BY <1>10, <3>1, <3>2
    <2>8. \A f \in Awaited(c)' : OnItsWay(f, c)'
      <3>1. ASSUME NEW f \in Awaited(c)'
            PROVE  OnItsWay(f, c)'
        <4>1. OnItsWay(f, c)
          BY <2>2, <2>3
        <4> QED BY <1>2, <2>4, <4>1 DEF OnItsWay, InPublish
      <3> QED BY <3>1
    <2>9. ClientInv(c)'
      BY <1>8, <1>10, <2>1, <2>6, <2>7, <2>8 DEF ClientInv, ClientSound, ResumeSound
    <2> QED BY <1>4, <2>5, <2>9, ClientFrame
  <1> QED BY <1>1, <1>9, <1>10

\* The reader queues the next event of what it read, or skips one that nothing
\* awaits.
LEMMA CheckpointReaderSend ==
    ASSUME TypeOK, TypeOK', CheckpointInv, NEW c \in Clients, ReaderSend(c)
    PROVE  CheckpointInv'
  <1> DEFINE x == conn[c]
             e == Head(x.todo)
  <1>0. /\ x.pc = "resumed" /\ x.todo # <<>> /\ applied[c] \in Nat /\ rev \in Nat
        /\ x.since \in Nat /\ x.since <= applied[c]
        /\ x.out \in Seq(Event) /\ x.out \in Seq(Sent)
        /\ x.todo \in Seq(Event) /\ x.todo \in Seq(Sent)
        /\ \A f \in published : f.rev \in Nat /\ f.rev > 0
    BY ReaderMoves, CheckpointTypes
       DEF CheckpointInv, AllSent, SentConn, Ledger, ClientInv, ClientLedger
  <1>1. /\ \A d \in Clients \ {c} : conn'[d] = conn[d]
        /\ \/ conn'[c] = Down
           \/ /\ conn'[c].pc = "resumed" /\ conn'[c].base = x.base
              /\ conn'[c].since = x.since /\ conn'[c].todo = Tail(x.todo)
              /\ \/ /\ conn'[c].out = Append(x.out, e)
                    /\ EventVisibleToFamily(e, c)
                 \/ /\ conn'[c].out = x.out
                    /\ ~(e.rev > x.since /\ EventVisibleToFamily(e, c))
    BY ReaderMoves
  <1>2. UNCHANGED <<rev, db, commits, stream, retry, workQueue, pub, published, lost, raced,
                    applied, mirror, loggedIn>>
    BY DEF ReaderSend, server, client, history
  <1>3. ClientStep(c)
    BY <1>0, <1>1, <1>2 DEF ClientStep
  <1>4. ClientCovered(c)'
    BY <1>2, CoveredStays
  <1>5. /\ e \in Event /\ e \in Sent /\ e.rev \in Nat /\ e = x.todo[1] /\ 1 \in DOMAIN x.todo
        /\ Tail(x.todo) \in Seq(Sent)
        /\ \A j \in DOMAIN x.todo : j \in Nat /\ j >= 1
    BY <1>0, SeqRevs
  <1> HIDE DEF e
  <1>6. <<>> \in Seq(Sent)
    OBVIOUS
  <1>9. /\ \A i \in DOMAIN x.out : i \in DOMAIN Append(x.out, e) /\ Append(x.out, e)[i] = x.out[i]
        /\ \E i \in DOMAIN Append(x.out, e) : Append(x.out, e)[i] = e
    <2>1. x.out \in Seq(Event) /\ e \in Event
      BY <1>0, <1>5
    <2> HIDE DEF x
    <2> QED BY <2>1, AppendEntries
  <1>7. CASE conn'[c] = Down
    <2>1. /\ conn'[c].pc = "down" /\ conn'[c].base = 0
          /\ conn'[c].todo = <<>> /\ conn'[c].out = <<>>
      BY <1>7 DEF Down
    <2>2. ClientLedger(c)'
      BY <1>0, <1>2, <2>1 DEF CheckpointInv, ClientInv, ClientLedger
    <2>3. ClientInv(c)'
      BY <1>4, <2>1, <2>2 DEF ClientInv, ClientSound
    <2> QED BY <1>3, <1>6, <2>1, <2>3, ClientFrame DEF SentConn
  <1>8. CASE /\ conn'[c].pc = "resumed" /\ conn'[c].base = x.base
             /\ conn'[c].since = x.since /\ conn'[c].todo = Tail(x.todo)
             /\ \/ /\ conn'[c].out = Append(x.out, e)
                   /\ EventVisibleToFamily(e, c)
                \/ /\ conn'[c].out = x.out
                   /\ ~(e.rev > x.since /\ EventVisibleToFamily(e, c))
    <2>1. ClientLedger(c)'
      BY <1>0, <1>2, <1>8 DEF CheckpointInv, ClientInv, ClientLedger
    <2>2. /\ ResumeSound(c) /\ \A f \in Awaited(c) : OnItsWay(f, c)
      BY <1>0 DEF CheckpointInv, ClientInv, ClientSound
    <2>3. \A f \in Awaited(c)' : f \in Awaited(c)
      BY <1>2 DEF Awaited, Excused
    <2>4. \A i \in DOMAIN x.out : i \in DOMAIN conn'[c].out /\ conn'[c].out[i] = x.out[i]
      BY <1>8, <1>9
    <2>5. SentConn(conn'[c])
      <3>1. Append(x.out, e) \in Seq(Sent)
        BY <1>0, <1>5
      <3> QED BY <1>0, <1>5, <1>8, <3>1 DEF SentConn
    <2>6. Heralded(c)'
      <3>1. CASE conn'[c].out = Append(x.out, e)
        <4>1. ASSUME NEW f \in Awaited(c), f.rev < e.rev
              PROVE  \E i \in DOMAIN x.out : x.out[i] = f
          <5>1. ~ \E j \in DOMAIN x.todo : j < 1 /\ x.todo[j] = f
            BY <1>5
          <5> QED BY <1>5, <2>2, <4>1, <5>1 DEF ResumeSound, HeraldedAgain
        <4> QED BY <1>0, <1>2, <1>5, <2>2, <3>1, <4>1, QueueHerald
      <3>2. CASE conn'[c].out = x.out
        BY <2>2, <2>3, <3>2 DEF ResumeSound, Heralded
      <3> QED BY <1>8, <3>1, <3>2
    <2>7. HeraldedAgain(c)'
      <3>1. \A i \in DOMAIN Tail(x.todo) : /\ Tail(x.todo)[i] = x.todo[i + 1]
                                            /\ i + 1 \in DOMAIN x.todo /\ i \in Nat
        <4>1. Tail(x.todo) \in Seq(Event)
          BY <1>0
        <4> QED BY <1>0, <4>1, TailSuffix
      <3>2. ASSUME NEW i \in DOMAIN Tail(x.todo), NEW f \in Awaited(c)',
                   f.rev < Tail(x.todo)[i].rev
            PROVE  \/ \E j \in DOMAIN conn'[c].out : conn'[c].out[j] = f
                   \/ \E j \in DOMAIN Tail(x.todo) : j < i /\ Tail(x.todo)[j] = f
        <4>1. \/ \E j \in DOMAIN x.out : x.out[j] = f
              \/ \E j \in DOMAIN x.todo : j < i + 1 /\ x.todo[j] = f
          BY <2>2, <2>3, <3>1, <3>2 DEF ResumeSound, HeraldedAgain
        <4>2. ASSUME NEW j \in DOMAIN x.todo, j < i + 1, x.todo[j] = f
              PROVE  \/ \E k \in DOMAIN conn'[c].out : conn'[c].out[k] = f
                     \/ \E k \in DOMAIN Tail(x.todo) : k < i /\ Tail(x.todo)[k] = f
          <5>1. CASE j = 1
            <6>1. f = e /\ f \in Awaited(c)
              BY <1>5, <2>3, <3>2, <4>2, <5>1
            <6>2. e.rev > x.since /\ EventVisibleToFamily(e, c)
              BY <1>0, <1>5, <6>1 DEF Awaited, EventVisibleToFamily
            <6>3. conn'[c].out = Append(x.out, e)
              BY <1>8, <6>2
            <6> QED BY <1>9, <6>1, <6>3
          <5>2. CASE j # 1
            <6>1. j - 1 \in DOMAIN Tail(x.todo) /\ Tail(x.todo)[j - 1] = f
              BY <1>0, <4>2, <5>2, TailSuffix
            <6>2. j - 1 < i
              BY <1>5, <3>1, <4>2
            <6> QED BY <6>1, <6>2
          <5> QED BY <5>1, <5>2
        <4> QED BY <2>4, <4>1, <4>2
      <3> QED BY <1>8, <3>2 DEF HeraldedAgain
    <2>8. ASSUME NEW f \in Awaited(c)'
          PROVE  OnItsWay(f, c)'
      <3>1. OnItsWay(f, c)
        BY <2>2, <2>3
      <3> QED BY <1>2, <2>4, <3>1 DEF OnItsWay, InPublish
    <2>9. ClientInv(c)'
      BY <1>4, <1>8, <2>1, <2>6, <2>7, <2>8 DEF ClientInv, ClientSound, ResumeSound
    <2> QED BY <1>3, <2>5, <2>9, ClientFrame
  <1> QED BY <1>1, <1>7, <1>8

----------------------------------------------------------------------------
(***************************************************************************)
(* CheckpointInv is inductive, and what follows from it.                   *)
(***************************************************************************)
\* What the initial state has to answer for.
LEMMA CheckpointInit ==
    ASSUME ConstantsAssumption, TypeOK, Init
    PROVE  CheckpointInv
  <1>1. /\ published = {} /\ stream = <<>> /\ retry = <<>> /\ workQueue = <<>>
        /\ commits = 0 /\ \A k \in Keys : db[k] = 0
        /\ \A p \in Publishers : pub[p] = Idle
        /\ \A c \in Clients : conn[c] = Down /\ applied[c] = 0
        /\ rev = 0
    BY DEF Init, NoRows
  <1>2. <<>> \in Seq(Sent)
    OBVIOUS
  <1>3. \A p \in Publishers : pub[p].evt \in Sent
    <2>1. \A p \in Publishers : pub[p].evt.rev = 0
      BY <1>1 DEF Idle
    <2> QED BY <2>1, CheckpointTypes DEF Sent
  <1>4. \A c \in Clients : SentConn(conn[c])
    <2>1. \A c \in Clients : conn[c].todo = <<>> /\ conn[c].out = <<>>
      BY <1>1 DEF Down
    <2> QED BY <1>2, <2>1 DEF SentConn
  <1>5. AllSent
    BY <1>1, <1>2, <1>3, <1>4 DEF AllSent
  <1>6. Ledger
    BY <1>1 DEF Ledger, Idle, InPublish
  <1>7. StreamSound
    BY <1>1 DEF StreamSound, InOrder
  <1>8. ASSUME NEW c \in Clients
        PROVE  ClientInv(c)
    <2>1. ClientLedger(c) /\ ClientCovered(c)
      BY <1>1 DEF ClientLedger, ClientCovered, Down
    <2>2. ClientSound(c)
      BY <1>1 DEF ClientSound, Down
    <2> QED BY <2>1, <2>2 DEF ClientInv
  <1> QED BY <1>5, <1>6, <1>7, <1>8 DEF CheckpointInv

\* A handler's change reaches the database before its event is stamped.
LEMMA CheckpointChange ==
    ASSUME ConstantsAssumption, TypeOK, TypeOK', CheckpointInv, NEW p \in Publishers,
           \/ \E k \in Keys : CommitRow(p, k)
           \/ \E f \in Families : CommitRevoke(p, f)
    PROVE  CheckpointInv'
  <1>0. /\ pub \in [Publishers -> Publisher] /\ db \in [Keys -> Nat] /\ commits \in Nat
        /\ pub'[p].evt \in Event
        /\ \A k \in Keys : db[k] <= commits
    <2>1. pub \in [Publishers -> Publisher] /\ pub' \in [Publishers -> Publisher]
      BY DEF TypeOK
    <2>2. pub'[p] \in Publisher
      BY <2>1
    <2>3. pub'[p].evt \in Event
      BY <2>2 DEF Publisher
    <2>4. db \in [Keys -> Nat] /\ commits \in Nat
      BY CheckpointTypes
    <2> QED BY <2>1, <2>3, <2>4 DEF CheckpointInv, Ledger
  <1>1. CASE \E k \in Keys : CommitRow(p, k)
    <2>1. PICK k \in Keys : CommitRow(p, k)
      BY <1>1
    <2> DEFINE e == [type |-> "row", key |-> k, change |-> commits + 1,
                     family |-> AllFamilies, rev |-> 0]
               x == [pc |-> "committed", streamOK |-> TRUE, evt |-> e]
    <2>2. pub' = [pub EXCEPT ![p] = x] /\ db' = [db EXCEPT ![k] = commits + 1]
      BY <2>1 DEF CommitRow
    <2>3. x.pc = "committed" /\ x.streamOK /\ x.evt = e
      OBVIOUS
    <2>4. e.rev = 0 /\ e.type = "row" /\ e.key = k /\ e.change = commits + 1
      OBVIOUS
    <2> HIDE DEF x, e
    <2>5. pub'[p] = x /\ \A q \in Publishers \ {p} : pub'[q] = pub[q]
      BY <1>0, <2>2
    <2>6. commits' = commits + 1 /\ \A j \in Keys : db[j] <= db'[j] /\ db'[j] <= commits'
      BY <1>0, <2>1, <2>2 DEF CommitRow
    <2>7. db'[k] = commits + 1
      BY <1>0, <2>2
    <2>8. InDatabase(pub[p].evt)'
      BY <1>0, <2>3, <2>4, <2>5, <2>7 DEF InDatabase
    <2>9. /\ pub[p].pc = "idle"
          /\ UNCHANGED <<rev, stream, retry, workQueue, conn, published, lost, raced,
                         applied, mirror, loggedIn>>
      BY <2>1 DEF CommitRow, client, history
    <2> QED BY <1>0, <2>3, <2>4, <2>5, <2>6, <2>8, <2>9, CheckpointCommit
  <1>2. CASE \E f \in Families : CommitRevoke(p, f)
    <2>1. PICK f \in Families : CommitRevoke(p, f)
      BY <1>2
    <2> DEFINE e == [type |-> "session.revoked", key |-> NoKey,
                     change |-> commits + 1, family |-> f, rev |-> 0]
               x == [pc |-> "committed", streamOK |-> TRUE, evt |-> e]
    <2>2. pub' = [pub EXCEPT ![p] = x] /\ db' = db /\ commits' = commits + 1
      BY <2>1 DEF CommitRevoke
    <2>3. x.pc = "committed" /\ x.streamOK /\ x.evt = e
      OBVIOUS
    <2>4. e.rev = 0 /\ e.type = "session.revoked"
      OBVIOUS
    <2> HIDE DEF x, e
    <2>5. pub'[p] = x /\ \A q \in Publishers \ {p} : pub'[q] = pub[q]
      BY <1>0, <2>2
    <2>6. \A j \in Keys : db[j] <= db'[j] /\ db'[j] <= commits'
      BY <1>0, <2>2
    <2>7. InDatabase(pub[p].evt)'
      BY <2>3, <2>4, <2>5 DEF InDatabase
    <2>8. /\ pub[p].pc = "idle"
          /\ UNCHANGED <<rev, stream, retry, workQueue, conn, published, lost, raced,
                         applied, mirror, loggedIn>>
      BY <2>1 DEF CommitRevoke, client, history
    <2> QED BY <1>0, <2>3, <2>4, <2>5, <2>6, <2>7, <2>8, CheckpointCommit
  <1> QED BY <1>1, <1>2

\* A step in which nothing happens.
LEMMA CheckpointStutter ==
    ASSUME CheckpointInv, UNCHANGED vars
    PROVE  CheckpointInv'
  <1>0. UNCHANGED <<rev, db, commits, stream, retry, workQueue, pub, conn, published, lost,
                    raced, applied, mirror, loggedIn>>
    BY DEF vars
  <1>1. AllSent'
    BY <1>0 DEF CheckpointInv, AllSent, Sent, SentConn
  <1>2. Ledger'
    BY <1>0 DEF CheckpointInv, Ledger, Newest, InDatabase, InPublish, Unstreamed
  <1>3. StreamSound'
    BY <1>0 DEF CheckpointInv, StreamSound, InOrder, OnTime, Followed, ToStream, Unstreamed,
                Excused
  <1>4. ASSUME NEW c \in Clients
        PROVE  ClientInv(c)'
    <2>1. ClientLedger(c)' /\ ClientCovered(c)'
      BY <1>0 DEF CheckpointInv, ClientInv, ClientLedger, ClientCovered, Passed, Covered,
                  Overtaken, Excused
    <2>2. \A e : /\ OnItsWay(e, c)' <=> OnItsWay(e, c)
                 /\ Excused(e)' <=> Excused(e)
                 /\ OnTime(e)' <=> OnTime(e)
      BY <1>0 DEF OnItsWay, InPublish, Excused, OnTime
    <2>3. Awaited(c)' = Awaited(c)
      BY <1>0 DEF Awaited, Excused
    <2>4. ClientSound(c)
      BY DEF CheckpointInv, ClientInv
    <2>5. ReplaySound(c) => ReplaySound(c)'
      BY <1>0, <2>2, <2>3 DEF ReplaySound, InOrder, Live
    <2>6. (Queued(c) => Queued(c)') /\ (SnapshotSound(c) => SnapshotSound(c)')
      BY <1>0, <2>2 DEF Queued, SnapshotSound, Live
    <2>8. ResumeSound(c) => ResumeSound(c)'
      BY <1>0, <2>3 DEF ResumeSound, Heralded, HeraldedAgain
    <2>7. ClientSound(c)'
      BY <1>0, <2>2, <2>3, <2>4, <2>5, <2>6, <2>8 DEF ClientSound
    <2> QED BY <2>1, <2>7 DEF ClientInv
  <1> QED BY <1>1, <1>2, <1>3, <1>4 DEF CheckpointInv

\* CheckpointInv is inductive, with OrderInv for the order of the queues.
LEMMA CheckpointStep ==
    ASSUME ConstantsAssumption, TypeOK, TypeOK', OrderInv, CheckpointInv, [Next]_vars
    PROVE  CheckpointInv'
  <1>0. OneInPublish
    BY DEF OrderInv
  <1>1. CASE \E p \in Publishers, k \in Keys : CommitRow(p, k)
    BY <1>1, CheckpointChange
  <1>2. CASE \E p \in Publishers, f \in Families : CommitRevoke(p, f)
    BY <1>2, CheckpointChange
  <1>3. ASSUME NEW p \in Publishers, Publish(p)
        PROVE  CheckpointInv'
    <2>1. CASE PublishStamp(p)
      BY <1>0, <2>1, CheckpointStamp
    <2>2. CASE PublishStream(p)
      BY <1>0, <2>2, CheckpointStream
    <2>3. CASE PublishFanout(p)
      BY <1>0, <2>3, CheckpointFanout
    <2> QED BY <1>3, <2>1, <2>2, <2>3 DEF Publish
  <1>4. CASE DrainRetry
    BY <1>4, CheckpointRetry
  <1>5. CASE StreamExpire
    BY <1>5, CheckpointExpire
  <1>6. CASE SubscriberWorker
    BY <1>6, CheckpointWorker
  <1>7. CASE \E c \in Clients : HandleEvents(c) \/ Disconnect(c)
    BY <1>7, CheckpointOpen
  <1>8. ASSUME NEW c \in Clients, Bootstrap(c)
        PROVE  CheckpointInv'
    <2>1. CASE AuthOk(c)
      BY <2>1, CheckpointAuth
    <2>2. CASE Resume(c)
      BY <2>2, CheckpointResume
    <2>3. CASE SnapshotRequired(c) \/ BuildSnapshot(c)
      BY <2>3, CheckpointRead
    <2>4. CASE WriteReplay(c)
      BY <2>4, CheckpointReplayed
    <2>5. CASE WriteSnapshot(c)
      BY <2>5, CheckpointWritten
    <2>6. CASE BootstrapDone(c)
      BY <2>6, CheckpointDone
    <2> QED BY <1>8, <2>1, <2>2, <2>3, <2>4, <2>5, <2>6 DEF Bootstrap
  <1>9. CASE \E c \in Clients : Writer(c)
    BY <1>9, CheckpointLive
  <1>10. CASE \E c \in Clients : SessionEnded(c)
    BY <1>10, CheckpointEnd DEF SessionEnded
  <1>11. CASE ServerCrash
    BY <1>11, CheckpointCrash
  <1>12. CASE UNCHANGED vars
    BY <1>12, CheckpointStutter
  <1>13. CASE \E c \in Clients : ResumeFrame(c)
    BY <1>13, CheckpointResumeFrame
  <1>14. CASE \E c \in Clients : ReaderSend(c)
    BY <1>14, CheckpointReaderSend
  <1> QED BY <1>1, <1>2, <1>3, <1>4, <1>5, <1>6, <1>7, <1>8, <1>9, <1>10, <1>11, <1>12,
             <1>13, <1>14
          DEF Next

\* Every reachable state accounts for every event.
LEMMA CheckpointCorrect == Spec => []CheckpointInv
  <1>1. Init /\ TypeOK => CheckpointInv
    BY CheckpointInit, ConstantsAssumption
  <1>2. TypeOK /\ TypeOK' /\ OrderInv /\ CheckpointInv /\ [Next]_vars => CheckpointInv'
    BY CheckpointStep, ConstantsAssumption
  <1> QED BY <1>1, <1>2, OrderCorrect, TypeCorrect, PTL DEF Spec

\* The checkpoint never runs ahead of the mirror, with any number of clients,
\* handlers, rows and failures (UserSync._shouldApplyFrame, HandleEvents,
\* EventBus.Publish, EventsSinceRev).
THEOREM CheckpointNeverAhead == Spec => []CheckpointCovers
  <1>1. CheckpointInv => CheckpointCovers
    BY DEF CheckpointInv, ClientInv, ClientCovered, CheckpointCovers, Excused
  <1> QED BY <1>1, CheckpointCorrect, PTL

\* A replay begins only where a resume reads the stream.
LEMMA ReplayOpens ==
    ASSUME TypeOK, [Next]_vars, NEW c \in Clients, conn[c].pc = "authed",
           conn'[c].pc = "replay"
    PROVE  Resume(c)
  <1>0. conn \in [Clients -> Connection]
    BY DEF TypeOK
  <1>1. CASE UNCHANGED conn
    BY <1>1
  <1>2. CASE SubscriberWorker
    <2> DEFINE y == [conn[c] EXCEPT !.out = Append(@, Head(workQueue))]
    <2>1. conn'[c] = conn[c] \/ conn'[c] = Down \/ conn'[c] = y
      BY <1>2 DEF SubscriberWorker
    <2>3. y.pc = conn[c].pc
      BY <1>0 DEF Connection
    <2> HIDE DEF y
    <2>2. conn'[c].pc \in {conn[c].pc, "down"}
      BY <2>1, <2>3 DEF Down
    <2> QED BY <2>2
  <1>3. CASE ServerCrash
    BY <1>3 DEF ServerCrash, Down
  <1>4. ASSUME NEW d \in Clients,
               HandleEvents(d) \/ Bootstrap(d) \/ Writer(d) \/ SessionEnded(d) \/ Disconnect(d)
        PROVE  Resume(c)
    <2>1. \E x : conn' = [conn EXCEPT ![d] = x]
      BY <1>4 DEF HandleEvents, Bootstrap, AuthOk, Resume, SnapshotRequired, BuildSnapshot,
                  WriteReplay, WriteSnapshot, BootstrapDone, Writer, SessionEnded, Disconnect,
                  OnEvent, Stop
    <2>2. d = c
      BY <1>0, <2>1
    <2>3. conn[d].pc = "authed"
      BY <2>2
    <2>4. AuthOk(d) \/ Resume(d) \/ SnapshotRequired(d) \/ SessionEnded(d) \/ Disconnect(d)
      BY <1>4, <2>3 DEF HandleEvents, Bootstrap, BuildSnapshot, WriteReplay, WriteSnapshot,
                        BootstrapDone, Writer, Bootstrapped
    <2>5. CASE AuthOk(d)
      BY <2>3, <2>5 DEF AuthOk
    <2>6. CASE SnapshotRequired(d)
      <3>1. conn'[d] = [conn[d] EXCEPT !.pc = "snapshot", !.since = 0]
        BY <1>0, <2>6 DEF SnapshotRequired
      <3>2. conn'[d].pc = "snapshot"
        BY <1>0, <3>1 DEF Connection
      <3> QED BY <2>2, <3>2
    <2>7. CASE SessionEnded(d) \/ Disconnect(d)
      <3>1. conn'[d] = Down
        BY <1>0, <2>7 DEF SessionEnded, Stop, Disconnect
      <3> QED BY <2>2, <3>1 DEF Down
    <2> QED BY <2>2, <2>4, <2>5, <2>6, <2>7
  <1>6. ASSUME NEW d \in Clients, ResumeFrame(d) \/ ReaderSend(d)
        PROVE  FALSE
    <2>1. CASE ResumeFrame(d)
      <3>1. \/ conn'[c] = conn[c]
            \/ conn'[c].pc = "resumed" \/ conn'[c] = Down
        BY <2>1, FrameRead
      <3> QED BY <3>1 DEF Down
    <2>2. CASE ReaderSend(d)
      <3>1. \/ conn'[c] = conn[c]
            \/ conn'[c].pc = "resumed" \/ conn'[c] = Down
        BY <2>2, ReaderMoves
      <3> QED BY <3>1 DEF Down
    <2> QED BY <1>6, <2>1, <2>2
  <1>5. \/ UNCHANGED conn \/ SubscriberWorker \/ ServerCrash
        \/ \E d \in Clients : \/ HandleEvents(d) \/ Bootstrap(d) \/ Writer(d)
                              \/ SessionEnded(d) \/ Disconnect(d)
                              \/ ResumeFrame(d) \/ ReaderSend(d)
    BY DEF Next, vars, CommitRow, CommitRevoke, Publish, PublishStamp, PublishStream,
           PublishFanout, DrainRetry, StreamExpire
  <1> QED BY <1>1, <1>2, <1>3, <1>4, <1>5, <1>6

\* EventsSinceRev serves a resume completely or reports it truncated, however
\* the stream was trimmed, expired or appended to before.
THEOREM ReplayIsComplete == Spec => ReplayComplete
  <1> DEFINE Complete ==
        \A c \in Clients :
          conn[c].pc = "authed" /\ conn'[c].pc = "replay" =>
              \A e \in published :
                  conn[c].since < e.rev /\ e.rev < conn[c].base =>
                      \/ \E i \in DOMAIN conn'[c].todo : conn'[c].todo[i] = e
                      \/ e.change \in lost \cup raced'
  <1>1. TypeOK /\ CheckpointInv /\ [Next]_vars => Complete
    <2> SUFFICES ASSUME TypeOK, CheckpointInv, [Next]_vars, NEW c \in Clients,
                        conn[c].pc = "authed", conn'[c].pc = "replay",
                        NEW e \in published, conn[c].since < e.rev, e.rev < conn[c].base,
                        e.change \notin lost \cup raced'
                 PROVE  \E i \in DOMAIN conn'[c].todo : conn'[c].todo[i] = e
      BY DEF Complete
    <2>1. Resume(c)
      BY ReplayOpens
    <2>2. conn'[c].todo = StreamWindow
      <3>1. conn[c] \in Connection /\ conn \in [Clients -> Connection]
        BY DEF TypeOK
      <3> DEFINE y == [conn[c] EXCEPT !.pc = "replay", !.todo = StreamWindow]
      <3>2. y.todo = StreamWindow
        BY <3>1 DEF Connection
      <3>3. conn' = [conn EXCEPT ![c] = y]
        BY <2>1 DEF Resume
      <3> HIDE DEF y
      <3> QED BY <3>1, <3>2, <3>3
    <2>3. e.rev > conn[c].since
      BY CheckpointTypes
    <2>4. \E i \in DOMAIN StreamWindow : StreamWindow[i] = e
      BY <2>1, <2>3, ResumeWindow, ConstantsAssumption
    <2> QED BY <2>2, <2>4
  <1> HIDE DEF Complete
  <1>2. TypeOK /\ CheckpointInv /\ [Next]_vars => [Complete]_vars
    BY <1>1
  <1>3. Spec => [][Complete]_vars
    BY <1>2, CheckpointCorrect, TypeCorrect, PTL DEF Spec
  <1> QED BY <1>3 DEF ReplayComplete, Complete

=============================================================================
