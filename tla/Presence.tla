------------------------------ MODULE Presence ------------------------------
(***************************************************************************)
(* Whether a device is online: PresenceService keeps a heartbeat key and   *)
(* the set of server processes that hold the host's signaling WebSocket in *)
(* Redis, and whoever changes one of them (the host's connection coming or *)
(* going, a heartbeat request, the expiry watcher) reads both back,        *)
(* updates the known_online set and announces device.online.changed.       *)
(*                                                                         *)
(* One device with an owner is modelled.  A goroutine of the server is a   *)
(* process: one per host connection, one per server process for its        *)
(* PresenceWatcher, and one heartbeat request.  Every Redis command is a   *)
(* step, since nothing but signalMu orders these goroutines and signalMu   *)
(* is not held across Redis calls.  EventBus delivers announcements in the *)
(* order of Publish (module RealtimeEvents), so a subscriber is the value  *)
(* of the last one.                                                        *)
(***************************************************************************)
EXTENDS Naturals, Integers, FiniteSets

CONSTANTS
    HostConns,       \* host signaling connections (slots, reused)
    Instances,       \* server processes, one UUID each
    Beat,            \* the heartbeat request
    NoConn,          \* no host in signalHosts
    KeyspaceEvents,  \* Redis runs with notify-keyspace-events Ex
    Faults,          \* which failures this instance allows
    MaxRunning,      \* bound: server processes running at once
    MaxFaults        \* bound: failures

FaultKinds == {"break", "twin", "redis", "db", "stall", "unsub", "mute", "hang",
               "crash"}

Procs == HostConns \cup Instances \cup {Beat}

ASSUME PresenceAssumption ==
    /\ HostConns \cap Instances = {} /\ Beat \notin HostConns \cup Instances
    /\ NoConn \notin Procs
    /\ Instances # {}
    /\ KeyspaceEvents \in BOOLEAN
    /\ Faults \subseteq FaultKinds /\ MaxFaults \in Nat /\ MaxRunning \in Nat \ {0}

VARIABLES
    hb,          \* Redis: qd:presence:device:<id>:hb exists
    wsInst,      \* Redis: qd:presence:device:<id>:ws_instances
    instKey,     \* Redis: instances whose qd:presence:instance:<inst> exists
    known,       \* Redis: the device is in known_online
    unused,      \* instances not started yet
    running,     \* instances running
    hosts,       \* signalHosts[device] of each instance
    proc,        \* each goroutine
    closed,      \* connections whose socket is closed
    pinging,     \* instances with a RefreshWSPresence under way
    notes,       \* instances with an expiry notification waiting
    hostUp,      \* the host process runs
    beating,     \* the host process sends heartbeats
    shown,       \* what subscribers were last told
    net,         \* history: online minus offline announcements made
    unsaid,      \* history: the same of announcements whose command's answer was lost
    missed,      \* history: an expiry that nobody handles, handles too early or in vain
    mistold,     \* history: the last announcement due was dropped or overtaken
    faults       \* failures so far

redis == <<hb, wsInst, instKey, known>>
server == <<unused, running, hosts, closed, pinging, notes>>
host == <<hostUp, beating>>
told == <<shown, net, unsaid, mistold>>
presenceVars == <<hb, wsInst, instKey, known, unused, running, hosts, proc, closed,
                  pinging, notes, hostUp, beating, shown, net, unsaid, mistold, missed,
                  faults>>

(***************************************************************************)
(* Types.  at is the process' server instance; next is where it goes on    *)
(* after PresenceService.State; sawHb, live and stale are what State read. *)
(***************************************************************************)
States == {"none", "mark", "unmark", "open", "readHb", "readWs", "readInst",
           "cleanup", "remember", "forget", "publishOn", "publishOff"}

Process == [pc : States, at : Instances, next : States, sawHb : BOOLEAN,
            live : SUBSET Instances, stale : SUBSET Instances]

PresenceTypeOK ==
    /\ hb \in BOOLEAN /\ known \in BOOLEAN
    /\ wsInst \subseteq Instances /\ instKey \subseteq Instances
    /\ unused \subseteq Instances /\ running \subseteq Instances \ unused
    /\ hosts \in [Instances -> HostConns \cup {NoConn}]
    /\ proc \in [Procs -> Process]
    /\ closed \subseteq HostConns
    /\ pinging \subseteq running /\ notes \subseteq running
    /\ hostUp \in BOOLEAN /\ beating \in BOOLEAN
    /\ shown \in BOOLEAN /\ mistold \in BOOLEAN /\ net \in Int /\ unsaid \in Int
    /\ missed \in BOOLEAN /\ faults \in Nat

At(i, s) == [pc |-> s, at |-> i, next |-> "none", sawHb |-> FALSE,
             live |-> {}, stale |-> {}]

\* One server process runs; its watcher is the process of its own name.
PresenceInit ==
    /\ hb = FALSE /\ known = FALSE
    /\ wsInst = {}
    /\ \E i \in Instances :
          /\ running = {i}
          /\ unused = Instances \ {i}
          /\ instKey = {i}
          /\ proc = [p \in Procs |-> At(IF p \in Instances THEN p ELSE i, "none")]
    /\ hosts = [i \in Instances |-> NoConn]
    /\ closed = {}
    /\ pinging = {} /\ notes = {}
    /\ hostUp = TRUE /\ beating = TRUE
    /\ shown = FALSE /\ mistold = FALSE /\ net = 0 /\ unsaid = 0
    /\ missed = FALSE /\ faults = 0

Fault(f) ==
    /\ f \in Faults
    /\ faults < MaxFaults
    /\ faults' = faults + 1

\* Process p moves on to s and forgets what State read.
Goto(p, s) == proc' = [proc EXCEPT ![p] = At(proc[p].at, s)]

\* Process p calls PresenceService.State and then goes on at s.
CallState(p, s) ==
    proc' = [proc EXCEPT ![p] = [At(proc[p].at, "readHb") EXCEPT !.next = s]]

\* The device is online: what PresenceService.State would answer in one step.
Online == hb /\ wsInst \cap instKey # {}

----------------------------------------------------------------------------
(***************************************************************************)
(* PresenceService.State: EXISTS hb, SMEMBERS ws_instances, EXISTS of each *)
(* instance key, and SREM of the instances that have none.  A command that *)
(* fails may have been carried out: only its answer is certain to be lost. *)
(***************************************************************************)

\* A failed EXISTS reads as absent.
ReadHb(p) ==
    /\ proc[p].pc = "readHb"
    /\ \/ /\ proc' = [proc EXCEPT ![p] = [@ EXCEPT !.pc = "readWs", !.sawHb = hb]]
          /\ UNCHANGED faults
       \/ /\ Fault("redis")
          /\ proc' = [proc EXCEPT ![p] = [@ EXCEPT !.pc = "readWs"]]
    /\ UNCHANGED <<redis, server, host, told, missed>>

\* A failed SMEMBERS reads as empty.
ReadWs(p) ==
    /\ proc[p].pc = "readWs"
    /\ \E instances \in {wsInst, {}} :
          /\ \/ instances = wsInst /\ UNCHANGED faults
             \/ instances = {} /\ Fault("redis")
          /\ proc' = [proc EXCEPT ![p] = [@ EXCEPT
                         !.live = instances,
                         !.pc = IF instances = {} THEN proc[p].next ELSE "readInst"]]
    /\ UNCHANGED <<redis, server, host, told, missed>>

\* When the pipeline fails every instance reads as absent, and is stale.
ReadInst(p) ==
    /\ proc[p].pc = "readInst"
    /\ \E gone \in {proc[p].live \ instKey, proc[p].live} :
          /\ \/ gone = proc[p].live \ instKey /\ UNCHANGED faults
             \/ gone = proc[p].live /\ Fault("redis")
          /\ proc' = [proc EXCEPT ![p] = [@ EXCEPT
                         !.live = proc[p].live \ gone, !.stale = gone,
                         !.pc = IF gone = {} THEN proc[p].next ELSE "cleanup"]]
    /\ UNCHANGED <<redis, server, host, told, missed>>

\* An instance that came back between the two commands is removed as well;
\* an error is ignored.
Cleanup(p) ==
    /\ proc[p].pc = "cleanup"
    /\ \/ wsInst' = wsInst \ proc[p].stale /\ UNCHANGED faults
       \/ UNCHANGED wsInst /\ Fault("redis")
    /\ proc' = [proc EXCEPT ![p] = [@ EXCEPT !.stale = {}, !.pc = proc[p].next]]
    /\ UNCHANGED <<hb, instKey, known, server, host, told, missed>>

State(p) == ReadHb(p) \/ ReadWs(p) \/ ReadInst(p) \/ Cleanup(p)

SeesOnline(p) == proc[p].sawHb /\ proc[p].live # {}

----------------------------------------------------------------------------
(***************************************************************************)
(* What a process does with the answer.                                    *)
(***************************************************************************)

\* A new connection goes on to its reader; a heartbeat request is answered.
AfterOnline(p) == IF p \in HostConns THEN "open" ELSE "none"

\* Mutation: every heartbeat and every connect announces the device.
RememberAlways(p) ==
    /\ proc[p].pc = "remember"
    /\ known' = (known \/ SeesOnline(p))
    /\ Goto(p, IF SeesOnline(p) THEN "publishOn" ELSE AfterOnline(p))
    /\ UNCHANGED <<hb, wsInst, instKey, server, host, told, missed, faults>>

\* RememberOnlineCandidate: only the SADD that adds the device announces it.
Remember(p) ==
    /\ proc[p].pc = "remember"
    /\ known' = (known \/ SeesOnline(p))
    /\ Goto(p, IF SeesOnline(p) /\ ~known THEN "publishOn" ELSE AfterOnline(p))
    /\ UNCHANGED <<hb, wsInst, instKey, server, host, told, missed, faults>>

\* ForgetOnlineCandidate: only the SREM that removes the device announces
\* it.  The watcher calls State once more for its log line in every case but
\* the one where there is nothing to forget.
Forget(p) ==
    LET log == p \in Instances IN
    /\ proc[p].pc = "forget"
    /\ known' = (known /\ SeesOnline(p))
    /\ IF SeesOnline(p)
       THEN IF log THEN CallState(p, "none") ELSE Goto(p, "none")
       ELSE IF ~known THEN Goto(p, "none")
       ELSE IF log THEN CallState(p, "publishOff") ELSE Goto(p, "publishOff")
    /\ UNCHANGED <<hb, wsInst, instKey, server, host, told, missed, faults>>

\* The SADD or SREM fails, which reads as "no change".  If it was carried out
\* all the same, nobody announces the change.
AnswerLost(online) ==
    /\ Fault("redis")
    /\ \/ UNCHANGED <<known, unsaid, mistold>>
       \/ /\ known # online
          /\ known' = online
          /\ unsaid' = IF online THEN unsaid + 1 ELSE unsaid - 1
          /\ mistold' = TRUE
    /\ UNCHANGED <<hb, wsInst, instKey, server, host, shown, net>>

RememberFails(p) ==
    /\ proc[p].pc = "remember" /\ SeesOnline(p)
    /\ AnswerLost(TRUE)
    /\ Goto(p, AfterOnline(p))
    /\ UNCHANGED missed

\* A device that is not removed is forgotten when its heartbeat key expires,
\* if it has not expired yet.
ForgetFails(p) ==
    /\ proc[p].pc = "forget" /\ ~SeesOnline(p)
    /\ AnswerLost(FALSE)
    /\ Goto(p, "none")
    /\ missed' = (missed \/ (known' /\ ~hb))

\* GetByDeviceID and EventBus.Publish; a failed lookup drops the event.  The
\* announcement is published in time while known_online still says the same.
Announce(online) ==
    /\ \/ shown' = online /\ mistold' = (known # online) /\ UNCHANGED faults
       \/ UNCHANGED shown /\ mistold' = TRUE /\ Fault("db")
    /\ net' = IF online THEN net + 1 ELSE net - 1
    /\ UNCHANGED unsaid

PublishOn(p) ==
    /\ proc[p].pc = "publishOn"
    /\ Announce(TRUE)
    /\ Goto(p, AfterOnline(p))
    /\ UNCHANGED <<redis, server, host, missed>>

PublishOff(p) ==
    /\ proc[p].pc = "publishOff"
    /\ Announce(FALSE)
    /\ Goto(p, "none")
    /\ UNCHANGED <<redis, server, host, missed>>

----------------------------------------------------------------------------
(***************************************************************************)
(* The host's signaling connection (HandleSignal with role host).          *)
(***************************************************************************)

\* The host sees no connection of its own that works.
HostOffline == \A c \in HostConns : proc[c].pc = "none" \/ c \in closed

\* registerSignalConn: the latest connection wins and the one it replaces
\* is closed.  A second host process with the same identity (twin) may
\* connect while the first one is served.
RegisterSignalConn(c, i) ==
    /\ hostUp /\ i \in running
    /\ proc[c].pc = "none"
    /\ \/ HostOffline /\ UNCHANGED faults
       \/ ~HostOffline /\ Fault("twin")
    /\ hosts' = [hosts EXCEPT ![i] = c]
    /\ closed' = (closed \ {c}) \cup ({hosts[i]} \ {NoConn})
    /\ proc' = [proc EXCEPT ![c] = At(i, "mark")]
    /\ UNCHANGED <<redis, unused, running, pinging, notes, host, told, missed>>

\* markInstanceAlive and the pipeline of MarkWSConnected fail, whichever of
\* their commands were carried out.
MarkFails(i) ==
    /\ Fault("redis")
    /\ instKey' \in {instKey, instKey \cup {i}}
    /\ wsInst' \in {wsInst, wsInst \cup {i}}
    /\ wsInst' # wsInst => i \in instKey'

\* MarkWSConnected; when it fails the connection is served all the same.
MarkWSConnected(c) ==
    /\ proc[c].pc = "mark"
    /\ \/ /\ wsInst' = wsInst \cup {proc[c].at}
          /\ instKey' = instKey \cup {proc[c].at}
          /\ CallState(c, "remember")
          /\ UNCHANGED faults
       \/ MarkFails(proc[c].at) /\ Goto(c, "open")
    /\ UNCHANGED <<hb, known, server, host, told, missed>>

\* The socket breaks; the server finds out when its reader fails.
SocketBreaks(c) ==
    /\ proc[c].pc # "none" /\ c \notin closed
    /\ Fault("break")
    /\ closed' = closed \cup {c}
    /\ UNCHANGED <<redis, unused, running, hosts, proc, pinging, notes, host,
                   told, missed>>

\* unregisterSignalConn under signalMu: a connection that was replaced
\* leaves the topology and the presence alone.
UnregisterSignalConn(c) ==
    /\ proc[c].pc = "open" /\ c \in closed
    /\ IF hosts[proc[c].at] = c
       THEN hosts' = [hosts EXCEPT ![proc[c].at] = NoConn] /\ Goto(c, "unmark")
       ELSE UNCHANGED hosts /\ Goto(c, "none")
    /\ UNCHANGED <<redis, unused, running, closed, pinging, notes, host, told,
                   missed, faults>>

\* unregisterSignalConn after the unlock: MarkWSDisconnected, its error
\* ignored.
MarkWSDisconnected(c) ==
    /\ proc[c].pc = "unmark"
    /\ \/ wsInst' = wsInst \ {proc[c].at} /\ UNCHANGED faults
       \/ UNCHANGED wsInst /\ Fault("redis")
    /\ CallState(c, "forget")
    /\ UNCHANGED <<hb, instKey, known, server, host, told, missed>>

\* signalConn.writer: the ping was written and RefreshWSPresence is next,
\* whatever becomes of the connection meanwhile.
Ping(c) ==
    /\ proc[c].pc = "open" /\ c \notin closed
    /\ pinging' = pinging \cup {proc[c].at}
    /\ UNCHANGED <<redis, unused, running, hosts, proc, closed, notes, host, told,
                   missed, faults>>

\* Mutation: the ping renews nothing.
RefreshNothing(i) ==
    /\ i \in pinging
    /\ pinging' = pinging \ {i}
    /\ UNCHANGED <<redis, unused, running, hosts, proc, closed, notes, host,
                   told, missed, faults>>

\* RefreshWSPresence is MarkWSConnected, its error logged.
RefreshWSPresence(i) ==
    /\ i \in pinging
    /\ pinging' = pinging \ {i}
    /\ \/ wsInst' = wsInst \cup {i} /\ instKey' = instKey \cup {i} /\ UNCHANGED faults
       \/ MarkFails(i)
    /\ UNCHANGED <<hb, known, unused, running, hosts, proc, closed, notes, host,
                   told, missed>>

----------------------------------------------------------------------------
(***************************************************************************)
(* Heartbeats and their expiry.                                            *)
(***************************************************************************)

\* HostHandler.Heartbeat: SET hb with its TTL, then State and Remember.
Heartbeat(i) ==
    /\ beating /\ i \in running
    /\ proc[Beat].pc = "none"
    /\ hb' = TRUE
    /\ proc' = [proc EXCEPT ![Beat] = [At(i, "readHb") EXCEPT !.next = "remember"]]
    /\ UNCHANGED <<wsInst, instKey, known, server, host, told, missed, faults>>

\* When the SET fails the request is answered 500 and nothing else is done.
HeartbeatFails(i) ==
    /\ beating /\ i \in running
    /\ proc[Beat].pc = "none"
    /\ Fault("redis")
    /\ hb' \in {hb, TRUE}
    /\ UNCHANGED <<wsInst, instKey, known, server, proc, host, told, missed>>

\* A connection that has read the heartbeat key is about to remember the device.
Undecided == \E c \in HostConns : proc[c].sawHb /\ proc[c].next = "remember"

\* The heartbeat key's TTL runs out: 90s without a heartbeat, so never during
\* one and, while the host beats and is served, only after an outage (mute).
\* Redis notifies the subscribed watchers, if it is configured to.
HbExpire ==
    /\ hb /\ proc[Beat].pc = "none"
    /\ hb' = FALSE
    /\ \/ /\ ~beating \/ running = {}
          /\ notes' = IF KeyspaceEvents THEN running ELSE notes
          /\ missed' = (missed \/ ~KeyspaceEvents \/ running = {} \/ Undecided)
          /\ UNCHANGED faults
       \/ /\ Fault("mute")
          /\ notes' = IF KeyspaceEvents THEN running ELSE notes
          /\ missed' = (missed \/ Undecided)
       \/ /\ Fault("unsub")
          /\ missed' = TRUE
          /\ UNCHANGED notes
    /\ UNCHANGED <<wsInst, instKey, known, unused, running, hosts, proc, closed,
                   pinging, host, told>>

\* Mutation: the watcher drops the notification.
HandleExpiryIgnored(i) ==
    /\ i \in notes /\ proc[i].pc = "none"
    /\ notes' = notes \ {i}
    /\ UNCHANGED <<redis, unused, running, hosts, proc, closed, pinging, host, told,
                   missed, faults>>

\* PresenceWatcher.handleExpiry: ask for the state again before forgetting.
HandleExpiry(i) ==
    /\ i \in notes /\ proc[i].pc = "none"
    /\ notes' = notes \ {i}
    /\ CallState(i, "forget")
    /\ UNCHANGED <<redis, unused, running, hosts, closed, pinging, host, told,
                   missed, faults>>

----------------------------------------------------------------------------
(***************************************************************************)
(* Processes of the host and of the server.                                *)
(***************************************************************************)

\* The host process ends for good, and its connections with it.
HostQuit ==
    /\ hostUp
    /\ hostUp' = FALSE /\ beating' = FALSE
    /\ closed' = HostConns
    /\ UNCHANGED <<redis, unused, running, hosts, proc, pinging, notes, told,
                   missed, faults>>

\* The host goes on but none of its heartbeats reaches the server any more.
HeartbeatsStop ==
    /\ beating
    /\ Fault("hang")
    /\ beating' = FALSE
    /\ UNCHANGED <<redis, server, proc, hostUp, told, missed>>

\* PresenceService.Start in a new process, with a UUID of its own.
StartInstance(i) ==
    /\ i \in unused
    /\ Cardinality(running) < MaxRunning
    /\ unused' = unused \ {i}
    /\ running' = running \cup {i}
    /\ instKey' = instKey \cup {i}
    /\ UNCHANGED <<hb, wsInst, known, hosts, proc, closed, pinging, notes, host,
                   told, missed, faults>>

\* markInstanceAlive every five seconds.
InstanceTick(i) ==
    /\ i \in running \ instKey
    /\ instKey' = instKey \cup {i}
    /\ UNCHANGED <<hb, wsInst, known, server, proc, host, told, missed, faults>>

\* The instance key's TTL (15s) runs out: the process is gone, or it failed
\* to renew the key three times (stall).
InstanceExpire(i) ==
    /\ i \in instKey
    /\ \/ i \notin running /\ UNCHANGED faults
       \/ i \in running /\ Fault("stall")
    /\ instKey' = instKey \ {i}
    /\ UNCHANGED <<hb, wsInst, known, server, proc, host, told, missed>>

\* The processes of instance i that are at s, or on their way there.
Pending(i, s) ==
    {p \in Procs : proc[p].at = i /\ (proc[p].pc = s \/ proc[p].next = s)}

\* A server process dies with its goroutines and sockets, as long as another
\* one can be started; Redis stays.  Announcements not yet made are lost.
Crash(i) ==
    /\ i \in running /\ unused # {}
    /\ Fault("crash")
    /\ running' = running \ {i}
    /\ hosts' = [hosts EXCEPT ![i] = NoConn]
    /\ proc' = [p \in Procs |-> IF proc[p].at = i THEN At(i, "none") ELSE proc[p]]
    /\ pinging' = pinging \ {i} /\ notes' = notes \ {i}
    /\ net' = net + Cardinality(Pending(i, "publishOn"))
                  - Cardinality(Pending(i, "publishOff"))
    /\ mistold' = (mistold \/ Pending(i, "publishOn") \cup Pending(i, "publishOff") # {})
    /\ missed' = (missed \/ ~hb \/ i \in notes \/ proc[i].pc # "none")
    /\ UNCHANGED <<redis, unused, closed, host, shown, unsaid>>

----------------------------------------------------------------------------
Step(p) ==
    \/ State(p)
    \/ Remember(p) \/ RememberFails(p) \/ Forget(p) \/ ForgetFails(p)
    \/ PublishOn(p) \/ PublishOff(p)

Connection(c) ==
    \/ MarkWSConnected(c) \/ UnregisterSignalConn(c) \/ MarkWSDisconnected(c)

PresenceNext ==
    \/ \E p \in Procs : Step(p)
    \/ \E c \in HostConns, i \in Instances : RegisterSignalConn(c, i)
    \/ \E c \in HostConns : Connection(c)
    \/ \E c \in HostConns : SocketBreaks(c)
    \/ \E c \in HostConns : Ping(c)
    \/ \E i \in Instances : RefreshWSPresence(i)
    \/ \E i \in Instances : Heartbeat(i) \/ HeartbeatFails(i)
    \/ HbExpire
    \/ \E i \in Instances : HandleExpiry(i)
    \/ HostQuit
    \/ HeartbeatsStop
    \/ \E i \in Instances : StartInstance(i)
    \/ \E i \in Instances : InstanceTick(i)
    \/ \E i \in Instances : InstanceExpire(i)
    \/ \E i \in Instances : Crash(i)

PresenceSpec == PresenceInit /\ [][PresenceNext]_presenceVars

(***************************************************************************)
(* Fairness.  Goroutines run on, the host reconnects and beats on a timer, *)
(* the server's tickers tick, Redis expires keys that nobody renews, and a *)
(* dead server is restarted.  A connection pings every 30s, so refreshing  *)
(* is fair per instance.  Failures, quitting and overlapping restarts owe  *)
(* nothing.                                                                *)
(***************************************************************************)
Reconnect == HostOffline /\ \E c \in HostConns, i \in Instances : RegisterSignalConn(c, i)
Restart == running = {} /\ \E i \in Instances : StartInstance(i)

PresenceFairness ==
    /\ \A p \in Procs : WF_presenceVars(Step(p))
    /\ \A c \in HostConns : WF_presenceVars(Connection(c))
    /\ WF_presenceVars(Reconnect)
    /\ \A c \in HostConns : WF_presenceVars(Ping(c))
    /\ \A i \in Instances : /\ WF_presenceVars(RefreshWSPresence(i))
                            /\ WF_presenceVars(HandleExpiry(i))
                            /\ WF_presenceVars(InstanceTick(i))
                            /\ WF_presenceVars(i \notin running /\ InstanceExpire(i))
    /\ WF_presenceVars(\E i \in Instances : Heartbeat(i))
    /\ WF_presenceVars(~beating /\ HbExpire)
    /\ WF_presenceVars(Restart)

PresenceFairSpec == PresenceSpec /\ PresenceFairness

----------------------------------------------------------------------------
(***************************************************************************)
(* Properties.                                                             *)
(***************************************************************************)

\* Each time the device enters or leaves known_online, exactly one process
\* goes on to announce it (RememberOnlineCandidate: "a single online event",
\* ForgetOnlineCandidate: "suppress duplicate offline events"), whichever of
\* the connections, heartbeats and watchers race for it.  Excepted are the
\* changes made by an SADD or SREM whose answer was lost: nobody announces them.
AnnouncedOnce ==
    LET pending(s) == UNION {Pending(i, s) : i \in Instances} IN
    net + Cardinality(pending("publishOn")) - Cardinality(pending("publishOff"))
        = (IF known THEN 1 ELSE 0) - unsaid

\* However connections, heartbeats and watchers interleave and whichever Redis
\* command fails, known_online ends up saying whether the device is online;
\* otherwise the next change would not be announced.  Excepted is an expiry
\* that no watcher heard, a crash after it, an SREM that fails after it, and an
\* expiry in the moment a connection remembers the device: then the watcher
\* finds nothing to forget and the device stays known as online.
KnownTracksPresence == <>[](known = Online \/ missed)

\* A host that keeps running and beating ends up online for good, whatever
\* its old connections, its broken predecessors or a restarted server removed
\* from Redis on the way.
HostEndsOnline == <>[](hostUp /\ beating) => <>[]Online

\* What subscribers are shown ends up being what known_online says.  Changing
\* known_online and publishing the change are two steps, so after a network
\* switch the old connection's offline event may follow the new connection's
\* online event, and later heartbeats find the device known and do not repeat
\* it.  That overtaking, a lost answer to the SADD or SREM, a failed lookup and
\* a crash between the two steps are the only ways to be left with the wrong
\* answer, and the next announcement made in time puts it right.
ShownTracksKnown == <>[](shown = known \/ mistold)

\* Subscribers are told where the device ends up: known_online tracks the
\* presence, and what was published last tracks known_online.
SubscribersTold == KnownTracksPresence /\ ShownTracksKnown
=============================================================================
