--------------------------- MODULE FileTransfers ---------------------------
(***************************************************************************)
(* FileTransferQueue, the scheduler of the desktop client's file uploads   *)
(* and downloads, between the user and the native client program.          *)
(*                                                                         *)
(* The native program names a transfer itself and does not echo a request  *)
(* identifier, so the queue dispatches one upload per connection at a time *)
(* and learns the name from the first event that mentions it.  Commands    *)
(* and events travel through two pipes; the program may end a transfer     *)
(* before it hears a cancel, repeat an event, leave the name out, or die.  *)
(* One slot of the Qt event loop is one step.                              *)
(***************************************************************************)
EXTENDS Naturals, Sequences, FiniteSets

CONSTANTS
    Conns,       \* connection ids, each used for one connection
    Files,       \* canonical paths of local files
    FileName,    \* the name of a file: two paths may share it
    MaxPending,  \* length of one connection's upload queue (256)
    MaxTasks,    \* bound: tasks made in a run
    MaxFaults    \* bound: repeated, nameless and failing events, lost programs

ASSUME TransfersAssumption ==
    /\ IsFiniteSet(Conns) /\ IsFiniteSet(Files) /\ Files # {}
    /\ DOMAIN FileName = Files
    /\ MaxPending \in Nat \ {0} /\ MaxTasks \in Nat /\ MaxFaults \in Nat

VARIABLES
    tasks,     \* m_tasks (a download's id is reserved when it is asked for)
    sessions,  \* m_sessions
    roots,     \* m_downloadRoots
    retired,   \* m_retiredConnections
    buried,    \* m_retiredTransfers
    blocked,   \* m_blockedUploads
    pumps,     \* connections with a deferred pump
    made,      \* tasks made so far
    rtc,       \* ClientManager's rtcState of each connection
    alive,     \* m_messaging->isReady()
    inbox,     \* commands on their way to the native program
    events,    \* messages on their way back
    native,    \* the native program's transfers, by direction
    faults     \* faults so far

queue == <<tasks, sessions, roots, retired, buried, blocked, made>>
program == <<alive, inbox, events, native>>
vars == <<tasks, sessions, roots, retired, buried, blocked, made, pumps,
          rtc, alive, inbox, events, native, faults>>

Directions == {"upload", "download"}
Terminal == {"complete", "error", "cancelled", "disconnected"}
Statuses == Terminal \cup {"queued", "uploading", "downloading", "cancelling", "uncertain"}
Unnamed == 0

\* A native transfer is named by its place among those of its direction; task
\* is the row of the list it was started for (history).
Transfer == [conn : Conns, task : Nat, state : {"running", "complete", "error"},
             told : BOOLEAN, asked : BOOLEAN]

Task == [id : Nat, conn : Conns, dir : Directions, file : Files, status : Statuses,
         wire : Nat, asked : BOOLEAN, sent : BOOLEAN]

Pending(c) ==
    {i \in DOMAIN tasks : tasks[i].conn = c /\ tasks[i].dir = "upload" /\
                          tasks[i].status \notin Terminal}

\* One type invariant: it includes that a path is pending at most once and
\* that the queue keeps its limit (enqueueUpload).
TypeOK ==
    /\ tasks \in Seq(Task)
    /\ sessions \subseteq Conns /\ roots \subseteq Conns /\ retired \subseteq Conns
    /\ blocked \subseteq Conns /\ pumps \subseteq Conns
    /\ buried \subseteq Conns \X Directions \X Nat
    /\ made \in 0 .. MaxTasks /\ alive \in BOOLEAN
    /\ rtc \in [Conns -> {"new", "connecting", "connected", "down", "gone"}]
    /\ native \in [Directions -> Seq(Transfer)]
    /\ faults \in 0 .. MaxFaults
    /\ \A c \in Conns : Cardinality(Pending(c)) <= MaxPending
    /\ \A c \in Conns : \A i, j \in Pending(c) : tasks[i].file = tasks[j].file => i = j

Init ==
    /\ tasks = <<>> /\ sessions = {} /\ roots = {} /\ retired = {} /\ buried = {}
    /\ blocked = {} /\ pumps = {} /\ made = 0
    /\ rtc = [c \in Conns |-> "new"]
    /\ alive = TRUE /\ inbox = <<>> /\ events = <<>>
    /\ native = [d \in Directions |-> <<>>]
    /\ faults = 0

Fault == faults < MaxFaults /\ faults' = faults + 1

First(S) == CHOOSE i \in S : \A j \in S : i <= j

(***************************************************************************)
(* Sessions: one per connected connection; an ended one never returns.     *)
(***************************************************************************)

beginSession(c) == IF c \in retired THEN sessions ELSE sessions \cup {c}

\* endSession for each connection of E, starting from the tasks ts.
endSessions(E, ts) ==
    /\ sessions' = sessions \ E /\ roots' = roots \ E /\ blocked' = blocked \ E
    /\ retired' = retired \cup E
    /\ tasks' = [i \in DOMAIN ts |->
                    IF ts[i].conn \in E /\ ts[i].status \notin Terminal
                    THEN [ts[i] EXCEPT !.status = "disconnected"] ELSE ts[i]]

\* The lambda on connectionStateChanged: reconcileSession.
reconcileSession(c, connected, terminated) ==
    IF terminated \/ (~connected /\ c \in sessions)
    THEN endSessions({c}, tasks)
    ELSE /\ sessions' = IF connected THEN beginSession(c) ELSE sessions
         /\ UNCHANGED <<tasks, roots, blocked, retired>>

\* The native program gives up the transfers of the connections E.
Abandoned(E) ==
    [d \in Directions |->
        [n \in DOMAIN native[d] |->
            IF native[d][n].conn \in E /\ native[d][n].state = "running"
            THEN [native[d][n] EXCEPT !.state = "error"] ELSE native[d][n]]]

\* ClientManager hears a state of the connection, or removes it.
ConnectionState(c, state) ==
    /\ rtc[c] \notin {"gone", state} /\ state # "new"
    /\ rtc[c] = "new" => state = "connecting"
    /\ rtc' = [rtc EXCEPT ![c] = state]
    /\ reconcileSession(c, state = "connected", state \in {"down", "gone"})
    /\ IF rtc[c] = "connected" /\ state # "gone" THEN Fault ELSE faults' = faults
    /\ native' = IF state = "gone" THEN Abandoned({c}) ELSE native
    /\ UNCHANGED <<buried, made, pumps, alive, inbox, events>>

\* onMessagingError: the sessions end, the connections stay.
MessagingError ==
    /\ alive /\ sessions # {} /\ Fault
    /\ endSessions(sessions, tasks)
    /\ UNCHANGED <<buried, made, pumps, rtc, program>>

\* setMessaging(nullptr) after the program ended.
ProcessStopped ==
    /\ ~alive
    /\ endSessions(sessions, tasks)
    /\ rtc' = [c \in Conns |-> IF rtc[c] = "new" THEN "new" ELSE "gone"]
    /\ inbox' = <<>> /\ events' = <<>> /\ alive' = TRUE
    /\ native' = Abandoned(Conns)
    /\ UNCHANGED <<buried, made, pumps, faults>>

(***************************************************************************)
(* Commands: the lambda on commandRequested sends one or ends the session. *)
(***************************************************************************)
Send(c, command, ts) ==
    IF alive /\ rtc[c] = "connected"
    THEN /\ inbox' = Append(inbox, command)
         /\ tasks' = ts /\ UNCHANGED <<sessions, roots, blocked, retired>>
    ELSE endSessions({c}, ts) /\ UNCHANGED inbox

Nothing(ts) == tasks' = ts /\ UNCHANGED <<sessions, roots, blocked, retired, inbox>>

Dispatched(c, ts) ==
    {i \in DOMAIN ts : ts[i].conn = c /\ ts[i].dir = "upload" /\
                       ts[i].status \notin Terminal \cup {"queued"}}

\* pump: queued uploads whose file is gone fail, the first other one starts.
pump(c, ts, gone) ==
    LET queued == {i \in DOMAIN ts : ts[i].conn = c /\ ts[i].status = "queued"}
        ready  == {i \in queued : ts[i].file \notin gone}
        next   == First(ready)
        marked == [i \in DOMAIN ts |->
                      IF i \in queued \ ready /\ (ready = {} \/ i < next)
                      THEN [ts[i] EXCEPT !.status = "error"]
                      ELSE IF ready # {} /\ i = next
                      THEN [ts[i] EXCEPT !.status = "uploading"] ELSE ts[i]]
    IN  IF c \notin sessions \/ c \in blocked \/ Dispatched(c, ts) # {} THEN Nothing(ts)
        ELSE IF ready = {} THEN Nothing(marked)
        ELSE Send(c, [type |-> "upload", conn |-> c, task |-> ts[next].id], marked)

DeferredPump(c, gone) ==
    /\ c \in pumps
    /\ pumps' = pumps \ {c}
    /\ pump(c, tasks, gone)
    /\ UNCHANGED <<buried, made, rtc, alive, events, native, faults>>

(***************************************************************************)
(* The user.                                                               *)
(***************************************************************************)
fileTransferReady(c) == alive /\ rtc[c] = "connected"

AlreadyPending(c, f) == \E i \in Pending(c) : tasks[i].file = f

\* enqueueUpload of a readable file.
enqueueUpload(c, f) ==
    /\ ~AlreadyPending(c, f) /\ Cardinality(Pending(c)) < MaxPending
    /\ made < MaxTasks
    /\ made' = made + 1
    /\ pump(c, Append(tasks, [id |-> made + 1, conn |-> c, dir |-> "upload", file |-> f,
                              status |-> "queued", wire |-> Unnamed, asked |-> FALSE,
                              sent |-> FALSE]), {})

\* startFileUpload.  beginSession adds nothing to a connected connection, whose
\* session is active or retired.
StartFileUpload(c, f) ==
    /\ fileTransferReady(c) /\ c \in beginSession(c)
    /\ enqueueUpload(c, f)
    /\ UNCHANGED <<buried, pumps, rtc, alive, events, native, faults>>

StartFileDownload(c) ==
    /\ fileTransferReady(c) /\ c \in beginSession(c)
    /\ made < MaxTasks /\ made' = made + 1
    /\ sessions' = beginSession(c)
    /\ roots' = roots \cup {c}
    /\ inbox' = Append(inbox, [type |-> "download", conn |-> c, task |-> made + 1])
    /\ UNCHANGED <<tasks, retired, buried, blocked, pumps, rtc, alive, events,
                   native, faults>>

\* sendCancel on task i of ts.
sendCancel(i, ts) ==
    IF ts[i].wire = Unnamed \/ ts[i].sent THEN Nothing(ts)
    ELSE Send(ts[i].conn, [type |-> "cancel", dir |-> ts[i].dir, wire |-> ts[i].wire],
              [ts EXCEPT ![i].sent = TRUE])

\* Mutant: finishing an upload does not start the next one.
FinishOnly(i, ts, status) ==
    /\ buried' = IF ts[i].wire = Unnamed THEN buried
                 ELSE buried \cup {<<ts[i].conn, ts[i].dir, ts[i].wire>>}
    /\ pumps' = pumps
    /\ Nothing([ts EXCEPT ![i].status = status])

finish(i, ts, status) ==
    /\ buried' = IF ts[i].wire = Unnamed THEN buried
                 ELSE buried \cup {<<ts[i].conn, ts[i].dir, ts[i].wire>>}
    /\ pumps' = pumps \cup {ts[i].conn}
    /\ Nothing([ts EXCEPT ![i].status = status])

Cancel(i) ==
    /\ tasks[i].status \notin Terminal \cup {"cancelling", "uncertain"}
    /\ IF tasks[i].status = "queued"
       THEN finish(i, tasks, "cancelled")
       ELSE /\ sendCancel(i, [tasks EXCEPT ![i].asked = TRUE, ![i].status = "cancelling"])
            /\ UNCHANGED <<buried, pumps>>
    /\ UNCHANGED <<made, rtc, alive, events, native, faults>>

\* Mutant: an unconfirmed cancellation frees the slot.
TimedOutEnds(i) ==
    /\ tasks[i].status = "cancelling"
    /\ finish(i, tasks, "error")
    /\ UNCHANGED <<made, rtc, alive, events, native, faults>>

\* The 15 s timer of Cancel: it does nothing once the status has changed.
cancellationTimedOut(i) ==
    /\ tasks[i].status = "cancelling"
    /\ Nothing([tasks EXCEPT ![i].status = "uncertain"])
    /\ UNCHANGED <<buried, pumps, made, rtc, alive, events, native, faults>>

\* clearCompleted keeps the other rows in their order; the deferral only lets
\* the caller's stack unwind.
ClearCompleted ==
    LET kept == {i \in DOMAIN tasks : tasks[i].status \notin Terminal}
        n    == Cardinality(kept)
    IN  /\ n # Len(tasks)
        /\ \E g \in [1 .. n -> kept] :
              /\ \A j, k \in 1 .. n : j < k => g[j] < g[k]
              /\ tasks' = [k \in 1 .. n |-> tasks[g[k]]]
        /\ UNCHANGED <<sessions, roots, retired, buried, blocked, made, pumps, rtc,
                       program, faults>>

(***************************************************************************)
(* handleMessage.                                                          *)
(***************************************************************************)
\* Mutant: the names of finished transfers are forgotten.
StaleNever(m) == FALSE

Stale(m) == m.wire # Unnamed /\ <<m.conn, m.dir, m.wire>> \in buried

Named(m) ==
    {i \in DOMAIN tasks : tasks[i].conn = m.conn /\ tasks[i].dir = m.dir /\
                          tasks[i].status \notin Terminal \cup {"queued"} /\
                          m.wire # Unnamed /\ tasks[i].wire = m.wire}

\* The dispatched upload without a name takes the one in the event, unless
\* the event is about another file.
Adopting(m) ==
    LET unnamed == {i \in Dispatched(m.conn, tasks) : tasks[i].wire = Unnamed}
    IN  IF m.dir = "upload" /\ m.wire # Unnamed /\ Named(m) = {} /\ unnamed # {} /\
           m.name = FileName[tasks[First(unnamed)].file]
        THEN {First(unnamed)} ELSE {}

Progress(i, ts) == IF ts[i].asked THEN sendCancel(i, ts) ELSE Nothing(ts)

\* The event m reaches task i.
Apply(m, i) ==
    LET ts == [tasks EXCEPT ![i].wire = m.wire]
    IN  /\ IF m.type \in {"complete", "error"} THEN finish(i, ts, m.type)
           ELSE /\ IF m.type = "progress" THEN Progress(i, ts) ELSE Nothing(ts)
                /\ UNCHANGED <<buried, pumps>>
        /\ UNCHANGED made

\* A terminal upload event without a name: nobody knows which one ended.
Uncertain(m) ==
    LET hit == Dispatched(m.conn, tasks)
    IN  /\ IF m.type \in {"complete", "error"} /\ hit # {}
           THEN /\ tasks' = [tasks EXCEPT ![First(hit)].status = "uncertain"]
                /\ blocked' = blocked \cup {m.conn}
           ELSE UNCHANGED <<tasks, blocked>>
        /\ UNCHANGED <<sessions, roots, retired, buried, made, pumps, inbox>>

NewDownload(m) ==
    /\ Nothing(Append(tasks, [id |-> native["download"][m.wire].task, conn |-> m.conn,
                              dir |-> "download", file |-> CHOOSE f \in Files : TRUE,
                              status |-> "downloading", wire |-> m.wire, asked |-> FALSE, sent |-> FALSE]))
    /\ UNCHANGED <<buried, pumps, made>>

HandleMessage ==
    /\ events # <<>>
    /\ events' = Tail(events)
    /\ LET m == Head(events)
           target == Named(m) \cup Adopting(m)
       IN  IF m.conn \notin sessions \/ Stale(m) THEN UNCHANGED <<queue, pumps, inbox>>
           ELSE IF m.dir = "upload" /\ m.wire = Unnamed THEN Uncertain(m)
           ELSE IF target # {} THEN Apply(m, First(target))
           ELSE IF m.type = "started" /\ m.wire # Unnamed /\ m.conn \in roots
           THEN NewDownload(m)
           ELSE UNCHANGED <<queue, pumps, inbox>>
    /\ UNCHANGED <<rtc, alive, native, faults>>

(***************************************************************************)
(* The native program (external).                                          *)
(***************************************************************************)
NameOf(d, n) ==
    IF d = "download" THEN FileName[CHOOSE f \in Files : TRUE]
    ELSE LET t == native[d][n].task
         IN  IF \E i \in DOMAIN tasks : tasks[i].id = t
             THEN FileName[tasks[CHOOSE i \in DOMAIN tasks : tasks[i].id = t].file]
             ELSE FileName[CHOOSE f \in Files : TRUE]

Event(type, d, n, named) ==
    [type |-> type, conn |-> native[d][n].conn, dir |-> d,
     wire |-> IF named THEN n ELSE Unnamed, name |-> NameOf(d, n)]

Takes ==
    /\ alive /\ inbox # <<>>
    /\ inbox' = Tail(inbox)
    /\ LET m == Head(inbox)
           t == [conn |-> m.conn, task |-> m.task, state |-> "running",
                 told |-> m.type = "download", asked |-> FALSE]
       IN  CASE m.type # "cancel" /\ rtc[m.conn] = "gone" -> UNCHANGED <<native, events>>
             [] m.type = "upload" /\ rtc[m.conn] # "gone" ->
                  native' = [native EXCEPT !["upload"] = Append(@, t)] /\ events' = events
             [] m.type = "download" /\ rtc[m.conn] # "gone" ->
                  /\ native' = [native EXCEPT !["download"] = Append(@, t)]
                  /\ events' = Append(events,
                         [type |-> "started", conn |-> m.conn, dir |-> "download",
                          wire |-> Len(native["download"]) + 1,
                          name |-> FileName[CHOOSE f \in Files : TRUE]])
             [] m.type = "cancel" ->
                  native' = [native EXCEPT ![m.dir][m.wire].asked = TRUE] /\ events' = events
    /\ UNCHANGED <<queue, pumps, rtc, alive, faults>>

Tells(d, n) ==
    /\ alive /\ native[d][n].state = "running" /\ ~native[d][n].told
    /\ native' = [native EXCEPT ![d][n].told = TRUE]
    /\ events' = Append(events, Event("progress", d, n, TRUE))
    /\ UNCHANGED <<queue, pumps, rtc, alive, inbox, faults>>

\* A transfer ends, with an error when it was cancelled or by a fault; by a
\* fault the event does not say which one.
Ends(d, n, state, named) ==
    /\ alive /\ native[d][n].state = "running"
    /\ IF named /\ (state = "complete" \/ native[d][n].asked) THEN faults' = faults ELSE Fault
    /\ native' = [native EXCEPT ![d][n].state = state]
    /\ events' = Append(events, Event(state, d, n, named))
    /\ UNCHANGED <<queue, pumps, rtc, alive, inbox>>

\* A late or repeated event about a transfer that has ended.
Repeats(d, n, type) ==
    /\ alive
    /\ type \in {"progress", native[d][n].state} \cup (IF d = "download" THEN {"started"} ELSE {})
    /\ native[d][n].state # "running" /\ rtc[native[d][n].conn] # "gone" /\ Fault
    /\ events' = Append(events, Event(type, d, n, TRUE))
    /\ UNCHANGED <<queue, pumps, rtc, alive, inbox, native>>

Dies ==
    /\ alive /\ sessions # {} /\ Fault
    /\ alive' = FALSE
    /\ UNCHANGED <<queue, pumps, rtc, inbox, events, native>>

-----------------------------------------------------------------------------
User ==
    \/ \E c \in Conns : \E f \in Files : StartFileUpload(c, f)
    \/ \E c \in Conns : StartFileDownload(c)
    \/ \E i \in DOMAIN tasks : Cancel(i)
    \/ ClearCompleted

Loop ==
    \/ \E c \in Conns : \E gone \in SUBSET Files : DeferredPump(c, gone)
    \/ \E i \in DOMAIN tasks : cancellationTimedOut(i)
    \/ HandleMessage

Connection ==
    \/ \E c \in Conns : \E s \in {"connecting", "connected", "down", "gone"} :
          ConnectionState(c, s)
    \/ MessagingError \/ ProcessStopped

Native ==
    \/ Takes \/ Dies
    \/ \E d \in Directions : \E n \in DOMAIN native[d] :
          \/ Tells(d, n)
          \/ \E state \in {"complete", "error"}, named \in BOOLEAN : Ends(d, n, state, named)
          \/ \E type \in {"started", "progress", "complete", "error"} : Repeats(d, n, type)

Next == User \/ Loop \/ Connection \/ Native

Spec == Init /\ [][Next]_vars

\* Timers fire, messages are read, and the native program works on.
Fairness ==
    /\ \A c \in Conns : WF_vars(\E gone \in SUBSET Files : DeferredPump(c, gone))
    /\ WF_vars(HandleMessage) /\ WF_vars(Takes) /\ WF_vars(ProcessStopped)
    /\ WF_vars(\E n \in DOMAIN native["upload"], state \in {"complete", "error"},
                  named \in BOOLEAN : Ends("upload", n, state, named))

FairSpec == Spec /\ Fairness

(***************************************************************************)
(* Properties.                                                             *)
(***************************************************************************)
\* A row of the transfer list tells of the transfer it was made for: the name
\* it adopted is that of the very upload it dispatched, complete and error
\* are what that transfer came to, a row cancelled in the queue was never
\* sent, and no transfer has two rows.  handleMessage has only the name, the
\* file name and the order of events to go by.
ResultsBelong ==
    /\ \A i \in DOMAIN tasks :
          LET t == tasks[i]
          IN  /\ t.wire # Unnamed =>
                    /\ t.wire \in DOMAIN native[t.dir]
                    /\ native[t.dir][t.wire].conn = t.conn
                    /\ native[t.dir][t.wire].task = t.id
                    /\ t.status \in {"complete", "error"} =>
                          native[t.dir][t.wire].state = t.status
              /\ t.status = "complete" => t.wire # Unnamed
              /\ t.status = "cancelled" =>
                    \A n \in DOMAIN native["upload"] : native["upload"][n].task # t.id
    /\ \A i, j \in DOMAIN tasks :
          i # j /\ tasks[i].dir = tasks[j].dir /\ tasks[i].wire = tasks[j].wire =>
              tasks[i].wire = Unnamed

\* The native program never has two unfinished uploads of one live
\* connection, counting those it has yet to read: the whole scheme of
\* adopting names rests on it.
OneUploadAtATime ==
    \A c \in sessions :
        Cardinality({n \in DOMAIN native["upload"] :
                        native["upload"][n].conn = c /\ native["upload"][n].state = "running"})
        + Cardinality({k \in DOMAIN inbox : inbox[k].type = "upload" /\ inbox[k].conn = c})
        <= 1

\* A session that has ended stays ended, whatever state of the connection is
\* heard later, and leaves no task waiting for a result that cannot come.
EndedForGood ==
    /\ sessions \cap retired = {}
    /\ \A i \in DOMAIN tasks :
          tasks[i].status \notin Terminal => tasks[i].conn \in sessions
    /\ \A c \in sessions : rtc[c] = "connected"

\* A cancel asked for before the transfer had a name is sent as soon as it has
\* one, also when the user has been told that it timed out.
CancelFollowsName ==
    \A i \in DOMAIN tasks :
        tasks[i].asked /\ tasks[i].wire # Unnamed /\ tasks[i].status \notin Terminal =>
            tasks[i].sent

\* A task says what became of its own transfer, from the name it adopts to the
\* end of its session (FileTransferQueue: handleMessage, endSession, cancel).
TasksSound == ResultsBelong /\ EndedForGood /\ CancelFollowsName

\* A queued upload does not wait for ever: it is dispatched or ended, unless
\* a nameless result has blocked the queue of its connection.
QueueDrains ==
    \A id \in 1 .. MaxTasks :
        (\E i \in DOMAIN tasks : tasks[i].id = id /\ tasks[i].status = "queued") ~>
        (\A i \in DOMAIN tasks : tasks[i].id = id /\ tasks[i].status = "queued" =>
             tasks[i].conn \in blocked)
=============================================================================
