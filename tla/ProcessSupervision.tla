------------------------- MODULE ProcessSupervision -------------------------
(***************************************************************************)
(* The desktop application keeps two programs running: the host, as a      *)
(* child process or as a Windows service reached over two named pipes, and *)
(* the client.  ProcessManager starts, restarts and stops them;            *)
(* MainController, on its signals, attaches HostManager and ClientManager  *)
(* to the program's NativeMessaging, greets it after a delay, and runs the *)
(* skill host beside the host.                                             *)
(*                                                                         *)
(* Everything here is one Qt event loop: a slot with the signals it emits  *)
(* is one step.  What happens in between is the operating system's: a      *)
(* program starts, fails to start, exits, or a pipe connects or breaks.    *)
(***************************************************************************)
EXTENDS Naturals, Integers, FiniteSets

CONSTANTS
    MaxRestarts,   \* MAX_RESTART_ATTEMPTS
    Viewers,       \* remote clients of the host
    HasService,    \* Windows with the host service installed
    MaxFaults      \* bound: crashes, failed starts, broken pipes

ASSUME SupervisionAssumption ==
    /\ MaxRestarts \in Nat \ {0} /\ MaxFaults \in Nat
    /\ HasService \in BOOLEAN
    /\ IsFiniteSet(Viewers)

\* A fact of arithmetic that the provers lack: a delay is never zero.
ASSUME PowersAssumption == \A n \in 0 .. MaxRestarts : 2 ^ n \in Nat \ {0}

Programs == {"host", "client"}

VARIABLES
    pm,          \* ProcessManager's state of each program
    pipe,        \* the two sockets to the host service
    connecting,  \* m_serviceConnecting
    pipeError,   \* a deferred onServicePipeError is queued
    service,     \* the Windows service runs
    attached,    \* programs whose manager has a live NativeMessaging
    deviceId,    \* HostManager has a device id
    signaling,   \* HostManager's m_signalingState is connected
    viewers,     \* HostManager's m_clients
    hello,       \* pending 500 ms timers that greet the host
    connect,     \* pending 500 ms timers that connect it to the server
    heard,       \* what this host has been sent
    inherited,   \* history: the service was lost before its greeting was over
    clientHello, \* pending 500 ms timers that greet the client
    waiters,     \* lambdas waiting for deviceIdChanged to greet the client
    greeted,     \* this client has been greeted
    skill,       \* the skill host process
    tools,       \* m_cachedTools is not empty
    enabled,     \* skillHostEnabled in the settings
    skillTimer,  \* pending restarts of the skill host with new directories
    began,       \* initialize() has run
    shutdown,    \* m_isShutdown
    over,        \* history: programs that ended by themselves or cannot be started
    faults       \* failures so far

service_ == <<pipe, connecting, pipeError, service>>
hostView == <<deviceId, signaling, viewers>>
hostTimers == <<hello, connect, heard, inherited>>
clientTimers == <<clientHello, waiters, greeted>>
skill_ == <<skill, tools, enabled, skillTimer>>
life == <<began, shutdown, over>>
vars == <<pm, pipe, connecting, pipeError, service, attached, deviceId, signaling,
          viewers, hello, connect, heard, inherited, clientHello, waiters, greeted,
          skill, tools, enabled, skillTimer, began, shutdown, over, faults>>

Statuses == {"NotStarted", "Starting", "Running", "Failed", "Restarting"}
QProcessStates == {"none", "notRunning", "starting", "running"}

\* proc: the QProcess; closing: its stdin is closed and the escalation to
\* terminate and kill is under way; timer: the delay of the armed restart
\* timer, 0 when it is stopped; link: which transport NativeMessaging has.
Supervised == [proc : QProcessStates, closing : BOOLEAN, status : Statuses,
               count : 0 .. MaxRestarts + 1, stopping : BOOLEAN, timer : Nat,
               link : {"none", "process", "pipe"}]

TypeOK ==
    /\ pm \in [Programs -> Supervised]
    /\ pipe \in {"none", "dialing", "up"}
    /\ {connecting, pipeError, service, deviceId, signaling, greeted, inherited,
        tools, enabled, began, shutdown} \subseteq BOOLEAN
    /\ attached \subseteq Programs /\ over \subseteq Programs
    /\ viewers \subseteq Viewers /\ heard \subseteq {"hello", "connect"}
    /\ {hello, connect, clientHello, waiters, skillTimer} \subseteq Nat
    /\ skill \in {"none", "notRunning", "running"}
    /\ faults \in 0 .. MaxFaults

Init ==
    /\ pm = [p \in Programs |->
                [proc |-> "none", closing |-> FALSE, status |-> "NotStarted", count |-> 0,
                 stopping |-> FALSE, timer |-> 0, link |-> "none"]]
    /\ pipe = "none" /\ connecting = FALSE /\ pipeError = FALSE
    /\ service = HasService
    /\ attached = {} /\ deviceId = FALSE /\ signaling = FALSE /\ viewers = {}
    /\ hello = 0 /\ connect = 0 /\ heard = {} /\ inherited = FALSE
    /\ clientHello = 0 /\ waiters = 0 /\ greeted = FALSE
    /\ skill = "none" /\ tools = FALSE /\ enabled = TRUE /\ skillTimer = 0
    /\ began = FALSE /\ shutdown = FALSE /\ over = {} /\ faults = 0

Fault == faults < MaxFaults /\ faults' = faults + 1

\* Program p is over if so.
EndsItself(p, so) == over' = over \cup (IF so THEN {p} ELSE {})

(***************************************************************************)
(* ProcessManager: what its slots do to the state of one program.          *)
(***************************************************************************)
\* Mutant: the first restart comes after 500 ms.
RestartDelayShort(count) == 500 * count

calculateRestartDelay(count) ==
    LET delay == 2000 * 2 ^ (count - 1)
    IN  IF delay < 32000 THEN delay ELSE 32000

\* startProcess: exe says whether the path that findExecutable gave still leads
\* to an executable.
startProcess(r, exe) ==
    [r EXCEPT !.proc = IF exe THEN "starting" ELSE "none", !.closing = FALSE]

\* startHostAsChildProcess and startClientProcess: without an executable the
\* new QProcess is dropped again.
StartChild(r, exe, st) ==
    [startProcess(r, exe) EXCEPT !.status = IF exe THEN st ELSE "NotStarted"]

ScheduleRestart(r) ==
    [r EXCEPT !.count = r.count + 1, !.status = "Restarting",
              !.timer = calculateRestartDelay(r.count + 1)]

\* onHostProcessStarted, onClientProcessStarted.
Started(r) ==
    [r EXCEPT !.proc = "running", !.link = "process", !.count = 0, !.status = "Running"]

\* Mutant: a program that crashes is not started again.
FinishedForgets(r, abnormal) ==
    LET s == [r EXCEPT !.proc = "notRunning", !.closing = FALSE, !.link = "none"]
    IN  IF r.stopping
        THEN [s EXCEPT !.stopping = FALSE, !.proc = "none", !.count = 0,
                       !.status = "NotStarted"]
        ELSE [s EXCEPT !.status = "NotStarted"]

\* onHostProcessFinished, onClientProcessFinished.
Finished(r, abnormal) ==
    LET s == [r EXCEPT !.proc = "notRunning", !.closing = FALSE, !.link = "none"]
    IN  IF r.stopping
        THEN [s EXCEPT !.stopping = FALSE, !.proc = "none", !.count = 0,
                       !.status = "NotStarted"]
        ELSE IF ~abnormal THEN [s EXCEPT !.status = "NotStarted"]
        ELSE IF r.count >= MaxRestarts THEN [s EXCEPT !.status = "Failed"]
        ELSE ScheduleRestart(s)

\* onHostProcessErrorOccurred, onClientProcessErrorOccurred (FailedToStart).
FailedToStart(r) ==
    LET s == [r EXCEPT !.proc = "notRunning", !.closing = FALSE]
    IN  IF r.stopping THEN [s EXCEPT !.status = "NotStarted"]
        ELSE IF r.count < MaxRestarts THEN ScheduleRestart(s)
        ELSE [s EXCEPT !.status = "Failed"]

\* stopHostProcess of a child process, and stopClientProcess.
StopProcess(r) ==
    LET s == [r EXCEPT !.timer = 0, !.stopping = TRUE]
    IN  IF r.proc \in {"none", "notRunning"}
        THEN [s EXCEPT !.link = "none", !.proc = "none", !.count = 0,
                       !.status = "NotStarted"]
        ELSE [s EXCEPT !.closing = TRUE]

\* stopHostProcess when there are sockets: they are dropped at once.
StopService(r) ==
    [r EXCEPT !.timer = 0, !.stopping = TRUE, !.link = "none", !.count = 0,
              !.status = "NotStarted"]

isHostRunning == (pm["host"].link # "none" /\ pipe = "up") \/ pm["host"].proc = "running"

(***************************************************************************)
(* SkillHostManager.                                                       *)
(***************************************************************************)
startSkillHost ==
    skill' \in IF skill = "running" THEN {skill} ELSE {"running", "notRunning"}

stopSkillHost == skill' = "none" /\ tools' = FALSE

(***************************************************************************)
(* The signals of ProcessManager as MainController handles them.           *)
(***************************************************************************)
\* onHostProcessStarted: attach, start the skill host, begin the greeting.
HostProcessStarted ==
    /\ attached' = attached \cup {"host"}
    /\ hello' = hello + 1
    /\ heard' = {}
    /\ IF enabled THEN startSkillHost ELSE skill' = skill
    /\ UNCHANGED <<connect, inherited, deviceId, signaling, viewers, tools, enabled,
                   skillTimer>>

\* HostManager::setMessaging(nullptr) forgets the host's identity.
forgetHost == deviceId' = FALSE /\ signaling' = FALSE /\ viewers' = {}

\* onHostProcessStopped.
HostProcessStopped ==
    /\ attached' = attached \ {"host"} /\ heard' = {}
    /\ forgetHost
    /\ IF skill = "none" THEN UNCHANGED <<skill, tools>> ELSE stopSkillHost
    /\ UNCHANGED <<hello, connect, enabled, skillTimer>>

\* deviceIdChanged with a device id: the lambdas that wait for it greet the
\* client, if there is one, and disconnect themselves.
DeviceIdKnown ==
    /\ deviceId' = TRUE
    /\ greeted' = (greeted \/ (waiters > 0 /\ "client" \in attached))
    /\ waiters' = 0

(***************************************************************************)
(* initialize() and shutdown().                                            *)
(***************************************************************************)
connectToHostServiceAsync ==
    /\ pipe' = "dialing" /\ connecting' = TRUE

\* The host's record after startHostProcess, which may dial the service.
startHostProcess(r, exe) ==
    IF isHostRunning \/ connecting THEN r
    ELSE IF service THEN [r EXCEPT !.status = "Starting"]
    ELSE StartChild(r, exe, "Starting")
DialsService ==
    IF service /\ ~isHostRunning /\ ~connecting THEN connectToHostServiceAsync
    ELSE UNCHANGED <<pipe, connecting>>

Initialize(hostExe, clientExe) ==
    /\ ~began /\ ~shutdown
    /\ began' = TRUE
    /\ pm' = [pm EXCEPT !["host"] = startHostProcess(pm["host"], hostExe),
                        !["client"] = StartChild(pm["client"], clientExe, "Starting")]
    /\ DialsService
    /\ over' = (IF hostExe \/ service THEN {} ELSE {"host"})
                  \cup (IF clientExe THEN {} ELSE {"client"})
    /\ IF hostExe /\ clientExe THEN faults' = faults ELSE Fault
    /\ UNCHANGED <<pipeError, service, attached, hostView, hostTimers, clientTimers,
                   skill_, shutdown>>

Shutdown ==
    /\ ~shutdown
    /\ shutdown' = TRUE
    /\ attached' = {} /\ forgetHost
    /\ connecting' = FALSE
    /\ pipe' = "none"
    /\ pm' = [pm EXCEPT !["host"] = IF pipe = "none" THEN StopProcess(pm["host"])
                                                    ELSE StopService(pm["host"]),
                        !["client"] = StopProcess(pm["client"])]
    /\ UNCHANGED <<pipeError, service, hostTimers, clientTimers, skill_, began, over,
                   faults>>

(***************************************************************************)
(* The host as a child process.                                            *)
(***************************************************************************)
HostStarted ==
    /\ pm["host"].proc = "starting"
    /\ pm' = [pm EXCEPT !["host"] = Started(pm["host"])]
    /\ HostProcessStarted
    /\ UNCHANGED <<service_, clientTimers, life, faults>>

HostFinished(abnormal) ==
    /\ pm["host"].proc = "running"
    /\ IF pm["host"].closing THEN faults' = faults ELSE Fault
    /\ pm' = [pm EXCEPT !["host"] = Finished(pm["host"], abnormal)]
    /\ HostProcessStopped
    /\ EndsItself("host", ~abnormal)
    /\ UNCHANGED <<inherited, service_, clientTimers, began, shutdown>>

HostFailedToStart ==
    /\ pm["host"].proc = "starting"
    /\ Fault
    /\ pm' = [pm EXCEPT !["host"] = FailedToStart(pm["host"])]
    /\ UNCHANGED <<service_, attached, hostView, hostTimers, clientTimers, skill_, life>>

\* The restart timer is never shorter than the two greeting timers together
\* (500 ms each), so what they had to do has been done when it fires.
HostRestartTimer(exe) ==
    /\ pm["host"].timer > 0
    /\ pm["host"].timer > 1000 => hello + connect = 0
    /\ pm' = [pm EXCEPT !["host"] = startHostProcess([pm["host"] EXCEPT !.timer = 0], exe)]
    /\ DialsService
    /\ IF exe THEN faults' = faults ELSE Fault
    /\ inherited' = FALSE
    /\ EndsItself("host", ~exe /\ ~service)
    /\ UNCHANGED <<pipeError, service, attached, hostView, hello, connect, heard,
                   clientTimers, skill_, began, shutdown>>

(***************************************************************************)
(* The host as a service.                                                  *)
(***************************************************************************)
\* onServicePipeConnected.
PipeConnected ==
    /\ pipe = "dialing" /\ connecting
    /\ pipe' = "up" /\ connecting' = FALSE
    /\ pm' = [pm EXCEPT !["host"] = [pm["host"] EXCEPT !.link = "pipe", !.count = 0,
                                                       !.status = "Running"]]
    /\ HostProcessStarted
    /\ UNCHANGED <<pipeError, service, clientTimers, life, faults>>

\* handleError while connecting defers to the event loop.
PipeErrorDuringConnect ==
    /\ pipe = "dialing" /\ connecting /\ ~pipeError
    /\ pipeError' = TRUE
    /\ UNCHANGED <<pm, pipe, connecting, service, attached, hostView, hostTimers,
                   clientTimers, skill_, life, faults>>

\* Both sockets are gone: count a retry while the service runs, else (or after
\* too many) run the host as a child.
RetryServiceOrFallBack(r, exe) ==
    LET s == IF service THEN [r EXCEPT !.count = r.count + 1] ELSE r
    IN  IF service /\ r.count + 1 <= MaxRestarts
        THEN pm' = [pm EXCEPT !["host"] = ScheduleRestart(r)] /\ faults' = faults
        ELSE /\ pm' = [pm EXCEPT !["host"] = StartChild([s EXCEPT !.timer = 0], exe, s.status)]
             /\ IF exe THEN faults' = faults ELSE Fault

\* There is no service to dial again, and no executable to fall back to.
NothingLeft(exe) == ~exe /\ ~(service /\ pm["host"].count < MaxRestarts)

\* onServicePipeError, deferred or by the 5 s connect timer.
ServicePipeError(exe) ==
    /\ pipeError \/ (connecting /\ pipe = "dialing")
    /\ pipeError' = FALSE
    /\ IF connecting
       THEN /\ connecting' = FALSE /\ pipe' = "none"
            /\ RetryServiceOrFallBack(pm["host"], exe)
            /\ EndsItself("host", NothingLeft(exe))
       ELSE UNCHANGED <<connecting, pipe, pm, over, faults>>
    /\ UNCHANGED <<service, attached, hostView, hostTimers, clientTimers, skill_, began,
                   shutdown>>

\* The lambda on disconnected of the read socket.
PipeDisconnected(exe) ==
    /\ pipe = "up" /\ faults < MaxFaults
    /\ pipe' = "none"
    /\ LET r == [pm["host"] EXCEPT !.link = "none"]
       IN  IF r.stopping
           THEN /\ pm' = [pm EXCEPT !["host"] = [r EXCEPT !.stopping = FALSE,
                                                          !.status = "NotStarted"]]
                /\ Fault
           ELSE IF service /\ r.count + 1 <= MaxRestarts
           THEN pm' = [pm EXCEPT !["host"] = ScheduleRestart(r)] /\ Fault
           ELSE /\ pm' = [pm EXCEPT !["host"] =
                             StartChild([r EXCEPT !.timer = 0,
                                                  !.count = r.count + (IF service THEN 1 ELSE 0)],
                                        exe, r.status)]
                /\ Fault
    /\ inherited' = (hello + connect > 0)
    /\ HostProcessStopped
    /\ EndsItself("host", NothingLeft(exe))
    /\ UNCHANGED <<connecting, pipeError, service, clientTimers, began, shutdown>>

ServiceStops ==
    /\ service /\ Fault
    /\ service' = FALSE
    /\ UNCHANGED <<pm, pipe, connecting, pipeError, attached, hostView, hostTimers,
                   clientTimers, skill_, life>>

(***************************************************************************)
(* The client.                                                             *)
(***************************************************************************)
\* onClientProcessStarted of both ProcessManager and MainController.
ClientStarted ==
    /\ pm["client"].proc = "starting"
    /\ pm' = [pm EXCEPT !["client"] = Started(pm["client"])]
    /\ attached' = attached \cup {"client"}
    /\ clientHello' = clientHello + 1
    /\ greeted' = FALSE
    /\ UNCHANGED <<service_, hostView, hostTimers, waiters, skill_, life, faults>>

ClientFinished(abnormal) ==
    /\ pm["client"].proc = "running"
    /\ IF pm["client"].closing THEN faults' = faults ELSE Fault
    /\ pm' = [pm EXCEPT !["client"] = Finished(pm["client"], abnormal)]
    /\ attached' = attached \ {"client"}
    /\ EndsItself("client", ~abnormal)
    /\ UNCHANGED <<service_, hostView, hostTimers, clientTimers, skill_, began, shutdown>>

ClientFailedToStart ==
    /\ pm["client"].proc = "starting"
    /\ Fault
    /\ pm' = [pm EXCEPT !["client"] = FailedToStart(pm["client"])]
    /\ UNCHANGED <<service_, attached, hostView, hostTimers, clientTimers, skill_, life>>

ClientRestartTimer(exe) ==
    /\ pm["client"].timer > 0
    /\ LET r == [pm["client"] EXCEPT !.timer = 0]
       IN  IF r.proc = "running"
           THEN pm' = [pm EXCEPT !["client"] = r] /\ UNCHANGED <<over, faults>>
           ELSE /\ pm' = [pm EXCEPT !["client"] = StartChild(r, exe, "Starting")]
                /\ IF exe THEN faults' = faults ELSE Fault
                /\ EndsItself("client", ~exe)
    /\ UNCHANGED <<service_, attached, hostView, hostTimers, clientTimers, skill_, began,
                   shutdown>>

\* Mutant: nobody waits for a device id that is not there yet.
ClientHelloTimerOnce ==
    /\ clientHello > 0
    /\ clientHello' = clientHello - 1
    /\ greeted' = (greeted \/ (deviceId /\ "client" \in attached))
    /\ waiters' = waiters
    /\ UNCHANGED <<pm, service_, attached, hostView, hostTimers, skill_, life, faults>>

\* The 500 ms timer of onClientProcessStarted.
ClientHelloTimer ==
    /\ clientHello > 0
    /\ clientHello' = clientHello - 1
    /\ IF deviceId
       THEN greeted' = (greeted \/ "client" \in attached) /\ waiters' = waiters
       ELSE waiters' = waiters + 1 /\ greeted' = greeted
    /\ UNCHANGED <<pm, service_, attached, hostView, hostTimers, skill_, life, faults>>

(***************************************************************************)
(* Greeting the host, and its messages as HostManager handles them.        *)
(***************************************************************************)
HostHelloTimer ==
    /\ hello > 0
    /\ hello' = hello - 1 /\ connect' = connect + 1
    /\ heard' = IF "host" \in attached THEN heard \cup {"hello"} ELSE heard
    /\ UNCHANGED <<pm, service_, attached, hostView, inherited, clientTimers, skill_,
                   life, faults>>

HostConnectTimer ==
    /\ connect > 0
    /\ connect' = connect - 1
    /\ heard' = IF "host" \in attached THEN heard \cup {"connect"} ELSE heard
    /\ UNCHANGED <<pm, service_, attached, hostView, hello, inherited, clientTimers,
                   skill_, life, faults>>

\* handleHelloResponse: it may already carry the device id.
HelloResponse ==
    /\ "host" \in attached /\ "hello" \in heard /\ ~deviceId
    /\ DeviceIdKnown
    /\ UNCHANGED <<pm, service_, attached, signaling, viewers, hostTimers, clientHello,
                   skill_, life, faults>>

HostReady ==
    /\ "host" \in attached /\ "connect" \in heard
    /\ DeviceIdKnown
    /\ signaling' = TRUE
    /\ UNCHANGED <<pm, service_, attached, viewers, hostTimers, clientHello, skill_,
                   life, faults>>

SignalingStateChanged(on) ==
    /\ "host" \in attached /\ "connect" \in heard
    /\ signaling' = on
    /\ UNCHANGED <<pm, service_, attached, deviceId, viewers, hostTimers, clientTimers,
                   skill_, life, faults>>

ClientConnected(v) ==
    /\ "host" \in attached /\ deviceId
    /\ viewers' = viewers \cup {v}
    /\ UNCHANGED <<pm, service_, attached, deviceId, signaling, hostTimers, clientTimers,
                   skill_, life, faults>>

ClientDisconnected(v) ==
    /\ "host" \in attached
    /\ viewers' = viewers \ {v}
    /\ UNCHANGED <<pm, service_, attached, deviceId, signaling, hostTimers, clientTimers,
                   skill_, life, faults>>

\* handleClientListChanged replaces the whole list.
ClientListChanged(list) ==
    /\ "host" \in attached /\ deviceId
    /\ viewers' = list
    /\ UNCHANGED <<pm, service_, attached, deviceId, signaling, hostTimers, clientTimers,
                   skill_, life, faults>>

(***************************************************************************)
(* The skill host.                                                         *)
(***************************************************************************)
\* handleSkillHostMessage: capabilitiesReady, capabilitiesChanged.
SkillHostMessage ==
    /\ skill = "running"
    /\ tools' = TRUE
    /\ UNCHANGED <<pm, service_, attached, hostView, hostTimers, clientTimers, skill,
                   enabled, skillTimer, life, faults>>

\* onSkillHostFinished only logs: the cached tools stay.
SkillHostFinished ==
    /\ skill = "running" /\ Fault
    /\ skill' = "notRunning"
    /\ UNCHANGED <<pm, service_, attached, hostView, hostTimers, clientTimers, tools,
                   enabled, skillTimer, life>>

SetSkillHostEnabled(on) ==
    /\ enabled # on /\ ~shutdown /\ Fault
    /\ enabled' = on
    /\ IF on THEN startSkillHost /\ tools' = tools
       ELSE IF skill = "none" THEN UNCHANGED <<skill, tools>>
       ELSE stopSkillHost
    /\ UNCHANGED <<pm, service_, attached, hostView, hostTimers, clientTimers, skillTimer,
                   life>>

\* Restarting it with other directories: stop now, start in 500 ms.
SetExtraSkillsDirs ==
    /\ enabled /\ skill = "running" /\ ~shutdown /\ Fault
    /\ stopSkillHost
    /\ skillTimer' = skillTimer + 1
    /\ UNCHANGED <<pm, service_, attached, hostView, hostTimers, clientTimers, enabled, life>>

SkillRestartTimer ==
    /\ skillTimer > 0
    /\ skillTimer' = skillTimer - 1
    /\ IF enabled THEN startSkillHost ELSE skill' = skill
    /\ UNCHANGED <<pm, service_, attached, hostView, hostTimers, clientTimers, tools,
                   enabled, life, faults>>

-----------------------------------------------------------------------------
HostProgram ==
    \/ HostStarted \/ HostFailedToStart \/ \E b \in BOOLEAN : HostFinished(b)
    \/ \E exe \in BOOLEAN : HostRestartTimer(exe)
    \/ PipeConnected \/ PipeErrorDuringConnect
    \/ \E exe \in BOOLEAN : ServicePipeError(exe) \/ PipeDisconnected(exe)
    \/ ServiceStops

ClientProgram ==
    \/ ClientStarted \/ ClientFailedToStart \/ \E b \in BOOLEAN : ClientFinished(b)
    \/ \E exe \in BOOLEAN : ClientRestartTimer(exe)
    \/ ClientHelloTimer

HostMessages ==
    \/ HostHelloTimer \/ HostConnectTimer \/ HelloResponse \/ HostReady
    \/ \E on \in BOOLEAN : SignalingStateChanged(on)
    \/ \E v \in Viewers : ClientConnected(v) \/ ClientDisconnected(v)
    \/ \E list \in SUBSET Viewers : ClientListChanged(list)

SkillHost ==
    \/ SkillHostMessage \/ SkillHostFinished \/ SetExtraSkillsDirs \/ SkillRestartTimer
    \/ \E on \in BOOLEAN : SetSkillHostEnabled(on)

Next ==
    \/ \E h, c \in BOOLEAN : Initialize(h, c)
    \/ Shutdown \/ HostProgram \/ ClientProgram \/ HostMessages \/ SkillHost

Spec == Init /\ [][Next]_vars

\* The operating system answers a start, a program told to exit is killed in
\* the end, pipes connect or time out, and timers fire.
Fairness ==
    /\ WF_vars(HostStarted \/ HostFailedToStart)
    /\ WF_vars(ClientStarted \/ ClientFailedToStart)
    /\ WF_vars(pm["host"].closing /\ \E b \in BOOLEAN : HostFinished(b))
    /\ WF_vars(pm["client"].closing /\ \E b \in BOOLEAN : ClientFinished(b))
    /\ WF_vars(\E exe \in BOOLEAN : HostRestartTimer(exe))
    /\ WF_vars(\E exe \in BOOLEAN : ClientRestartTimer(exe))
    /\ WF_vars(PipeConnected \/ \E exe \in BOOLEAN : ServicePipeError(exe))
    /\ WF_vars(HostHelloTimer) /\ WF_vars(HostConnectTimer) /\ WF_vars(ClientHelloTimer)

FairSpec == Spec /\ Fairness

(***************************************************************************)
(* Properties.                                                             *)
(***************************************************************************)
\* What the window shows of the host belongs to a host that is there: the
\* device id and the viewers are forgotten with the program that reported
\* them (HostManager::setMessaging), however it went away, and Running is
\* shown only for a program with a live channel, or while a child takes over
\* from the service (the disconnected lambda starts it without a new status).
ViewFollowsHost ==
    /\ deviceId \/ viewers # {} => "host" \in attached
    /\ \A p \in Programs :
          /\ p \in attached => pm[p].link # "none"
          /\ pm[p].status = "Running" /\ ~shutdown =>
                p \in attached \/ (p = "host" /\ pm[p].proc = "starting")

\* A host is told to connect to the signaling server only after it was
\* greeted with the protocol version (the nested timers of
\* onHostProcessStarted), also after a restart: the restart delay outlasts the
\* greeting.  A child that takes over from a service at once is the
\* exception: the timers of the connection before it may still fire.
ConnectAfterHello == "connect" \in heard => "hello" \in heard \/ inherited

\* Switching the AI agent off withdraws its tools for good: no late answer,
\* pending restart or host restart brings them back.
ToolsWithdrawn == tools => enabled /\ skill # "none"

\* What the application shows and asks of its programs is in step with them,
\* through every exit, restart, fallback and late answer (MainController::
\* onHostProcessStopped, onHostProcessStarted, stopSkillHost).
ProgramsInStep == ViewFollowsHost /\ ConnectAfterHello /\ ToolsWithdrawn

\* A client that stays up beside a host with a device id is greeted, whichever
\* of the two was ready first and however often either restarted.
ClientGetsHello ==
    <>[]("client" \in attached /\ deviceId) => <>[]greeted

\* ProcessManager keeps the promise of Supervisor: while the application is
\* open a program that crashes, or whose service is lost, is tried again, is
\* given up only when the attempts are used up, and is left alone only when it
\* ended by itself or cannot be started; every attempt ends; and after
\* shutdown() nothing is started again and everything ends, whatever was
\* pending when it was called.
Phase(p) ==
    IF pm[p].timer > 0 \/ pm[p].proc = "starting" \/ (p = "host" /\ pipe = "dialing")
    THEN "trying"
    ELSE IF pm[p].proc = "running" \/ (p = "host" /\ pipe = "up") THEN "up"
    ELSE IF pm[p].status = "Failed" THEN "givenUp"
    ELSE IF p \in over /\ ~shutdown THEN "ended" ELSE "idle"

Tries(p) == IF shutdown THEN 0 ELSE pm[p].count

Promised == INSTANCE Supervisor WITH phase <- [p \in Programs |-> Phase(p)],
                                     tries <- [p \in Programs |-> Tries(p)],
                                     closed <- shutdown, MaxRetries <- MaxRestarts

SupervisorKept == Promised!Promise
=============================================================================
