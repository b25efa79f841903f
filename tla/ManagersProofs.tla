--------------------------- MODULE ManagersProofs ---------------------------
(***************************************************************************)
(* Proofs about two managers of the desktop application.                   *)
(*                                                                         *)
(* The first part is about ProcessSupervision, for any number of restarts, *)
(* viewers and failures, with and without the service: the types, that the *)
(* application is in step with its programs, and that ProcessManager       *)
(* implements Supervisor step by step.                                     *)
(*                                                                         *)
(* All three rest on the ways to bring a program up excluding each other   *)
(* (Exclusive): a restart timer, a child that starts or runs, and the      *)
(* pipes to the service.  The order of the greeting rests, in addition, on *)
(* no old greeting timer being left when a host is brought up (Greeting),  *)
(* for which the shortest restart delay has to be longer than both timers. *)
(*                                                                         *)
(* The second part is about CloudDevices, for any devices, revisions,      *)
(* codes, calls and losses: the types, that the cloud has this host's      *)
(* access code, and that the list shows what the cloud has.  The list is   *)
(* right when everything has arrived because of what is on its way.  An    *)
(* event of the log that the list has not seen is in the wire or covered   *)
(* by a snapshot there (Covered, Frames); an answer is an image of the row *)
(* at a revision that the list may have passed (AnswerSound); and a row    *)
(* shows its device as the log had it at the row's revision, with the      *)
(* code, unless an event or an answer that will correct it is still to     *)
(* come (ListSound).                                                       *)
(***************************************************************************)
EXTENDS ProcessSupervision, CloudDevices, SequenceTheorems, FiniteSetTheorems,
        WellFoundedInduction, TLAPS

Child(p) == pm[p].proc \in {"starting", "running"}

\* The ways to bring a program up exclude each other, and shutdown ends all
\* but a child that was told to go.
Exclusive ==
    /\ connecting <=> pipe = "dialing"
    /\ pipe # "none" => ~Child("host") /\ pm["host"].timer = 0
    /\ pipe # "none" \/ pm["host"].timer > 0 => pm["host"].count <= MaxRestarts
    /\ pm["host"].timer > 0 => pm["host"].timer > 1000
    /\ \A p \in Programs :
          /\ pm[p].timer > 0 => ~Child(p)
          /\ pm[p].stopping => shutdown
          /\ shutdown => pm[p].timer = 0 /\ (Child(p) => pm[p].stopping)
          /\ ~began => /\ pm[p].timer = 0 /\ pm[p].count = 0
                       /\ ~Child(p) /\ pm[p].status = "NotStarted"
    /\ shutdown \/ ~began => pipe = "none"

\* A program that is there has a channel, only then is it attached, and a skill
\* host runs only while it is switched on.
Linked ==
    /\ \A p \in Programs : pm[p].proc = "running" => pm[p].link # "none"
    /\ pipe = "up" => pm["host"].link # "none"
    /\ "host" \in attached => pm["host"].proc = "running" \/ pipe = "up"
    /\ "client" \in attached => pm["client"].proc = "running"
    /\ skill = "running" => enabled

\* A host that is brought up, or may be told to connect, has no greeting timer
\* of an earlier one to fear.
Greeting ==
    /\ pm["host"].proc = "starting" \/ pipe = "dialing" => hello + connect = 0 \/ inherited
    /\ "host" \in attached /\ connect > 0 => "hello" \in heard \/ inherited
    /\ "host" \notin attached /\ ~shutdown => heard = {}
    /\ ~began => hello + connect = 0

IInv == TypeOK /\ Exclusive /\ Linked /\ Greeting /\ ProgramsInStep

----------------------------------------------------------------------------
(***************************************************************************)
(* What the slots of ProcessManager do to a program's record.              *)
(***************************************************************************)

\* calculateRestartDelay: no delay is as short as the two greeting timers.
LEMMA DelayLong ==
    ASSUME NEW n \in 1 .. MaxRestarts
    PROVE  calculateRestartDelay(n) \in Nat /\ calculateRestartDelay(n) > 1000
  <1>1. n - 1 \in 0 .. MaxRestarts
    BY SupervisionAssumption
  <1>2. 2 ^ (n - 1) \in Nat \ {0}
    BY <1>1, PowersAssumption
  <1> DEFINE k == 2 ^ (n - 1)
  <1>3. k \in Nat /\ k >= 1
    BY <1>2
  <1>4. calculateRestartDelay(n) = IF 2000 * k < 32000 THEN 2000 * k ELSE 32000
    BY DEF calculateRestartDelay
  <1> HIDE DEF k
  <1> QED BY <1>3, <1>4

\* The fields of a record.
LEMMA Fields ==
    ASSUME NEW r \in Supervised
    PROVE  /\ r.proc \in QProcessStates /\ r.closing \in BOOLEAN /\ r.status \in Statuses
           /\ r.count \in 0 .. MaxRestarts + 1 /\ r.stopping \in BOOLEAN /\ r.timer \in Nat
           /\ r.link \in {"none", "process", "pipe"}
  BY DEF Supervised

\* startHostAsChildProcess, startClientProcess.
LEMMA StartChildDoes ==
    ASSUME NEW r \in Supervised, NEW exe \in BOOLEAN, NEW st \in Statuses
    PROVE  LET s == StartChild(r, exe, st)
           IN  /\ s \in Supervised /\ s.count = r.count /\ s.stopping = r.stopping
               /\ s.timer = r.timer /\ s.link = r.link
               /\ s.proc = IF exe THEN "starting" ELSE "none"
               /\ s.status = IF exe THEN st ELSE "NotStarted"
  <1> DEFINE q == startProcess(r, exe)
             s == [q EXCEPT !.status = IF exe THEN st ELSE "NotStarted"]
  <1>1. /\ q \in Supervised /\ q.count = r.count /\ q.stopping = r.stopping
        /\ q.timer = r.timer /\ q.link = r.link
        /\ q.proc = IF exe THEN "starting" ELSE "none"
    BY DEF startProcess, Supervised, QProcessStates
  <1>2. StartChild(r, exe, st) = s
    BY DEF StartChild
  <1> HIDE DEF q
  <1>3. (IF exe THEN st ELSE "NotStarted") \in Statuses
    BY DEF Statuses
  <1>4. /\ s \in Supervised /\ s.count = q.count /\ s.stopping = q.stopping
        /\ s.timer = q.timer /\ s.link = q.link /\ s.proc = q.proc
        /\ s.status = IF exe THEN st ELSE "NotStarted"
    BY <1>1, <1>3 DEF Supervised
  <1> HIDE DEF s
  <1> QED BY <1>1, <1>2, <1>4

\* A restart is counted, and its timer is armed.
LEMMA ScheduleRestartDoes ==
    ASSUME NEW r \in Supervised, r.count < MaxRestarts
    PROVE  LET s == ScheduleRestart(r)
           IN  /\ s \in Supervised /\ s.count = r.count + 1 /\ s.count <= MaxRestarts
               /\ s.status = "Restarting" /\ s.timer > 1000
               /\ s.stopping = r.stopping /\ s.proc = r.proc /\ s.link = r.link
  <1> DEFINE n == r.count + 1
             d == calculateRestartDelay(n)
             s == [r EXCEPT !.count = n, !.status = "Restarting", !.timer = d]
  <1>1. ScheduleRestart(r) = s
    BY DEF ScheduleRestart
  <1>2. n \in 1 .. MaxRestarts /\ n \in 0 .. MaxRestarts + 1
    BY SupervisionAssumption, Fields
  <1>3. d \in Nat /\ d > 1000
    BY <1>2, DelayLong
  <1> HIDE DEF d, n
  <1>4. /\ s \in Supervised /\ s.count = n /\ s.status = "Restarting" /\ s.timer = d
        /\ s.stopping = r.stopping /\ s.proc = r.proc /\ s.link = r.link
    BY <1>2, <1>3 DEF Supervised, Statuses
  <1> HIDE DEF s
  <1> QED BY <1>1, <1>2, <1>3, <1>4, SupervisionAssumption DEF n

\* A child runs.
LEMMA StartedDoes ==
    ASSUME NEW r \in Supervised
    PROVE  LET s == Started(r)
           IN  /\ s \in Supervised /\ s.proc = "running" /\ s.link = "process" /\ s.count = 0
               /\ s.status = "Running" /\ s.timer = r.timer /\ s.stopping = r.stopping
  <1>1. 0 \in 0 .. MaxRestarts + 1
    BY SupervisionAssumption
  <1> QED BY <1>1 DEF Started, Supervised, QProcessStates, Statuses

\* A child has ended: it is tried again only after a crash that nobody asked
\* for.
LEMMA FinishedDoes ==
    ASSUME NEW r \in Supervised, NEW abnormal \in BOOLEAN, r.timer = 0
    PROVE  LET s == Finished(r, abnormal)
           IN  /\ s \in Supervised /\ s.proc \in {"none", "notRunning"} /\ s.link = "none"
               /\ s.status \in {"NotStarted", "Failed", "Restarting"}
               /\ s.stopping => r.stopping
               /\ \/ s.timer = 0
                  \/ s.timer > 1000 /\ s.count <= MaxRestarts /\ ~r.stopping
               /\ IF r.stopping THEN s.timer = 0 /\ s.status = "NotStarted"
                  ELSE IF ~abnormal
                  THEN s.timer = 0 /\ s.status = "NotStarted" /\ s.count = r.count
                  ELSE r.count < MaxRestarts => s.timer > 1000 /\ s.count = r.count + 1
  <1> DEFINE q == [r EXCEPT !.proc = "notRunning", !.closing = FALSE, !.link = "none"]
             a == [q EXCEPT !.stopping = FALSE, !.proc = "none", !.count = 0,
                            !.status = "NotStarted"]
             b == [q EXCEPT !.status = "NotStarted"]
             c == [q EXCEPT !.status = "Failed"]
  <1>1. Finished(r, abnormal) = IF r.stopping THEN a
                                ELSE IF ~abnormal THEN b
                                ELSE IF r.count >= MaxRestarts THEN c
                                ELSE ScheduleRestart(q)
    BY DEF Finished
  <1>2. /\ q \in Supervised /\ q.proc = "notRunning" /\ q.link = "none" /\ q.timer = 0
        /\ q.stopping = r.stopping /\ q.count = r.count
    BY DEF Supervised, QProcessStates
  <1>3. r.count \in 0 .. MaxRestarts + 1 /\ 0 \in 0 .. MaxRestarts + 1
    BY Fields, SupervisionAssumption
  <1>4. /\ a \in Supervised /\ a.proc = "none" /\ a.link = "none" /\ a.timer = 0
        /\ a.status = "NotStarted" /\ a.stopping = FALSE
    BY <1>2, <1>3 DEF Supervised, QProcessStates, Statuses
  <1>5. /\ b \in Supervised /\ b.proc = "notRunning" /\ b.link = "none" /\ b.timer = 0
        /\ b.status = "NotStarted" /\ b.stopping = r.stopping /\ b.count = r.count
    BY <1>2 DEF Supervised, Statuses
  <1>6. /\ c \in Supervised /\ c.proc = "notRunning" /\ c.link = "none" /\ c.timer = 0
        /\ c.status = "Failed" /\ c.stopping = r.stopping
    BY <1>2 DEF Supervised, Statuses
  <1> HIDE DEF a, b, c, q
  <1>7. CASE r.stopping
    BY <1>1, <1>4, <1>7
  <1>8. CASE ~r.stopping /\ ~abnormal
    BY <1>1, <1>5, <1>8
  <1>9. CASE ~r.stopping /\ abnormal /\ r.count >= MaxRestarts
    BY <1>1, <1>3, <1>6, <1>9, SupervisionAssumption
  <1>10. CASE ~r.stopping /\ abnormal /\ ~(r.count >= MaxRestarts)
    <2>1. q.count < MaxRestarts
      BY <1>2, <1>3, <1>10, SupervisionAssumption
    <2>2. Finished(r, abnormal) = ScheduleRestart(q)
      BY <1>1, <1>10
    <2>3. LET s == ScheduleRestart(q)
          IN  /\ s \in Supervised /\ s.count <= MaxRestarts /\ s.status = "Restarting"
              /\ s.count = q.count + 1 /\ s.timer > 1000 /\ s.stopping = q.stopping /\ s.proc = q.proc
              /\ s.link = q.link
      BY <1>2, <2>1, ScheduleRestartDoes
    <2> QED BY <1>2, <1>10, <2>2, <2>3
  <1> QED BY <1>7, <1>8, <1>9, <1>10

\* A child could not be started: it is tried again unless it was told to stop.
LEMMA FailedToStartDoes ==
    ASSUME NEW r \in Supervised, r.timer = 0
    PROVE  LET s == FailedToStart(r)
           IN  /\ s \in Supervised /\ s.proc = "notRunning" /\ s.link = r.link
               /\ s.status \in {"NotStarted", "Failed", "Restarting"}
               /\ s.stopping = r.stopping
               /\ \/ s.timer = 0
                  \/ s.timer > 1000 /\ s.count <= MaxRestarts /\ ~r.stopping
               /\ IF r.stopping THEN s.timer = 0 /\ s.status = "NotStarted" /\ s.count = r.count
                  ELSE IF r.count < MaxRestarts THEN s.timer > 1000 /\ s.count = r.count + 1
                  ELSE s.timer = 0 /\ s.status = "Failed" /\ s.count = r.count
  <1> DEFINE q == [r EXCEPT !.proc = "notRunning", !.closing = FALSE]
             b == [q EXCEPT !.status = "NotStarted"]
             c == [q EXCEPT !.status = "Failed"]
  <1>1. FailedToStart(r) = IF r.stopping THEN b
                           ELSE IF r.count < MaxRestarts THEN ScheduleRestart(q)
                           ELSE c
    BY DEF FailedToStart
  <1>2. /\ q \in Supervised /\ q.proc = "notRunning" /\ q.link = r.link /\ q.timer = 0
        /\ q.stopping = r.stopping /\ q.count = r.count
    BY DEF Supervised, QProcessStates
  <1>3. /\ b \in Supervised /\ b.proc = "notRunning" /\ b.link = r.link /\ b.timer = 0
        /\ b.status = "NotStarted" /\ b.stopping = r.stopping /\ b.count = r.count
    BY <1>2 DEF Supervised, Statuses
  <1>4. /\ c \in Supervised /\ c.proc = "notRunning" /\ c.link = r.link /\ c.timer = 0
        /\ c.status = "Failed" /\ c.stopping = r.stopping /\ c.count = r.count
    BY <1>2 DEF Supervised, Statuses
  <1> HIDE DEF b, c, q
  <1>5. CASE r.stopping
    BY <1>1, <1>3, <1>5
  <1>6. CASE ~r.stopping /\ r.count < MaxRestarts
    <2>1. FailedToStart(r) = ScheduleRestart(q)
      BY <1>1, <1>6
    <2> QED BY <1>2, <1>6, <2>1, ScheduleRestartDoes
  <1>7. CASE ~r.stopping /\ ~(r.count < MaxRestarts)
    BY <1>1, <1>4, <1>7
  <1> QED BY <1>5, <1>6, <1>7

\* stopHostProcess of a child, stopClientProcess.
LEMMA StopProcessDoes ==
    ASSUME NEW r \in Supervised
    PROVE  LET s == StopProcess(r)
           IN  /\ s \in Supervised /\ s.timer = 0 /\ s.stopping
               /\ IF r.proc \in {"none", "notRunning"}
                  THEN s.proc = "none" /\ s.status = "NotStarted" /\ s.count = 0
                  ELSE /\ s.proc = r.proc /\ s.link = r.link /\ s.status = r.status
                       /\ s.count = r.count
  <1> DEFINE q == [r EXCEPT !.timer = 0, !.stopping = TRUE]
             a == [q EXCEPT !.link = "none", !.proc = "none", !.count = 0,
                            !.status = "NotStarted"]
             b == [q EXCEPT !.closing = TRUE]
  <1>1. StopProcess(r) = IF r.proc \in {"none", "notRunning"} THEN a ELSE b
    BY DEF StopProcess
  <1>2. 0 \in 0 .. MaxRestarts + 1 /\ 0 \in Nat
    BY SupervisionAssumption
  <1>3. /\ q \in Supervised /\ q.timer = 0 /\ q.stopping = TRUE /\ q.proc = r.proc
        /\ q.link = r.link /\ q.status = r.status /\ q.count = r.count
    BY <1>2 DEF Supervised
  <1>4. /\ a \in Supervised /\ a.timer = 0 /\ a.stopping = TRUE /\ a.proc = "none"
        /\ a.status = "NotStarted" /\ a.count = 0
    BY <1>2, <1>3 DEF Supervised, QProcessStates, Statuses
  <1>5. /\ b \in Supervised /\ b.timer = 0 /\ b.stopping = TRUE /\ b.proc = r.proc
        /\ b.link = r.link /\ b.status = r.status /\ b.count = r.count
    BY <1>3 DEF Supervised
  <1> HIDE DEF a, b, q
  <1> QED BY <1>1, <1>4, <1>5

\* stopHostProcess when there are sockets.
LEMMA StopServiceDoes ==
    ASSUME NEW r \in Supervised
    PROVE  LET s == StopService(r)
           IN  /\ s \in Supervised /\ s.timer = 0 /\ s.stopping /\ s.proc = r.proc
               /\ s.status = "NotStarted"
  <1>1. 0 \in 0 .. MaxRestarts + 1 /\ 0 \in Nat
    BY SupervisionAssumption
  <1> QED BY <1>1 DEF StopService, Supervised, Statuses

----------------------------------------------------------------------------
(***************************************************************************)
(* What the steps have in common.                                          *)
(***************************************************************************)

\* The types, one by one.
LEMMA Types ==
    TypeOK <=>
      /\ pm \in [Programs -> Supervised]
      /\ pipe \in {"none", "dialing", "up"}
      /\ connecting \in BOOLEAN /\ pipeError \in BOOLEAN /\ service \in BOOLEAN
      /\ deviceId \in BOOLEAN /\ signaling \in BOOLEAN /\ greeted \in BOOLEAN
      /\ inherited \in BOOLEAN /\ tools \in BOOLEAN /\ enabled \in BOOLEAN
      /\ began \in BOOLEAN /\ shutdown \in BOOLEAN
      /\ attached \subseteq Programs /\ over \subseteq Programs
      /\ viewers \subseteq Viewers /\ heard \subseteq {"hello", "connect"}
      /\ hello \in Nat /\ connect \in Nat /\ clientHello \in Nat /\ waiters \in Nat
      /\ skillTimer \in Nat
      /\ skill \in {"none", "notRunning", "running"}
      /\ faults \in 0 .. MaxFaults
  BY DEF TypeOK

\* The host's record is replaced, or the client's.
LEMMA OneProgram ==
    ASSUME TypeOK, NEW p \in Programs, NEW s \in Supervised, pm' = [pm EXCEPT ![p] = s]
    PROVE  /\ pm' \in [Programs -> Supervised] /\ pm'[p] = s
           /\ \A q \in Programs : q # p => pm'[q] = pm[q]
  BY DEF TypeOK

\* The two programs.
LEMMA BothPrograms ==
    ASSUME TypeOK
    PROVE  /\ Programs = {"host", "client"}
           /\ pm["host"] \in Supervised /\ pm["client"] \in Supervised
  BY DEF TypeOK, Programs

\* A counted failure.
LEMMA FaultCounts == ASSUME faults \in 0 .. MaxFaults, Fault PROVE faults' \in 0 .. MaxFaults
  BY SupervisionAssumption DEF Fault

\* A program is entered among those that have ended.
LEMMA OverTypes ==
    ASSUME TypeOK, NEW p \in Programs, NEW so, EndsItself(p, so)
    PROVE  /\ over' \subseteq Programs
           /\ \A q \in Programs \ {p} : q \in over' <=> q \in over
           /\ so => p \in over'
  <1>1. over \subseteq Programs
    BY Types
  <1> QED BY <1>1 DEF EndsItself

\* The skill host starts.
LEMMA SkillStarts ==
    ASSUME TypeOK, ToolsWithdrawn, Linked,
           IF enabled THEN startSkillHost ELSE skill' = skill,
           tools' = tools, enabled' = enabled
    PROVE  /\ skill' \in {"none", "notRunning", "running"} /\ ToolsWithdrawn'
           /\ skill' = "running" => enabled
  BY Types DEF startSkillHost, ToolsWithdrawn, Linked

\* A host comes up: it is attached and will be greeted, then connected.
LEMMA HostUp ==
    ASSUME IInv, HostProcessStarted,
           pm["host"].proc = "starting" \/ pipe = "dialing"
    PROVE  /\ attached' = attached \cup {"host"} /\ attached' \subseteq Programs
           /\ skill' \in {"none", "notRunning", "running"} /\ (skill' = "running" => enabled)
           /\ hello' \in Nat /\ connect' \in Nat /\ heard' = {} /\ inherited' = inherited
           /\ ToolsWithdrawn' /\ ConnectAfterHello'
           /\ connect' > 0 => inherited
           /\ UNCHANGED <<deviceId, signaling, viewers, tools, enabled, skillTimer>>
  <1>1. TypeOK /\ ToolsWithdrawn /\ Linked /\ Greeting
    BY DEF IInv, ProgramsInStep
  <1>2. /\ attached' = attached \cup {"host"} /\ heard' = {} /\ hello' = hello + 1
        /\ UNCHANGED <<connect, inherited, deviceId, signaling, viewers, tools, enabled,
                       skillTimer>>
        /\ IF enabled THEN startSkillHost ELSE skill' = skill
    BY DEF HostProcessStarted
  <1>3. hello \in Nat /\ connect \in Nat /\ attached \subseteq Programs
    BY <1>1, Types
  <1>4. /\ skill' \in {"none", "notRunning", "running"} /\ ToolsWithdrawn'
        /\ skill' = "running" => enabled
    BY <1>1, <1>2, SkillStarts
  <1>5. connect > 0 => inherited
    BY <1>1, <1>3 DEF Greeting
  <1>6. ConnectAfterHello'
    BY <1>2 DEF ConnectAfterHello
  <1>7. attached' \subseteq Programs
    BY <1>2, <1>3 DEF Programs
  <1>8. hello' \in Nat /\ connect' \in Nat
    BY <1>2, <1>3
  <1> QED BY <1>2, <1>4, <1>5, <1>6, <1>7, <1>8

\* A host goes: what it reported and was sent is forgotten.
LEMMA HostDown ==
    ASSUME IInv, HostProcessStopped
    PROVE  /\ attached' = attached \ {"host"} /\ attached' \subseteq Programs
           /\ deviceId' = FALSE /\ signaling' = FALSE /\ viewers' = {} /\ heard' = {}
           /\ skill' \in {"none", "notRunning", "running"} /\ tools' \in BOOLEAN
           /\ skill' # "running"
           /\ ToolsWithdrawn' /\ ConnectAfterHello'
           /\ UNCHANGED <<hello, connect, enabled, skillTimer>>
  <1>1. TypeOK /\ ToolsWithdrawn
    BY DEF IInv, ProgramsInStep
  <1>2. /\ attached' = attached \ {"host"} /\ heard' = {}
        /\ deviceId' = FALSE /\ signaling' = FALSE /\ viewers' = {}
        /\ IF skill = "none" THEN skill' = skill /\ tools' = tools
           ELSE skill' = "none" /\ tools' = FALSE
        /\ UNCHANGED <<hello, connect, enabled, skillTimer>>
    BY DEF HostProcessStopped, forgetHost, stopSkillHost
  <1>3. ToolsWithdrawn'
    BY <1>1, <1>2 DEF ToolsWithdrawn
  <1>4. ConnectAfterHello'
    BY <1>2 DEF ConnectAfterHello
  <1>5. /\ skill' \in {"none", "notRunning", "running"} /\ tools' \in BOOLEAN
        /\ attached' \subseteq Programs /\ skill' # "running"
    BY <1>1, <1>2, Types
  <1> QED BY <1>2, <1>3, <1>4, <1>5

----------------------------------------------------------------------------
(***************************************************************************)
(* The host as a child process.                                            *)
(***************************************************************************)

\* onHostProcessStarted.
LEMMA HostStartedInv ==
    ASSUME IInv, HostStarted
    PROVE  IInv'
  <1> DEFINE s == Started(pm["host"])
  <1>0. TypeOK /\ Exclusive /\ Linked /\ Greeting /\ ProgramsInStep
    BY DEF IInv
  <1>1. /\ pm["host"].proc = "starting" /\ pm' = [pm EXCEPT !["host"] = s]
        /\ HostProcessStarted
        /\ UNCHANGED <<pipe, connecting, pipeError, service, clientHello, waiters, greeted,
                       over, began, shutdown, faults>>
    BY DEF HostStarted, service_, clientTimers, life
  <1>2. /\ s \in Supervised /\ s.proc = "running" /\ s.link = "process" /\ s.count = 0
        /\ s.status = "Running" /\ s.timer = pm["host"].timer
        /\ s.stopping = pm["host"].stopping
    BY <1>0, BothPrograms, StartedDoes
  <1> HIDE DEF s
  <1>3. /\ pm' \in [Programs -> Supervised] /\ pm'["host"] = s
        /\ pm'["client"] = pm["client"] /\ Programs = {"host", "client"}
    BY <1>0, <1>1, <1>2, OneProgram, BothPrograms
  <1>4. /\ attached' = attached \cup {"host"} /\ attached' \subseteq Programs
        /\ skill' \in {"none", "notRunning", "running"} /\ (skill' = "running" => enabled)
        /\ hello' \in Nat /\ connect' \in Nat /\ heard' = {} /\ inherited' = inherited
        /\ ToolsWithdrawn' /\ ConnectAfterHello'
        /\ connect' > 0 => inherited
        /\ UNCHANGED <<deviceId, signaling, viewers, tools, enabled, skillTimer>>
    BY <1>1, HostUp
  <1>5. TypeOK'
    BY <1>0, <1>1, <1>3, <1>4, Types DEF TypeOK
  <1>6. Exclusive'
    BY <1>0, <1>1, <1>2, <1>3 DEF Exclusive, Child
  <1>7. Linked'
    BY <1>0, <1>1, <1>2, <1>3, <1>4 DEF Linked
  <1>8. Greeting'
    <2>1. pipe' # "dialing" /\ began
      BY <1>0, <1>1, <1>3 DEF Exclusive, Child
    <2>2. pm'["host"].proc # "starting"
      BY <1>2, <1>3
    <2>3. "host" \in attached'
      BY <1>4
    <2>4. began' = TRUE /\ (connect' > 0 => inherited')
      BY <1>0, <1>1, <1>4, <2>1, Types
    <2> QED BY <2>1, <2>2, <2>3, <2>4 DEF Greeting
  <1>9. ViewFollowsHost'
    BY <1>0, <1>1, <1>2, <1>3, <1>4 DEF ProgramsInStep, ViewFollowsHost
  <1> QED BY <1>4, <1>5, <1>6, <1>7, <1>8, <1>9 DEF IInv, ProgramsInStep

\* onHostProcessFinished.
LEMMA HostFinishedInv ==
    ASSUME IInv, NEW abnormal \in BOOLEAN, HostFinished(abnormal)
    PROVE  IInv'
  <1> DEFINE s == Finished(pm["host"], abnormal)
  <1>0. TypeOK /\ Exclusive /\ Linked /\ Greeting /\ ProgramsInStep
    BY DEF IInv
  <1>1. /\ pm["host"].proc = "running" /\ pm' = [pm EXCEPT !["host"] = s]
        /\ HostProcessStopped
        /\ UNCHANGED <<inherited, pipe, connecting, pipeError, service, clientHello, waiters,
                       greeted, began, shutdown>>
        /\ faults' = faults \/ Fault
        /\ EndsItself("host", ~abnormal)
    BY DEF HostFinished, service_, clientTimers
  <1>2. pm["host"] \in Supervised /\ pm["host"].timer = 0 /\ pipe = "none"
    BY <1>0, <1>1, BothPrograms, Types, Fields DEF Exclusive, Child
  <1>3. /\ s \in Supervised /\ s.proc \in {"none", "notRunning"} /\ s.link = "none"
        /\ s.status \in {"NotStarted", "Failed", "Restarting"}
        /\ s.stopping => pm["host"].stopping
        /\ \/ s.timer = 0
           \/ s.timer > 1000 /\ s.count <= MaxRestarts /\ ~pm["host"].stopping
    BY <1>2, FinishedDoes
  <1> HIDE DEF s
  <1>4. /\ pm' \in [Programs -> Supervised] /\ pm'["host"] = s
        /\ pm'["client"] = pm["client"] /\ Programs = {"host", "client"}
    BY <1>0, <1>1, <1>3, OneProgram, BothPrograms
  <1>5. /\ attached' = attached \ {"host"} /\ attached' \subseteq Programs
        /\ deviceId' = FALSE /\ signaling' = FALSE /\ viewers' = {} /\ heard' = {}
        /\ skill' \in {"none", "notRunning", "running"} /\ tools' \in BOOLEAN
        /\ skill' # "running"
        /\ ToolsWithdrawn' /\ ConnectAfterHello'
        /\ UNCHANGED <<hello, connect, enabled, skillTimer>>
    BY <1>1, HostDown
  <1>6. faults' \in 0 .. MaxFaults
    BY <1>0, <1>1, Types, FaultCounts
  <1>7. TypeOK'
    <2>1. over' \subseteq Programs
      BY <1>0, <1>1, <1>4, OverTypes
    <2> QED BY <1>0, <1>1, <1>4, <1>5, <1>6, <2>1, Types DEF TypeOK
  <1>8. Exclusive'
    BY <1>0, <1>1, <1>2, <1>3, <1>4 DEF Exclusive, Child
  <1>9. Linked'
    BY <1>0, <1>1, <1>2, <1>3, <1>4, <1>5 DEF Linked
  <1>10. Greeting'
    BY <1>0, <1>1, <1>2, <1>3, <1>4, <1>5 DEF Greeting, Exclusive, Child
  <1>11. ViewFollowsHost'
    BY <1>0, <1>1, <1>3, <1>4, <1>5 DEF ProgramsInStep, ViewFollowsHost
  <1> QED BY <1>5, <1>7, <1>8, <1>9, <1>10, <1>11 DEF IInv, ProgramsInStep

\* onHostProcessErrorOccurred.
LEMMA HostFailedToStartInv ==
    ASSUME IInv, HostFailedToStart
    PROVE  IInv'
  <1> DEFINE s == FailedToStart(pm["host"])
  <1>0. TypeOK /\ Exclusive /\ Linked /\ Greeting /\ ProgramsInStep
    BY DEF IInv
  <1>1. /\ pm["host"].proc = "starting" /\ pm' = [pm EXCEPT !["host"] = s] /\ Fault
        /\ UNCHANGED <<pipe, connecting, pipeError, service, attached, deviceId, signaling,
                       viewers, hello, connect, heard, inherited, clientHello, waiters,
                       greeted, skill, tools, enabled, skillTimer, over, began, shutdown>>
    BY DEF HostFailedToStart, service_, hostView, hostTimers, clientTimers, skill_, life
  <1>2. pm["host"] \in Supervised /\ pm["host"].timer = 0 /\ pipe = "none"
    BY <1>0, <1>1, BothPrograms, Types, Fields DEF Exclusive, Child
  <1>3. /\ s \in Supervised /\ s.proc = "notRunning" /\ s.link = pm["host"].link
        /\ s.status \in {"NotStarted", "Failed", "Restarting"}
        /\ s.stopping = pm["host"].stopping
        /\ \/ s.timer = 0
           \/ s.timer > 1000 /\ s.count <= MaxRestarts /\ ~pm["host"].stopping
    BY <1>2, FailedToStartDoes
  <1> HIDE DEF s
  <1>4. /\ pm' \in [Programs -> Supervised] /\ pm'["host"] = s
        /\ pm'["client"] = pm["client"] /\ Programs = {"host", "client"}
    BY <1>0, <1>1, <1>3, OneProgram, BothPrograms
  <1>6. faults' \in 0 .. MaxFaults
    BY <1>0, <1>1, Types, FaultCounts
  <1>7. TypeOK'
    BY <1>0, <1>1, <1>4, <1>6, Types DEF TypeOK
  <1>8. Exclusive'
    BY <1>0, <1>1, <1>2, <1>3, <1>4 DEF Exclusive, Child
  <1>9. Linked'
    BY <1>0, <1>1, <1>2, <1>3, <1>4 DEF Linked
  <1>10. Greeting'
    BY <1>0, <1>1, <1>2, <1>3, <1>4 DEF Greeting
  <1>11. ViewFollowsHost' /\ ConnectAfterHello' /\ ToolsWithdrawn'
    BY <1>0, <1>1, <1>2, <1>3, <1>4
       DEF ProgramsInStep, ViewFollowsHost, ConnectAfterHello, ToolsWithdrawn, Linked
  <1> QED BY <1>7, <1>8, <1>9, <1>10, <1>11 DEF IInv, ProgramsInStep

\* ServiceStops, and the pipe's deferred error.
LEMMA ServiceWorldInv ==
    ASSUME IInv, ServiceStops \/ PipeErrorDuringConnect
    PROVE  IInv'
  <1>0. TypeOK /\ Exclusive /\ Linked /\ Greeting /\ ProgramsInStep
    BY DEF IInv
  <1>1. /\ UNCHANGED <<pm, pipe, connecting, attached, deviceId, signaling, viewers, hello,
                       connect, heard, inherited, clientHello, waiters, greeted, skill,
                       tools, enabled, skillTimer, over, began, shutdown>>
        /\ service' \in {service, FALSE} /\ pipeError' \in {pipeError, TRUE}
        /\ faults' = faults \/ Fault
    BY DEF ServiceStops, PipeErrorDuringConnect, hostView, hostTimers, clientTimers, skill_,
           life
  <1>2. TypeOK'
    <2>1. faults' \in 0 .. MaxFaults
      BY <1>0, <1>1, Types, FaultCounts
    <2>2. service' \in BOOLEAN /\ pipeError' \in BOOLEAN
      BY <1>0, <1>1, Types
    <2> QED BY <1>0, <1>1, <2>1, <2>2, Types DEF TypeOK
  <1>3. Exclusive'
    BY <1>0, <1>1 DEF Exclusive, Child
  <1>4. Linked' /\ Greeting'
    BY <1>0, <1>1 DEF Linked, Greeting
  <1>5. ProgramsInStep'
    BY <1>0, <1>1 DEF ProgramsInStep, ViewFollowsHost, ConnectAfterHello, ToolsWithdrawn
  <1> QED BY <1>2, <1>3, <1>4, <1>5 DEF IInv

----------------------------------------------------------------------------
(***************************************************************************)
(* The host as a service, and the fall back to a child.                    *)
(***************************************************************************)

\* startHostProcess when no host is there: the service is dialed, or a child
\* is started.
LEMMA StartHostDoes ==
    ASSUME NEW r \in Supervised, NEW exe \in BOOLEAN, ~isHostRunning, ~connecting,
           DialsService
    PROVE  LET s == startHostProcess(r, exe)
           IN  /\ s \in Supervised /\ s.count = r.count /\ s.stopping = r.stopping
               /\ s.timer = r.timer /\ s.link = r.link
               /\ IF service
                  THEN /\ s.proc = r.proc /\ s.status = "Starting"
                       /\ pipe' = "dialing" /\ connecting' = TRUE
                  ELSE /\ s.proc = IF exe THEN "starting" ELSE "none"
                       /\ s.status = IF exe THEN "Starting" ELSE "NotStarted"
                       /\ pipe' = pipe /\ connecting' = connecting
  <1> DEFINE a == [r EXCEPT !.status = "Starting"]
             b == StartChild(r, exe, "Starting")
  <1>1. startHostProcess(r, exe) = IF service THEN a ELSE b
    BY DEF startHostProcess
  <1>2. /\ a \in Supervised /\ a.count = r.count /\ a.stopping = r.stopping
        /\ a.timer = r.timer /\ a.link = r.link /\ a.proc = r.proc /\ a.status = "Starting"
    BY DEF Supervised, Statuses
  <1>3. "Starting" \in Statuses
    BY DEF Statuses
  <1>4. /\ b \in Supervised /\ b.count = r.count /\ b.stopping = r.stopping
        /\ b.timer = r.timer /\ b.link = r.link
        /\ b.proc = IF exe THEN "starting" ELSE "none"
        /\ b.status = IF exe THEN "Starting" ELSE "NotStarted"
    BY <1>3, StartChildDoes
  <1> HIDE DEF a, b
  <1> QED BY <1>1, <1>2, <1>4 DEF DialsService, connectToHostServiceAsync

\* The lambda on the restart timer: by now the greeting of the host before is
\* over.
LEMMA HostRestartTimerInv ==
    ASSUME IInv, NEW exe \in BOOLEAN, HostRestartTimer(exe)
    PROVE  IInv'
  <1> DEFINE r == [pm["host"] EXCEPT !.timer = 0]
             s == startHostProcess(r, exe)
  <1>0. TypeOK /\ Exclusive /\ Linked /\ Greeting /\ ProgramsInStep
    BY DEF IInv
  <1>1. /\ pm["host"].timer > 0 /\ (pm["host"].timer > 1000 => hello + connect = 0)
        /\ pm' = [pm EXCEPT !["host"] = s] /\ DialsService /\ inherited' = FALSE
        /\ UNCHANGED <<pipeError, service, attached, deviceId, signaling, viewers, hello,
                       connect, heard, clientHello, waiters, greeted, skill, tools, enabled,
                       skillTimer, began, shutdown>>
        /\ faults' = faults \/ Fault
        /\ EndsItself("host", ~exe /\ ~service)
    BY DEF HostRestartTimer, hostView, clientTimers, skill_
  <1>2. /\ pm["host"] \in Supervised /\ Programs = {"host", "client"}
    BY <1>0, BothPrograms
  <1>3. /\ pipe = "none" /\ ~connecting /\ ~Child("host") /\ began /\ ~shutdown
        /\ pm["host"].count <= MaxRestarts /\ hello + connect = 0
        /\ ~pm["host"].stopping
    <2>1. pm["host"].timer \in Nat /\ pm["host"].timer # 0
      BY <1>1, <1>2, Fields
    <2> QED BY <1>0, <1>1, <1>2, <2>1, Types DEF Exclusive
  <1>4. ~isHostRunning
    BY <1>3 DEF isHostRunning, Child
  <1>5. /\ r \in Supervised /\ r.timer = 0 /\ r.count = pm["host"].count
        /\ r.stopping = pm["host"].stopping /\ r.proc = pm["host"].proc
        /\ r.link = pm["host"].link
    BY <1>2 DEF Supervised
  <1> HIDE DEF r
  <1>6. /\ s \in Supervised /\ s.count = r.count /\ s.stopping = r.stopping
        /\ s.timer = r.timer /\ s.link = r.link
        /\ IF service
           THEN /\ s.proc = r.proc /\ s.status = "Starting"
                /\ pipe' = "dialing" /\ connecting' = TRUE
           ELSE /\ s.proc = IF exe THEN "starting" ELSE "none"
                /\ s.status = IF exe THEN "Starting" ELSE "NotStarted"
                /\ pipe' = pipe /\ connecting' = connecting
    BY <1>1, <1>3, <1>4, <1>5, StartHostDoes
  <1> HIDE DEF s
  <1>7. /\ pm' \in [Programs -> Supervised] /\ pm'["host"] = s
        /\ pm'["client"] = pm["client"]
    BY <1>0, <1>1, <1>2, <1>6, OneProgram
  <1>8. "host" \notin attached /\ heard = {}
    BY <1>0, <1>3 DEF Linked, Child, Greeting
  <1>9. faults' \in 0 .. MaxFaults
    BY <1>0, <1>1, Types, FaultCounts
  <1>10. TypeOK'
    <2>1. pipe' \in {"none", "dialing", "up"} /\ connecting' \in BOOLEAN
      BY <1>0, <1>6, Types
    <2>2. over' \subseteq Programs
      BY <1>0, <1>1, <1>2, OverTypes
    <2> QED BY <1>0, <1>1, <1>7, <1>9, <2>1, <2>2, Types DEF TypeOK
  <1>11. Exclusive'
    BY <1>0, <1>1, <1>2, <1>3, <1>5, <1>6, <1>7 DEF Exclusive, Child
  <1>12. Linked'
    BY <1>0, <1>1, <1>2, <1>3, <1>5, <1>6, <1>7, <1>8 DEF Linked, Child
  <1>13. Greeting'
    BY <1>1, <1>3, <1>8 DEF Greeting
  <1>14. ViewFollowsHost' /\ ConnectAfterHello' /\ ToolsWithdrawn'
    <2>1. ViewFollowsHost'
      BY <1>0, <1>1, <1>2, <1>6, <1>7, <1>8 DEF ProgramsInStep, ViewFollowsHost
    <2>2. ConnectAfterHello' /\ ToolsWithdrawn'
      BY <1>0, <1>1, <1>8 DEF ProgramsInStep, ConnectAfterHello, ToolsWithdrawn
    <2> QED BY <2>1, <2>2
  <1> QED BY <1>10, <1>11, <1>12, <1>13, <1>14 DEF IInv, ProgramsInStep

\* onServicePipeConnected.
LEMMA PipeConnectedInv ==
    ASSUME IInv, PipeConnected
    PROVE  IInv'
  <1> DEFINE s == [pm["host"] EXCEPT !.link = "pipe", !.count = 0, !.status = "Running"]
  <1>0. TypeOK /\ Exclusive /\ Linked /\ Greeting /\ ProgramsInStep
    BY DEF IInv
  <1>1. /\ pipe = "dialing" /\ pipe' = "up" /\ connecting' = FALSE
        /\ pm' = [pm EXCEPT !["host"] = s]
        /\ HostProcessStarted
        /\ UNCHANGED <<pipeError, service, clientHello, waiters, greeted, over, began, shutdown,
                       faults>>
    BY DEF PipeConnected, clientTimers, life
  <1>2. /\ pm["host"] \in Supervised /\ Programs = {"host", "client"}
    BY <1>0, BothPrograms
  <1>3. ~Child("host") /\ pm["host"].timer = 0 /\ began /\ ~shutdown
    BY <1>0, <1>1, Types DEF Exclusive
  <1>4. /\ s \in Supervised /\ s.link = "pipe" /\ s.count = 0 /\ s.status = "Running"
        /\ s.proc = pm["host"].proc /\ s.timer = pm["host"].timer
        /\ s.stopping = pm["host"].stopping
    <2>1. 0 \in 0 .. MaxRestarts + 1
      BY SupervisionAssumption
    <2> QED BY <1>2, <2>1 DEF Supervised, Statuses
  <1> HIDE DEF s
  <1>5. /\ pm' \in [Programs -> Supervised] /\ pm'["host"] = s
        /\ pm'["client"] = pm["client"]
    BY <1>0, <1>1, <1>2, <1>4, OneProgram
  <1>6. /\ attached' = attached \cup {"host"} /\ attached' \subseteq Programs
        /\ skill' \in {"none", "notRunning", "running"} /\ (skill' = "running" => enabled)
        /\ hello' \in Nat /\ connect' \in Nat /\ heard' = {} /\ inherited' = inherited
        /\ ToolsWithdrawn' /\ ConnectAfterHello'
        /\ connect' > 0 => inherited
        /\ UNCHANGED <<deviceId, signaling, viewers, tools, enabled, skillTimer>>
    BY <1>1, HostUp
  <1>7. TypeOK'
    BY <1>0, <1>1, <1>5, <1>6, Types DEF TypeOK
  <1>8. Exclusive'
    BY <1>0, <1>1, <1>2, <1>3, <1>4, <1>5, SupervisionAssumption DEF Exclusive, Child
  <1>9. Linked'
    BY <1>0, <1>1, <1>2, <1>3, <1>4, <1>5, <1>6 DEF Linked, Child
  <1>10. Greeting'
    BY <1>1, <1>3, <1>4, <1>5, <1>6 DEF Greeting, Child
  <1>11. ViewFollowsHost'
    BY <1>0, <1>1, <1>2, <1>4, <1>5, <1>6 DEF ProgramsInStep, ViewFollowsHost
  <1> QED BY <1>6, <1>7, <1>8, <1>9, <1>10, <1>11 DEF IInv, ProgramsInStep

\* The service is lost: it is dialed again after a delay, or a child starts.
LEMMA RetriedOrChild ==
    ASSUME IInv, pipe # "none", NEW s \in Supervised, pm' = [pm EXCEPT !["host"] = s],
           pipe' = "none", connecting' = FALSE, UNCHANGED <<began, shutdown>>,
           s.stopping = pm["host"].stopping,
           \/ s.timer > 1000 /\ s.count <= MaxRestarts /\ s.proc = pm["host"].proc
           \/ s.timer = 0 /\ s.proc \in {"starting", "none"}
    PROVE  /\ pm' \in [Programs -> Supervised] /\ pm'["host"] = s
           /\ pm'["client"] = pm["client"] /\ Programs = {"host", "client"}
           /\ began /\ ~shutdown /\ s.proc # "running"
           /\ Exclusive'
  <1>0. TypeOK /\ Exclusive
    BY DEF IInv
  <1>1. /\ pm' \in [Programs -> Supervised] /\ pm'["host"] = s
        /\ pm'["client"] = pm["client"] /\ Programs = {"host", "client"}
    BY <1>0, OneProgram, BothPrograms
  <1>2. began /\ ~shutdown /\ ~Child("host")
    BY <1>0, Types DEF Exclusive
  <1>3. s.proc # "running"
    BY <1>2 DEF Child
  <1>4. Exclusive'
    BY <1>0, <1>1, <1>2, <1>3 DEF Exclusive, Child
  <1> QED BY <1>1, <1>2, <1>3, <1>4

\* What becomes of the host's record then, from a record r of which the lost
\* service has been counted in q.
LEMMA RetryDoes ==
    ASSUME NEW r \in Supervised, NEW q \in Supervised, NEW exe \in BOOLEAN, NEW s,
           r.timer = 0, q.timer = 0, q.stopping = r.stopping,
           \/ r.count < MaxRestarts /\ s = ScheduleRestart(r)
           \/ s = StartChild(q, exe, r.status)
    PROVE  /\ s \in Supervised /\ s.stopping = r.stopping
           /\ \/ s.timer > 1000 /\ s.count <= MaxRestarts /\ s.proc = r.proc
              \/ s.timer = 0 /\ s.proc \in {"starting", "none"}
           /\ s.status = "Running" => s.proc = "starting"
  <1>1. CASE r.count < MaxRestarts /\ s = ScheduleRestart(r)
    BY <1>1, ScheduleRestartDoes
  <1>2. CASE s = StartChild(q, exe, r.status)
    <2>1. r.status \in Statuses
      BY Fields
    <2>2. /\ s \in Supervised /\ s.stopping = q.stopping /\ s.timer = q.timer
          /\ s.proc = IF exe THEN "starting" ELSE "none"
          /\ s.status = IF exe THEN r.status ELSE "NotStarted"
      BY <1>2, <2>1, StartChildDoes
    <2> QED BY <2>2
  <1> QED BY <1>1, <1>2

\* onServicePipeError.
LEMMA ServicePipeErrorInv ==
    ASSUME IInv, NEW exe \in BOOLEAN, ServicePipeError(exe)
    PROVE  IInv'
  <1>0. TypeOK /\ Exclusive /\ Linked /\ Greeting /\ ProgramsInStep
    BY DEF IInv
  <1>1. /\ pipeError' = FALSE
        /\ UNCHANGED <<service, attached, deviceId, signaling, viewers, hello, connect,
                       heard, inherited, clientHello, waiters, greeted, skill, tools,
                       enabled, skillTimer, began, shutdown>>
        /\ IF connecting
           THEN /\ connecting' = FALSE /\ pipe' = "none"
                /\ RetryServiceOrFallBack(pm["host"], exe)
                /\ EndsItself("host", NothingLeft(exe))
           ELSE UNCHANGED <<connecting, pipe, pm, over, faults>>
    BY DEF ServicePipeError, hostView, hostTimers, clientTimers, skill_
  <1>2. CASE ~connecting
    <2>1. UNCHANGED <<connecting, pipe, pm, over, faults>>
      BY <1>1, <1>2
    <2>2. TypeOK'
      <3>1. /\ pipeError' = FALSE
            /\ UNCHANGED <<pm, pipe, connecting, service, attached, deviceId, signaling,
                           viewers, hello, connect, heard, inherited, clientHello, waiters,
                           greeted, skill, tools, enabled, skillTimer, over, began,
                           shutdown, faults>>
        BY <1>1, <2>1
      <3> QED BY <1>0, <3>1 DEF TypeOK
    <2>3. Exclusive' /\ Linked' /\ Greeting'
      BY <1>0, <1>1, <2>1 DEF Exclusive, Child, Linked, Greeting
    <2>4. ProgramsInStep'
      BY <1>0, <1>1, <2>1 DEF ProgramsInStep, ViewFollowsHost, ConnectAfterHello,
                              ToolsWithdrawn
    <2> QED BY <2>2, <2>3, <2>4 DEF IInv
  <1>3. CASE connecting
    <2> DEFINE r == pm["host"]
               t == IF service THEN [r EXCEPT !.count = r.count + 1] ELSE r
               q == [t EXCEPT !.timer = 0]
    <2>1. connecting' = FALSE /\ pipe' = "none" /\ RetryServiceOrFallBack(r, exe)
      BY <1>1, <1>3
    <2>2. r \in Supervised
      BY <1>0, BothPrograms
    <2>3. pipe = "dialing" /\ r.timer = 0 /\ r.count <= MaxRestarts
      BY <1>0, <1>3 DEF Exclusive
    <2>4. t \in Supervised /\ t.stopping = r.stopping /\ t.status = r.status
      <3>1. r.count + 1 \in 0 .. MaxRestarts + 1
        BY <2>2, <2>3, Fields, SupervisionAssumption
      <3> QED BY <2>2, <3>1 DEF Supervised
    <2>5. PICK s : /\ pm' = [pm EXCEPT !["host"] = s]
                   /\ \/ r.count < MaxRestarts /\ s = ScheduleRestart(r)
                      \/ s = StartChild(q, exe, r.status)
      <3>1. CASE service /\ r.count + 1 <= MaxRestarts
        <4>1. pm' = [pm EXCEPT !["host"] = ScheduleRestart(r)]
          BY <2>1, <3>1 DEF RetryServiceOrFallBack
        <4>2. r.count < MaxRestarts
          BY <2>2, <3>1, Fields, SupervisionAssumption
        <4> QED BY <4>1, <4>2
      <3>2. CASE ~(service /\ r.count + 1 <= MaxRestarts)
        <4>1. pm' = [pm EXCEPT !["host"] = StartChild(q, exe, t.status)]
          BY <2>1, <3>2 DEF RetryServiceOrFallBack
        <4> QED BY <2>4, <4>1
      <3> QED BY <3>1, <3>2
    <2>6. faults' = faults \/ Fault
      BY <2>1 DEF RetryServiceOrFallBack
    <2> HIDE DEF t
    <2>7. q \in Supervised /\ q.timer = 0 /\ q.stopping = r.stopping
      BY <2>4 DEF Supervised
    <2> HIDE DEF q, r
    <2>8. /\ s \in Supervised /\ s.stopping = r.stopping
          /\ \/ s.timer > 1000 /\ s.count <= MaxRestarts /\ s.proc = r.proc
             \/ s.timer = 0 /\ s.proc \in {"starting", "none"}
          /\ s.status = "Running" => s.proc = "starting"
      BY <2>2, <2>3, <2>5, <2>7, RetryDoes
    <2>9. /\ pm' \in [Programs -> Supervised] /\ pm'["host"] = s
          /\ pm'["client"] = pm["client"] /\ Programs = {"host", "client"}
          /\ began /\ ~shutdown /\ s.proc # "running"
          /\ Exclusive'
      BY <1>1, <2>1, <2>3, <2>5, <2>8, RetriedOrChild DEF r
    <2>10. "host" \notin attached /\ (hello + connect = 0 \/ inherited)
      BY <1>0, <2>3 DEF Linked, Greeting, Exclusive, Child
    <2>11. faults' \in 0 .. MaxFaults
      BY <1>0, <2>6, Types, FaultCounts
    <2>12. TypeOK'
      <3>1. over' \subseteq Programs
        BY <1>0, <1>1, <1>3, <2>9, OverTypes
      <3> QED BY <1>0, <1>1, <2>1, <2>9, <2>11, <3>1, Types DEF TypeOK
    <2>13. Linked'
      BY <1>0, <1>1, <2>1, <2>9, <2>10 DEF Linked
    <2>14. Greeting'
      BY <1>0, <1>1, <2>9, <2>10 DEF Greeting
    <2>15. ViewFollowsHost'
      BY <1>0, <1>1, <2>8, <2>9, <2>10 DEF ProgramsInStep, ViewFollowsHost
    <2>16. ConnectAfterHello' /\ ToolsWithdrawn'
      BY <1>0, <1>1 DEF ProgramsInStep, ConnectAfterHello, ToolsWithdrawn
    <2> QED BY <2>9, <2>12, <2>13, <2>14, <2>15, <2>16 DEF IInv, ProgramsInStep
  <1> QED BY <1>2, <1>3

\* The lambda on disconnected of the read socket.
LEMMA PipeDisconnectedInv ==
    ASSUME IInv, NEW exe \in BOOLEAN, PipeDisconnected(exe)
    PROVE  IInv'
  <1> DEFINE r == [pm["host"] EXCEPT !.link = "none"]
             q == [r EXCEPT !.timer = 0, !.count = r.count + (IF service THEN 1 ELSE 0)]
  <1>0. TypeOK /\ Exclusive /\ Linked /\ Greeting /\ ProgramsInStep
    BY DEF IInv
  <1>1. /\ pipe = "up" /\ pipe' = "none" /\ HostProcessStopped
        /\ inherited' = (hello + connect > 0)
        /\ UNCHANGED <<connecting, pipeError, service, clientHello, waiters, greeted, began,
                       shutdown>>
        /\ EndsItself("host", NothingLeft(exe))
    BY DEF PipeDisconnected, clientTimers
  <1>2. pm["host"] \in Supervised /\ pm["client"] \in Supervised /\ Programs = {"host", "client"}
    BY <1>0, BothPrograms
  <1>3. /\ ~connecting /\ began /\ ~shutdown /\ pm["host"].timer = 0
        /\ pm["host"].count <= MaxRestarts /\ ~pm["host"].stopping
    BY <1>0, <1>1, <1>2, Types DEF Exclusive
  <1>4. /\ r \in Supervised /\ r.timer = 0 /\ r.count = pm["host"].count
        /\ r.stopping = pm["host"].stopping /\ r.proc = pm["host"].proc
        /\ r.status = pm["host"].status
    BY <1>2, <1>3 DEF Supervised
  <1>5. /\ Fault
        /\ IF service /\ r.count + 1 <= MaxRestarts
           THEN pm' = [pm EXCEPT !["host"] = ScheduleRestart(r)]
           ELSE pm' = [pm EXCEPT !["host"] = StartChild(q, exe, r.status)]
    BY <1>3, <1>4 DEF PipeDisconnected
  <1> HIDE DEF r
  <1>6. q \in Supervised /\ q.timer = 0 /\ q.stopping = r.stopping
    <2>1. r.count + (IF service THEN 1 ELSE 0) \in 0 .. MaxRestarts + 1
      BY <1>2, <1>3, <1>4, Fields, SupervisionAssumption
    <2> QED BY <1>4, <2>1 DEF Supervised
  <1> HIDE DEF q
  <1>7. PICK s : /\ pm' = [pm EXCEPT !["host"] = s]
                 /\ \/ r.count < MaxRestarts /\ s = ScheduleRestart(r)
                    \/ s = StartChild(q, exe, r.status)
    <2>1. CASE service /\ r.count + 1 <= MaxRestarts
      <3>1. r.count < MaxRestarts
        BY <1>4, <2>1, Fields, SupervisionAssumption
      <3> QED BY <1>5, <2>1, <3>1
    <2>2. CASE ~(service /\ r.count + 1 <= MaxRestarts)
      BY <1>5, <2>2
    <2> QED BY <2>1, <2>2
  <1>8. /\ s \in Supervised /\ s.stopping = r.stopping
        /\ \/ s.timer > 1000 /\ s.count <= MaxRestarts /\ s.proc = r.proc
           \/ s.timer = 0 /\ s.proc \in {"starting", "none"}
        /\ s.status = "Running" => s.proc = "starting"
    BY <1>4, <1>6, <1>7, RetryDoes
  <1>9. /\ pm' \in [Programs -> Supervised] /\ pm'["host"] = s
        /\ pm'["client"] = pm["client"]
        /\ s.proc # "running" /\ Exclusive'
    <2>1. connecting' = FALSE
      BY <1>0, <1>1, <1>3, Types
    <2>2. s \in Supervised /\ s.stopping = pm["host"].stopping
      BY <1>4, <1>8
    <2>3. \/ s.timer > 1000 /\ s.count <= MaxRestarts /\ s.proc = pm["host"].proc
          \/ s.timer = 0 /\ s.proc \in {"starting", "none"}
      BY <1>4, <1>8
    <2>4. pipe # "none" /\ pipe' = "none" /\ UNCHANGED <<began, shutdown>>
      BY <1>1
    <2>5. pm' = [pm EXCEPT !["host"] = s]
      BY <1>7
    <2> QED BY <2>1, <2>2, <2>3, <2>4, <2>5, RetriedOrChild
  <1>10. /\ attached' = attached \ {"host"} /\ attached' \subseteq Programs
         /\ deviceId' = FALSE /\ signaling' = FALSE /\ viewers' = {} /\ heard' = {}
         /\ skill' \in {"none", "notRunning", "running"} /\ tools' \in BOOLEAN
         /\ skill' # "running"
         /\ ToolsWithdrawn' /\ ConnectAfterHello'
         /\ UNCHANGED <<hello, connect, enabled, skillTimer>>
    BY <1>1, HostDown
  <1>11. faults' \in 0 .. MaxFaults
    BY <1>0, <1>5, Types, FaultCounts
  <1>12. TypeOK'
    <2>1. inherited' \in BOOLEAN
      BY <1>1
    <2>2. over' \subseteq Programs
      BY <1>0, <1>1, <1>2, OverTypes
    <2> QED BY <1>0, <1>1, <1>9, <1>10, <1>11, <2>1, <2>2, Types DEF TypeOK
  <1>13. Linked'
    BY <1>0, <1>1, <1>2, <1>9, <1>10 DEF Linked
  <1>14. Greeting'
    <2>1. hello + connect = 0 \/ inherited'
      <3>1. hello \in Nat /\ connect \in Nat
        BY <1>0, Types
      <3>2. CASE hello + connect > 0
        BY <1>1, <3>2
      <3>3. CASE ~(hello + connect > 0)
        BY <3>1, <3>3
      <3> QED BY <3>2, <3>3
    <2> QED BY <1>1, <1>3, <1>10, <2>1 DEF Greeting
  <1>15. ViewFollowsHost'
    BY <1>0, <1>1, <1>2, <1>8, <1>9, <1>10 DEF ProgramsInStep, ViewFollowsHost
  <1> QED BY <1>9, <1>10, <1>12, <1>13, <1>14, <1>15 DEF IInv, ProgramsInStep

----------------------------------------------------------------------------
(***************************************************************************)
(* initialize() and shutdown().                                            *)
(***************************************************************************)

\* initialize(): nothing was there before.
LEMMA InitializeInv ==
    ASSUME IInv, NEW hostExe \in BOOLEAN, NEW clientExe \in BOOLEAN,
           Initialize(hostExe, clientExe)
    PROVE  IInv'
  <1> DEFINE s == startHostProcess(pm["host"], hostExe)
             t == StartChild(pm["client"], clientExe, "Starting")
  <1>0. TypeOK /\ Exclusive /\ Linked /\ Greeting /\ ProgramsInStep
    BY DEF IInv
  <1>1. /\ ~began /\ ~shutdown /\ began' = TRUE
        /\ pm' = [pm EXCEPT !["host"] = s, !["client"] = t]
        /\ DialsService
        /\ UNCHANGED <<pipeError, service, attached, deviceId, signaling, viewers, hello,
                       connect, heard, inherited, clientHello, waiters, greeted, skill,
                       tools, enabled, skillTimer, shutdown>>
        /\ faults' = faults \/ Fault
        /\ over' \subseteq {"host", "client"}
    BY DEF Initialize, hostView, hostTimers, clientTimers, skill_
  <1>2. pm["host"] \in Supervised /\ pm["client"] \in Supervised /\ Programs = {"host", "client"}
    BY <1>0, BothPrograms
  <1>3. /\ pipe = "none" /\ ~connecting
        /\ \A p \in Programs : pm[p].timer = 0 /\ pm[p].count = 0 /\ ~Child(p) /\ ~pm[p].stopping
    BY <1>0, <1>1 DEF Exclusive
  <1>4. ~isHostRunning
    BY <1>2, <1>3 DEF isHostRunning, Child
  <1>5. /\ s \in Supervised /\ s.count = pm["host"].count /\ s.stopping = pm["host"].stopping
        /\ s.timer = pm["host"].timer /\ s.link = pm["host"].link
        /\ IF service
           THEN /\ s.proc = pm["host"].proc /\ s.status = "Starting"
                /\ pipe' = "dialing" /\ connecting' = TRUE
           ELSE /\ s.proc = IF hostExe THEN "starting" ELSE "none"
                /\ s.status = IF hostExe THEN "Starting" ELSE "NotStarted"
                /\ pipe' = pipe /\ connecting' = connecting
    BY <1>1, <1>2, <1>3, <1>4, StartHostDoes
  <1>6. /\ t \in Supervised /\ t.stopping = pm["client"].stopping
        /\ t.timer = pm["client"].timer
        /\ t.proc = IF clientExe THEN "starting" ELSE "none"
        /\ t.status = IF clientExe THEN "Starting" ELSE "NotStarted"
    <2>1. "Starting" \in Statuses
      BY DEF Statuses
    <2> QED BY <1>2, <2>1, StartChildDoes
  <1> HIDE DEF s, t
  <1>7. pm' \in [Programs -> Supervised] /\ pm'["host"] = s /\ pm'["client"] = t
    BY <1>0, <1>1, <1>2, <1>5, <1>6 DEF TypeOK
  <1>8. faults' \in 0 .. MaxFaults
    BY <1>0, <1>1, Types, FaultCounts
  <1>9. attached = {} /\ hello + connect = 0
    <2>1. "host" \notin attached /\ "client" \notin attached /\ hello + connect = 0
      BY <1>0, <1>1, <1>2, <1>3 DEF Linked, Child, Greeting
    <2> QED BY <1>0, <1>2, <2>1, Types
  <1>10. TypeOK'
    <2>1. pipe' \in {"none", "dialing", "up"} /\ connecting' \in BOOLEAN /\ began' \in BOOLEAN
      BY <1>0, <1>1, <1>5, Types
    <2> QED BY <1>0, <1>1, <1>2, <1>7, <1>8, <2>1, Types DEF TypeOK
  <1>11. Exclusive'
    BY <1>0, <1>1, <1>2, <1>3, <1>5, <1>6, <1>7, SupervisionAssumption DEF Exclusive, Child
  <1>12. Linked'
    BY <1>0, <1>1, <1>2, <1>3, <1>5, <1>6, <1>7, <1>9 DEF Linked, Child
  <1>13. Greeting'
    BY <1>0, <1>1, <1>9 DEF Greeting
  <1>14. ViewFollowsHost'
    BY <1>0, <1>1, <1>2, <1>5, <1>6, <1>7, <1>9 DEF ProgramsInStep, ViewFollowsHost
  <1>15. ConnectAfterHello' /\ ToolsWithdrawn'
    BY <1>0, <1>1 DEF ProgramsInStep, ConnectAfterHello, ToolsWithdrawn
  <1> QED BY <1>10, <1>11, <1>12, <1>13, <1>14, <1>15 DEF IInv, ProgramsInStep

\* shutdown(): the pipes are dropped, timers stopped, and children told to go.
LEMMA ShutdownInv ==
    ASSUME IInv, Shutdown
    PROVE  IInv'
  <1> DEFINE s == IF pipe = "none" THEN StopProcess(pm["host"]) ELSE StopService(pm["host"])
             t == StopProcess(pm["client"])
  <1>0. TypeOK /\ Exclusive /\ Linked /\ Greeting /\ ProgramsInStep
    BY DEF IInv
  <1>1. /\ shutdown' = TRUE /\ attached' = {} /\ connecting' = FALSE /\ pipe' = "none"
        /\ deviceId' = FALSE /\ signaling' = FALSE /\ viewers' = {}
        /\ pm' = [pm EXCEPT !["host"] = s, !["client"] = t]
        /\ UNCHANGED <<pipeError, service, hello, connect, heard, inherited, clientHello,
                       waiters, greeted, skill, tools, enabled, skillTimer, began, over, faults>>
    BY DEF Shutdown, forgetHost, hostTimers, clientTimers, skill_
  <1>2. pm["host"] \in Supervised /\ pm["client"] \in Supervised /\ Programs = {"host", "client"}
    BY <1>0, BothPrograms
  <1>3. /\ s \in Supervised /\ s.timer = 0 /\ s.stopping
        /\ s.proc \in {"starting", "running"} =>
              Child("host") /\ s.proc = pm["host"].proc /\ s.link = pm["host"].link
        /\ ~Child("host") => s.status = "NotStarted" /\ (pipe = "none" => s.count = 0)
    <2>1. CASE pipe = "none"
      <3>1. pm["host"].proc \in QProcessStates
        BY <1>2, Fields
      <3>2. LET z == StopProcess(pm["host"])
            IN  /\ z \in Supervised /\ z.timer = 0 /\ z.stopping
                /\ IF pm["host"].proc \in {"none", "notRunning"}
                   THEN z.proc = "none" /\ z.status = "NotStarted" /\ z.count = 0
                   ELSE z.proc = pm["host"].proc /\ z.link = pm["host"].link
        BY <1>2, StopProcessDoes
      <3> QED BY <2>1, <3>1, <3>2 DEF Child, QProcessStates
    <2>2. CASE pipe # "none"
      <3>1. ~Child("host")
        BY <1>0, <2>2 DEF Exclusive
      <3>2. LET z == StopService(pm["host"])
            IN  /\ z \in Supervised /\ z.timer = 0 /\ z.stopping /\ z.proc = pm["host"].proc
                /\ z.status = "NotStarted"
        BY <1>2, StopServiceDoes
      <3> QED BY <2>2, <3>1, <3>2 DEF Child
    <2> QED BY <2>1, <2>2
  <1>4. /\ t \in Supervised /\ t.timer = 0 /\ t.stopping
        /\ t.proc \in {"starting", "running"} =>
              Child("client") /\ t.proc = pm["client"].proc /\ t.link = pm["client"].link
        /\ ~Child("client") => t.status = "NotStarted" /\ t.count = 0
    <2>1. pm["client"].proc \in QProcessStates
      BY <1>2, Fields
    <2>2. LET z == StopProcess(pm["client"])
          IN  /\ z \in Supervised /\ z.timer = 0 /\ z.stopping
              /\ IF pm["client"].proc \in {"none", "notRunning"}
                 THEN z.proc = "none" /\ z.status = "NotStarted" /\ z.count = 0
                 ELSE z.proc = pm["client"].proc /\ z.link = pm["client"].link
      BY <1>2, StopProcessDoes
    <2> QED BY <2>1, <2>2 DEF Child, QProcessStates
  <1> HIDE DEF s, t
  <1>5. pm' \in [Programs -> Supervised] /\ pm'["host"] = s /\ pm'["client"] = t
    BY <1>0, <1>1, <1>2, <1>3, <1>4 DEF TypeOK
  <1>6. TypeOK'
    BY <1>0, <1>1, <1>5, Types DEF TypeOK
  <1>7. Exclusive'
    <2>1. ~began => ~Child("host") /\ ~Child("client") /\ pipe = "none"
      BY <1>0, <1>2 DEF Exclusive
    <2> QED BY <1>1, <1>2, <1>3, <1>4, <1>5, <2>1 DEF Exclusive, Child
  <1>8. Linked'
    BY <1>0, <1>1, <1>2, <1>3, <1>4, <1>5 DEF Linked, Child
  <1>9. Greeting'
    BY <1>0, <1>1, <1>3, <1>5 DEF Greeting
  <1>10. ProgramsInStep'
    BY <1>0, <1>1, <1>2, <1>3, <1>4, <1>5
       DEF ProgramsInStep, ViewFollowsHost, ConnectAfterHello, ToolsWithdrawn
  <1> QED BY <1>6, <1>7, <1>8, <1>9, <1>10 DEF IInv

----------------------------------------------------------------------------
(***************************************************************************)
(* The client.                                                             *)
(***************************************************************************)

\* What a slot of the client has to leave behind.
LEMMA ClientStep ==
    ASSUME IInv, NEW s \in Supervised, pm' = [pm EXCEPT !["client"] = s], began,
           UNCHANGED <<pipe, connecting, pipeError, service, deviceId, signaling, viewers,
                       hello, connect, heard, inherited, skill, tools, enabled, skillTimer,
                       began, shutdown>>,
           attached' \subseteq Programs, "host" \in attached' <=> "host" \in attached,
           over' \subseteq Programs, clientHello' \in Nat, waiters' \in Nat, greeted' \in BOOLEAN,
           faults' \in 0 .. MaxFaults,
           s.stopping => pm["client"].stopping,
           s.timer > 0 => s.proc \notin {"starting", "running"} /\ ~shutdown,
           s.proc \in {"starting", "running"} /\ shutdown => s.stopping,
           s.proc = "running" => s.link # "none",
           "client" \in attached' => s.proc = "running",
           s.status = "Running" => "client" \in attached' \/ shutdown
    PROVE  IInv'
  <1>0. TypeOK /\ Exclusive /\ Linked /\ Greeting /\ ProgramsInStep
    BY DEF IInv
  <1>1. /\ pm' \in [Programs -> Supervised] /\ pm'["client"] = s
        /\ pm'["host"] = pm["host"] /\ Programs = {"host", "client"}
    BY <1>0, OneProgram, BothPrograms
  <1>2. s.timer \in Nat
    BY Fields
  <1>3. TypeOK'
    BY <1>0, <1>1, Types DEF TypeOK
  <1>4. Exclusive'
    BY <1>0, <1>1, <1>2 DEF Exclusive, Child
  <1>5. Linked' /\ Greeting'
    BY <1>0, <1>1 DEF Linked, Greeting
  <1>6. ViewFollowsHost'
    BY <1>0, <1>1 DEF ProgramsInStep, ViewFollowsHost
  <1>7. ConnectAfterHello' /\ ToolsWithdrawn'
    BY <1>0 DEF ProgramsInStep, ConnectAfterHello, ToolsWithdrawn
  <1> QED BY <1>3, <1>4, <1>5, <1>6, <1>7 DEF IInv, ProgramsInStep

\* onClientProcessStarted.
LEMMA ClientStartedInv == ASSUME IInv, ClientStarted PROVE IInv'
  <1> DEFINE s == Started(pm["client"])
  <1>0. TypeOK /\ Exclusive
    BY DEF IInv
  <1>1. /\ pm["client"].proc = "starting" /\ pm' = [pm EXCEPT !["client"] = s]
        /\ attached' = attached \cup {"client"}
        /\ clientHello' = clientHello + 1 /\ greeted' = FALSE
        /\ UNCHANGED <<pipe, connecting, pipeError, service, deviceId, signaling, viewers,
                       hello, connect, heard, inherited, waiters, skill, tools, enabled,
                       skillTimer, over, began, shutdown, faults>>
    BY DEF ClientStarted, service_, hostView, hostTimers, skill_, life
  <1>2. pm["client"] \in Supervised /\ Programs = {"host", "client"}
    BY <1>0, BothPrograms
  <1>3. began /\ ~(pm["client"].timer > 0) /\ (shutdown => pm["client"].stopping)
    BY <1>0, <1>1, <1>2, Types DEF Exclusive, Child
  <1>4. /\ s \in Supervised /\ s.proc = "running" /\ s.link = "process"
        /\ s.timer = pm["client"].timer /\ s.stopping = pm["client"].stopping
    BY <1>2, StartedDoes
  <1>5. attached' \subseteq Programs /\ over' \subseteq Programs
        /\ clientHello' \in Nat /\ waiters' \in Nat
        /\ greeted' \in BOOLEAN /\ faults' \in 0 .. MaxFaults
    <2>1. clientHello \in Nat /\ waiters \in Nat /\ attached \subseteq Programs
          /\ over \subseteq Programs
          /\ faults \in 0 .. MaxFaults
      BY <1>0, Types
    <2>2. greeted' \in BOOLEAN
      BY <1>1
    <2>3. clientHello' \in Nat
      BY <1>1, <2>1
    <2>4. attached' \subseteq Programs
      BY <1>1, <1>2, <2>1
    <2> QED BY <1>1, <2>1, <2>2, <2>3, <2>4
  <1> HIDE DEF s
  <1>6. "client" \in attached' /\ ("host" \in attached' <=> "host" \in attached)
    BY <1>1
  <1> QED BY <1>1, <1>3, <1>4, <1>5, <1>6, ClientStep

\* onClientProcessFinished.
LEMMA ClientFinishedInv ==
    ASSUME IInv, NEW abnormal \in BOOLEAN, ClientFinished(abnormal) PROVE IInv'
  <1> DEFINE s == Finished(pm["client"], abnormal)
  <1>0. TypeOK /\ Exclusive
    BY DEF IInv
  <1>1. /\ pm["client"].proc = "running" /\ pm' = [pm EXCEPT !["client"] = s]
        /\ attached' = attached \ {"client"}
        /\ faults' = faults \/ Fault
        /\ EndsItself("client", ~abnormal)
        /\ UNCHANGED <<pipe, connecting, pipeError, service, deviceId, signaling, viewers,
                       hello, connect, heard, inherited, clientHello, waiters, greeted,
                       skill, tools, enabled, skillTimer, began, shutdown>>
    BY DEF ClientFinished, service_, hostView, hostTimers, clientTimers, skill_
  <1>2. pm["client"] \in Supervised /\ Programs = {"host", "client"}
    BY <1>0, BothPrograms
  <1>3. began /\ pm["client"].timer = 0 /\ (shutdown => pm["client"].stopping)
    <2>1. pm["client"].timer \in Nat
      BY <1>2, Fields
    <2> QED BY <1>0, <1>1, <1>2, <2>1, Types DEF Exclusive, Child
  <1>4. /\ s \in Supervised /\ s.proc \in {"none", "notRunning"}
        /\ s.status \in {"NotStarted", "Failed", "Restarting"}
        /\ s.stopping => pm["client"].stopping
        /\ s.timer = 0 \/ ~pm["client"].stopping
    BY <1>2, <1>3, FinishedDoes
  <1>5. faults' \in 0 .. MaxFaults
    BY <1>0, <1>1, Types, FaultCounts
  <1>6. /\ attached' \subseteq Programs /\ over' \subseteq Programs
        /\ clientHello' \in Nat /\ waiters' \in Nat /\ greeted' \in BOOLEAN
    BY <1>0, <1>1, <1>2, Types, OverTypes
  <1> HIDE DEF s
  <1>7. /\ "client" \notin attached' /\ ("host" \in attached' <=> "host" \in attached)
        /\ s.proc \notin {"starting", "running"} /\ s.status # "Running"
        /\ s.timer > 0 => ~shutdown
    BY <1>1, <1>3, <1>4
  <1> QED BY <1>1, <1>3, <1>4, <1>5, <1>6, <1>7, ClientStep

\* onClientProcessErrorOccurred.
LEMMA ClientFailedToStartInv == ASSUME IInv, ClientFailedToStart PROVE IInv'
  <1> DEFINE s == FailedToStart(pm["client"])
  <1>0. TypeOK /\ Exclusive /\ Linked
    BY DEF IInv
  <1>1. /\ pm["client"].proc = "starting" /\ pm' = [pm EXCEPT !["client"] = s] /\ Fault
        /\ UNCHANGED <<pipe, connecting, pipeError, service, attached, deviceId, signaling,
                       viewers, hello, connect, heard, inherited, clientHello, waiters,
                       greeted, skill, tools, enabled, skillTimer, over, began, shutdown>>
    BY DEF ClientFailedToStart, service_, hostView, hostTimers, clientTimers, skill_, life
  <1>2. pm["client"] \in Supervised /\ Programs = {"host", "client"}
    BY <1>0, BothPrograms
  <1>3. /\ began /\ pm["client"].timer = 0 /\ (shutdown => pm["client"].stopping)
        /\ "client" \notin attached
    <2>1. pm["client"].timer \in Nat
      BY <1>2, Fields
    <2> QED BY <1>0, <1>1, <1>2, <2>1, Types DEF Exclusive, Child, Linked
  <1>4. /\ s \in Supervised /\ s.proc = "notRunning"
        /\ s.status \in {"NotStarted", "Failed", "Restarting"}
        /\ s.stopping = pm["client"].stopping
        /\ s.timer = 0 \/ ~pm["client"].stopping
    BY <1>2, <1>3, FailedToStartDoes
  <1>5. faults' \in 0 .. MaxFaults
    BY <1>0, <1>1, Types, FaultCounts
  <1>6. /\ attached' \subseteq Programs /\ over' \subseteq Programs
        /\ clientHello' \in Nat /\ waiters' \in Nat /\ greeted' \in BOOLEAN
    BY <1>0, <1>1, Types
  <1> HIDE DEF s
  <1>7. /\ "client" \notin attached' /\ ("host" \in attached' <=> "host" \in attached)
        /\ s.proc \notin {"starting", "running"} /\ s.status # "Running"
        /\ s.timer > 0 => ~shutdown
    BY <1>1, <1>3, <1>4
  <1> QED BY <1>1, <1>3, <1>4, <1>5, <1>6, <1>7, ClientStep

\* The lambda on the client's restart timer.
LEMMA ClientRestartTimerInv ==
    ASSUME IInv, NEW exe \in BOOLEAN, ClientRestartTimer(exe) PROVE IInv'
  <1> DEFINE r == [pm["client"] EXCEPT !.timer = 0]
             s == StartChild(r, exe, "Starting")
  <1>0. TypeOK /\ Exclusive /\ Linked
    BY DEF IInv
  <1>1. pm["client"] \in Supervised /\ Programs = {"host", "client"}
    BY <1>0, BothPrograms
  <1>2. /\ began /\ ~shutdown /\ ~Child("client") /\ "client" \notin attached
        /\ ~pm["client"].stopping /\ pm["client"].timer > 0
    <2>1. pm["client"].timer > 0
      BY DEF ClientRestartTimer
    <2>2. pm["client"].timer # 0
      BY <2>1
    <2> QED BY <1>0, <1>1, <2>1, <2>2 DEF Exclusive, Linked, Child
  <1>3. r \in Supervised /\ r.proc = pm["client"].proc /\ r.timer = 0
        /\ r.stopping = pm["client"].stopping
    BY <1>1 DEF Supervised
  <1>4. /\ pm' = [pm EXCEPT !["client"] = s]
        /\ faults' = faults \/ Fault
        /\ EndsItself("client", ~exe)
        /\ UNCHANGED <<pipe, connecting, pipeError, service, attached, deviceId, signaling,
                       viewers, hello, connect, heard, inherited, clientHello, waiters,
                       greeted, skill, tools, enabled, skillTimer, began, shutdown>>
    BY <1>2, <1>3 DEF ClientRestartTimer, Child, service_, hostView, hostTimers,
                      clientTimers, skill_
  <1> HIDE DEF r
  <1>5. /\ s \in Supervised /\ s.stopping = r.stopping /\ s.timer = 0
        /\ s.proc \in {"starting", "none"} /\ s.status # "Running"
    <2>1. "Starting" \in Statuses
      BY DEF Statuses
    <2> QED BY <1>3, <2>1, StartChildDoes
  <1>6. faults' \in 0 .. MaxFaults
    BY <1>0, <1>4, Types, FaultCounts
  <1>7. /\ attached' \subseteq Programs /\ over' \subseteq Programs
        /\ clientHello' \in Nat /\ waiters' \in Nat /\ greeted' \in BOOLEAN
    BY <1>0, <1>1, <1>4, Types, OverTypes
  <1> HIDE DEF s
  <1>8. /\ "client" \notin attached' /\ ("host" \in attached' <=> "host" \in attached)
        /\ ~(s.timer > 0) /\ s.proc # "running" /\ ~s.stopping
    BY <1>2, <1>3, <1>4, <1>5
  <1> QED BY <1>2, <1>4, <1>5, <1>6, <1>7, <1>8, ClientStep

----------------------------------------------------------------------------
(***************************************************************************)
(* Greetings, messages and the skill host: no program comes or goes.       *)
(***************************************************************************)

\* What such a step has to leave behind.
LEMMA QuietStep ==
    ASSUME IInv,
           UNCHANGED <<pm, pipe, connecting, pipeError, service, attached, inherited, began,
                       shutdown>>,
           TypeOK', Greeting', ConnectAfterHello', ToolsWithdrawn',
           skill' = "running" => enabled',
           deviceId' \/ viewers' # {} => "host" \in attached
    PROVE  IInv'
  <1>1. Exclusive' /\ Linked'
    BY DEF IInv, Exclusive, Child, Linked
  <1>2. ViewFollowsHost'
    BY DEF IInv, ProgramsInStep, ViewFollowsHost
  <1> QED BY <1>1, <1>2 DEF IInv, ProgramsInStep

\* The greeting timer of the client, and a device id that it waited for.
LEMMA ClientGreetedInv ==
    ASSUME IInv, ClientHelloTimer \/ HelloResponse \/ HostReady PROVE IInv'
  <1>0. TypeOK /\ Greeting /\ ProgramsInStep
    BY DEF IInv
  <1>1. /\ UNCHANGED <<pm, pipe, connecting, pipeError, service, attached, inherited, over, began,
                       shutdown, viewers, hello, connect, heard, skill, tools, enabled,
                       skillTimer, faults>>
        /\ deviceId' = deviceId \/ (deviceId' = TRUE /\ "host" \in attached)
        /\ signaling' \in {signaling, TRUE}
    BY DEF ClientHelloTimer, HelloResponse, HostReady, DeviceIdKnown, service_, hostView,
           hostTimers, skill_, life
  <1>2. clientHello' \in Nat /\ waiters' \in Nat /\ greeted' \in BOOLEAN
    <2>1. clientHello \in Nat /\ waiters \in Nat /\ greeted \in BOOLEAN
      BY <1>0, Types
    <2>2. CASE ClientHelloTimer
      <3>1. clientHello' \in Nat /\ waiters' \in Nat
        BY <2>1, <2>2 DEF ClientHelloTimer
      <3>2. greeted' \in BOOLEAN
        BY <2>1, <2>2, Zenon DEF ClientHelloTimer
      <3> QED BY <3>1, <3>2
    <2>3. CASE HelloResponse \/ HostReady
      <3>1. /\ clientHello' = clientHello /\ waiters' = 0
            /\ greeted' = (greeted \/ (waiters > 0 /\ "client" \in attached))
        BY <2>3 DEF HelloResponse, HostReady, DeviceIdKnown
      <3>2. greeted' \in BOOLEAN
        BY <3>1, Zenon
      <3> QED BY <2>1, <3>1, <3>2
    <2> QED BY <2>2, <2>3
  <1>3. deviceId' \in BOOLEAN /\ signaling' \in BOOLEAN
    BY <1>0, <1>1, Types
  <1>4. TypeOK'
    BY <1>0, <1>1, <1>2, <1>3, Types DEF TypeOK
  <1>5. Greeting' /\ ConnectAfterHello' /\ ToolsWithdrawn'
    BY <1>0, <1>1 DEF Greeting, ProgramsInStep, ConnectAfterHello, ToolsWithdrawn
  <1>6. /\ deviceId' \/ viewers' # {} => "host" \in attached
        /\ skill' = "running" => enabled'
    BY <1>0, <1>1 DEF ProgramsInStep, ViewFollowsHost, IInv, Linked
  <1> QED BY <1>1, <1>4, <1>5, <1>6, QuietStep

\* The two timers that greet the host and connect it, in that order.
LEMMA HostGreetedInv ==
    ASSUME IInv, HostHelloTimer \/ HostConnectTimer PROVE IInv'
  <1>0. TypeOK /\ Greeting /\ ProgramsInStep
    BY DEF IInv
  <1>1. UNCHANGED <<pm, pipe, connecting, pipeError, service, attached, inherited, over, began,
                    shutdown, deviceId, signaling, viewers, clientHello, waiters, greeted,
                    skill, tools, enabled, skillTimer, faults>>
    BY DEF HostHelloTimer, HostConnectTimer, service_, hostView, clientTimers, skill_, life
  <1>2. hello \in Nat /\ connect \in Nat /\ heard \subseteq {"hello", "connect"}
    BY <1>0, Types
  <1>3. /\ hello' \in Nat /\ connect' \in Nat /\ heard' \subseteq {"hello", "connect"}
        /\ hello + connect # 0
    <2>1. CASE HostHelloTimer
      <3>1. hello > 0 /\ hello' = hello - 1 /\ connect' = connect + 1
        BY <2>1 DEF HostHelloTimer
      <3>2. heard' \subseteq {"hello", "connect"}
        BY <1>2, <2>1 DEF HostHelloTimer
      <3> QED BY <1>2, <3>1, <3>2
    <2>2. CASE HostConnectTimer
      <3>1. connect > 0 /\ connect' = connect - 1 /\ hello' = hello
        BY <2>2 DEF HostConnectTimer
      <3>2. heard' \subseteq {"hello", "connect"}
        BY <1>2, <2>2 DEF HostConnectTimer
      <3> QED BY <1>2, <3>1, <3>2
    <2> QED BY <2>1, <2>2
  <1>4. TypeOK'
    BY <1>0, <1>1, <1>3, Types DEF TypeOK
  <1>5. Greeting' /\ ConnectAfterHello'
    <2>1. CASE HostHelloTimer
      <3>1. heard' = IF "host" \in attached THEN heard \cup {"hello"} ELSE heard
        BY <2>1 DEF HostHelloTimer
      <3>2. Greeting'
        BY <1>0, <1>1, <1>3, <3>1 DEF Greeting
      <3>3. ConnectAfterHello'
        BY <1>0, <1>1, <3>1 DEF ProgramsInStep, ConnectAfterHello
      <3> QED BY <3>2, <3>3
    <2>2. CASE HostConnectTimer
      <3>1. /\ heard' = IF "host" \in attached THEN heard \cup {"connect"} ELSE heard
            /\ connect > 0 /\ connect' = connect - 1
        BY <2>2 DEF HostConnectTimer
      <3>2. Greeting'
        BY <1>0, <1>1, <1>2, <1>3, <3>1 DEF Greeting
      <3>3. ConnectAfterHello'
        BY <1>0, <1>1, <3>1 DEF ProgramsInStep, ConnectAfterHello, Greeting
      <3> QED BY <3>2, <3>3
    <2> QED BY <2>1, <2>2
  <1>6. /\ ToolsWithdrawn' /\ (deviceId' \/ viewers' # {} => "host" \in attached)
        /\ skill' = "running" => enabled'
    BY <1>0, <1>1 DEF ProgramsInStep, ViewFollowsHost, ToolsWithdrawn, IInv, Linked
  <1> QED BY <1>1, <1>4, <1>5, <1>6, QuietStep

\* The messages about the signaling connection and the viewers.
LEMMA ViewInv ==
    ASSUME IInv,
           \/ \E on \in BOOLEAN : SignalingStateChanged(on)
           \/ \E v \in Viewers : ClientConnected(v) \/ ClientDisconnected(v)
           \/ \E seen \in SUBSET Viewers : ClientListChanged(seen)
    PROVE  IInv'
  <1>0. TypeOK /\ Greeting /\ ProgramsInStep
    BY DEF IInv
  <1>1. /\ UNCHANGED <<pm, pipe, connecting, pipeError, service, attached, inherited, over, began,
                       shutdown, deviceId, hello, connect, heard, clientHello, waiters,
                       greeted, skill, tools, enabled, skillTimer, faults>>
        /\ "host" \in attached
    BY DEF SignalingStateChanged, ClientConnected, ClientDisconnected, ClientListChanged,
           service_, hostTimers, clientTimers, skill_, life
  <1>2. signaling' \in BOOLEAN /\ viewers' \subseteq Viewers
    BY <1>0, Types DEF SignalingStateChanged, ClientConnected, ClientDisconnected,
                       ClientListChanged
  <1>3. TypeOK'
    BY <1>0, <1>1, <1>2, Types DEF TypeOK
  <1>4. Greeting' /\ ConnectAfterHello' /\ ToolsWithdrawn'
    BY <1>0, <1>1 DEF Greeting, ProgramsInStep, ConnectAfterHello, ToolsWithdrawn
  <1>5. (skill' = "running" => enabled') /\ (deviceId' \/ viewers' # {} => "host" \in attached)
    BY <1>0, <1>1 DEF IInv, Linked
  <1> QED BY <1>1, <1>3, <1>4, <1>5, QuietStep

\* The skill host's own steps.
LEMMA SkillHostInv == ASSUME IInv, SkillHost PROVE IInv'
  <1>0. TypeOK /\ Greeting /\ ProgramsInStep
    BY DEF IInv
  <1>1. UNCHANGED <<pm, pipe, connecting, pipeError, service, attached, inherited, over, began,
                    shutdown, deviceId, signaling, viewers, hello, connect, heard,
                    clientHello, waiters, greeted>>
    BY DEF SkillHost, SkillHostMessage, SkillHostFinished, SetExtraSkillsDirs,
           SkillRestartTimer, SetSkillHostEnabled, service_, hostView, hostTimers,
           clientTimers, life
  <1>2. /\ skill' \in {"none", "notRunning", "running"} /\ tools' \in BOOLEAN
        /\ enabled' \in BOOLEAN /\ skillTimer' \in Nat
        /\ faults' = faults \/ Fault
        /\ ToolsWithdrawn' /\ (skill' = "running" => enabled')
    <2>1. /\ skill \in {"none", "notRunning", "running"} /\ tools \in BOOLEAN
          /\ enabled \in BOOLEAN /\ skillTimer \in Nat /\ ToolsWithdrawn
          /\ skill = "running" => enabled
      BY <1>0, Types DEF IInv, ProgramsInStep, Linked
    <2>2. CASE SkillHostMessage
      BY <2>1, <2>2 DEF SkillHostMessage, ToolsWithdrawn
    <2>3. CASE SkillHostFinished
      BY <2>1, <2>3 DEF SkillHostFinished, ToolsWithdrawn
    <2>4. CASE SetExtraSkillsDirs
      <3>1. /\ skill' = "none" /\ tools' = FALSE /\ enabled' = enabled /\ Fault
            /\ skillTimer' = skillTimer + 1
        BY <2>4 DEF SetExtraSkillsDirs, stopSkillHost
      <3>2. skillTimer' \in Nat
        BY <2>1, <3>1
      <3> QED BY <2>1, <3>1, <3>2 DEF ToolsWithdrawn
    <2>5. CASE SkillRestartTimer
      BY <2>1, <2>5 DEF SkillRestartTimer, startSkillHost, ToolsWithdrawn
    <2>6. ASSUME NEW on \in BOOLEAN, SetSkillHostEnabled(on)
          PROVE  /\ skill' \in {"none", "notRunning", "running"} /\ tools' \in BOOLEAN
                 /\ enabled' \in BOOLEAN /\ skillTimer' \in Nat
                 /\ faults' = faults \/ Fault
                 /\ ToolsWithdrawn' /\ (skill' = "running" => enabled')
      BY <2>1, <2>6 DEF SetSkillHostEnabled, startSkillHost, stopSkillHost, ToolsWithdrawn
    <2> QED BY <2>2, <2>3, <2>4, <2>5, <2>6 DEF SkillHost
  <1>3. faults' \in 0 .. MaxFaults
    BY <1>0, <1>2, Types, FaultCounts
  <1>4. TypeOK'
    BY <1>0, <1>1, <1>2, <1>3, Types DEF TypeOK
  <1>5. Greeting' /\ ConnectAfterHello'
    BY <1>0, <1>1 DEF Greeting, ProgramsInStep, ConnectAfterHello
  <1>6. deviceId' \/ viewers' # {} => "host" \in attached
    BY <1>0, <1>1 DEF ProgramsInStep, ViewFollowsHost
  <1> QED BY <1>1, <1>2, <1>4, <1>5, <1>6, QuietStep

----------------------------------------------------------------------------
(***************************************************************************)
(* The invariant, and what follows from it.                                *)
(***************************************************************************)

\* Before initialize() nothing is there.
LEMMA InitInv == Init => IInv
  <1> SUFFICES ASSUME Init PROVE IInv
    OBVIOUS
  <1>1. 0 \in 0 .. MaxRestarts + 1 /\ 0 \in 0 .. MaxFaults
    BY SupervisionAssumption
  <1>2. /\ \A p \in Programs : /\ pm[p].proc = "none" /\ pm[p].status = "NotStarted"
                               /\ pm[p].count = 0 /\ pm[p].stopping = FALSE
                               /\ pm[p].timer = 0
        /\ "host" \in Programs
    BY DEF Init, Programs
  <1>3. TypeOK
    <2>1. pm \in [Programs -> Supervised]
      BY <1>1 DEF Init, Supervised, QProcessStates, Statuses
    <2>2. service \in BOOLEAN
      BY SupervisionAssumption DEF Init
    <2> QED BY <1>1, <2>1, <2>2, Types DEF Init
  <1>4. Exclusive
    BY <1>2, SupervisionAssumption DEF Init, Exclusive, Child
  <1>5. Linked /\ Greeting
    BY <1>2 DEF Init, Linked, Greeting
  <1>6. ProgramsInStep
    BY <1>2 DEF Init, ProgramsInStep, ViewFollowsHost, ConnectAfterHello, ToolsWithdrawn
  <1> QED BY <1>3, <1>4, <1>5, <1>6 DEF IInv

\* Every slot, timer and event of the operating system keeps the invariant.
LEMMA NextInv == IInv /\ [Next]_vars => IInv'
  <1> SUFFICES ASSUME IInv, [Next]_vars PROVE IInv'
    OBVIOUS
  <1>1. CASE \E h, c \in BOOLEAN : Initialize(h, c)
    BY <1>1, InitializeInv
  <1>2. CASE Shutdown
    BY <1>2, ShutdownInv
  <1>3. CASE HostProgram
    BY <1>3, HostStartedInv, HostFailedToStartInv, HostFinishedInv, HostRestartTimerInv,
       PipeConnectedInv, ServicePipeErrorInv, PipeDisconnectedInv, ServiceWorldInv
       DEF HostProgram
  <1>4. CASE ClientProgram
    BY <1>4, ClientStartedInv, ClientFailedToStartInv, ClientFinishedInv,
       ClientRestartTimerInv, ClientGreetedInv DEF ClientProgram
  <1>5. CASE HostMessages
    BY <1>5, HostGreetedInv, ClientGreetedInv, ViewInv DEF HostMessages
  <1>6. CASE SkillHost
    BY <1>6, SkillHostInv
  <1>7. CASE UNCHANGED vars
    <2>1. UNCHANGED <<pm, pipe, connecting, pipeError, service, attached, deviceId,
                      signaling, viewers, hello, connect, heard, inherited, clientHello,
                      waiters, greeted, skill, tools, enabled, skillTimer, over, began, shutdown,
                      faults>>
      BY <1>7 DEF vars
    <2>2. TypeOK' /\ Exclusive' /\ Linked' /\ Greeting'
      BY <2>1 DEF IInv, TypeOK, Exclusive, Child, Linked, Greeting
    <2>3. ProgramsInStep'
      BY <2>1 DEF IInv, ProgramsInStep, ViewFollowsHost, ConnectAfterHello, ToolsWithdrawn
    <2> QED BY <2>2, <2>3 DEF IInv
  <1> QED BY <1>1, <1>2, <1>3, <1>4, <1>5, <1>6, <1>7 DEF Next

\* The invariant of the specification.
LEMMA Invariant == Spec => []IInv
  BY InitInv, NextInv, PTL DEF Spec

\* The state of ProcessManager, MainController and the managers keeps its
\* types.
THEOREM SupervisionTypeCorrect == Spec => []TypeOK
  <1>1. IInv => TypeOK
    BY DEF IInv
  <1> QED BY <1>1, Invariant, PTL

\* What the application shows and asks of its programs is in step with them:
\* the device id and the viewers go with the host that reported them, a host
\* is greeted before it is told to connect, and withdrawn tools stay away
\* (onHostProcessStarted, onHostProcessStopped, stopSkillHost).
THEOREM StaysInStep == Spec => []ProgramsInStep
  <1>1. IInv => ProgramsInStep
    BY DEF IInv
  <1> QED BY <1>1, Invariant, PTL

----------------------------------------------------------------------------
(***************************************************************************)
(* Supervisor: every step of the application is one of its steps, or       *)
(* leaves the phases alone.                                                *)
(***************************************************************************)

\* Before initialize() no program has ended, and one that is up has used up
\* none of its attempts.
Counted ==
    /\ \A p \in Programs : pm[p].proc = "running" => pm[p].count = 0
    /\ pipe = "up" => pm["host"].count = 0
    /\ ~began => over = {}

\* The phase of a program after a step.
LEMMA PhaseWillBe ==
    ASSUME NEW p \in Programs
    PROVE  /\ Phase(p)' = IF pm'[p].timer > 0 \/ pm'[p].proc = "starting"
                                \/ (p = "host" /\ pipe' = "dialing")
                          THEN "trying"
                          ELSE IF pm'[p].proc = "running" \/ (p = "host" /\ pipe' = "up")
                          THEN "up"
                          ELSE IF pm'[p].status = "Failed" THEN "givenUp"
                          ELSE IF p \in over' /\ ~shutdown' THEN "ended" ELSE "idle"
           /\ Tries(p)' = IF shutdown' THEN 0 ELSE pm'[p].count
  BY DEF Phase, Tries

\* What Supervisor lets a program do in one step.
Moved(p) ==
    \/ Phase(p)' = Phase(p) /\ Tries(p)' = Tries(p)
    \/ Phase(p) = "trying" /\ Phase(p)' = "up" /\ Tries(p)' = 0
    \/ /\ ~shutdown /\ Phase(p) = "up" /\ Phase(p)' = "trying"
       /\ Tries(p)' \in {Tries(p), Tries(p) + 1}
    \/ /\ ~shutdown /\ Phase(p) = "trying" /\ Phase(p)' = "trying"
       /\ Tries(p) <= MaxRestarts /\ Tries(p)' = Tries(p) + 1
    \/ /\ ~shutdown /\ Phase(p) = "trying" /\ Phase(p)' = "givenUp"
       /\ Tries(p) >= MaxRestarts /\ Tries(p)' = Tries(p)
    \/ /\ ~shutdown /\ Phase(p) \in {"trying", "up"} /\ Phase(p)' = "ended"
       /\ Tries(p)' \in {Tries(p), Tries(p) + 1}
    \/ /\ shutdown /\ Phase(p) \in {"trying", "up"} /\ Phase(p)' = "idle"
       /\ Tries(p)' = Tries(p)

\* A step that moves one program, in a way that Supervisor allows.
LEMMA OneMoves ==
    ASSUME NEW p \in Programs, UNCHANGED shutdown,
           \A q \in Programs : q # p => Phase(q)' = Phase(q) /\ Tries(q)' = Tries(q),
           Moved(p)
    PROVE  [Promised!Next]_(Promised!vars)
  <1> DEFINE f == [q \in Programs |-> Phase(q)]
             g == [q \in Programs |-> Phase(q)']
             t == [q \in Programs |-> Tries(q)]
             u == [q \in Programs |-> Tries(q)']
  <1>1. /\ g = [f EXCEPT ![p] = Phase(p)'] /\ f[p] = Phase(p)
        /\ u = [t EXCEPT ![p] = Tries(p)'] /\ t[p] = Tries(p)
    OBVIOUS
  <1>2. CASE Phase(p)' = Phase(p) /\ Tries(p)' = Tries(p)
    <2>1. g = f /\ u = t
      BY <1>2
    <2> QED BY <2>1 DEF Promised!vars
  <1>3. CASE Phase(p) = "trying" /\ Phase(p)' = "up" /\ Tries(p)' = 0
    <2>1. Promised!Rise(p)
      BY <1>1, <1>3 DEF Promised!Rise, Promised!Moves
    <2> QED BY <2>1 DEF Promised!Next
  <1>4. CASE /\ ~shutdown /\ Phase(p) = "up" /\ Phase(p)' = "trying"
             /\ Tries(p)' \in {Tries(p), Tries(p) + 1}
    <2>1. Promised!Lose(p)
      BY <1>1, <1>4 DEF Promised!Lose, Promised!Moves
    <2> QED BY <2>1 DEF Promised!Next
  <1>5. CASE /\ ~shutdown /\ Phase(p) = "trying" /\ Phase(p)' = "trying"
             /\ Tries(p) <= MaxRestarts /\ Tries(p)' = Tries(p) + 1
    <2>1. Promised!Retry(p)
      BY <1>1, <1>5 DEF Promised!Retry, Promised!Moves
    <2> QED BY <2>1 DEF Promised!Next
  <1>6. CASE /\ ~shutdown /\ Phase(p) = "trying" /\ Phase(p)' = "givenUp"
             /\ Tries(p) >= MaxRestarts /\ Tries(p)' = Tries(p)
    <2>1. Promised!GiveUp(p)
      BY <1>1, <1>6 DEF Promised!GiveUp, Promised!Moves
    <2> QED BY <2>1 DEF Promised!Next
  <1>7. CASE /\ ~shutdown /\ Phase(p) \in {"trying", "up"} /\ Phase(p)' = "ended"
             /\ Tries(p)' \in {Tries(p), Tries(p) + 1}
    <2>1. Promised!Quit(p)
      BY <1>1, <1>7 DEF Promised!Quit, Promised!Moves
    <2> QED BY <2>1 DEF Promised!Next
  <1>8. CASE /\ shutdown /\ Phase(p) \in {"trying", "up"} /\ Phase(p)' = "idle"
             /\ Tries(p)' = Tries(p)
    <2>1. Promised!Leave(p)
      BY <1>1, <1>8 DEF Promised!Leave, Promised!Moves
    <2> QED BY <2>1 DEF Promised!Next
  <1> QED BY <1>2, <1>3, <1>4, <1>5, <1>6, <1>7, <1>8 DEF Moved

\* Most steps leave every phase alone.
LEMMA NoneMoves ==
    ASSUME Counted, UNCHANGED <<pm, pipe, began, shutdown, over>>
    PROVE  Counted' /\ [Promised!Next]_(Promised!vars)
  <1>1. "host" \in Programs
    BY DEF Programs
  <1>2. \A q \in Programs : Phase(q)' = Phase(q) /\ Tries(q)' = Tries(q)
    BY DEF Phase, Tries
  <1>3. Moved("host")
    BY <1>1, <1>2 DEF Moved
  <1>4. Counted'
    BY DEF Counted
  <1> QED BY <1>1, <1>2, <1>3, <1>4, OneMoves

\* A step of one program leaves the phase of the other alone.
LEMMA ProgramMoves ==
    ASSUME IInv, NEW p \in Programs, NEW s \in Supervised, pm' = [pm EXCEPT ![p] = s],
           UNCHANGED <<began, shutdown>>, began,
           p = "client" => pipe' = pipe,
           \A q \in Programs \ {p} : q \in over' <=> q \in over,
           s.proc = "running" => s.count = 0,
           p = "host" /\ pipe' = "up" => s.count = 0,
           Counted, Moved(p)
    PROVE  Counted' /\ [Promised!Next]_(Promised!vars)
  <1>1. pm \in [Programs -> Supervised]
    BY Types DEF IInv
  <1>2. Programs = {"host", "client"} /\ pm'[p] = s /\ \A q \in Programs : q # p => pm'[q] = pm[q]
    BY <1>1 DEF Programs
  <1>3. ASSUME NEW q \in Programs, q # p
        PROVE  Phase(q)' = Phase(q) /\ Tries(q)' = Tries(q)
    <2>1. pm'[q] = pm[q] /\ (q \in over' <=> q \in over) /\ (q = "host" => pipe' = pipe)
      BY <1>2, <1>3
    <2> QED BY <2>1, PhaseWillBe DEF Phase, Tries
  <1>4. Counted'
    BY <1>2 DEF Counted
  <1> QED BY <1>3, <1>4, OneMoves

\* A child runs: Rise.
LEMMA StartedMoves ==
    ASSUME IInv, Counted, NEW p \in Programs, pm[p].proc = "starting",
           pm' = [pm EXCEPT ![p] = Started(pm[p])],
           UNCHANGED <<pipe, began, shutdown, over>>
    PROVE  Counted' /\ [Promised!Next]_(Promised!vars)
  <1> DEFINE s == Started(pm[p])
  <1>1. TypeOK /\ Exclusive
    BY DEF IInv
  <1>2. pm \in [Programs -> Supervised] /\ pm[p] \in Supervised /\ pm[p].timer \in Nat
    BY <1>1, Types, Fields
  <1>3. began /\ pm[p].timer = 0 /\ (p = "host" => pipe = "none")
    BY <1>1, <1>2, Types DEF Exclusive, Child
  <1>4. /\ s \in Supervised /\ s.proc = "running" /\ s.count = 0 /\ s.timer = pm[p].timer
    BY <1>2, StartedDoes
  <1>5. pm'[p] = s
    BY <1>2
  <1> HIDE DEF s
  <1>6. Moved(p)
    <2>1. Phase(p) = "trying"
      BY DEF Phase
    <2>2. Phase(p)' = "up" /\ Tries(p)' = 0
      BY <1>3, <1>4, <1>5, PhaseWillBe
    <2> QED BY <2>1, <2>2 DEF Moved
  <1> QED BY <1>3, <1>4, <1>6, ProgramMoves DEF s

\* A child could not be started: Retry, or GiveUp when the attempts are used
\* up, or Leave in a closed application.
LEMMA FailedMoves ==
    ASSUME IInv, Counted, NEW p \in Programs, pm[p].proc = "starting",
           pm' = [pm EXCEPT ![p] = FailedToStart(pm[p])],
           UNCHANGED <<pipe, began, shutdown, over>>
    PROVE  Counted' /\ [Promised!Next]_(Promised!vars)
  <1> DEFINE r == pm[p]
             s == FailedToStart(r)
  <1>1. TypeOK /\ Exclusive
    BY DEF IInv
  <1>2. pm \in [Programs -> Supervised] /\ r \in Supervised
    BY <1>1, Types
  <1>3. r.timer \in Nat /\ r.count \in 0 .. MaxRestarts + 1
    BY <1>2, Fields
  <1>4. began /\ r.timer = 0 /\ (p = "host" => pipe = "none") /\ (r.stopping <=> shutdown)
    BY <1>1, <1>3, Types DEF Exclusive, Child
  <1>5. /\ s \in Supervised /\ s.proc = "notRunning"
        /\ IF r.stopping THEN s.timer = 0 /\ s.status = "NotStarted" /\ s.count = r.count
           ELSE IF r.count < MaxRestarts THEN s.timer > 1000 /\ s.count = r.count + 1
           ELSE s.timer = 0 /\ s.status = "Failed" /\ s.count = r.count
    BY <1>2, <1>4, FailedToStartDoes
  <1>6. pm'[p] = s /\ s.timer \in Nat
    BY <1>2, <1>5, Fields
  <1> HIDE DEF s
  <1>7. Phase(p) = "trying" /\ Tries(p) = IF shutdown THEN 0 ELSE r.count
    BY DEF Phase, Tries
  <1>8. p = "host" => pipe' = "none"
    BY <1>4
  <1> HIDE DEF r
  <1>9. CASE shutdown
    <2>1. Phase(p)' = "idle" /\ Tries(p)' = 0
      BY <1>4, <1>5, <1>6, <1>8, <1>9, PhaseWillBe
    <2> QED BY <1>4, <1>5, <1>6, <1>7, <1>8, <1>9, <2>1, ProgramMoves DEF Moved, r, s
  <1>10. CASE ~shutdown /\ r.count < MaxRestarts
    <2>1. Phase(p)' = "trying" /\ Tries(p)' = r.count + 1
      BY <1>4, <1>5, <1>6, <1>10, PhaseWillBe
    <2>2. Moved(p)
      BY <1>3, <1>7, <1>10, <2>1, SupervisionAssumption DEF Moved
    <2> QED BY <1>4, <1>5, <1>8, <2>2, ProgramMoves DEF r, s
  <1>11. CASE ~shutdown /\ ~(r.count < MaxRestarts)
    <2>1. Phase(p)' = "givenUp" /\ Tries(p)' = r.count
      BY <1>4, <1>5, <1>6, <1>8, <1>11, PhaseWillBe
    <2>2. Moved(p)
      BY <1>3, <1>7, <1>11, <2>1, SupervisionAssumption DEF Moved
    <2> QED BY <1>4, <1>5, <1>8, <2>2, ProgramMoves DEF r, s
  <1> QED BY <1>9, <1>10, <1>11

\* A child has ended: Lose after a crash, Quit when it ended by itself, and
\* Leave in a closed application.
LEMMA FinishedMoves ==
    ASSUME IInv, Counted, NEW p \in Programs, NEW abnormal \in BOOLEAN,
           pm[p].proc = "running",
           pm' = [pm EXCEPT ![p] = Finished(pm[p], abnormal)],
           EndsItself(p, ~abnormal), UNCHANGED <<pipe, began, shutdown>>
    PROVE  Counted' /\ [Promised!Next]_(Promised!vars)
  <1> DEFINE r == pm[p]
             s == Finished(r, abnormal)
  <1>1. TypeOK /\ Exclusive
    BY DEF IInv
  <1>2. pm \in [Programs -> Supervised] /\ r \in Supervised
    BY <1>1, Types
  <1>3. r.timer \in Nat /\ r.count = 0
    BY <1>2, Fields DEF Counted
  <1>4. began /\ r.timer = 0 /\ (p = "host" => pipe = "none") /\ (r.stopping <=> shutdown)
    BY <1>1, <1>3, Types DEF Exclusive, Child
  <1>5. /\ s \in Supervised /\ s.proc \in {"none", "notRunning"}
        /\ IF r.stopping THEN s.timer = 0 /\ s.status = "NotStarted"
           ELSE IF ~abnormal THEN s.timer = 0 /\ s.status = "NotStarted" /\ s.count = 0
           ELSE s.timer > 1000 /\ s.count = 1
    BY <1>2, <1>3, <1>4, FinishedDoes, SupervisionAssumption
  <1>6. pm'[p] = s /\ s.timer \in Nat
    BY <1>2, <1>5, Fields
  <1> HIDE DEF s
  <1>7. /\ \A q \in Programs \ {p} : q \in over' <=> q \in over
        /\ ~abnormal => p \in over'
    BY <1>1, OverTypes
  <1>8. Phase(p) = "up" /\ Tries(p) = 0
    BY <1>3, <1>4 DEF Phase, Tries
  <1>9. p = "host" => pipe' = "none"
    BY <1>4
  <1> HIDE DEF r
  <1>10. CASE shutdown
    <2>1. Phase(p)' = "idle" /\ Tries(p)' = 0
      BY <1>4, <1>5, <1>6, <1>9, <1>10, PhaseWillBe
    <2>2. Moved(p)
      BY <1>8, <1>10, <2>1 DEF Moved
    <2> QED BY <1>4, <1>5, <1>7, <1>9, <2>2, ProgramMoves DEF r, s
  <1>11. CASE ~shutdown /\ ~abnormal
    <2>1. Phase(p)' = "ended" /\ Tries(p)' = 0
      BY <1>4, <1>5, <1>6, <1>7, <1>9, <1>11, PhaseWillBe
    <2>2. Moved(p)
      BY <1>8, <1>11, <2>1 DEF Moved
    <2> QED BY <1>4, <1>5, <1>7, <1>9, <2>2, ProgramMoves DEF r, s
  <1>12. CASE ~shutdown /\ abnormal
    <2>4. ~r.stopping
      BY <1>4, <1>12, Zenon
    <2>5. s.timer > 1000 /\ s.count = 1
      BY <1>5, <1>12, <2>4, Zenon
    <2>3. pm'[p].timer > 0 /\ pm'[p].count = 1
      BY <1>6, <2>5
    <2>1. Phase(p)' = "trying" /\ Tries(p)' = 1
      BY <1>12, <2>3, PhaseWillBe
    <2>2. Moved(p)
      BY <1>8, <1>12, <2>1 DEF Moved
    <2> QED BY <1>4, <1>5, <1>7, <1>9, <2>2, ProgramMoves DEF r, s
  <1> QED BY <1>10, <1>11, <1>12

\* The lambda on a restart timer goes on with the attempt, or finds nothing to
\* start: Quit.
LEMMA RestartMoves ==
    ASSUME IInv, Counted, NEW p \in Programs, NEW s \in Supervised, NEW exe \in BOOLEAN,
           pm[p].timer > 0, pm' = [pm EXCEPT ![p] = s],
           s.timer = 0, s.count = pm[p].count,
           \/ p = "host" /\ s.proc = pm[p].proc /\ pipe' = "dialing" /\ over' = over
           \/ /\ pipe' = pipe /\ EndsItself(p, ~exe)
              /\ s.proc = IF exe THEN "starting" ELSE "none"
              /\ s.status = IF exe THEN "Starting" ELSE "NotStarted",
           UNCHANGED <<began, shutdown>>
    PROVE  Counted' /\ [Promised!Next]_(Promised!vars)
  <1>1. TypeOK /\ Exclusive
    BY DEF IInv
  <1>2. pm \in [Programs -> Supervised] /\ pm[p] \in Supervised /\ "host" \in Programs
    BY <1>1, Types DEF Programs
  <1>3. /\ pm[p].timer # 0 /\ pm[p].timer \in Nat
    BY <1>2, Fields
  <1>4. began /\ ~shutdown /\ (p = "host" => pipe = "none") /\ ~Child(p)
    BY <1>1, <1>2, <1>3, Types DEF Exclusive
  <1>5. pm'[p] = s /\ Phase(p) = "trying" /\ Tries(p) = s.count
    BY <1>2, <1>4 DEF Phase, Tries
  <1>6. CASE p = "host" /\ s.proc = pm[p].proc /\ pipe' = "dialing" /\ over' = over
    <2>1. Phase(p)' = "trying" /\ Tries(p)' = s.count
      BY <1>4, <1>5, <1>6, PhaseWillBe
    <2>2. Moved(p)
      BY <1>5, <2>1 DEF Moved
    <2> QED BY <1>4, <1>6, <2>2, ProgramMoves DEF Child
  <1>7. CASE /\ pipe' = pipe /\ EndsItself(p, ~exe)
             /\ s.proc = IF exe THEN "starting" ELSE "none"
             /\ s.status = IF exe THEN "Starting" ELSE "NotStarted"
    <2>1. /\ \A q \in Programs \ {p} : q \in over' <=> q \in over
          /\ ~exe => p \in over'
      BY <1>1, <1>7, OverTypes
    <2>2. Phase(p)' = (IF exe THEN "trying" ELSE "ended") /\ Tries(p)' = s.count
      BY <1>4, <1>5, <1>7, <2>1, PhaseWillBe
    <2>3. Moved(p)
      BY <1>4, <1>5, <2>2 DEF Moved
    <2> QED BY <1>4, <1>7, <2>1, <2>3, ProgramMoves
  <1> QED BY <1>6, <1>7

\* The restart timer of the host, which may dial the service.
LEMMA HostRestartMoves ==
    ASSUME IInv, Counted, NEW exe \in BOOLEAN, HostRestartTimer(exe)
    PROVE  Counted' /\ [Promised!Next]_(Promised!vars)
  <1> DEFINE r == [pm["host"] EXCEPT !.timer = 0]
             s == startHostProcess(r, exe)
  <1>1. TypeOK /\ Exclusive
    BY DEF IInv
  <1>2. pm["host"] \in Supervised /\ Programs = {"host", "client"}
    BY <1>1, BothPrograms
  <1>3. /\ pm["host"].timer > 0 /\ pm' = [pm EXCEPT !["host"] = s] /\ DialsService
        /\ EndsItself("host", ~exe /\ ~service) /\ UNCHANGED <<service, began, shutdown>>
    BY DEF HostRestartTimer
  <1>4. pipe = "none" /\ ~connecting /\ ~Child("host")
    <2>1. pm["host"].timer \in Nat /\ pm["host"].timer # 0
      BY <1>2, <1>3, Fields
    <2> QED BY <1>1, <1>2, <1>3, <2>1, Types DEF Exclusive
  <1>5. ~isHostRunning
    BY <1>4 DEF isHostRunning, Child
  <1>6. r \in Supervised /\ r.timer = 0 /\ r.count = pm["host"].count /\ r.proc = pm["host"].proc
    BY <1>2 DEF Supervised
  <1> HIDE DEF r
  <1>7. /\ s \in Supervised /\ s.count = r.count /\ s.timer = r.timer
        /\ IF service
           THEN s.proc = r.proc /\ pipe' = "dialing"
           ELSE /\ s.proc = IF exe THEN "starting" ELSE "none"
                /\ s.status = IF exe THEN "Starting" ELSE "NotStarted"
                /\ pipe' = pipe
    BY <1>3, <1>4, <1>5, <1>6, StartHostDoes
  <1> HIDE DEF s
  <1>8. service => over' = over
    BY <1>3 DEF EndsItself
  <1>9. ~service => EndsItself("host", ~exe)
    BY <1>3 DEF EndsItself
  <1>10. \/ s.proc = pm["host"].proc /\ pipe' = "dialing" /\ over' = over
         \/ /\ pipe' = pipe /\ EndsItself("host", ~exe)
            /\ s.proc = IF exe THEN "starting" ELSE "none"
            /\ s.status = IF exe THEN "Starting" ELSE "NotStarted"
    BY <1>6, <1>7, <1>8, <1>9
  <1> QED BY <1>2, <1>3, <1>6, <1>7, <1>10, RestartMoves

\* The restart timer of the client.
LEMMA ClientRestartMoves ==
    ASSUME IInv, Counted, NEW exe \in BOOLEAN, ClientRestartTimer(exe)
    PROVE  Counted' /\ [Promised!Next]_(Promised!vars)
  <1> DEFINE r == [pm["client"] EXCEPT !.timer = 0]
             s == StartChild(r, exe, "Starting")
  <1>1. TypeOK /\ Exclusive
    BY DEF IInv
  <1>2. pm["client"] \in Supervised /\ Programs = {"host", "client"}
    BY <1>1, BothPrograms
  <1>3. pm["client"].timer > 0 /\ ~Child("client")
    BY <1>1, <1>2 DEF ClientRestartTimer, Exclusive
  <1>4. /\ r \in Supervised /\ r.timer = 0 /\ r.count = pm["client"].count
        /\ r.proc = pm["client"].proc
    BY <1>2 DEF Supervised
  <1>5. /\ pm' = [pm EXCEPT !["client"] = s] /\ EndsItself("client", ~exe)
        /\ UNCHANGED <<pipe, began, shutdown>>
    BY <1>3, <1>4 DEF ClientRestartTimer, Child, service_
  <1> HIDE DEF r
  <1>6. /\ s \in Supervised /\ s.count = r.count /\ s.timer = r.timer
        /\ s.proc = IF exe THEN "starting" ELSE "none"
        /\ s.status = IF exe THEN "Starting" ELSE "NotStarted"
    <2>1. "Starting" \in Statuses
      BY DEF Statuses
    <2> QED BY <1>4, <2>1, StartChildDoes
  <1> HIDE DEF s
  <1> QED BY <1>2, <1>3, <1>4, <1>5, <1>6, RestartMoves

\* onServicePipeConnected is Rise.
LEMMA PipeConnectedMoves ==
    ASSUME IInv, Counted, PipeConnected
    PROVE  Counted' /\ [Promised!Next]_(Promised!vars)
  <1> DEFINE s == [pm["host"] EXCEPT !.link = "pipe", !.count = 0, !.status = "Running"]
  <1>1. TypeOK /\ Exclusive
    BY DEF IInv
  <1>2. /\ pipe = "dialing" /\ pipe' = "up" /\ pm' = [pm EXCEPT !["host"] = s]
        /\ UNCHANGED <<began, shutdown, over>>
    BY DEF PipeConnected, life
  <1>3. /\ pm \in [Programs -> Supervised] /\ pm["host"] \in Supervised
        /\ Programs = {"host", "client"}
    BY <1>1, Types, BothPrograms
  <1>4. ~Child("host") /\ pm["host"].timer = 0 /\ began /\ ~shutdown
    BY <1>1, <1>2, Types DEF Exclusive
  <1>5. /\ s \in Supervised /\ s.count = 0 /\ s.proc = pm["host"].proc
        /\ s.timer = pm["host"].timer
    <2>1. 0 \in 0 .. MaxRestarts + 1
      BY SupervisionAssumption
    <2> QED BY <1>3, <2>1 DEF Supervised, Statuses
  <1> HIDE DEF s
  <1>6. pm'["host"] = s
    BY <1>2, <1>3
  <1>7. Moved("host")
    <2>1. Phase("host") = "trying"
      BY <1>2 DEF Phase
    <2>2. Phase("host")' = "up" /\ Tries("host")' = 0
      BY <1>2, <1>3, <1>4, <1>5, <1>6, PhaseWillBe DEF Child
    <2> QED BY <2>1, <2>2 DEF Moved
  <1> QED BY <1>2, <1>3, <1>4, <1>5, <1>7, ProgramMoves

\* The service is lost while it is dialed (Retry) or after that (Lose): it is
\* dialed again, or a child takes over, or there is none (Quit).
LEMMA LostServiceMoves ==
    ASSUME IInv, Counted, NEW exe \in BOOLEAN, NEW r \in Supervised, NEW q \in Supervised, NEW s,
           pipe # "none", pipe' = "none", pm' = [pm EXCEPT !["host"] = s],
           r.timer = 0, r.count = pm["host"].count, r.proc = pm["host"].proc,
           q.timer = 0, q.count = r.count + (IF service THEN 1 ELSE 0),
           s = IF service /\ r.count + 1 <= MaxRestarts
               THEN ScheduleRestart(r) ELSE StartChild(q, exe, r.status),
           EndsItself("host", NothingLeft(exe)), UNCHANGED <<began, shutdown>>
    PROVE  Counted' /\ [Promised!Next]_(Promised!vars)
  <1>1. TypeOK /\ Exclusive
    BY DEF IInv
  <1>2. /\ pm \in [Programs -> Supervised] /\ pm["host"] \in Supervised
        /\ Programs = {"host", "client"}
    BY <1>1, Types, BothPrograms
  <1>3. /\ ~Child("host") /\ pm["host"].timer = 0 /\ began /\ ~shutdown
        /\ pm["host"].count <= MaxRestarts
    BY <1>1, Types DEF Exclusive
  <1>4. r.count \in Nat /\ MaxRestarts \in Nat /\ r.count <= MaxRestarts
    BY <1>3, Fields, SupervisionAssumption
  <1>5. /\ Phase("host") = (IF pipe = "dialing" THEN "trying" ELSE "up")
        /\ Tries("host") = r.count
    BY <1>1, <1>2, <1>3, Types DEF Phase, Tries, Child
  <1>6. /\ \A p \in Programs \ {"host"} : p \in over' <=> p \in over
        /\ NothingLeft(exe) => "host" \in over'
    BY <1>1, <1>2, OverTypes
  <1>7. CASE service /\ r.count + 1 <= MaxRestarts
    <2>1. r.count < MaxRestarts /\ s = ScheduleRestart(r)
      BY <1>4, <1>7
    <2>2. s \in Supervised /\ s.timer > 1000 /\ s.count = r.count + 1 /\ s.proc = r.proc
      BY <2>1, ScheduleRestartDoes
    <2>3. pm'["host"] = s /\ s.timer \in Nat
      BY <1>2, <2>2, Fields
    <2>4. Phase("host")' = "trying" /\ Tries("host")' = r.count + 1
      BY <1>2, <1>3, <2>2, <2>3, PhaseWillBe
    <2>5. Moved("host")
      BY <1>3, <1>4, <1>5, <2>4 DEF Moved
    <2>6. s.proc # "running" /\ "host" \in Programs
      BY <1>2, <1>3, <2>2 DEF Child
    <2>7. \A p \in Programs \ {"host"} : p \in over' <=> p \in over
      BY <1>6
    <2>8. /\ "host" = "client" => pipe' = pipe
          /\ s.proc = "running" => s.count = 0
          /\ "host" = "host" /\ pipe' = "up" => s.count = 0
      BY <2>6
    <2>9. s \in Supervised /\ began
      BY <1>3, <2>2
    <2> QED BY <2>5, <2>6, <2>7, <2>8, <2>9, ProgramMoves, Zenon
  <1>8. CASE ~(service /\ r.count + 1 <= MaxRestarts)
    <2>1. s = StartChild(q, exe, r.status) /\ r.status \in Statuses
      BY <1>8, Fields
    <2>2. /\ s \in Supervised /\ s.timer = q.timer /\ s.count = q.count
          /\ s.proc = IF exe THEN "starting" ELSE "none"
          /\ ~exe => s.status = "NotStarted"
      BY <2>1, StartChildDoes
    <2>3. pm'["host"] = s
      BY <1>2, <2>2
    <2>4. ~exe => NothingLeft(exe)
      BY <1>4, <1>8 DEF NothingLeft
    <2>5. /\ Phase("host")' = (IF exe THEN "trying" ELSE "ended")
          /\ Tries("host")' = q.count
      BY <1>2, <1>3, <1>6, <2>2, <2>3, <2>4, PhaseWillBe
    <2>6. q.count = r.count \/ q.count = r.count + 1
      BY <1>4
    <2>7. Moved("host")
      BY <1>3, <1>4, <1>5, <2>5, <2>6 DEF Moved
    <2> QED BY <1>2, <1>3, <1>6, <2>2, <2>7, ProgramMoves
  <1> QED BY <1>7, <1>8

\* onServicePipeError, which does nothing any more once the pipes are open.
LEMMA ServicePipeErrorMoves ==
    ASSUME IInv, Counted, NEW exe \in BOOLEAN, ServicePipeError(exe)
    PROVE  Counted' /\ [Promised!Next]_(Promised!vars)
  <1> DEFINE r == pm["host"]
             t == IF service THEN [r EXCEPT !.count = r.count + 1] ELSE r
             q == [t EXCEPT !.timer = 0]
  <1>1. TypeOK /\ Exclusive
    BY DEF IInv
  <1>2. UNCHANGED <<began, shutdown>>
    BY DEF ServicePipeError
  <1>3. CASE ~connecting
    BY <1>2, <1>3, NoneMoves DEF ServicePipeError
  <1>4. CASE connecting
    <2>1. /\ pipe' = "none" /\ RetryServiceOrFallBack(r, exe)
          /\ EndsItself("host", NothingLeft(exe))
      BY <1>4 DEF ServicePipeError
    <2>2. r \in Supervised
      BY <1>1, BothPrograms
    <2>3. pipe = "dialing" /\ r.timer = 0 /\ r.count <= MaxRestarts /\ r.count \in Nat
      BY <1>1, <1>4, <2>2, Fields DEF Exclusive
    <2>4. /\ t \in Supervised /\ t.status = r.status
          /\ t.count = r.count + (IF service THEN 1 ELSE 0)
      <3>1. r.count + 1 \in 0 .. MaxRestarts + 1
        BY <2>3, SupervisionAssumption
      <3> QED BY <2>2, <2>3, <3>1 DEF Supervised
    <2>5. pm' = [pm EXCEPT !["host"] =
                    IF service /\ r.count + 1 <= MaxRestarts
                    THEN ScheduleRestart(r) ELSE StartChild(q, exe, r.status)]
      BY <2>1, <2>4 DEF RetryServiceOrFallBack
    <2> HIDE DEF t
    <2>6. q \in Supervised /\ q.timer = 0 /\ q.count = t.count
      BY <2>4 DEF Supervised
    <2> HIDE DEF q
    <2> QED BY <1>2, <2>1, <2>2, <2>3, <2>4, <2>5, <2>6, LostServiceMoves
  <1> QED BY <1>3, <1>4

\* The lambda on disconnected of the read socket.
LEMMA PipeDisconnectedMoves ==
    ASSUME IInv, Counted, NEW exe \in BOOLEAN, PipeDisconnected(exe)
    PROVE  Counted' /\ [Promised!Next]_(Promised!vars)
  <1> DEFINE r == [pm["host"] EXCEPT !.link = "none"]
             q == [r EXCEPT !.timer = 0, !.count = r.count + (IF service THEN 1 ELSE 0)]
  <1>1. TypeOK /\ Exclusive
    BY DEF IInv
  <1>2. pm["host"] \in Supervised /\ "host" \in Programs
    BY <1>1, BothPrograms
  <1>3. /\ pipe = "up" /\ pipe' = "none" /\ UNCHANGED <<began, shutdown>>
        /\ EndsItself("host", NothingLeft(exe))
    BY DEF PipeDisconnected
  <1>4. ~pm["host"].stopping /\ pm["host"].timer = 0 /\ pm["host"].count = 0
    BY <1>1, <1>2, <1>3, Types DEF Exclusive, Counted
  <1>5. /\ r \in Supervised /\ r.proc = pm["host"].proc /\ r.stopping = pm["host"].stopping
        /\ r.timer = 0 /\ r.count = pm["host"].count
    BY <1>2, <1>4 DEF Supervised
  <1>6. pm' = [pm EXCEPT !["host"] =
                  IF service /\ r.count + 1 <= MaxRestarts
                  THEN ScheduleRestart(r) ELSE StartChild(q, exe, r.status)]
    BY <1>4, <1>5 DEF PipeDisconnected
  <1> HIDE DEF r
  <1>7. q \in Supervised /\ q.timer = 0 /\ q.count = r.count + (IF service THEN 1 ELSE 0)
    <2>1. r.count + (IF service THEN 1 ELSE 0) \in 0 .. MaxRestarts + 1
      BY <1>4, <1>5, SupervisionAssumption
    <2> QED BY <1>5, <2>1 DEF Supervised
  <1> HIDE DEF q
  <1> QED BY <1>3, <1>5, <1>6, <1>7, LostServiceMoves

\* initialize() is Start: everything was idle.
LEMMA InitializeMoves ==
    ASSUME IInv, Counted, NEW h \in BOOLEAN, NEW c \in BOOLEAN, Initialize(h, c)
    PROVE  Counted' /\ [Promised!Next]_(Promised!vars)
  <1> DEFINE s == startHostProcess(pm["host"], h)
             t == StartChild(pm["client"], c, "Starting")
  <1>1. TypeOK /\ Exclusive
    BY DEF IInv
  <1>2. pm["host"] \in Supervised /\ pm["client"] \in Supervised /\ Programs = {"host", "client"}
    BY <1>1, BothPrograms
  <1>3. /\ ~began /\ began' = TRUE /\ ~shutdown /\ shutdown' = shutdown
        /\ pm' = [pm EXCEPT !["host"] = s, !["client"] = t] /\ DialsService
        /\ over' = (IF h \/ service THEN {} ELSE {"host"}) \cup (IF c THEN {} ELSE {"client"})
    BY DEF Initialize
  <1>4. /\ pipe = "none" /\ ~connecting /\ over = {}
        /\ \A p \in Programs : /\ pm[p].timer = 0 /\ ~Child(p) /\ pm[p].count = 0
                               /\ pm[p].status = "NotStarted"
    BY <1>1, <1>3 DEF Exclusive, Counted
  <1>5. ~isHostRunning
    BY <1>2, <1>4 DEF isHostRunning, Child
  <1>6. /\ s.timer = pm["host"].timer /\ s.count = pm["host"].count
        /\ IF service THEN s.proc = pm["host"].proc /\ s.status = "Starting"
           ELSE /\ s.proc = IF h THEN "starting" ELSE "none"
                /\ s.status = IF h THEN "Starting" ELSE "NotStarted"
                /\ pipe' = pipe
        /\ service => pipe' = "dialing"
    BY <1>2, <1>3, <1>4, <1>5, StartHostDoes
  <1>7. /\ t.timer = pm["client"].timer /\ t.count = pm["client"].count
        /\ t.proc = IF c THEN "starting" ELSE "none"
        /\ t.status = IF c THEN "Starting" ELSE "NotStarted"
    <2>1. "Starting" \in Statuses
      BY DEF Statuses
    <2> QED BY <1>2, <2>1, StartChildDoes
  <1> HIDE DEF s, t
  <1>8. pm'["host"] = s /\ pm'["client"] = t
    BY <1>1, <1>2, <1>3, Types
  <1>9. \A p \in Programs : Phase(p) = "idle" /\ Tries(p) = 0
    BY <1>2, <1>3, <1>4 DEF Phase, Child, Tries
  <1>10. Phase("host")' \in {"trying", "ended"} /\ Tries("host")' = 0
    BY <1>2, <1>3, <1>4, <1>6, <1>8, PhaseWillBe DEF Child
  <1>11. Phase("client")' \in {"trying", "ended"} /\ Tries("client")' = 0
    BY <1>2, <1>3, <1>4, <1>7, <1>8, PhaseWillBe
  <1>12. Promised!Start
    BY <1>2, <1>3, <1>9, <1>10, <1>11 DEF Promised!Start
  <1>13. Counted'
    <2>1. s.count = 0 /\ t.count = 0
      BY <1>2, <1>4, <1>6, <1>7
    <2> QED BY <1>2, <1>3, <1>8, <2>1 DEF Counted
  <1> QED BY <1>12, <1>13 DEF Promised!Next

\* shutdown() is Close: only a child that was told to go is left.
LEMMA ShutdownMoves ==
    ASSUME IInv, Counted, Shutdown PROVE Counted' /\ [Promised!Next]_(Promised!vars)
  <1> DEFINE s == IF pipe = "none" THEN StopProcess(pm["host"]) ELSE StopService(pm["host"])
             t == StopProcess(pm["client"])
  <1>1. TypeOK /\ Exclusive
    BY DEF IInv
  <1>2. pm["host"] \in Supervised /\ pm["client"] \in Supervised /\ Programs = {"host", "client"}
    BY <1>1, BothPrograms
  <1>3. /\ ~shutdown /\ shutdown' = TRUE /\ pipe' = "none"
        /\ pm' = [pm EXCEPT !["host"] = s, !["client"] = t]
        /\ UNCHANGED <<began, over>>
    BY DEF Shutdown
  <1>4. /\ s.timer = 0
        /\ IF pm["host"].proc \in {"starting", "running"}
           THEN s.proc = pm["host"].proc /\ s.count = pm["host"].count
           ELSE s.proc \notin {"starting", "running"} /\ s.status = "NotStarted"
    <2>1. pm["host"].proc \in QProcessStates
      BY <1>2, Fields
    <2>2. CASE pipe = "none"
      <3>1. LET z == StopProcess(pm["host"])
            IN  /\ z.timer = 0
                /\ IF pm["host"].proc \in {"none", "notRunning"}
                   THEN z.proc = "none" /\ z.status = "NotStarted"
                   ELSE z.proc = pm["host"].proc /\ z.count = pm["host"].count
        BY <1>2, StopProcessDoes
      <3> QED BY <2>1, <2>2, <3>1 DEF QProcessStates
    <2>3. CASE pipe # "none"
      <3>1. LET z == StopService(pm["host"])
            IN  z.timer = 0 /\ z.proc = pm["host"].proc /\ z.status = "NotStarted"
        BY <1>2, StopServiceDoes
      <3>2. pm["host"].proc \notin {"starting", "running"}
        BY <1>1, <2>3 DEF Exclusive, Child
      <3> QED BY <2>3, <3>1, <3>2
    <2> QED BY <2>2, <2>3
  <1>5. /\ t.timer = 0
        /\ IF pm["client"].proc \in {"starting", "running"}
           THEN t.proc = pm["client"].proc /\ t.count = pm["client"].count
           ELSE t.proc \notin {"starting", "running"} /\ t.status = "NotStarted"
    <2>1. pm["client"].proc \in QProcessStates
      BY <1>2, Fields
    <2>2. LET z == StopProcess(pm["client"])
          IN  /\ z.timer = 0
              /\ IF pm["client"].proc \in {"none", "notRunning"}
                 THEN z.proc = "none" /\ z.status = "NotStarted"
                 ELSE z.proc = pm["client"].proc /\ z.count = pm["client"].count
      BY <1>2, StopProcessDoes
    <2> QED BY <2>1, <2>2 DEF QProcessStates
  <1> HIDE DEF s, t
  <1>6. pm'["host"] = s /\ pm'["client"] = t
    BY <1>1, <1>2, <1>3, Types
  <1>7. \/ Phase("host")' = "idle"
        \/ Phase("host")' = Phase("host") /\ Phase("host") \in {"trying", "up"}
    <2>1. pm["host"].proc = "running" => ~(pm["host"].timer > 0) /\ pipe # "dialing"
      BY <1>1, <1>2 DEF Exclusive, Child
    <2> QED BY <1>2, <1>3, <1>4, <1>6, <2>1, PhaseWillBe DEF Phase
  <1>8. \/ Phase("client")' = "idle"
        \/ Phase("client")' = Phase("client") /\ Phase("client") \in {"trying", "up"}
    <2>1. pm["client"].proc = "running" => ~(pm["client"].timer > 0)
      BY <1>1, <1>2 DEF Exclusive, Child
    <2> QED BY <1>2, <1>3, <1>5, <1>6, <2>1, PhaseWillBe DEF Phase
  <1>9. \A p \in Programs : Tries(p)' = 0
    BY <1>3, PhaseWillBe
  <1>10. Promised!Close
    BY <1>2, <1>3, <1>7, <1>8, <1>9 DEF Promised!Close, Promised!Phases
  <1>11. Counted'
    <2>1. s.proc = "running" => s.count = 0
      BY <1>2, <1>4 DEF Counted
    <2>2. t.proc = "running" => t.count = 0
      BY <1>2, <1>5 DEF Counted
    <2>3. ~began' => over' = {}
      BY <1>3 DEF Counted
    <2> QED BY <1>2, <1>3, <1>6, <2>1, <2>2, <2>3 DEF Counted
  <1> QED BY <1>10, <1>11 DEF Promised!Next

\* Every step of the application is one of Supervisor, or leaves its variables
\* alone.
LEMMA StepRefines ==
    IInv /\ Counted /\ [Next]_vars => Counted' /\ [Promised!Next]_(Promised!vars)
  <1> SUFFICES ASSUME IInv, Counted, [Next]_vars
               PROVE  Counted' /\ [Promised!Next]_(Promised!vars)
    OBVIOUS
  <1>0. "host" \in Programs /\ "client" \in Programs
    BY DEF Programs
  <1>1. CASE \E h, c \in BOOLEAN : Initialize(h, c)
    BY <1>1, InitializeMoves
  <1>2. CASE Shutdown
    BY <1>2, ShutdownMoves
  <1>3. CASE HostProgram
    <2>1. CASE PipeErrorDuringConnect \/ ServiceStops
      <3>1. UNCHANGED <<pm, pipe, began, shutdown, over>>
        BY <2>1 DEF PipeErrorDuringConnect, ServiceStops, life
      <3> QED BY <3>1, NoneMoves
    <2>2. CASE HostStarted
      BY <1>0, <2>2, StartedMoves DEF HostStarted, service_, life
    <2>3. CASE HostFailedToStart
      BY <1>0, <2>3, FailedMoves DEF HostFailedToStart, service_, life
    <2>4. CASE \E b \in BOOLEAN : HostFinished(b)
      BY <1>0, <2>4, FinishedMoves DEF HostFinished, service_
    <2>5. CASE \E exe \in BOOLEAN : HostRestartTimer(exe)
      BY <2>5, HostRestartMoves
    <2>6. CASE PipeConnected
      BY <2>6, PipeConnectedMoves
    <2>7. CASE \E exe \in BOOLEAN : ServicePipeError(exe) \/ PipeDisconnected(exe)
      BY <2>7, ServicePipeErrorMoves, PipeDisconnectedMoves
    <2> QED BY <1>3, <2>1, <2>2, <2>3, <2>4, <2>5, <2>6, <2>7 DEF HostProgram
  <1>4. CASE ClientProgram
    <2>1. CASE ClientHelloTimer
      <3>1. UNCHANGED <<pm, pipe, began, shutdown, over>>
        BY <2>1 DEF ClientHelloTimer, service_, life
      <3> QED BY <3>1, NoneMoves
    <2>2. CASE ClientStarted
      BY <1>0, <2>2, StartedMoves DEF ClientStarted, service_, life
    <2>3. CASE ClientFailedToStart
      BY <1>0, <2>3, FailedMoves DEF ClientFailedToStart, service_, life
    <2>4. CASE \E b \in BOOLEAN : ClientFinished(b)
      BY <1>0, <2>4, FinishedMoves DEF ClientFinished, service_
    <2>5. CASE \E exe \in BOOLEAN : ClientRestartTimer(exe)
      BY <2>5, ClientRestartMoves
    <2> QED BY <1>4, <2>1, <2>2, <2>3, <2>4, <2>5 DEF ClientProgram
  <1>5. CASE HostMessages
    <2>1. UNCHANGED <<pm, pipe, began, shutdown, over>>
      BY <1>5 DEF HostMessages, HostHelloTimer, HostConnectTimer, HelloResponse, HostReady,
                  SignalingStateChanged, ClientConnected, ClientDisconnected,
                  ClientListChanged, service_, life
    <2> QED BY <2>1, NoneMoves
  <1>6. CASE SkillHost
    <2>1. UNCHANGED <<pm, pipe, began, shutdown, over>>
      BY <1>6 DEF SkillHost, SkillHostMessage, SkillHostFinished, SetExtraSkillsDirs,
                  SkillRestartTimer, SetSkillHostEnabled, service_, life
    <2> QED BY <2>1, NoneMoves
  <1>7. CASE UNCHANGED vars
    <2>1. UNCHANGED <<pm, pipe, began, shutdown, over>>
      BY <1>7 DEF vars
    <2> QED BY <2>1, NoneMoves
  <1> QED BY <1>1, <1>2, <1>3, <1>4, <1>5, <1>6, <1>7 DEF Next

\* ProcessManager keeps the safety part of Supervisor's promise: while the
\* application is open a program that crashes, or whose service is lost, is
\* tried again, is given up only when its attempts are used up, and is left
\* alone only when it ended by itself or cannot be started; and nothing is
\* started after shutdown().  That every attempt ends is liveness, which the
\* run checks (SupervisorKept).
THEOREM SupervisorImplemented == Spec => Promised!Spec
  <1>1. Init => Promised!Init /\ Counted
    BY DEF Init, Promised!Init, Phase, Tries, Counted
  <1>2. IInv /\ Counted /\ [Next]_vars => Counted' /\ [Promised!Next]_(Promised!vars)
    BY StepRefines
  <1> QED BY <1>1, <1>2, Invariant, PTL DEF Spec, Promised!Spec

-----------------------------------------------------------------------------
(***************************************************************************)
(* The device list: what the invariant is made of.                         *)
(***************************************************************************)

\* What the variables hold, more closely than the types of the module.
Stages == {"sent", "ok", "missing", "failed"}
CodedRow == [online : BOOLEAN, code : Codes, here : {TRUE}]
AnyRow == CodedRow \cup {None}
LogEntry == [type : EventTypes, dev : Devices, online : BOOLEAN]
AnyCall == [type : CallTypes, dev : Devices, stage : Stages, val : AnyRow, rev : 0 .. MaxRev + 1]
AnyFrame == [type : {"event", "auth_ok", "done", "error"}, rev : Revs, rows : {NoRows}] \cup
            [type : {"snapshot"}, rev : Revs, rows : [Devices -> AnyRow]]

ServerTypes ==
    /\ bound \subseteq Devices
    /\ online \in [Devices -> BOOLEAN] /\ code \in [Devices -> Codes]
    /\ log \in Seq(LogEntry) /\ Len(log) \in 1 .. MaxRev
    /\ token \in {"ok", "expired", "refreshing"} /\ losses \in 0 .. MaxLosses

SocketTypes ==
    /\ logged \in BOOLEAN /\ boot \in BOOLEAN /\ timer \in 0 .. 2
    /\ sock \in {"none", "opening", "open", "closed"}
    /\ wire \in Seq(AnyFrame)
    /\ sock # "open" => wire = <<>> /\ ~boot

ListTypes ==
    /\ serverRev \in 0 .. Len(log) /\ applied \in 0 .. serverRev
    /\ devRev \in [Devices -> 0 .. serverRev]
    /\ rows \in [Devices -> AnyRow] /\ touched \subseteq Devices

FlagTypes == secret \in BOOLEAN /\ crossed \in BOOLEAN /\ overlap \in BOOLEAN /\ failed \in BOOLEAN

CallsTypes ==
    /\ calls \in [Slots -> AnyCall]
    /\ hostCode \in Codes /\ synced \in 0 .. hostCode /\ FlagTypes

Typed == ServerTypes /\ SocketTypes /\ ListTypes /\ CallsTypes

\* The events of the log after a revision, and what an event tells of a device.
After(rev) == rev + 1 .. Len(log)
Presence(r, d) == log[r].dev = d /\ log[r].type \in {"bound", "unbound", "online"}
Cleared(r, d) == log[r].dev = d /\ log[r].type = "unbound"
Coded(r, d) == log[r].dev = d /\ log[r].type = "code"

\* The last event about a device's presence tells it as it is.
LastWord ==
    \A d \in Devices, p \in 1 .. Len(log) :
        Presence(p, d) /\ (\A q \in After(p) : ~Presence(q, d)) =>
            IF log[p].type = "unbound" THEN d \notin bound
            ELSE d \in bound /\ online[d] = log[p].online

\* A code is only announced for a bound device.
CodesWhileBound ==
    \A d \in Devices, p \in 1 .. Len(log), r \in 1 .. Len(log) :
        p < r /\ Cleared(p, d) /\ Coded(r, d) => \E q \in p + 1 .. r - 1 : Presence(q, d)

\* A row that shows a device's presence as of a revision.
Shows(row, rev, d) ==
    /\ (\A r \in After(rev) : ~Presence(r, d)) =>
          /\ row.here <=> (d \in bound)
          /\ row.here => row.online = online[d]
    /\ ~row.here /\ (\E r \in After(rev) : Coded(r, d)) => \E q \in After(rev) : Presence(q, d)

\* A change of its code is still to come.
CodeComes(rev, d) == \E r \in After(rev) : Coded(r, d) \/ Cleared(r, d)

\* A row that shows a device as of a revision.
Image(row, rev, d) ==
    /\ Shows(row, rev, d)
    /\ row.here /\ row.code # code[d] => CodeComes(rev, d)
    /\ code[d] = 0 => row.code = 0

\* An answer tells the device as it was at its revision.
AnswerSound(c) ==
    /\ c.type = "refresh" /\ c.stage = "ok" =>
          c.val.here /\ c.rev \in 1 .. Len(log) /\ Image(c.val, c.rev, c.dev)
    /\ c.type = "unbind" /\ c.stage = "ok" => c.rev \in 1 .. Len(log) /\ Cleared(c.rev, c.dev)

Answers == \A i \in Slots : AnswerSound(calls[i])

\* There is no upload without a device secret, and the last batch of uploads
\* carries the code of now unless other codes overlapped with it.
UploadSound(c) ==
    c.type = "upload" =>
        /\ c.dev = Own /\ c.val.here /\ c.val.code \in 1 .. hostCode
        /\ c.stage \in {"sent", "ok", "failed"}
        /\ c.stage = "ok" => code[Own] # 0
        /\ secret
        /\ ~overlap => c.val.code = hostCode
        /\ ~overlap /\ c.stage = "ok" => code[Own] = hostCode

\* The code the client takes for stored is stored, and any other is on its way
\* or known to have failed.
Uploads ==
    /\ \A i \in Slots : UploadSound(calls[i])
    /\ hostCode > 0 /\ ~overlap /\ synced = hostCode => code[Own] = hostCode
    /\ hostCode > 0 /\ secret /\ ~overlap =>
          synced = hostCode \/ failed \/ \E i \in Slots : calls[i].type = "upload"
    /\ overlap => crossed

\* A frame that brings the event of a revision, and the order of the frames in
\* the wire: events by revision, and only later ones behind a snapshot.
Covers(f, r) == (f.type = "event" /\ f.rev = r) \/ (f.type = "snapshot" /\ f.rev >= r)

Frames ==
    /\ \A i \in 1 .. Len(wire) :
          /\ wire[i].rev <= Len(log)
          /\ wire[i].type = "event" => wire[i].rev >= 2
          /\ wire[i].type = "snapshot" =>
                wire[i].rev >= 1 /\ \A d \in Devices : Image(wire[i].rows[d], wire[i].rev, d)
          /\ wire[i].type = "error" => i = 1
          /\ boot => wire[i].type = "event"
    /\ \A i, j \in 1 .. Len(wire) :
          /\ i < j /\ wire[i].type = "event" /\ wire[j].type = "event" => wire[i].rev < wire[j].rev
          /\ wire[i].type = "event" /\ wire[j].type = "snapshot" => j < i /\ wire[j].rev < wire[i].rev
          /\ wire[i].type = "snapshot" /\ wire[j].type = "snapshot" => i = j
          /\ i < j /\ wire[i].type = "done" => wire[j].type = "event"

\* What the list has not seen of the log is in the wire, and the snapshot is read
\* before the end of the bootstrap.
Covered ==
    /\ sock = "open" /\ (\A i \in 1 .. Len(wire) : wire[i].type # "error") =>
          \A r \in After(applied) : \E i \in 1 .. Len(wire) : Covers(wire[i], r)
    /\ \A i \in 1 .. Len(wire) : wire[i].type = "done" =>
          \A r \in applied + 1 .. wire[i].rev : \E j \in 1 .. i - 1 : Covers(wire[j], r)

\* The answer in flight will put the row's code right.
Fixes(c, d) ==
    /\ c.type = "refresh" /\ c.dev = d
    /\ \/ c.stage \in {"sent", "failed"}
       \/ c.stage = "ok" /\ c.val.code = code[d] /\ code[d] # 0

\* A row shows its device as of the last applied revision, its code may be older
\* if a change is still to come, and no event that was not applied is older than
\* what an answer has told of the device.
ListSound ==
    /\ \A d \in Devices : code[d] = 0 => rows[d].code = 0
    /\ \A d \in Devices \ touched, r \in After(applied) :
          Presence(r, d) \/ Coded(r, d) => r > devRev[d]
    /\ applied > 0 => \A d \in Devices \ touched :
          /\ Shows(rows[d], applied, d)
          /\ (d # Own \/ ~crossed) /\ rows[d].here /\ rows[d].code \notin {0, code[d]} =>
                CodeComes(applied, d) \/ \E i \in Slots : Fixes(calls[i], d)

CloudInv == /\ Typed /\ LastWord /\ CodesWhileBound /\ Answers /\ Uploads
            /\ Frames /\ Covered /\ ListSound

----------------------------------------------------------------------------
(***************************************************************************)
(* Facts about numbers, calls and the log.                                 *)
(***************************************************************************)

LEMMA FirstOf ==
    ASSUME NEW S \in SUBSET Nat, S # {}
    PROVE  \E x \in S : \A y \in S : x <= y
  <1>1. PICK x \in S : \A y \in S : ~(<<y, x>> \in OpToRel(<, Nat))
    BY NatLessThanWellFounded, WFMin
  <1>2. \A y \in S : ~(y < x)
    BY <1>1 DEF OpToRel
  <1> QED BY <1>2

LEMMA LastOf ==
    ASSUME NEW n \in Nat, NEW S \in SUBSET (1 .. n), S # {}
    PROVE  \E x \in S : \A y \in S : y <= x
  <1> DEFINE T == {n - x : x \in S}
  <1>1. \A x \in S : x \in Nat /\ n - x \in Nat
    OBVIOUS
  <1>2. T \subseteq Nat /\ T # {}
    BY <1>1
  <1> HIDE DEF T
  <1>3. PICK x \in T : \A y \in T : x <= y
    BY <1>2, FirstOf
  <1>4. PICK z \in S : x = n - z
    BY <1>3 DEF T
  <1>5. \A y \in S : n - z <= n - y
    BY <1>3, <1>4 DEF T
  <1> QED BY <1>1, <1>4, <1>5

\* A call takes a free slot.
LEMMA SendFacts ==
    ASSUME calls \in [Slots -> AnyCall], FreeSlot # {}, NEW t, NEW d, NEW v
    PROVE  \E i \in Slots : calls[i].type = "none" /\ Send(t, d, v) = [calls EXCEPT ![i] = Call(t, d, "sent", v, 0)]
  <1>1. FreeSlot \subseteq Nat
    BY CloudAssumption DEF FreeSlot, Slots
  <1>2. \E j \in FreeSlot : \A k \in FreeSlot : j <= k
    BY <1>1, FirstOf
  <1> DEFINE i == CHOOSE j \in FreeSlot : \A k \in FreeSlot : j <= k
  <1>3. i \in FreeSlot
    BY <1>2
  <1> QED BY <1>3 DEF Send, FreeSlot

LEMMA SpareFree ==
    Spare => FreeSlot # {}
  BY FS_EmptySet DEF Spare

LEMMA CallFacts ==
    ASSUME NEW t, NEW d, NEW s, NEW v, NEW r
    PROVE  /\ Call(t, d, s, v, r).type = t /\ Call(t, d, s, v, r).dev = d /\ Call(t, d, s, v, r).stage = s
           /\ Call(t, d, s, v, r).val = v /\ Call(t, d, s, v, r).rev = r
           /\ t \in CallTypes /\ d \in Devices /\ s \in Stages /\ v \in AnyRow /\ r \in 0 .. MaxRev + 1
              => Call(t, d, s, v, r) \in AnyCall
  BY DEF Call, AnyCall

LEMMA RowFacts ==
    /\ \A o \in BOOLEAN, c \in Codes : Row(o, c) \in AnyRow /\ Row(o, c).here /\ Row(o, c).online = o /\ Row(o, c).code = c
    /\ None \in AnyRow /\ ~None.here /\ None.code = 0 /\ None.online = FALSE
    /\ \A r \in AnyRow : r.online \in BOOLEAN /\ r.code \in Codes /\ r.here \in BOOLEAN /\ (~r.here => r = None)
  <1>1. 0 \in Codes
    BY CloudAssumption DEF Codes
  <1>2. \A o \in BOOLEAN, c \in Codes : Row(o, c) \in AnyRow /\ Row(o, c).here /\ Row(o, c).online = o /\ Row(o, c).code = c
    BY DEF Row, AnyRow, CodedRow
  <1>3. None \in AnyRow /\ ~None.here /\ None.code = 0 /\ None.online = FALSE
    BY DEF None, AnyRow
  <1>4. ASSUME NEW r \in AnyRow
        PROVE  r.online \in BOOLEAN /\ r.code \in Codes /\ r.here \in BOOLEAN /\ (~r.here => r = None)
    <2>1. CASE r = None
      BY <1>1, <2>1 DEF None
    <2>2. CASE r \in CodedRow
      BY <2>2 DEF CodedRow
    <2> QED BY <1>4, <2>1, <2>2 DEF AnyRow
  <1> QED BY <1>2, <1>3, <1>4

LEMMA NumberFacts ==
    ASSUME Typed
    PROVE  /\ Len(log) \in Nat /\ Len(log) >= 1 /\ Len(log) <= MaxRev /\ MaxRev \in Nat /\ MaxCode \in Nat
           /\ serverRev \in Nat /\ applied \in Nat /\ applied <= serverRev /\ serverRev <= Len(log)
           /\ \A d \in Devices : devRev[d] \in Nat /\ devRev[d] <= serverRev
           /\ Len(wire) \in Nat
           /\ \A r \in 1 .. Len(log) : log[r] \in LogEntry
           /\ \A i \in 1 .. Len(wire) : wire[i] \in AnyFrame
           /\ hostCode \in Nat /\ synced \in Nat
  <1>1. MaxRev \in Nat /\ MaxCode \in Nat
    BY CloudAssumption
  <1>2. Len(log) \in Nat /\ Len(wire) \in Nat /\ Len(log) \in 1 .. MaxRev
    BY LenProperties DEF Typed, ServerTypes, SocketTypes
  <1>3. serverRev \in 0 .. Len(log) /\ applied \in 0 .. serverRev /\ \A d \in Devices : devRev[d] \in 0 .. serverRev
    BY DEF Typed, ListTypes
  <1>4. /\ \A r \in 1 .. Len(log) : log[r] \in LogEntry
        /\ \A i \in 1 .. Len(wire) : wire[i] \in AnyFrame
    BY ElementOfSeq DEF Typed, ServerTypes, SocketTypes
  <1>5. hostCode \in Nat /\ synced \in Nat
    BY <1>1 DEF Typed, CallsTypes, Codes
  <1> QED BY <1>1, <1>2, <1>3, <1>4, <1>5

\* A device whose row is shown and that is bound no more was unbound by an event.
LEMMA GoneByEvent ==
    ASSUME Typed, LastWord, NEW d \in Devices \ bound, NEW rev \in 0 .. Len(log), NEW row,
           Shows(row, rev, d), row.here
    PROVE  \E r \in After(rev) : Cleared(r, d)
  <1> DEFINE S == {r \in After(rev) : Presence(r, d)}
  <1>1. Len(log) \in Nat
    BY NumberFacts
  <1>2. S # {}
    BY DEF Shows
  <1>3. S \in SUBSET (1 .. Len(log))
    BY <1>1 DEF After
  <1>4. PICK p \in S : \A q \in S : q <= p
    BY <1>1, <1>2, <1>3, LastOf
  <1>5. \A q \in After(p) : q \in After(rev) /\ ~(q <= p)
    BY <1>1, <1>4 DEF After
  <1>6. \A q \in After(p) : ~Presence(q, d)
    BY <1>4, <1>5
  <1>7. p \in 1 .. Len(log) /\ Presence(p, d)
    BY <1>3, <1>4
  <1>8. log[p].type = "unbound"
    BY <1>6, <1>7 DEF LastWord
  <1> QED BY <1>4, <1>7, <1>8 DEF Cleared, Presence

----------------------------------------------------------------------------
(***************************************************************************)
(* The server's state and what is known of it.                             *)
(***************************************************************************)

LEMMA SameServer ==
    ASSUME UNCHANGED <<bound, online, code, log>>
    PROVE  /\ LastWord => LastWord'
           /\ CodesWhileBound => CodesWhileBound'
           /\ \A row, rev, d : /\ Shows(row, rev, d) => Shows(row, rev, d)'
                               /\ Image(row, rev, d) => Image(row, rev, d)'
           /\ \A rev, d : CodeComes(rev, d) => CodeComes(rev, d)'
           /\ \A c, d : Fixes(c, d) => Fixes(c, d)'
  BY DEF LastWord, CodesWhileBound, Shows, Image, CodeComes, Fixes, After, Presence, Coded, Cleared

LEMMA NewEntry ==
    ASSUME Typed, NEW e \in LogEntry, log' = Append(log, e)
    PROVE  /\ log' \in Seq(LogEntry) /\ Len(log') = Len(log) + 1 /\ log'[Len(log) + 1] = e
           /\ \A r \in 1 .. Len(log) : log'[r] = log[r]
           /\ Len(log) + 1 \in 1 .. Len(log')
           /\ \A rev \in 0 .. Len(log) : /\ Len(log) + 1 \in After(rev)'
                                         /\ \A r \in After(rev) : r \in After(rev)' /\ r \in 1 .. Len(log)
                                         /\ \A r \in After(rev)' : r \in After(rev) \/ r = Len(log) + 1
           /\ \A r \in 1 .. Len(log') : r \in 1 .. Len(log) \/ r = Len(log) + 1
  <1>1. /\ log' \in Seq(LogEntry) /\ Len(log') = Len(log) + 1 /\ log'[Len(log) + 1] = e
        /\ \A r \in 1 .. Len(log) : log'[r] = log[r]
    BY AppendProperties DEF Typed, ServerTypes
  <1>2. Len(log) \in Nat
    BY NumberFacts
  <1> QED BY <1>1, <1>2 DEF After

\* An event about d goes out with the change it is about.
LEMMA PublishStep ==
    ASSUME Typed, LastWord, CodesWhileBound, NEW d \in Devices, NEW t \in EventTypes, NEW o \in BOOLEAN,
           log' = Append(log, [type |-> t, dev |-> d, online |-> o]),
           \A x \in Devices \ {d} : (x \in bound' <=> x \in bound) /\ online'[x] = online[x] /\ code'[x] = code[x],
           t = "unbound" => d \notin bound' /\ code'[d] = code[d],
           t \in {"bound", "online"} => d \in bound' /\ online'[d] = o /\ code'[d] = code[d],
           t = "code" => d \in bound /\ d \in bound' /\ online'[d] = online[d] /\ code'[d] # 0,
           t \in {"revoked", "other"} =>
               (d \in bound' <=> d \in bound) /\ online'[d] = online[d] /\ code'[d] = code[d]
    PROVE  /\ LastWord' /\ CodesWhileBound'
           /\ \A row : \A rev \in 0 .. Len(log), x \in Devices : Shows(row, rev, x) => Shows(row, rev, x)'
           /\ \A row : \A rev \in 0 .. Len(log), x \in Devices : Image(row, rev, x) => Image(row, rev, x)'
           /\ \A rev \in 0 .. Len(log), x \in Devices : CodeComes(rev, x) \/ code'[x] # code[x] => CodeComes(rev, x)'
           /\ \A x \in Devices : code'[x] = 0 => code[x] = 0
  <1> DEFINE e == [type |-> t, dev |-> d, online |-> o]
  <1>1. e \in LogEntry /\ e.type = t /\ e.dev = d /\ e.online = o
    BY DEF LogEntry
  <1>2. PICK n \in Nat : n = Len(log)
    BY NumberFacts
  <1> HIDE DEF e
  <1>3. /\ Len(log') = n + 1 /\ log'[n + 1] = e /\ n + 1 \in 1 .. Len(log')
        /\ \A r \in 1 .. n : log'[r] = log[r]
        /\ \A rev \in 0 .. n : /\ n + 1 \in After(rev)'
                               /\ \A r \in After(rev) : r \in After(rev)' /\ r \in 1 .. n
                               /\ \A r \in After(rev)' : r \in After(rev) \/ r = n + 1
        /\ \A r \in 1 .. Len(log') : r \in 1 .. n \/ r = n + 1
    BY <1>1, <1>2, NewEntry DEF e
  <1>4. \A r \in 1 .. n, x \in Devices :
           /\ Presence(r, x)' <=> Presence(r, x)
           /\ Coded(r, x)' <=> Coded(r, x)
           /\ Cleared(r, x)' <=> Cleared(r, x)
    BY <1>3 DEF Presence, Coded, Cleared
  <1>5. \A x \in Devices :
           /\ Presence(n + 1, x)' <=> (x = d /\ t \in {"bound", "unbound", "online"})
           /\ Coded(n + 1, x)' <=> (x = d /\ t = "code")
           /\ Cleared(n + 1, x)' <=> (x = d /\ t = "unbound")
    BY <1>1, <1>3 DEF Presence, Coded, Cleared
  <1>6. \A x \in Devices : (~(x = d /\ t \in {"bound", "unbound", "online"})) =>
            (x \in bound' <=> x \in bound) /\ online'[x] = online[x]
    BY DEF EventTypes
  <1>7. \A x \in Devices : code'[x] # code[x] => x = d /\ t = "code"
    BY DEF EventTypes
  <1>8. LastWord'
    <2> SUFFICES ASSUME NEW x \in Devices, NEW p \in 1 .. Len(log'), Presence(p, x)',
                        \A q \in After(p)' : ~Presence(q, x)'
                 PROVE  IF log'[p].type = "unbound" THEN x \notin bound'
                        ELSE x \in bound' /\ online'[x] = log'[p].online
      BY DEF LastWord
    <2>1. CASE p = n + 1
      <3>1. x = d /\ t \in {"bound", "unbound", "online"} /\ log'[p] = e
        BY <1>3, <1>5, <2>1
      <3> QED BY <1>1, <3>1
    <2>2. CASE p \in 1 .. n
      <3>1. p \in 0 .. n
        BY <1>2, <2>2
      <3>2. ~Presence(n + 1, x)' /\ \A q \in After(p) : ~Presence(q, x)
        BY <1>3, <1>4, <3>1
      <3>3. (x \in bound' <=> x \in bound) /\ online'[x] = online[x]
        BY <1>5, <1>6, <3>2
      <3>4. Presence(p, x) /\ log'[p] = log[p]
        BY <1>3, <1>4, <2>2
      <3> QED BY <1>2, <2>2, <3>2, <3>3, <3>4 DEF LastWord
    <2> QED BY <1>3, <2>1, <2>2
  <1>9. CodesWhileBound'
    <2> SUFFICES ASSUME NEW x \in Devices, NEW p \in 1 .. Len(log'), NEW r \in 1 .. Len(log'), p < r,
                        Cleared(p, x)', Coded(r, x)'
                 PROVE  \E q \in p + 1 .. r - 1 : Presence(q, x)'
      BY DEF CodesWhileBound
    <2>1. p \in 1 .. n
      BY <1>2, <1>3
    <2>2. Cleared(p, x)
      BY <1>4, <2>1
    <2>3. CASE r \in 1 .. n
      <3>1. PICK q \in p + 1 .. r - 1 : Presence(q, x)
        BY <1>2, <1>4, <2>1, <2>2, <2>3 DEF CodesWhileBound
      <3>2. q \in 1 .. n
        BY <1>2, <2>1, <2>3
      <3> QED BY <1>4, <3>1, <3>2
    <2>4. CASE r = n + 1
      <3>1. x = d /\ t = "code" /\ x \in bound
        BY <1>5, <2>4
      <3>2. log[p].type = "unbound" /\ Presence(p, x)
        BY <2>2 DEF Cleared, Presence
      <3>3. PICK q \in After(p) : Presence(q, x)
        BY <2>1, <3>1, <3>2 DEF LastWord
      <3>4. q \in 1 .. n /\ q \in p + 1 .. r - 1
        BY <1>2, <2>1, <2>4 DEF After
      <3> QED BY <1>4, <3>3, <3>4
    <2> QED BY <1>3, <2>3, <2>4
  <1>10. ASSUME NEW row, NEW rev \in 0 .. n, NEW x \in Devices, Shows(row, rev, x)
         PROVE  Shows(row, rev, x)'
    <2>1. ASSUME \A r \in After(rev)' : ~Presence(r, x)'
          PROVE  (row.here <=> x \in bound') /\ (row.here => row.online = online'[x])
      <3>1. ~Presence(n + 1, x)' /\ \A q \in After(rev) : ~Presence(q, x)
        BY <1>3, <1>4, <2>1
      <3>2. (x \in bound' <=> x \in bound) /\ online'[x] = online[x]
        BY <1>5, <1>6, <3>1
      <3> QED BY <1>10, <3>1, <3>2 DEF Shows
    <2>2. ASSUME ~row.here, NEW r \in After(rev)', Coded(r, x)'
          PROVE  \E q \in After(rev)' : Presence(q, x)'
      <3>1. CASE r \in After(rev)
        <4>1. PICK q \in After(rev) : Presence(q, x)
          BY <1>3, <1>4, <1>10, <2>2, <3>1 DEF Shows
        <4> QED BY <1>3, <1>4, <4>1
      <3>2. CASE r = n + 1
        <4>1. x \in bound
          BY <1>5, <2>2, <3>2
        <4>2. PICK q \in After(rev) : Presence(q, x)
          BY <1>10, <2>2, <4>1 DEF Shows
        <4> QED BY <1>3, <1>4, <4>2
      <3> QED BY <1>3, <2>2, <3>1, <3>2
    <2> QED BY <2>1, <2>2 DEF Shows
  <1>11. ASSUME NEW rev \in 0 .. n, NEW x \in Devices, CodeComes(rev, x) \/ code'[x] # code[x]
         PROVE  CodeComes(rev, x)'
    <2>1. CASE CodeComes(rev, x)
      <3>1. PICK r \in After(rev) : Coded(r, x) \/ Cleared(r, x)
        BY <2>1 DEF CodeComes
      <3> QED BY <1>3, <1>4, <3>1 DEF CodeComes
    <2>2. CASE code'[x] # code[x]
      BY <1>3, <1>5, <1>7, <2>2 DEF CodeComes
    <2> QED BY <1>11, <2>1, <2>2
  <1>12. \A x \in Devices : code'[x] = 0 => code[x] = 0
    BY <1>7
  <1>13. ASSUME NEW row, NEW rev \in 0 .. n, NEW x \in Devices, Image(row, rev, x)
         PROVE  Image(row, rev, x)'
    <2>1. Shows(row, rev, x)'
      BY <1>10, <1>13 DEF Image
    <2>2. row.here /\ row.code # code'[x] => CodeComes(rev, x)'
      BY <1>11, <1>13 DEF Image
    <2> QED BY <1>12, <1>13, <2>1, <2>2 DEF Image
  <1> QED BY <1>8, <1>9, <1>10, <1>11, <1>12, <1>13, <1>2

\* An upload for a device that is not bound is announced to nobody.
LEMMA SilentStep ==
    ASSUME Typed, LastWord, UNCHANGED <<bound, online, log>>, Own \notin bound,
           NEW v \in Codes \ {0}, code' = [code EXCEPT ![Own] = v]
    PROVE  /\ LastWord' /\ (CodesWhileBound => CodesWhileBound')
           /\ \A row : \A rev \in 0 .. Len(log), x \in Devices : Shows(row, rev, x) => Shows(row, rev, x)'
           /\ \A row : \A rev \in 0 .. Len(log), x \in Devices : Image(row, rev, x) => Image(row, rev, x)'
           /\ \A rev \in 0 .. Len(log), x \in Devices : CodeComes(rev, x) => CodeComes(rev, x)'
           /\ \A x \in Devices : code'[x] = 0 => code[x] = 0
           /\ \A x \in Devices \ {Own} : code'[x] = code[x]
           /\ code' \in [Devices -> Codes] /\ code'[Own] = v
  <1>1. /\ code' \in [Devices -> Codes] /\ code'[Own] = v
        /\ \A x \in Devices \ {Own} : code'[x] = code[x]
    BY CloudAssumption DEF Typed, ServerTypes
  <1>2. \A r, x : /\ Presence(r, x)' <=> Presence(r, x)
                  /\ Coded(r, x)' <=> Coded(r, x)
                  /\ Cleared(r, x)' <=> Cleared(r, x)
    BY DEF Presence, Coded, Cleared
  <1>3. \A rev, x : CodeComes(rev, x)' <=> CodeComes(rev, x)
    BY <1>2 DEF CodeComes, After
  <1>4. \A row, rev, x : Shows(row, rev, x)' <=> Shows(row, rev, x)
    BY <1>2 DEF Shows, After
  <1>5. LastWord' /\ (CodesWhileBound => CodesWhileBound')
    BY <1>2 DEF LastWord, CodesWhileBound, After
  <1>6. ASSUME NEW row, NEW rev \in 0 .. Len(log), NEW x \in Devices, Image(row, rev, x)
        PROVE  Image(row, rev, x)'
    <2>1. Shows(row, rev, x)'
      BY <1>4, <1>6 DEF Image
    <2>2. row.here /\ row.code # code'[x] => CodeComes(rev, x)
      <3>1. CASE x # Own
        BY <1>1, <1>6, <3>1 DEF Image
      <3>2. CASE x = Own /\ row.here
        BY <1>6, <3>2, GoneByEvent DEF Image, CodeComes
      <3> QED BY <3>1, <3>2
    <2>3. code'[x] = 0 => row.code = 0
      BY <1>1, <1>6 DEF Image
    <2> QED BY <1>3, <2>1, <2>2, <2>3 DEF Image
  <1> QED BY <1>1, <1>3, <1>4, <1>5, <1>6

----------------------------------------------------------------------------
(***************************************************************************)
(* The frames on their way.                                                *)
(***************************************************************************)

LEMMA FrameFacts ==
    /\ \A t, rev, table : /\ Frame(t, rev, table).type = t /\ Frame(t, rev, table).rev = rev
                          /\ Frame(t, rev, table).rows = table
    /\ \A t \in {"event", "auth_ok", "done", "error"}, rev \in Revs : Frame(t, rev, NoRows) \in AnyFrame
    /\ \A rev \in Revs, table \in [Devices -> AnyRow] : Frame("snapshot", rev, table) \in AnyFrame
    /\ \A f \in AnyFrame : /\ f.type \in {"event", "auth_ok", "done", "error", "snapshot"} /\ f.rev \in Revs
                           /\ f.type = "snapshot" => f.rows \in [Devices -> AnyRow]
  BY DEF Frame, AnyFrame

\* The frames stay as they are while the server goes on.
LEMMA FramesKept ==
    ASSUME Typed, Frames, UNCHANGED <<wire, boot>>, Len(log) <= Len(log'), Len(log') \in Nat,
           \A row : \A rev \in 0 .. Len(log), x \in Devices : Image(row, rev, x) => Image(row, rev, x)'
    PROVE  Frames'
  <1>1. \A i \in 1 .. Len(wire) : wire[i].rev \in Nat
    BY NumberFacts, FrameFacts DEF Revs
  <1>2. Len(log) \in Nat
    BY NumberFacts
  <1>3. ASSUME NEW i \in 1 .. Len(wire)
        PROVE  /\ wire'[i].rev <= Len(log')
               /\ wire'[i].type = "event" => wire'[i].rev >= 2
               /\ wire'[i].type = "snapshot" =>
                     wire'[i].rev >= 1 /\ \A d \in Devices : Image(wire[i].rows[d], wire[i].rev, d)'
               /\ wire'[i].type = "error" => i = 1
               /\ boot' => wire'[i].type = "event"
    <2>1. wire[i].rev <= Len(log) /\ wire[i].rev \in 0 .. Len(log)
      BY <1>1, <1>2 DEF Frames
    <2>2. wire[i].type = "snapshot" => \A d \in Devices : Image(wire[i].rows[d], wire[i].rev, d)
      BY DEF Frames
    <2>3. wire[i].type = "snapshot" => \A d \in Devices : Image(wire[i].rows[d], wire[i].rev, d)'
      <3> SUFFICES ASSUME wire[i].type = "snapshot", NEW d \in Devices
                   PROVE  Image(wire[i].rows[d], wire[i].rev, d)'
        OBVIOUS
      <3>1. PICK row : row = wire[i].rows[d]
        OBVIOUS
      <3>2. PICK rev : rev = wire[i].rev
        OBVIOUS
      <3>3. wire'[i].rows[d] = row /\ wire'[i].rev = rev
        BY <3>1, <3>2
      <3>4. Image(row, rev, d)'
        BY <2>1, <2>2, <3>1, <3>2
      <3> QED BY <3>3, <3>4
    <2>4. wire[i].rev <= Len(log')
      BY <1>1, <1>2, <2>1
    <2> QED BY <2>3, <2>4 DEF Frames
  <1>4. Len(wire') = Len(wire)
    OBVIOUS
  <1>5. \A i, j \in 1 .. Len(wire) :
          /\ i < j /\ wire'[i].type = "event" /\ wire'[j].type = "event" => wire'[i].rev < wire'[j].rev
          /\ wire'[i].type = "event" /\ wire'[j].type = "snapshot" => j < i /\ wire'[j].rev < wire'[i].rev
          /\ wire'[i].type = "snapshot" /\ wire'[j].type = "snapshot" => i = j
          /\ i < j /\ wire'[i].type = "done" => wire'[j].type = "event"
    BY DEF Frames
  <1> QED BY <1>3, <1>4, <1>5 DEF Frames

\* The event goes to the socket, if it is open.
LEMMA WirePublish ==
    ASSUME Typed, Frames, Covered, UNCHANGED <<sock, boot, applied>>, Len(log) < MaxRev,
           Len(log') = Len(log) + 1,
           wire' = IF sock = "open" THEN Append(wire, Frame("event", Len(log) + 1, NoRows)) ELSE wire,
           \A row : \A rev \in 0 .. Len(log), x \in Devices : Image(row, rev, x) => Image(row, rev, x)'
    PROVE  wire' \in Seq(AnyFrame) /\ Frames' /\ Covered'
  <1>0. /\ Len(log) \in Nat /\ Len(log) >= 1 /\ MaxRev \in Nat /\ Len(wire) \in Nat /\ applied \in Nat
        /\ \A i \in 1 .. Len(wire) : wire[i].rev \in Nat /\ wire[i].rev <= Len(log)
        /\ wire \in Seq(AnyFrame)
    BY NumberFacts, FrameFacts DEF Revs, Frames, Typed, SocketTypes
  <1>1. CASE sock # "open"
    <2>1. UNCHANGED wire /\ Len(log) <= Len(log') /\ Len(log') \in Nat /\ Len(wire) = 0
      BY <1>0, <1>1 DEF Typed, SocketTypes
    <2>2. Frames'
      BY <2>1, FramesKept
    <2>3. Covered'
      BY <1>1, <2>1 DEF Covered
    <2> QED BY <1>0, <2>1, <2>2, <2>3
  <1>2. CASE sock = "open"
    <2> DEFINE f == Frame("event", Len(log) + 1, NoRows)
    <2>1. PICK n \in Nat : n = Len(wire)
      BY <1>0
    <2>2. PICK m \in Nat : m = Len(log) /\ m + 1 >= 2
      BY <1>0
    <2>3. /\ f \in AnyFrame /\ f.type = "event" /\ f.rev = m + 1
      BY <1>0, <2>2, FrameFacts DEF Revs
    <2>4. wire' = Append(wire, f)
      BY <1>2
    <2> HIDE DEF f
    <2>5. /\ wire' \in Seq(AnyFrame) /\ Len(wire') = n + 1 /\ wire'[n + 1] = f
          /\ \A i \in 1 .. n : wire'[i] = wire[i]
      BY <1>0, <2>1, <2>3, <2>4, AppendProperties
    <2>6. /\ \A i \in 1 .. n + 1 : i \in 1 .. n \/ i = n + 1
          /\ \A i \in 1 .. n : i \in 1 .. n + 1 /\ i < n + 1
          /\ n + 1 \in 1 .. n + 1
      OBVIOUS
    <2>7. ASSUME NEW i \in 1 .. n
          PROVE  /\ wire[i].rev <= m /\ wire[i].rev < m + 1 /\ wire[i].rev <= m + 1
                 /\ wire[i].type = "event" => wire[i].rev >= 2
                 /\ wire[i].type = "snapshot" => wire[i].rev >= 1
                 /\ wire[i].type = "error" => i = 1
                 /\ boot => wire[i].type = "event"
                 /\ wire[i].type = "snapshot" => \A d \in Devices : Image(wire[i].rows[d], wire[i].rev, d)
      <3>1. wire[i].rev \in Nat /\ wire[i].rev <= m
        BY <1>0, <2>1, <2>2
      <3>2. wire[i].rev < m + 1 /\ wire[i].rev <= m + 1
        BY <3>1
      <3> QED BY <2>1, <3>1, <3>2 DEF Frames
    <2>8. ASSUME NEW i \in 1 .. n, wire[i].type = "snapshot", NEW d \in Devices
          PROVE  Image(wire[i].rows[d], wire[i].rev, d)'
      <3>1. PICK row : row = wire[i].rows[d]
        OBVIOUS
      <3>2. PICK rev : rev = wire[i].rev
        OBVIOUS
      <3>3. wire'[i].rows[d] = row /\ wire'[i].rev = rev
        BY <2>5, <3>1, <3>2
      <3>4. rev \in 0 .. Len(log)
        BY <1>0, <2>1, <3>2
      <3>5. Image(row, rev, d)'
        BY <2>7, <2>8, <3>1, <3>2, <3>4
      <3> QED BY <3>3, <3>5
    <2>9. \A i \in 1 .. n + 1 :
             /\ wire'[i].rev <= m + 1
             /\ wire'[i].type = "event" => wire'[i].rev >= 2
             /\ wire'[i].type = "snapshot" => wire'[i].rev >= 1
             /\ wire'[i].type = "error" => i = 1
             /\ boot => wire'[i].type = "event"
      BY <2>2, <2>3, <2>5, <2>6, <2>7
    <2>10. \A i \in 1 .. n + 1 : wire'[i].type = "snapshot" =>
              \A d \in Devices : Image(wire[i].rows[d], wire[i].rev, d)'
      BY <2>3, <2>5, <2>6, <2>8
    <2>11. \A i, j \in 1 .. n + 1 :
              /\ i < j /\ wire'[i].type = "event" /\ wire'[j].type = "event" => wire'[i].rev < wire'[j].rev
              /\ wire'[i].type = "event" /\ wire'[j].type = "snapshot" => j < i /\ wire'[j].rev < wire'[i].rev
              /\ wire'[i].type = "snapshot" /\ wire'[j].type = "snapshot" => i = j
              /\ i < j /\ wire'[i].type = "done" => wire'[j].type = "event"
      <3> SUFFICES ASSUME NEW i \in 1 .. n + 1, NEW j \in 1 .. n + 1
                   PROVE  /\ i < j /\ wire'[i].type = "event" /\ wire'[j].type = "event" => wire'[i].rev < wire'[j].rev
                          /\ wire'[i].type = "event" /\ wire'[j].type = "snapshot" => j < i /\ wire'[j].rev < wire'[i].rev
                          /\ wire'[i].type = "snapshot" /\ wire'[j].type = "snapshot" => i = j
                          /\ i < j /\ wire'[i].type = "done" => wire'[j].type = "event"
        OBVIOUS
      <3>1. CASE i \in 1 .. n /\ j \in 1 .. n
        BY <2>1, <2>5, <3>1 DEF Frames
      <3>2. CASE i = n + 1 /\ j \in 1 .. n
        BY <2>3, <2>5, <2>6, <2>7, <3>2
      <3>3. CASE i \in 1 .. n /\ j = n + 1
        BY <2>3, <2>5, <2>6, <2>7, <3>3
      <3>4. CASE i = n + 1 /\ j = n + 1
        BY <2>3, <2>5, <3>4
      <3> QED BY <2>6, <3>1, <3>2, <3>3, <3>4
    <2>12. Len(log') = m + 1 /\ Len(wire') = n + 1 /\ boot' = boot
      BY <2>2, <2>5
    <2>13. Frames'
      BY <2>9, <2>10, <2>11, <2>12 DEF Frames
    <2>14. ASSUME \A i \in 1 .. n + 1 : wire'[i].type # "error", NEW r \in applied + 1 .. m + 1
           PROVE  \E i \in 1 .. n + 1 : Covers(wire'[i], r)
      <3>1. CASE r = m + 1
        BY <2>3, <2>5, <2>6, <3>1 DEF Covers
      <3>2. CASE r # m + 1
        <4>1. r \in After(applied)
          BY <1>0, <2>2, <3>2 DEF After
        <4>2. \A i \in 1 .. n : wire[i].type # "error"
          BY <2>5, <2>6, <2>14
        <4>3. PICK i \in 1 .. n : Covers(wire[i], r)
          BY <1>2, <2>1, <4>1, <4>2 DEF Covered
        <4> QED BY <2>5, <2>6, <4>3
      <3> QED BY <3>1, <3>2
    <2>15. ASSUME NEW i \in 1 .. n + 1, wire'[i].type = "done", NEW r \in applied + 1 .. wire'[i].rev
           PROVE  \E j \in 1 .. i - 1 : Covers(wire'[j], r)
      <3>1. i \in 1 .. n /\ wire'[i] = wire[i]
        BY <2>3, <2>5, <2>6, <2>15
      <3>2. PICK j \in 1 .. i - 1 : Covers(wire[j], r)
        BY <2>1, <2>15, <3>1 DEF Covered
      <3>3. j \in 1 .. n
        BY <3>1
      <3> QED BY <2>5, <3>2, <3>3
    <2>16. Covered'
      BY <2>12, <2>14, <2>15 DEF Covered, After
    <2> QED BY <2>5, <2>13, <2>16
  <1> QED BY <1>1, <1>2

\* The socket is gone, or another one is on its way.
LEMMA WireCleared ==
    ASSUME wire' = <<>>, ~boot', sock' # "open"
    PROVE  wire' \in Seq(AnyFrame) /\ Frames' /\ Covered' /\ (sock' # "open" => wire' = <<>> /\ ~boot')
  <1>1. Len(wire') = 0 /\ wire' \in Seq(AnyFrame)
    BY EmptySeq
  <1> QED BY <1>1 DEF Frames, Covered

LEMMA LaterOnes ==
    ASSUME NEW a \in Nat, NEW b \in Nat, NEW n \in Nat, a <= b
    PROVE  \A r \in b + 1 .. n : r \in a + 1 .. n
  OBVIOUS

\* A frame is taken from the wire; what it covers is applied.
LEMMA WireTail ==
    ASSUME Typed, Frames, Covered, sock = "open", wire # <<>>, wire' = Tail(wire),
           UNCHANGED <<bound, online, code, log, sock>>,
           wire[1].type # "error", applied' \in Nat, applied <= applied',
           \A r \in applied' + 1 .. Len(log) : ~Covers(wire[1], r),
           boot' => boot \/ wire[1].type = "done"
    PROVE  wire' \in Seq(AnyFrame) /\ Frames' /\ Covered'
  <1>1. PICK n \in Nat : n = Len(wire)
    BY NumberFacts
  <1>2. /\ n >= 1 /\ wire' \in Seq(AnyFrame) /\ Len(wire') = n - 1
        /\ \A i \in 1 .. n - 1 : wire'[i] = wire[i + 1]
    <2>1. wire \in Seq(AnyFrame)
      BY DEF Typed, SocketTypes
    <2>2. n # 0
      BY <1>1, <2>1, EmptySeq
    <2> QED BY <1>1, <2>1, <2>2, HeadTailProperties
  <1>3. /\ \A i \in 1 .. n - 1 : i + 1 \in 1 .. n /\ 1 < i + 1 /\ i + 1 # 1
        /\ \A i \in 1 .. n : i = 1 \/ (i - 1 \in 1 .. n - 1 /\ (i - 1) + 1 = i)
        /\ 1 \in 1 .. n
    BY <1>2
  <1>4. \A i \in 1 .. n : wire[i].type # "error"
    BY <1>1 DEF Frames
  <1>5. /\ Len(log) \in Nat /\ applied \in Nat /\ \A i \in 1 .. n : wire[i].rev \in Nat /\ wire[i].rev <= Len(log)
    BY <1>1, NumberFacts, FrameFacts DEF Revs, Frames
  <1>6. Frames'
    <2>1. ASSUME NEW i \in 1 .. n - 1
          PROVE  /\ wire'[i].rev <= Len(log)
                 /\ wire'[i].type = "event" => wire'[i].rev >= 2
                 /\ wire'[i].type = "snapshot" => wire'[i].rev >= 1
                 /\ wire'[i].type # "error"
                 /\ boot' => wire'[i].type = "event"
                 /\ wire'[i].type = "snapshot" => \A d \in Devices : Image(wire'[i].rows[d], wire'[i].rev, d)
      <3>1. wire'[i] = wire[i + 1] /\ i + 1 \in 1 .. n /\ 1 < i + 1
        BY <1>2, <1>3
      <3>2. boot' => wire[i + 1].type = "event"
        BY <1>1, <1>3, <3>1 DEF Frames
      <3> QED BY <1>1, <1>4, <3>1, <3>2 DEF Frames
    <2>2. ASSUME NEW i \in 1 .. n - 1, wire'[i].type = "snapshot", NEW d \in Devices
          PROVE  Image(wire[i].rows[d], wire[i].rev, d)'
      <3>1. PICK row : row = wire'[i].rows[d]
        OBVIOUS
      <3>2. PICK rev : rev = wire'[i].rev
        OBVIOUS
      <3>3. Image(row, rev, d)
        BY <2>1, <2>2, <3>1, <3>2
      <3>4. Image(row, rev, d)'
        BY <3>3, SameServer
      <3> QED BY <3>1, <3>2, <3>4
    <2>3. \A i, j \in 1 .. n - 1 :
             /\ i < j /\ wire'[i].type = "event" /\ wire'[j].type = "event" => wire'[i].rev < wire'[j].rev
             /\ wire'[i].type = "event" /\ wire'[j].type = "snapshot" => j < i /\ wire'[j].rev < wire'[i].rev
             /\ wire'[i].type = "snapshot" /\ wire'[j].type = "snapshot" => i = j
             /\ i < j /\ wire'[i].type = "done" => wire'[j].type = "event"
      <3> SUFFICES ASSUME NEW i \in 1 .. n - 1, NEW j \in 1 .. n - 1
                   PROVE  /\ i < j /\ wire'[i].type = "event" /\ wire'[j].type = "event" => wire'[i].rev < wire'[j].rev
                          /\ wire'[i].type = "event" /\ wire'[j].type = "snapshot" => j < i /\ wire'[j].rev < wire'[i].rev
                          /\ wire'[i].type = "snapshot" /\ wire'[j].type = "snapshot" => i = j
                          /\ i < j /\ wire'[i].type = "done" => wire'[j].type = "event"
        OBVIOUS
      <3>1. /\ wire'[i] = wire[i + 1] /\ wire'[j] = wire[j + 1] /\ i + 1 \in 1 .. n /\ j + 1 \in 1 .. n
            /\ (i < j) <=> (i + 1 < j + 1)
            /\ (j < i) <=> (j + 1 < i + 1)
            /\ (i = j) <=> (i + 1 = j + 1)
        BY <1>2, <1>3
      <3>2. PICK a \in 1 .. n, b \in 1 .. n : a = i + 1 /\ b = j + 1
        BY <3>1
      <3>3. /\ a < b /\ wire[a].type = "event" /\ wire[b].type = "event" => wire[a].rev < wire[b].rev
            /\ wire[a].type = "event" /\ wire[b].type = "snapshot" => b < a /\ wire[b].rev < wire[a].rev
            /\ wire[a].type = "snapshot" /\ wire[b].type = "snapshot" => a = b
            /\ a < b /\ wire[a].type = "done" => wire[b].type = "event"
        BY <1>1 DEF Frames
      <3> QED BY <3>1, <3>2, <3>3
    <2> QED BY <1>2, <2>1, <2>2, <2>3 DEF Frames
  <1>7. ASSUME NEW r \in applied' + 1 .. Len(log)
        PROVE  \E i \in 1 .. n - 1 : Covers(wire'[i], r)
    <2>1. PICK a \in Nat : a = applied' /\ applied <= a
      OBVIOUS
    <2>5. r \in a + 1 .. Len(log)
      BY <1>7, <2>1
    <2>6. r \in applied + 1 .. Len(log)
      BY <1>5, <2>1, <2>5, LaterOnes
    <2>2. PICK i \in 1 .. n : Covers(wire[i], r)
      BY <1>1, <1>4, <2>6 DEF Covered, After
    <2>3. i # 1
      BY <1>7, <2>2
    <2>4. i - 1 \in 1 .. n - 1 /\ wire'[i - 1] = wire[i]
      BY <1>2, <1>3, <2>3
    <2> QED BY <2>2, <2>4
  <1>8. ASSUME NEW i \in 1 .. n - 1, wire'[i].type = "done", NEW r \in applied' + 1 .. wire'[i].rev
        PROVE  \E j \in 1 .. i - 1 : Covers(wire'[j], r)
    <2>1. wire'[i] = wire[i + 1] /\ i + 1 \in 1 .. n
      BY <1>2, <1>3
    <2>2. PICK k \in Nat : k = wire[i + 1].rev /\ k <= Len(log)
      BY <1>5, <2>1
    <2>9. r \in applied' + 1 .. k
      BY <1>8, <2>1, <2>2
    <2>11. PICK a \in Nat : a = applied' /\ applied <= a
      OBVIOUS
    <2>12. r \in a + 1 .. k
      BY <2>9, <2>11
    <2>13. r \in applied + 1 .. k
      BY <1>5, <2>2, <2>11, <2>12, LaterOnes
    <2>10. r \in applied + 1 .. k /\ r \in a + 1 .. Len(log)
      BY <1>5, <2>2, <2>12, <2>13
    <2>3. PICK j \in 1 .. (i + 1) - 1 : Covers(wire[j], r)
      BY <1>1, <1>8, <2>1, <2>2, <2>10 DEF Covered
    <2>4. j # 1
      BY <2>10, <2>11, <2>3
    <2>5. j - 1 \in 1 .. i - 1 /\ j \in 1 .. n
      BY <2>3, <2>4
    <2>6. wire'[j - 1] = wire[j]
      BY <1>2, <1>3, <2>4, <2>5
    <2> QED BY <2>3, <2>5, <2>6
  <1>9. Covered'
    <2>1. After(applied)' = applied' + 1 .. Len(log)
      BY DEF After
    <2>2. /\ sock' = "open" /\ (\A i \in 1 .. Len(wire') : wire'[i].type # "error") =>
                \A r \in After(applied)' : \E i \in 1 .. Len(wire') : Covers(wire'[i], r)
      BY <1>2, <1>7, <2>1
    <2>3. \A i \in 1 .. Len(wire') : wire'[i].type = "done" =>
              \A r \in applied' + 1 .. wire'[i].rev : \E j \in 1 .. i - 1 : Covers(wire'[j], r)
      BY <1>2, <1>8
    <2> QED BY <2>2, <2>3 DEF Covered
  <1> QED BY <1>2, <1>6, <1>9

\* The row of a device as the server has it now.
LEMMA ServerImage ==
    ASSUME Typed, NEW d \in Devices
    PROVE  ServerRows[d] \in AnyRow /\ Image(ServerRows[d], Len(log), d)
  <1>1. After(Len(log)) = {}
    BY NumberFacts DEF After
  <1>2. PICK row : row = ServerRows[d]
    OBVIOUS
  <1>3. /\ row = IF d \in bound THEN Row(online[d], code[d]) ELSE None
        /\ online[d] \in BOOLEAN /\ code[d] \in Codes
    BY <1>2 DEF ServerRows, Typed, ServerTypes
  <1>4. /\ row \in AnyRow
        /\ row.here <=> (d \in bound)
        /\ row.here => row.online = online[d] /\ row.code = code[d]
        /\ ~row.here => row.code = 0
    BY <1>3, RowFacts
  <1>5. Shows(row, Len(log), d)
    BY <1>1, <1>4 DEF Shows
  <1>6. Image(row, Len(log), d)
    BY <1>4, <1>5 DEF Image
  <1> QED BY <1>2, <1>4, <1>6

\* What the server answers to an accepted auth frame covers all the client lacks.
LEMMA WireOpened ==
    ASSUME Typed, sock # "open", UNCHANGED <<bound, online, code, log, boot, applied>>,
           NEW mid \in Seq(AnyFrame),
           wire' = <<Frame("auth_ok", Len(log), NoRows)>> \o mid \o <<Frame("done", Len(log), NoRows)>>,
           \A i \in 1 .. Len(mid) :
               /\ mid[i].type = "event" \/ (mid[i].type = "snapshot" /\ Len(mid) = 1)
               /\ mid[i].rev >= 1 /\ mid[i].rev <= Len(log)
               /\ mid[i].type = "event" => mid[i].rev >= 2
               /\ mid[i].type = "snapshot" => \A d \in Devices : Image(mid[i].rows[d], mid[i].rev, d)
               /\ \A j \in 1 .. Len(mid) : i < j => mid[i].rev < mid[j].rev,
           \A r \in After(applied) : \E i \in 1 .. Len(mid) : Covers(mid[i], r)
    PROVE  wire' \in Seq(AnyFrame) /\ Frames' /\ Covered'
  <1> DEFINE a == Frame("auth_ok", Len(log), NoRows)
             z == Frame("done", Len(log), NoRows)
  <1>1. PICK k \in Nat : k = Len(mid)
    BY LenProperties
  <1>2. PICK n \in Nat : n = Len(log) /\ n \in Revs
    BY NumberFacts DEF Revs
  <1>3. /\ a \in AnyFrame /\ a.type = "auth_ok" /\ a.rev = n
        /\ z \in AnyFrame /\ z.type = "done" /\ z.rev = n
    BY <1>2, FrameFacts
  <1>4. wire' = (<<a>> \o mid) \o <<z>>
    OBVIOUS
  <1> HIDE DEF a, z
  <1>5. /\ wire' \in Seq(AnyFrame) /\ Len(wire') = k + 2
        /\ wire'[1] = a /\ wire'[k + 2] = z
        /\ \A i \in 1 .. k : wire'[i + 1] = mid[i]
    <2>1. <<a>> \in Seq(AnyFrame) /\ Len(<<a>>) = 1 /\ <<a>>[1] = a
      BY <1>3
    <2>2. <<z>> \in Seq(AnyFrame) /\ Len(<<z>>) = 1 /\ <<z>>[1] = z
      BY <1>3
    <2>3. PICK w : w = <<a>> \o mid
      OBVIOUS
    <2>4. /\ w \in Seq(AnyFrame) /\ Len(w) = k + 1
          /\ \A i \in 1 .. Len(w) : w[i] = IF i <= 1 THEN <<a>>[i] ELSE mid[i - 1]
      BY <1>1, <2>1, <2>3, ConcatProperties
    <2>5. w[1] = a /\ \A i \in 1 .. k : w[i + 1] = mid[i]
      BY <2>1, <2>4
    <2>6. wire' = w \o <<z>>
      BY <1>4, <2>3
    <2>7. /\ wire' \in Seq(AnyFrame) /\ Len(wire') = (k + 1) + 1
          /\ \A i \in 1 .. Len(wire') : wire'[i] = IF i <= k + 1 THEN w[i] ELSE <<z>>[i - (k + 1)]
      BY <2>2, <2>4, <2>6, ConcatProperties
    <2> HIDE DEF a, z
    <2>8. wire'[1] = w[1] /\ \A i \in 1 .. k : wire'[i + 1] = w[i + 1]
      <3>1. ASSUME NEW i \in 1 .. k + 1
            PROVE  wire'[i] = w[i]
        <4>1. i \in 1 .. Len(wire') /\ i <= k + 1
          BY <2>7
        <4> QED BY <2>7, <4>1
      <3>2. 1 \in 1 .. k + 1 /\ \A i \in 1 .. k : i + 1 \in 1 .. k + 1
        OBVIOUS
      <3> QED BY <3>1, <3>2
    <2>9. wire'[k + 2] = <<z>>[1]
      <3>1. k + 2 \in 1 .. Len(wire') /\ ~(k + 2 <= k + 1) /\ (k + 2) - (k + 1) = 1
        BY <2>7
      <3> QED BY <2>7, <3>1
    <2> QED BY <2>2, <2>5, <2>7, <2>8, <2>9
  <1>6. /\ \A i \in 1 .. k + 2 : i = 1 \/ i = k + 2 \/ \E j \in 1 .. k : i = j + 1
        /\ \A i \in 1 .. k : i + 1 \in 1 .. k + 2 /\ i + 1 # 1 /\ i + 1 # k + 2
        /\ 1 # k + 2 /\ 1 \in 1 .. k + 2 /\ k + 2 \in 1 .. k + 2
    OBVIOUS
  <1>7. ~boot'
    BY DEF Typed, SocketTypes
  <1>8. ASSUME NEW i \in 1 .. k
        PROVE  /\ wire'[i + 1] = mid[i]
               /\ mid[i].type = "event" \/ (mid[i].type = "snapshot" /\ k = 1)
               /\ mid[i].rev >= 1 /\ mid[i].rev <= n /\ mid[i].rev \in Nat
               /\ mid[i].type = "event" => mid[i].rev >= 2
               /\ mid[i].type = "snapshot" => \A d \in Devices : Image(mid[i].rows[d], mid[i].rev, d)
               /\ \A j \in 1 .. k : i < j => mid[i].rev < mid[j].rev
    BY <1>1, <1>2, <1>5, ElementOfSeq, FrameFacts DEF Revs
  <1>9. \A i \in 1 .. k + 2 :
           /\ wire'[i].rev <= n
           /\ wire'[i].type = "event" => wire'[i].rev >= 2
           /\ wire'[i].type = "snapshot" => wire'[i].rev >= 1
           /\ wire'[i].type # "error"
    <2>1. ASSUME NEW f, f = a \/ f = z \/ \E i \in 1 .. k : f = mid[i]
          PROVE  /\ f.rev <= n /\ f.type # "error"
                 /\ f.type = "event" => f.rev >= 2
                 /\ f.type = "snapshot" => f.rev >= 1
      BY <1>3, <1>8, <2>1
    <2>2. \A i \in 1 .. k + 2 : wire'[i] = a \/ wire'[i] = z \/ \E j \in 1 .. k : wire'[i] = mid[j]
      BY <1>5, <1>6
    <2> QED BY <2>1, <2>2
  <1>10. ASSUME NEW i \in 1 .. k + 2, wire'[i].type = "snapshot", NEW d \in Devices
         PROVE  Image(wire[i].rows[d], wire[i].rev, d)'
    <2>1. PICK j \in 1 .. k : i = j + 1
      BY <1>3, <1>5, <1>6, <1>10
    <2>2. wire'[i] = mid[j] /\ Image(mid[j].rows[d], mid[j].rev, d)
      BY <1>8, <1>10, <2>1
    <2>3. PICK row : row = mid[j].rows[d]
      OBVIOUS
    <2>4. PICK rev : rev = mid[j].rev
      OBVIOUS
    <2>5. Image(row, rev, d)'
      BY <2>2, <2>3, <2>4, SameServer
    <2> QED BY <2>2, <2>3, <2>4, <2>5
  <1>11. ASSUME NEW i \in 1 .. k + 2, NEW j \in 1 .. k + 2
         PROVE  /\ i < j /\ wire'[i].type = "event" /\ wire'[j].type = "event" => wire'[i].rev < wire'[j].rev
                /\ wire'[i].type = "event" /\ wire'[j].type = "snapshot" => j < i /\ wire'[j].rev < wire'[i].rev
                /\ wire'[i].type = "snapshot" /\ wire'[j].type = "snapshot" => i = j
                /\ i < j /\ wire'[i].type = "done" => wire'[j].type = "event"
    <2>1. CASE \E x, y \in 1 .. k : i = x + 1 /\ j = y + 1
      <3>1. PICK x \in 1 .. k, y \in 1 .. k : i = x + 1 /\ j = y + 1
        BY <2>1
      <3>2. wire'[i] = mid[x] /\ wire'[j] = mid[y]
        BY <1>8, <3>1
      <3>3. (i < j) <=> (x < y)
        BY <3>1
      <3>4. mid[x].type = "event" /\ mid[y].type = "event" /\ x < y => mid[x].rev < mid[y].rev
        BY <1>8
      <3>5. mid[y].type = "snapshot" => k = 1 /\ y = 1 /\ x = 1
        BY <1>8
      <3>6. mid[x].type # "done"
        BY <1>8
      <3> QED BY <3>1, <3>2, <3>3, <3>4, <3>5, <3>6
    <2>2. CASE i = 1 \/ j = 1
      <3>1. j = 1 => ~(i < j)
        OBVIOUS
      <3> QED BY <1>3, <1>5, <2>2, <3>1
    <2>3. CASE i = k + 2 \/ j = k + 2
      <3>1. i = k + 2 => ~(i < j)
        OBVIOUS
      <3>2. j = k + 2 => wire'[j].type = "done"
        BY <1>3, <1>5
      <3>3. i = k + 2 => wire'[i].type = "done"
        BY <1>3, <1>5
      <3>4. j = k + 2 /\ i < j => wire'[i].type # "done"
        <4>1. ASSUME NEW x \in 1 .. k, i = x + 1
              PROVE  wire'[i].type # "done"
          BY <1>8, <4>1
        <4> QED BY <1>3, <1>5, <1>6, <4>1, <3>1
      <3> QED BY <2>3, <3>1, <3>2, <3>3, <3>4
    <2> QED BY <1>6, <2>1, <2>2, <2>3
  <1>12. Len(wire') = k + 2 /\ Len(log') = n
    BY <1>2, <1>5
  <1>13. Frames'
    BY <1>7, <1>9, <1>10, <1>11, <1>12 DEF Frames
  <1>14. ASSUME NEW r \in applied + 1 .. n
         PROVE  \E x \in 1 .. k : Covers(wire'[x + 1], r)
    BY <1>1, <1>2, <1>8 DEF After
  <1>15. ASSUME NEW i \in 1 .. k + 2, wire'[i].type = "done", NEW r \in applied + 1 .. wire'[i].rev
         PROVE  \E j \in 1 .. i - 1 : Covers(wire'[j], r)
    <2>1. i = k + 2
      <3>1. ASSUME NEW x \in 1 .. k, i = x + 1
            PROVE  FALSE
        BY <1>8, <1>15, <3>1
      <3> QED BY <1>3, <1>5, <1>6, <1>15, <3>1
    <2>2. r \in applied + 1 .. n
      BY <1>3, <1>5, <1>15, <2>1
    <2>3. PICK x \in 1 .. k : Covers(wire'[x + 1], r)
      BY <1>14, <2>2
    <2>4. x + 1 \in 1 .. i - 1
      BY <2>1
    <2> QED BY <2>3, <2>4
  <1>16. \A r \in applied + 1 .. n : \E i \in 1 .. k + 2 : Covers(wire'[i], r)
    BY <1>6, <1>14
  <1>17. Covered'
    BY <1>12, <1>15, <1>16 DEF Covered, After
  <1> QED BY <1>5, <1>13, <1>17

----------------------------------------------------------------------------
(***************************************************************************)
(* What is kept while the server goes on.                                  *)
(***************************************************************************)

\* The log grows, and no row that showed a device as of a revision stops doing so.
GoesOn ==
    /\ LastWord' /\ CodesWhileBound'
    /\ Len(log') \in Nat /\ Len(log) <= Len(log')
    /\ \A r \in 1 .. Len(log) : log'[r] = log[r]
    /\ \A row : \A rev \in 0 .. Len(log), x \in Devices : Shows(row, rev, x) => Shows(row, rev, x)'
    /\ \A row : \A rev \in 0 .. Len(log), x \in Devices : Image(row, rev, x) => Image(row, rev, x)'
    /\ \A rev \in 0 .. Len(log), x \in Devices : CodeComes(rev, x) => CodeComes(rev, x)'
    /\ \A x \in Devices : code'[x] = 0 => code[x] = 0

LEMMA SameGoesOn ==
    ASSUME Typed, LastWord, CodesWhileBound, UNCHANGED <<bound, online, code, log>>
    PROVE  GoesOn
  BY SameServer, NumberFacts DEF GoesOn

LEMMA AnswersKept ==
    ASSUME Typed, Answers, GoesOn,
           \A i \in Slots : calls'[i] = calls[i] \/ \E c \in AnyCall : calls'[i] = c /\ AnswerSound(c)'
    PROVE  Answers'
  <1>1. ASSUME NEW c \in AnyCall, AnswerSound(c)
        PROVE  AnswerSound(c)'
    <2>1. PICK n \in Nat, m \in Nat : n = Len(log) /\ m = Len(log') /\ n <= m
      BY NumberFacts DEF GoesOn
    <2>2. c.rev \in 1 .. n => c.rev \in 1 .. m /\ c.rev \in 0 .. n
      BY <2>1
    <2>3. c.dev \in Devices
      BY DEF AnyCall
    <2>4. c.type = "refresh" /\ c.stage = "ok" =>
             c.val.here /\ c.rev \in 1 .. Len(log') /\ Image(c.val, c.rev, c.dev)'
      BY <1>1, <2>1, <2>2, <2>3 DEF AnswerSound, GoesOn
    <2>5. c.type = "unbind" /\ c.stage = "ok" => c.rev \in 1 .. Len(log') /\ Cleared(c.rev, c.dev)'
      BY <1>1, <2>1, <2>2 DEF AnswerSound, GoesOn, Cleared
    <2> QED BY <2>4, <2>5 DEF AnswerSound
  <1>2. ASSUME NEW i \in Slots
        PROVE  AnswerSound(calls[i])'
    <2>1. CASE calls'[i] = calls[i]
      <3>1. PICK c \in AnyCall : c = calls[i]
        BY DEF Typed, CallsTypes
      <3>2. AnswerSound(c)'
        BY <1>1, <3>1 DEF Answers
      <3> QED BY <2>1, <3>1, <3>2
    <2>2. CASE \E c \in AnyCall : calls'[i] = c /\ AnswerSound(c)'
      BY <2>2
    <2> QED BY <2>1, <2>2
  <1> QED BY <1>2 DEF Answers

\* The list stays as it is while the server and the calls go on.
LEMMA ListKept ==
    ASSUME Typed, ListSound, GoesOn, UNCHANGED <<applied, rows, devRev, touched>>, crossed => crossed',
           \A d \in Devices \ touched :
               applied > 0 /\ rows[d].here /\ Shows(rows[d], applied, d) /\ code'[d] # code[d] =>
                   CodeComes(applied, d)',
           \A d \in Devices \ touched : \A i \in Slots :
               /\ applied > 0 /\ rows[d].here /\ Shows(rows[d], applied, d)
               /\ code[d] # 0 /\ code'[d] = code[d] /\ Fixes(calls[i], d)
               => CodeComes(applied, d)' \/ \E j \in Slots : \E c : calls'[j] = c /\ Fixes(c, d)'
    PROVE  ListSound'
  <1>1. PICK n \in Nat, m \in Nat, a \in Nat : n = Len(log) /\ m = Len(log') /\ n <= m /\ a = applied /\ a \in 0 .. n
    BY NumberFacts DEF GoesOn
  <1>2. \A d \in Devices : code'[d] = 0 => rows'[d].code = 0
    BY DEF ListSound, GoesOn
  <1>3. ASSUME NEW d \in Devices \ touched, NEW r \in a + 1 .. m, Presence(r, d)' \/ Coded(r, d)'
        PROVE  r > devRev[d]
    <2>1. CASE r \in 1 .. n
      <3>1. r \in After(applied)
        BY <1>1, <2>1 DEF After
      <3>2. Presence(r, d) \/ Coded(r, d)
        BY <1>1, <1>3, <2>1 DEF GoesOn, Presence, Coded
      <3> QED BY <3>1, <3>2 DEF ListSound
    <2>2. CASE r \notin 1 .. n
      <3>1. r > n
        BY <1>1, <2>2
      <3>2. devRev[d] \in Nat /\ devRev[d] <= n
        BY <1>1, NumberFacts
      <3> QED BY <3>1, <3>2
    <2> QED BY <2>1, <2>2
  <1>4. ASSUME applied > 0, NEW d \in Devices \ touched
        PROVE  /\ Shows(rows[d], applied, d)'
               /\ (d # Own \/ ~crossed') /\ rows'[d].here /\ rows'[d].code \notin {0, code'[d]} =>
                     CodeComes(applied, d)' \/ \E i \in Slots : Fixes(calls[i], d)'
    <2>1. PICK row : row = rows[d]
      OBVIOUS
    <2>2. Shows(row, a, d)
      BY <1>1, <1>4, <2>1 DEF ListSound
    <2>3. Shows(row, a, d)'
      BY <1>1, <2>2 DEF GoesOn
    <2>4. Shows(rows[d], applied, d)'
      BY <1>1, <2>1, <2>3
    <2>5. ASSUME d # Own \/ ~crossed', rows'[d].here, rows'[d].code \notin {0, code'[d]}
          PROVE  CodeComes(a, d)' \/ \E i \in Slots : Fixes(calls[i], d)'
      <3>1. CASE code'[d] # code[d]
        BY <1>1, <1>4, <2>1, <2>2, <2>5, <3>1
      <3>2. CASE code'[d] = code[d]
        <4>1. code[d] # 0
          BY <2>5, <3>2 DEF ListSound
        <4>2. CodeComes(a, d) \/ \E i \in Slots : Fixes(calls[i], d)
          BY <1>1, <1>4, <2>5, <3>2 DEF ListSound
        <4>3. CASE CodeComes(a, d)
          BY <1>1, <4>3 DEF GoesOn
        <4>4. CASE \E i \in Slots : Fixes(calls[i], d)
          <5>1. CodeComes(applied, d)' \/ \E j \in Slots : \E c : calls'[j] = c /\ Fixes(c, d)'
            BY <1>1, <1>4, <2>1, <2>2, <2>5, <3>2, <4>1, <4>4
          <5>2. CodeComes(applied, d)' => CodeComes(a, d)'
            BY <1>1
          <5> QED BY <5>1, <5>2
        <4> QED BY <4>2, <4>3, <4>4
      <3> QED BY <3>1, <3>2
    <2>6. CodeComes(a, d)' => CodeComes(applied, d)'
      BY <1>1
    <2> QED BY <2>4, <2>5, <2>6
  <1>5. After(applied)' = a + 1 .. m
    BY <1>1 DEF After
  <1>6. touched' = touched /\ devRev' = devRev /\ applied' = applied
    OBVIOUS
  <1> QED BY <1>2, <1>3, <1>4, <1>5, <1>6 DEF ListSound

LEMMA UploadsKept ==
    ASSUME Typed, Uploads, UNCHANGED upload, code'[Own] = code[Own],
           \A i \in Slots : \/ calls'[i] = calls[i]
                            \/ calls[i].type # "upload" /\ calls'[i].type # "upload"
                            \/ /\ calls'[i].type = calls[i].type /\ calls'[i].dev = calls[i].dev
                               /\ calls'[i].val = calls[i].val /\ calls'[i].stage = "failed"
    PROVE  Uploads'
  <1>0. UNCHANGED <<hostCode, secret, synced, crossed, overlap, failed>>
    BY DEF upload
  <1>1. ASSUME NEW i \in Slots
        PROVE  UploadSound(calls[i])'
    <2>1. UploadSound(calls[i])
      BY DEF Uploads
    <2>2. CASE calls'[i] = calls[i]
      BY <1>0, <2>1, <2>2 DEF UploadSound
    <2>3. CASE calls'[i].type # "upload"
      BY <2>3 DEF UploadSound
    <2>4. CASE /\ calls'[i].type = calls[i].type /\ calls'[i].dev = calls[i].dev
               /\ calls'[i].val = calls[i].val /\ calls'[i].stage = "failed"
      BY <1>0, <2>1, <2>4 DEF UploadSound
    <2> QED BY <2>2, <2>3, <2>4
  <1>2. \A i \in Slots : calls[i].type = "upload" => calls'[i].type = "upload"
    OBVIOUS
  <1> QED BY <1>0, <1>1, <1>2 DEF Uploads

\* The change that an event about d tells of.
Told(t, d, o) ==
    /\ \A x \in Devices \ {d} : (x \in bound' <=> x \in bound) /\ online'[x] = online[x] /\ code'[x] = code[x]
    /\ t = "unbound" => d \notin bound' /\ code'[d] = code[d]
    /\ t \in {"bound", "online"} => d \in bound' /\ online'[d] = o /\ code'[d] = code[d]
    /\ t = "code" => d \in bound /\ d \in bound' /\ online'[d] = online[d] /\ code'[d] # 0
    /\ t \in {"revoked", "other"} =>
          (d \in bound' <=> d \in bound) /\ online'[d] = online[d] /\ code'[d] = code[d]

LEMMA PublishKeeps ==
    ASSUME Typed, LastWord, CodesWhileBound, Frames, Covered, NEW d \in Devices, NEW t \in EventTypes,
           NEW o \in BOOLEAN, Published(t, d, o), Told(t, d, o), UNCHANGED <<sock, boot, applied>>
    PROVE  /\ GoesOn
           /\ log' \in Seq(LogEntry) /\ Len(log') = Len(log) + 1 /\ Len(log') \in 1 .. MaxRev
           /\ log'[Len(log) + 1] = [type |-> t, dev |-> d, online |-> o]
           /\ wire' \in Seq(AnyFrame) /\ (sock' # "open" => wire' = <<>> /\ ~boot')
           /\ Frames' /\ Covered'
           /\ \A rev \in 0 .. Len(log), x \in Devices : code'[x] # code[x] => CodeComes(rev, x)'
  <1> DEFINE e == [type |-> t, dev |-> d, online |-> o]
  <1>1. e \in LogEntry /\ log' = Append(log, e) /\ Len(log) < MaxRev
    BY DEF LogEntry, Published, Rev
  <1>2. /\ log' \in Seq(LogEntry) /\ Len(log') = Len(log) + 1 /\ log'[Len(log) + 1] = e
        /\ \A r \in 1 .. Len(log) : log'[r] = log[r]
    BY <1>1, NewEntry
  <1>3. Len(log) \in Nat /\ MaxRev \in Nat
    BY NumberFacts
  <1>4. /\ LastWord' /\ CodesWhileBound'
        /\ \A row : \A rev \in 0 .. Len(log), x \in Devices : Shows(row, rev, x) => Shows(row, rev, x)'
        /\ \A row : \A rev \in 0 .. Len(log), x \in Devices : Image(row, rev, x) => Image(row, rev, x)'
        /\ \A rev \in 0 .. Len(log), x \in Devices : CodeComes(rev, x) \/ code'[x] # code[x] => CodeComes(rev, x)'
        /\ \A x \in Devices : code'[x] = 0 => code[x] = 0
    BY <1>1, PublishStep DEF Told
  <1> HIDE DEF e
  <1>5. Len(log') \in 1 .. MaxRev /\ Len(log') \in Nat /\ Len(log) <= Len(log')
    BY <1>1, <1>2, <1>3
  <1>6. GoesOn
    BY <1>2, <1>4, <1>5 DEF GoesOn
  <1>7. wire' = IF sock = "open" THEN Append(wire, Frame("event", Len(log) + 1, NoRows)) ELSE wire
    BY DEF Published, Rev
  <1>8. wire' \in Seq(AnyFrame) /\ Frames' /\ Covered'
    BY <1>1, <1>2, <1>4, <1>7, WirePublish
  <1>9. sock' # "open" => wire' = <<>> /\ ~boot'
    BY <1>7 DEF Typed, SocketTypes
  <1> QED BY <1>2, <1>4, <1>5, <1>6, <1>8, <1>9 DEF e

\* A step of the server that leaves the calls alone.
LEMMA ServerEvent ==
    ASSUME CloudInv, NEW d \in Devices, NEW t \in EventTypes, NEW o \in BOOLEAN, Published(t, d, o), Told(t, d, o),
           bound' \subseteq Devices, online' \in [Devices -> BOOLEAN], code' \in [Devices -> Codes],
           code'[Own] = code[Own], losses' \in 0 .. MaxLosses,
           UNCHANGED <<token, logged, sock, boot, timer, list, calls, upload, touched>>
    PROVE  CloudInv'
  <1>1. /\ GoesOn
        /\ log' \in Seq(LogEntry) /\ Len(log') = Len(log) + 1 /\ Len(log') \in 1 .. MaxRev
        /\ wire' \in Seq(AnyFrame) /\ (sock' # "open" => wire' = <<>> /\ ~boot')
        /\ Frames' /\ Covered'
        /\ \A rev \in 0 .. Len(log), x \in Devices : code'[x] # code[x] => CodeComes(rev, x)'
    BY PublishKeeps DEF CloudInv, list
  <1>2. Len(log) \in Nat /\ serverRev \in Nat /\ serverRev <= Len(log) /\ applied \in 0 .. Len(log)
    BY NumberFacts DEF CloudInv
  <1>3. ServerTypes'
    BY <1>1 DEF CloudInv, Typed, ServerTypes
  <1>4. SocketTypes'
    BY <1>1 DEF CloudInv, Typed, SocketTypes
  <1>5. ListTypes'
    <2>1. serverRev' \in 0 .. Len(log')
      BY <1>1, <1>2 DEF list
    <2> QED BY <2>1 DEF CloudInv, Typed, ListTypes, list
  <1>6. CallsTypes'
    BY DEF CloudInv, Typed, CallsTypes, FlagTypes, upload
  <1>7. Answers'
    BY <1>1, AnswersKept DEF CloudInv
  <1>8. Uploads'
    BY UploadsKept DEF CloudInv, upload
  <1>9. ListSound'
    <2>1. \A x \in Devices \ touched :
               applied > 0 /\ rows[x].here /\ Shows(rows[x], applied, x) /\ code'[x] # code[x] =>
                   CodeComes(applied, x)'
      <3> SUFFICES ASSUME NEW x \in Devices, code'[x] # code[x]
                   PROVE  CodeComes(applied, x)'
        OBVIOUS
      <3>1. PICK a \in 0 .. Len(log) : a = applied
        BY <1>2
      <3>2. CodeComes(a, x)'
        BY <1>1
      <3> QED BY <3>1, <3>2 DEF list
    <2>2. \A x \in Devices \ touched : \A i \in Slots :
               code'[x] = code[x] /\ Fixes(calls[i], x) =>
                    \E j \in Slots : \E c : calls'[j] = c /\ Fixes(c, x)'
      BY DEF Fixes
    <2> QED BY <1>1, <2>1, <2>2, ListKept DEF CloudInv, list, upload
  <1> QED BY <1>1, <1>3, <1>4, <1>5, <1>6, <1>7, <1>8, <1>9 DEF CloudInv, Typed, GoesOn

LEMMA DeviceChangedStep ==
    ASSUME CloudInv, NEW d \in Devices, DeviceChanged(d)
    PROVE  CloudInv'
  <1>0. /\ online \in [Devices -> BOOLEAN] /\ code \in [Devices -> Codes] /\ bound \subseteq Devices
        /\ losses \in 0 .. MaxLosses /\ MaxCode \in Nat /\ online[d] \in BOOLEAN /\ code[d] \in Codes
        /\ {"bound", "unbound", "online", "code"} \subseteq EventTypes
    BY NumberFacts DEF CloudInv, Typed, ServerTypes, EventTypes
  <1>1. UNCHANGED <<token, logged, sock, boot, timer, list, calls, upload, losses, touched>>
    BY DEF DeviceChanged
  <1>2. CASE d \notin bound /\ bound' = bound \cup {d} /\ Published("bound", d, online[d]) /\ UNCHANGED <<online, code>>
    <2>1. Told("bound", d, online[d])
      BY <1>2 DEF Told
    <2> QED BY <1>0, <1>1, <1>2, <2>1, ServerEvent
  <1>3. CASE d \in bound /\ bound' = bound \ {d} /\ Published("unbound", d, FALSE) /\ UNCHANGED <<online, code>>
    <2>1. Told("unbound", d, FALSE)
      BY <1>3 DEF Told
    <2> QED BY <1>0, <1>1, <1>3, <2>1, ServerEvent
  <1>4. CASE /\ d \in bound /\ online' = [online EXCEPT ![d] = ~@]
             /\ Published("online", d, ~online[d]) /\ UNCHANGED <<bound, code>>
    <2>1. online'[d] = (~online[d])
      BY <1>0, <1>4, Zenon
    <2>2. \A x \in Devices \ {d} : online'[x] = online[x]
      BY <1>0, <1>4
    <2>5. (~online[d]) \in BOOLEAN
      BY <1>0, Zenon
    <2>6. online' \in [Devices -> BOOLEAN]
      BY <1>0, <1>4, <2>5, Zenon
    <2>3. (~online[d]) \in BOOLEAN /\ online' \in [Devices -> BOOLEAN]
      BY <2>5, <2>6
    <2>4. Told("online", d, ~online[d])
      BY <1>4, <2>1, <2>2 DEF Told
    <2> QED BY <1>0, <1>1, <1>4, <2>3, <2>4, ServerEvent
  <1>5. CASE /\ d \in bound \ {Own} /\ code[d] < MaxCode /\ code' = [code EXCEPT ![d] = @ + 1]
             /\ Published("code", d, FALSE) /\ UNCHANGED <<bound, online>>
    <2>1. code[d] + 1 \in Codes /\ code[d] + 1 # 0
      BY <1>0, <1>5 DEF Codes
    <2>2. /\ code' \in [Devices -> Codes] /\ code'[d] = code[d] + 1
          /\ \A x \in Devices \ {d} : code'[x] = code[x]
      BY <1>0, <1>5, <2>1
    <2>3. code'[Own] = code[Own]
      BY <1>5, <2>2, CloudAssumption
    <2>4. Told("code", d, FALSE)
      BY <1>5, <2>1, <2>2 DEF Told
    <2> QED BY <1>0, <1>1, <1>5, <2>2, <2>3, <2>4, ServerEvent
  <1> QED BY <1>2, <1>3, <1>4, <1>5 DEF DeviceChanged

LEMMA SessionRevokedStep ==
    ASSUME CloudInv, SessionRevoked
    PROVE  CloudInv'
  <1>1. PICK t \in {"revoked", "other"} : Published(t, Own, FALSE)
    BY DEF SessionRevoked
  <1>2. t \in EventTypes /\ Own \in Devices /\ Told(t, Own, FALSE)
    BY CloudAssumption DEF EventTypes, Told, SessionRevoked
  <1>3. bound \subseteq Devices /\ online \in [Devices -> BOOLEAN] /\ code \in [Devices -> Codes]
    BY DEF CloudInv, Typed, ServerTypes
  <1>4. losses' \in 0 .. MaxLosses
    BY CloudAssumption DEF CloudInv, Typed, ServerTypes, SessionRevoked
  <1> QED BY <1>1, <1>2, <1>3, <1>4, ServerEvent DEF SessionRevoked

----------------------------------------------------------------------------
(***************************************************************************)
(* The calls.                                                              *)
(***************************************************************************)

\* A step that touches the calls and neither the server nor the list.
LEMMA CallsOnly ==
    ASSUME CloudInv, UNCHANGED <<bound, online, code, log, logged, sock, wire, boot, timer, serverRev, applied,
                                 rows, devRev, touched>>,
           token' \in {"ok", "expired", "refreshing"}, losses' \in 0 .. MaxLosses,
           CallsTypes', Uploads', crossed => crossed',
           \A i \in Slots : calls'[i] = calls[i] \/ \E c \in AnyCall : calls'[i] = c /\ AnswerSound(c)',
           \A d \in Devices \ touched : \A i \in Slots :
               applied > 0 /\ rows[d].here /\ Shows(rows[d], applied, d) /\ code[d] # 0 /\ Fixes(calls[i], d)
               => CodeComes(applied, d) \/ \E j \in Slots : \E c : calls'[j] = c /\ Fixes(c, d)
    PROVE  CloudInv'
  <1>1. GoesOn
    BY SameGoesOn DEF CloudInv
  <1>2. ServerTypes' /\ SocketTypes' /\ ListTypes'
    BY DEF CloudInv, Typed, ServerTypes, SocketTypes, ListTypes
  <1>3. Answers'
    BY <1>1, AnswersKept DEF CloudInv
  <1>4. Frames'
    BY <1>1, FramesKept DEF CloudInv, GoesOn
  <1>5. Covered'
    BY DEF CloudInv, Covered, After, Covers
  <1>6. ListSound'
    <2>1. \A d \in Devices : code'[d] = code[d]
      OBVIOUS
    <2>2. \A c, d : Fixes(c, d) => Fixes(c, d)'
      BY SameServer
    <2>3. \A d : CodeComes(applied, d) => CodeComes(applied, d)'
      BY DEF CodeComes, After, Coded, Cleared
    <2>4. \A d \in Devices \ touched : \A i \in Slots :
               /\ applied > 0 /\ rows[d].here /\ Shows(rows[d], applied, d)
               /\ code[d] # 0 /\ code'[d] = code[d] /\ Fixes(calls[i], d)
               => CodeComes(applied, d)' \/ \E j \in Slots : \E c : calls'[j] = c /\ Fixes(c, d)'
      <3> SUFFICES ASSUME NEW d \in Devices \ touched, NEW i \in Slots,
                          applied > 0, rows[d].here, Shows(rows[d], applied, d), code[d] # 0, Fixes(calls[i], d)
                   PROVE  CodeComes(applied, d)' \/ \E j \in Slots : \E c : calls'[j] = c /\ Fixes(c, d)'
        OBVIOUS
      <3>1. CodeComes(applied, d) \/ \E j \in Slots : \E c : calls'[j] = c /\ Fixes(c, d)
        OBVIOUS
      <3>2. CASE CodeComes(applied, d)
        BY <2>3, <3>2
      <3>3. CASE \E j \in Slots : \E c : calls'[j] = c /\ Fixes(c, d)
        <4>0. PICK j \in Slots : \E c : calls'[j] = c /\ Fixes(c, d)
          BY <3>3
        <4>1. PICK c : calls'[j] = c /\ Fixes(c, d)
          BY <4>0
        <4>2. Fixes(c, d)'
          BY <2>2, <4>1
        <4> QED BY <4>1, <4>2
      <3> QED BY <3>1, <3>2, <3>3
    <2> QED BY <1>1, <2>1, <2>4, ListKept DEF CloudInv
  <1> QED BY <1>1, <1>2, <1>3, <1>4, <1>5, <1>6 DEF CloudInv, Typed, GoesOn

\* One call goes on to another stage; if it was to put a code right, it still will.
LEMMA OneCall ==
    ASSUME CloudInv, UNCHANGED <<bound, online, code, log, logged, sock, wire, boot, timer, serverRev, applied,
                                 rows, devRev, touched>>,
           token' \in {"ok", "expired", "refreshing"}, losses' \in 0 .. MaxLosses,
           hostCode' \in Codes, synced' \in 0 .. hostCode', FlagTypes', Uploads', crossed => crossed',
           NEW i \in Slots, NEW c \in AnyCall, calls' = [calls EXCEPT ![i] = c], AnswerSound(c),
           \A d \in Devices \ touched :
               applied > 0 /\ rows[d].here /\ Shows(rows[d], applied, d) /\ code[d] # 0 /\ Fixes(calls[i], d)
               => CodeComes(applied, d) \/ Fixes(c, d)
    PROVE  CloudInv'
  <1>1. calls' \in [Slots -> AnyCall] /\ calls'[i] = c /\ \A j \in Slots \ {i} : calls'[j] = calls[j]
    BY DEF CloudInv, Typed, CallsTypes
  <1>2. CallsTypes'
    BY <1>1 DEF CallsTypes
  <1>3. AnswerSound(c)'
    <2>1. \A row, rev, d : Image(row, rev, d) => Image(row, rev, d)'
      BY SameServer
    <2> QED BY <2>1 DEF AnswerSound, Cleared
  <1>4. \A j \in Slots : calls'[j] = calls[j] \/ \E x \in AnyCall : calls'[j] = x /\ AnswerSound(x)'
    BY <1>1, <1>3
  <1>5. ASSUME NEW d \in Devices \ touched, NEW j \in Slots,
               applied > 0, rows[d].here, Shows(rows[d], applied, d), code[d] # 0, Fixes(calls[j], d)
        PROVE  CodeComes(applied, d) \/ \E k \in Slots : \E x : calls'[k] = x /\ Fixes(x, d)
    <2>1. CASE j = i
      BY <1>1, <1>5, <2>1
    <2>2. CASE j # i
      BY <1>1, <1>5, <2>2
    <2> QED BY <2>1, <2>2
  <1> QED BY <1>2, <1>4, <1>5, CallsOnly

\* A call is sent, from a free slot.
LEMMA SendStep ==
    ASSUME CloudInv, UNCHANGED <<bound, online, code, log, logged, sock, wire, boot, timer, serverRev, applied,
                                 rows, devRev, touched, token, losses, hostCode, secret, synced, crossed, overlap, failed>>,
           FreeSlot # {}, NEW t \in {"refresh", "unbind", "bind"}, NEW d \in Devices, calls' = Send(t, d, None)
    PROVE  CloudInv'
  <1>1. PICK i \in Slots : calls[i].type = "none" /\ calls' = [calls EXCEPT ![i] = Call(t, d, "sent", None, 0)]
    BY SendFacts DEF CloudInv, Typed, CallsTypes
  <1>2. PICK c : c = Call(t, d, "sent", None, 0)
    OBVIOUS
  <1>3. c \in AnyCall /\ c.type = t /\ c.stage = "sent" /\ t # "upload"
    <2>1. t \in CallTypes /\ "sent" \in Stages /\ None \in AnyRow /\ 0 \in 0 .. MaxRev + 1
      BY RowFacts, CloudAssumption DEF CallTypes, Stages
    <2> QED BY <1>2, <2>1, CallFacts
  <1>4. AnswerSound(c)
    BY <1>3 DEF AnswerSound
  <1>5. \A x : ~Fixes(calls[i], x)
    BY <1>1 DEF Fixes
  <1>6. Uploads'
    <2>1. \A j \in Slots : calls'[j] = calls[j] \/ (calls[j].type # "upload" /\ calls'[j].type # "upload")
      BY <1>1, <1>2, <1>3 DEF CloudInv, Typed, CallsTypes
    <2> QED BY <2>1, UploadsKept DEF CloudInv, upload
  <1>7. /\ token' \in {"ok", "expired", "refreshing"} /\ losses' \in 0 .. MaxLosses
        /\ hostCode' \in Codes /\ synced' \in 0 .. hostCode' /\ FlagTypes'
    BY DEF CloudInv, Typed, ServerTypes, CallsTypes, FlagTypes
  <1> QED BY <1>1, <1>2, <1>3, <1>4, <1>5, <1>6, <1>7, OneCall

\* An upload is sent.
LEMMA UploadSent ==
    ASSUME CloudInv, UNCHANGED <<bound, online, code, log, logged, sock, wire, boot, timer, serverRev, applied,
                                 rows, devRev, touched, token, losses, synced>>,
           FreeSlot # {}, NEW c \in Codes \ {0}, hostCode' = c, hostCode <= c, c # synced, secret' = TRUE,
           SendUpload(c)
    PROVE  CloudInv'
  <1>0. /\ calls' = Send("upload", Own, Row(FALSE, c))
        /\ crossed' = (crossed \/ OtherUpload(c))
        /\ overlap' = ((overlap /\ Uploading) \/ OtherUpload(c))
        /\ failed' = FALSE
    BY DEF SendUpload
  <1>1. PICK i \in Slots :
            calls[i].type = "none" /\ calls' = [calls EXCEPT ![i] = Call("upload", Own, "sent", Row(FALSE, c), 0)]
    BY <1>0, SendFacts DEF CloudInv, Typed, CallsTypes
  <1>2. PICK a : a = Call("upload", Own, "sent", Row(FALSE, c), 0)
    OBVIOUS
  <1>3. /\ a \in AnyCall /\ a.type = "upload" /\ a.dev = Own /\ a.stage = "sent"
        /\ a.val.here /\ a.val.code = c
    <2>1. "upload" \in CallTypes /\ "sent" \in Stages /\ 0 \in 0 .. MaxRev + 1 /\ Own \in Devices
      BY CloudAssumption DEF CallTypes, Stages
    <2>2. PICK row \in AnyRow : row = Row(FALSE, c) /\ row.here /\ row.code = c
      <3>1. FALSE \in BOOLEAN /\ c \in Codes
        OBVIOUS
      <3> QED BY <3>1, RowFacts
    <2>3. a = Call("upload", Own, "sent", row, 0)
      BY <1>2, <2>2
    <2>4. a.type = "upload" /\ a.dev = Own /\ a.stage = "sent" /\ a.val = row
      BY <2>3 DEF Call
    <2>5. a \in AnyCall
      BY <2>1, <2>2, <2>3 DEF Call, AnyCall
    <2> QED BY <2>2, <2>4, <2>5
  <1>4. AnswerSound(a)
    BY <1>3 DEF AnswerSound
  <1>5. \A x : ~Fixes(calls[i], x)
    BY <1>1 DEF Fixes
  <1>6. /\ calls \in [Slots -> AnyCall] /\ hostCode \in Nat /\ c \in Nat /\ c >= 1 /\ MaxCode \in Nat
        /\ synced \in 0 .. hostCode
    BY NumberFacts DEF CloudInv, Typed, CallsTypes, Codes
  <1>7. calls'[i] = a /\ \A j \in Slots \ {i} : calls'[j] = calls[j]
    BY <1>1, <1>2, <1>6
  <1>8. Uploads'
    <2>1. UploadSound(a)'
      BY <1>3, <1>6 DEF UploadSound
    <2>2. ASSUME NEW j \in Slots \ {i}
          PROVE  UploadSound(calls[j])'
      <3>1. UploadSound(calls[j])
        BY DEF CloudInv, Uploads
      <3>2. calls[j].type = "upload" => calls[j].val.code \in 1 .. c
        BY <1>6, <3>1 DEF UploadSound
      <3>3. calls[j].type = "upload" /\ ~overlap' => calls[j].val.code = c /\ ~overlap
        BY <1>0 DEF OtherUpload, Uploading
      <3> QED BY <1>7, <3>1, <3>2, <3>3 DEF UploadSound
    <2>3. calls'[i].type = "upload"
      BY <1>3, <1>7
    <2>4. \A j \in Slots : UploadSound(calls[j])'
      BY <1>7, <2>1, <2>2
    <2>5. overlap' => crossed'
      BY <1>0 DEF CloudInv, Uploads
    <2>6. synced' # hostCode'
      OBVIOUS
    <2> QED BY <2>3, <2>4, <2>5, <2>6 DEF Uploads
  <1>10. FlagTypes'
    BY <1>0 DEF CloudInv, Typed, CallsTypes, FlagTypes, OtherUpload, Uploading
  <1>11. crossed => crossed'
    BY <1>0
  <1>9. /\ token' \in {"ok", "expired", "refreshing"} /\ losses' \in 0 .. MaxLosses
        /\ hostCode' \in Codes /\ synced' \in 0 .. hostCode' /\ FlagTypes'
    BY <1>6, <1>10 DEF CloudInv, Typed, ServerTypes, CallsTypes
  <1> QED BY <1>1, <1>2, <1>3, <1>4, <1>5, <1>8, <1>9, <1>11, OneCall

\* A step of the host that sends nothing: without a device secret nothing is
\* under way, and the secret may come when there is nothing to send.
LEMMA NothingSent ==
    ASSUME CloudInv, UNCHANGED <<bound, online, code, log, logged, sock, wire, boot, timer, serverRev, applied,
                                 rows, devRev, touched, token, losses, synced, calls, crossed, overlap, failed>>,
           hostCode' \in Codes, hostCode <= hostCode', secret' \in BOOLEAN,
           \/ secret' = secret /\ ~secret
           \/ secret' = TRUE /\ hostCode' = hostCode /\ (hostCode > 0 => hostCode = synced)
    PROVE  CloudInv'
  <1>1. /\ hostCode \in Nat /\ hostCode' \in Nat /\ synced \in 0 .. hostCode /\ synced \in Nat
        /\ calls \in [Slots -> AnyCall]
    BY NumberFacts DEF CloudInv, Typed, CallsTypes, Codes
  <1>2. \A i \in Slots : calls'[i] = calls[i]
    OBVIOUS
  <1>3. CallsTypes'
    BY <1>1 DEF CloudInv, Typed, CallsTypes, FlagTypes
  <1>4. ASSUME NEW i \in Slots
        PROVE  UploadSound(calls[i])'
    <2>1. UploadSound(calls[i])
      BY DEF CloudInv, Uploads
    <2> QED BY <1>1, <1>2, <2>1 DEF UploadSound
  <1>5. hostCode' > 0 /\ ~overlap' /\ synced' = hostCode' => code'[Own] = hostCode'
    BY <1>1 DEF CloudInv, Uploads
  <1>6. hostCode' > 0 /\ secret' => synced' = hostCode'
    BY <1>1
  <1>7. Uploads'
    BY <1>4, <1>5, <1>6 DEF CloudInv, Uploads
  <1>8. token' \in {"ok", "expired", "refreshing"} /\ losses' \in 0 .. MaxLosses
    BY DEF CloudInv, Typed, ServerTypes
  <1> QED BY <1>2, <1>3, <1>7, <1>8, CallsOnly

LEMMA SendSteps ==
    ASSUME CloudInv,
           (\E d \in Devices : unbindDevice(d) \/ RefreshNow(d)) \/ HostCode \/ HostSecret \/ HostReadyBinds
    PROVE  CloudInv'
  <1>1. ASSUME NEW d \in Devices, unbindDevice(d) \/ RefreshNow(d)
        PROVE  CloudInv'
    BY <1>1, SendStep, SpareFree DEF unbindDevice, RefreshNow, server, socket, list, upload
  <1>2. CASE HostReadyBinds
    BY <1>2, SendStep, SpareFree, CloudAssumption DEF HostReadyBinds, bindHostDeviceIfReady, server, socket, list, upload
  <1>3. hostCode \in Nat /\ MaxCode \in Nat /\ synced \in 0 .. hostCode /\ hostCode \in Codes
    BY NumberFacts DEF CloudInv, Typed, CallsTypes
  <1>4. CASE HostCode
    <2>1. hostCode + 1 \in Codes \ {0} /\ hostCode + 1 # synced /\ hostCode <= hostCode + 1
      BY <1>3, <1>4 DEF Codes, HostCode
    <2>2. /\ UNCHANGED <<bound, online, code, log, logged, sock, wire, boot, timer, serverRev, applied,
                         rows, devRev, touched, token, losses, synced, secret>>
          /\ FreeSlot # {} /\ hostCode' = hostCode + 1 /\ syncAccessCode(hostCode + 1)
      BY <1>4 DEF HostCode, server, socket, list
    <2>3. secret \in BOOLEAN
      BY DEF CloudInv, Typed, CallsTypes, FlagTypes
    <2>4. CASE secret
      BY <2>1, <2>2, <2>4, UploadSent DEF syncAccessCode
    <2>5. CASE ~secret
      BY <2>1, <2>2, <2>3, <2>5, NothingSent DEF syncAccessCode, NoUpload
    <2> QED BY <2>4, <2>5
  <1>5. CASE HostSecret
    <2>1. /\ UNCHANGED <<bound, online, code, log, logged, sock, wire, boot, timer, serverRev, applied,
                         rows, devRev, touched, token, losses, synced, hostCode>>
          /\ FreeSlot # {} /\ secret' = TRUE
      BY <1>5, SpareFree DEF HostSecret, server, socket, list
    <2>2. CASE hostCode > 0 => hostCode = synced
      <3>1. NoUpload
        BY <1>5, <2>2 DEF HostSecret, syncAccessCode
      <3>2. UNCHANGED <<calls, crossed, overlap, failed>>
        BY <3>1 DEF NoUpload
      <3>3. hostCode' \in Codes /\ hostCode <= hostCode' /\ secret' \in BOOLEAN
        BY <1>3, <2>1
      <3> QED BY <2>1, <2>2, <3>2, <3>3, NothingSent
    <2>3. CASE hostCode > 0 /\ hostCode # synced
      <3>1. hostCode \in Codes \ {0} /\ hostCode <= hostCode
        BY <1>3, <2>3
      <3>2. SendUpload(hostCode)
        BY <1>5, <2>1, <2>3 DEF HostSecret, syncAccessCode
      <3> QED BY <2>1, <2>3, <3>1, <3>2, UploadSent
    <2> QED BY <2>2, <2>3
  <1> QED BY <1>1, <1>2, <1>4, <1>5

\* A call fails: a refresh that failed may still put nothing right, but leaves a mark when it is answered.
LEMMA FailStep ==
    ASSUME CloudInv, UNCHANGED <<bound, online, code, log, logged, sock, wire, boot, timer, serverRev, applied,
                                 rows, devRev, touched, token, hostCode, secret, synced, crossed, overlap, failed>>,
           losses' \in 0 .. MaxLosses, NEW i \in Slots, calls' = [calls EXCEPT ![i].stage = "failed"]
    PROVE  CloudInv'
  <1>1. calls \in [Slots -> AnyCall]
    BY DEF CloudInv, Typed, CallsTypes
  <1>2. PICK c \in AnyCall : c = [calls[i] EXCEPT !.stage = "failed"]
    BY <1>1 DEF AnyCall, Stages
  <1>3. /\ c.type = calls[i].type /\ c.dev = calls[i].dev /\ c.val = calls[i].val /\ c.stage = "failed"
    BY <1>1, <1>2 DEF AnyCall
  <1>4. calls' = [calls EXCEPT ![i] = c]
    BY <1>1, <1>2
  <1>5. calls'[i] = c /\ \A j \in Slots \ {i} : calls'[j] = calls[j]
    BY <1>1, <1>4
  <1>6. Uploads'
    <2>1. \A j \in Slots : \/ calls'[j] = calls[j]
                           \/ /\ calls'[j].type = calls[j].type /\ calls'[j].dev = calls[j].dev
                              /\ calls'[j].val = calls[j].val /\ calls'[j].stage = "failed"
      BY <1>3, <1>5
    <2> QED BY <2>1, UploadsKept DEF CloudInv, upload
  <1>7. AnswerSound(c)
    BY <1>3 DEF AnswerSound
  <1>8. \A d : Fixes(calls[i], d) => Fixes(c, d)
    BY <1>3 DEF Fixes
  <1>9. /\ token' \in {"ok", "expired", "refreshing"}
        /\ hostCode' \in Codes /\ synced' \in 0 .. hostCode' /\ FlagTypes'
    BY DEF CloudInv, Typed, ServerTypes, CallsTypes, FlagTypes
  <1> QED BY <1>4, <1>6, <1>7, <1>8, <1>9, OneCall

LEMMA CallFailsStep ==
    ASSUME CloudInv, NEW i \in Slots, CallFails(i)
    PROVE  CloudInv'
  <1>1. losses' \in 0 .. MaxLosses
    BY CloudAssumption DEF CloudInv, Typed, ServerTypes, CallFails
  <1> QED BY <1>1, FailStep DEF CallFails, server, socket, list, upload

\* The server serves a call that is not a refresh.
LEMMA ServerMoves ==
    ASSUME CloudInv, GoesOn, ServerTypes', CallsTypes', Uploads', Frames', Covered',
           wire' \in Seq(AnyFrame), sock' # "open" => wire' = <<>> /\ ~boot',
           UNCHANGED <<logged, sock, boot, timer, list, touched, crossed>>,
           \A x \in Devices : rows[x].here /\ Shows(rows[x], applied, x) /\ code'[x] # code[x] =>
                   CodeComes(applied, x)',
           \A j \in Slots : \/ calls'[j] = calls[j]
                            \/ calls[j].type # "refresh" /\ \E c \in AnyCall : calls'[j] = c /\ AnswerSound(c)'
    PROVE  CloudInv'
  <1>1. SocketTypes'
    BY DEF CloudInv, Typed, SocketTypes
  <1>2. ListTypes'
    <2>1. serverRev' \in 0 .. Len(log')
      <3>1. PICK n \in Nat, m \in Nat, s \in Nat : n = Len(log) /\ m = Len(log') /\ n <= m /\ s = serverRev /\ s <= n
        BY NumberFacts DEF CloudInv, GoesOn
      <3>2. s \in 0 .. m
        BY <3>1
      <3> QED BY <3>1, <3>2 DEF list
    <2> QED BY <2>1 DEF CloudInv, Typed, ListTypes, list
  <1>3. Answers'
    BY AnswersKept DEF CloudInv
  <1>4. ListSound'
    <2>1. \A x \in Devices \ touched : \A i \in Slots :
               code'[x] = code[x] /\ Fixes(calls[i], x) =>
                    \E j \in Slots : \E c : calls'[j] = c /\ Fixes(c, x)'
      BY DEF Fixes
    <2> QED BY <2>1, ListKept DEF CloudInv, list
  <1> QED BY <1>1, <1>2, <1>3, <1>4 DEF CloudInv, Typed, GoesOn

LEMMA ServeEvent ==
    ASSUME CloudInv, NEW d \in Devices, NEW t \in EventTypes, NEW o \in BOOLEAN, Published(t, d, o), Told(t, d, o),
           bound' \subseteq Devices, UNCHANGED online, code' \in [Devices -> Codes],
           UNCHANGED <<token, logged, sock, boot, timer, list, upload, losses, touched>>, Uploads',
           NEW i \in Slots, NEW c \in AnyCall, calls' = [calls EXCEPT ![i] = c], calls[i].type # "refresh",
           AnswerSound(c)'
    PROVE  CloudInv'
  <1>1. /\ GoesOn
        /\ log' \in Seq(LogEntry) /\ Len(log') = Len(log) + 1 /\ Len(log') \in 1 .. MaxRev
        /\ wire' \in Seq(AnyFrame) /\ (sock' # "open" => wire' = <<>> /\ ~boot')
        /\ Frames' /\ Covered'
        /\ \A rev \in 0 .. Len(log), x \in Devices : code'[x] # code[x] => CodeComes(rev, x)'
    BY PublishKeeps DEF CloudInv, list
  <1>2. calls' \in [Slots -> AnyCall] /\ calls'[i] = c /\ \A j \in Slots \ {i} : calls'[j] = calls[j]
    BY DEF CloudInv, Typed, CallsTypes
  <1>3. ServerTypes'
    BY <1>1 DEF CloudInv, Typed, ServerTypes
  <1>4. CallsTypes'
    BY <1>2 DEF CloudInv, Typed, CallsTypes, FlagTypes, upload
  <1>5. ASSUME NEW x \in Devices, code'[x] # code[x]
        PROVE  CodeComes(applied, x)'
    <2>1. PICK a \in 0 .. Len(log) : a = applied
      BY NumberFacts DEF CloudInv
    <2>2. CodeComes(a, x)'
      BY <1>1, <1>5
    <2> QED BY <2>1, <2>2 DEF list
  <1>6. \A j \in Slots : \/ calls'[j] = calls[j]
                         \/ calls[j].type # "refresh" /\ \E x \in AnyCall : calls'[j] = x /\ AnswerSound(x)'
    BY <1>2
  <1> QED BY <1>1, <1>3, <1>4, <1>5, <1>6, ServerMoves DEF upload

\* An upload takes its effect.
LEMMA ServeUpload ==
    ASSUME CloudInv, NEW i \in Slots, calls[i].type = "upload", calls[i].stage = "sent",
           code' = [code EXCEPT ![calls[i].dev] = calls[i].val.code],
           calls' = [calls EXCEPT ![i].stage = "ok", ![i].rev = Len(log) + 1],
           IF calls[i].dev \in bound THEN Published("code", calls[i].dev, FALSE) ELSE UNCHANGED <<log, wire>>,
           UNCHANGED <<bound, online, token, logged, sock, boot, timer, list, upload, losses, touched>>
    PROVE  CloudInv'
  <1>1. PICK v \in Codes \ {0} : v = calls[i].val.code /\ calls[i].dev = Own /\ calls[i].val.here /\ (~overlap => v = hostCode)
                                /\ v \in 1 .. hostCode /\ secret
    <2>1. UploadSound(calls[i]) /\ hostCode \in Codes /\ MaxCode \in Nat
      BY NumberFacts DEF CloudInv, Uploads, Typed, CallsTypes
    <2>2. calls[i].val.code \in Codes \ {0}
      BY <2>1 DEF UploadSound, Codes
    <2> QED BY <2>1, <2>2 DEF UploadSound
  <1>2. calls \in [Slots -> AnyCall] /\ Len(log) + 1 \in 0 .. MaxRev + 1
    BY NumberFacts DEF CloudInv, Typed, CallsTypes
  <1>3. PICK c \in AnyCall : c = [calls[i] EXCEPT !.stage = "ok", !.rev = Len(log) + 1]
    BY <1>2 DEF AnyCall, Stages
  <1>4. c.type = "upload" /\ c.dev = Own /\ c.val = calls[i].val /\ c.stage = "ok"
    BY <1>1, <1>2, <1>3 DEF AnyCall
  <1>5. calls' = [calls EXCEPT ![i] = c]
    BY <1>2, <1>3
  <1>6. calls' \in [Slots -> AnyCall] /\ calls'[i] = c /\ \A j \in Slots \ {i} : calls'[j] = calls[j]
    BY <1>2, <1>5
  <1>7. /\ code \in [Devices -> Codes] /\ code' = [code EXCEPT ![Own] = v] /\ code' \in [Devices -> Codes]
        /\ code'[Own] = v /\ \A x \in Devices \ {Own} : code'[x] = code[x]
    BY <1>1, CloudAssumption DEF CloudInv, Typed, ServerTypes
  <1>8. Uploads'
    <2>1. /\ v # 0 /\ (~overlap' => v = hostCode') /\ v \in 1 .. hostCode' /\ secret'
          /\ UNCHANGED <<hostCode, secret, synced, crossed, overlap, failed>>
      BY <1>1 DEF upload
    <2>2. UploadSound(c)'
      BY <1>1, <1>4, <1>7, <2>1 DEF UploadSound
    <2>3. ASSUME NEW j \in Slots \ {i}
          PROVE  UploadSound(calls[j])'
      <3>1. UploadSound(calls[j])
        BY DEF CloudInv, Uploads
      <3> QED BY <1>6, <1>7, <2>1, <3>1 DEF UploadSound
    <2>4. \A j \in Slots : UploadSound(calls[j])'
      BY <1>6, <2>2, <2>3
    <2>5. calls'[i].type = "upload"
      BY <1>4, <1>6
    <2> QED BY <1>7, <2>1, <2>4, <2>5 DEF CloudInv, Uploads
  <1>9. AnswerSound(c)'
    BY <1>4 DEF AnswerSound
  <1>10. CASE Own \in bound
    <2>1. Published("code", Own, FALSE) /\ "code" \in EventTypes /\ Own \in Devices /\ bound' \subseteq Devices
      BY <1>1, <1>10, CloudAssumption DEF EventTypes, CloudInv, Typed, ServerTypes
    <2>2. Told("code", Own, FALSE)
      BY <1>7, <1>10 DEF Told
    <2> QED BY <1>4, <1>5, <1>7, <1>8, <1>9, <2>1, <2>2, ServeEvent
  <1>11. CASE Own \notin bound
    <2>1. UNCHANGED <<log, wire>>
      BY <1>1, <1>11
    <2>2. /\ LastWord' /\ CodesWhileBound'
          /\ \A row : \A rev \in 0 .. Len(log), x \in Devices : Shows(row, rev, x) => Shows(row, rev, x)'
          /\ \A row : \A rev \in 0 .. Len(log), x \in Devices : Image(row, rev, x) => Image(row, rev, x)'
          /\ \A rev \in 0 .. Len(log), x \in Devices : CodeComes(rev, x) => CodeComes(rev, x)'
          /\ \A x \in Devices : code'[x] = 0 => code[x] = 0
      BY <1>7, <1>11, <2>1, SilentStep DEF CloudInv
    <2>3. GoesOn
      BY <2>1, <2>2, NumberFacts DEF GoesOn, CloudInv
    <2>4. ServerTypes' /\ CallsTypes'
      BY <1>6, <1>7, <2>1 DEF CloudInv, Typed, ServerTypes, CallsTypes, FlagTypes, upload
    <2>5. Frames'
      BY <2>1, <2>3, FramesKept DEF CloudInv, GoesOn
    <2>6. Covered'
      BY <2>1 DEF CloudInv, Covered, After, Covers, list
    <2>7. wire' \in Seq(AnyFrame) /\ (sock' # "open" => wire' = <<>> /\ ~boot')
      BY <2>1 DEF CloudInv, Typed, SocketTypes
    <2>8. ASSUME NEW x \in Devices, rows[x].here, Shows(rows[x], applied, x), code'[x] # code[x]
          PROVE  CodeComes(applied, x)'
      <3>1. x = Own
        BY <1>7, <2>8
      <3>2. PICK a \in 0 .. Len(log) : a = applied
        BY NumberFacts DEF CloudInv
      <3>3. CodeComes(a, x)
        BY <1>11, <2>8, <3>1, <3>2, GoneByEvent DEF CloudInv, CodeComes
      <3>4. CodeComes(a, x)'
        BY <2>2, <3>3
      <3> QED BY <3>2, <3>4 DEF list
    <2>9. \A j \in Slots : \/ calls'[j] = calls[j]
                           \/ calls[j].type # "refresh" /\ \E x \in AnyCall : calls'[j] = x /\ AnswerSound(x)'
      BY <1>6, <1>9
    <2> QED BY <1>8, <2>1, <2>3, <2>4, <2>5, <2>6, <2>7, <2>8, <2>9, ServerMoves DEF upload
  <1> QED BY <1>10, <1>11

LEMMA ServeStep ==
    ASSUME CloudInv, NEW i \in Slots, Serve(i)
    PROVE  CloudInv'
  <1>0. /\ calls \in [Slots -> AnyCall] /\ calls[i] \in AnyCall /\ calls[i].dev \in Devices
        /\ calls[i].type \in CallTypes /\ calls[i].val \in AnyRow
    BY DEF CloudInv, Typed, CallsTypes, AnyCall
  <1>1. PICK d \in Devices : d = calls[i].dev
    BY <1>0
  <1>2. PICK n \in Nat : n = Len(log) /\ n >= 1 /\ n <= MaxRev /\ MaxRev \in Nat
    BY NumberFacts DEF CloudInv
  <1>3. UNCHANGED <<online, token, logged, sock, boot, timer, list, upload, losses, touched>> /\ calls[i].stage = "sent"
    BY DEF Serve
  <1>4. /\ token' \in {"ok", "expired", "refreshing"} /\ losses' \in 0 .. MaxLosses
        /\ hostCode' \in Codes /\ synced' \in 0 .. hostCode' /\ FlagTypes'
        /\ bound \subseteq Devices /\ code \in [Devices -> Codes] /\ online \in [Devices -> BOOLEAN]
        /\ {"unbound", "bound"} \subseteq EventTypes
    BY <1>3 DEF CloudInv, Typed, ServerTypes, CallsTypes, FlagTypes, upload, EventTypes
  <1>5. CASE calls' = [calls EXCEPT ![i].stage = "failed"] /\ UNCHANGED <<bound, code, log, wire>>
    BY <1>3, <1>4, <1>5, FailStep DEF list, upload
  <1>6. CASE /\ calls[i].type = "refresh"
             /\ calls' = [calls EXCEPT ![i] = IF d \in bound THEN Call("refresh", d, "ok", ServerRows[d], n)
                                              ELSE Call("refresh", d, "missing", None, n)]
             /\ UNCHANGED <<bound, code, log, wire>>
    <2>1. ServerRows[d] \in AnyRow /\ Image(ServerRows[d], Len(log), d) /\ None \in AnyRow
      BY ServerImage, RowFacts DEF CloudInv
    <2>2. "refresh" \in CallTypes /\ "ok" \in Stages /\ "missing" \in Stages /\ n \in 0 .. MaxRev + 1
      BY <1>2 DEF CallTypes, Stages
    <2>3. Uploads'
      <3>1. \A j \in Slots : calls'[j] = calls[j] \/ (calls[j].type # "upload" /\ calls'[j].type # "upload")
        BY <1>0, <1>6 DEF Call
      <3> QED BY <1>3, <1>6, <3>1, UploadsKept DEF CloudInv, upload
    <2>4. CASE d \in bound
      <3>1. PICK c \in AnyCall : c = Call("refresh", d, "ok", ServerRows[d], n)
        BY <2>1, <2>2 DEF Call, AnyCall
      <3>2. c.type = "refresh" /\ c.dev = d /\ c.stage = "ok" /\ c.val = ServerRows[d] /\ c.rev = n
        BY <3>1 DEF Call
      <3>3. online[d] \in BOOLEAN /\ code[d] \in Codes
        BY <1>4
      <3>4. c.val = Row(online[d], code[d])
        BY <2>4, <3>2 DEF ServerRows
      <3>5. c.val.here /\ c.val.code = code[d]
        BY <3>3, <3>4, RowFacts
      <3>6. AnswerSound(c)
        BY <1>2, <2>1, <3>2, <3>5 DEF AnswerSound
      <3>7. \A x \in Devices : code[x] # 0 /\ Fixes(calls[i], x) => Fixes(c, x)
        BY <1>1, <3>2, <3>5 DEF Fixes
      <3>8. calls' = [calls EXCEPT ![i] = c]
        BY <1>6, <2>4, <3>1
      <3> QED BY <1>3, <1>4, <1>6, <2>3, <3>6, <3>7, <3>8, OneCall DEF list, upload
    <2>5. CASE d \notin bound
      <3>1. PICK c \in AnyCall : c = Call("refresh", d, "missing", None, n)
        BY <2>1, <2>2 DEF Call, AnyCall
      <3>2. c.stage = "missing"
        BY <3>1 DEF Call
      <3>3. AnswerSound(c)
        BY <3>2 DEF AnswerSound
      <3>4. ASSUME NEW x \in Devices, rows[x].here, Shows(rows[x], applied, x), Fixes(calls[i], x)
            PROVE  CodeComes(applied, x)
        <4>1. x = d
          BY <1>1, <3>4 DEF Fixes
        <4>2. applied \in 0 .. Len(log)
          BY NumberFacts DEF CloudInv
        <4> QED BY <2>5, <3>4, <4>1, <4>2, GoneByEvent DEF CloudInv, CodeComes
      <3>5. calls' = [calls EXCEPT ![i] = c]
        BY <1>6, <2>5, <3>1
      <3> QED BY <1>3, <1>4, <1>6, <2>3, <3>3, <3>4, <3>5, OneCall DEF list, upload
    <2> QED BY <2>4, <2>5
  <1>7. CASE /\ calls[i].type = "unbind"
             /\ calls' = [calls EXCEPT ![i].stage = "missing"]
             /\ UNCHANGED <<bound, code, log, wire>>
    <2>1. PICK c \in AnyCall : c = [calls[i] EXCEPT !.stage = "missing"]
      BY <1>0 DEF AnyCall, Stages
    <2>2. c.type = "unbind" /\ c.stage = "missing"
      BY <1>0, <1>7, <2>1 DEF AnyCall
    <2>3. AnswerSound(c)
      BY <2>2 DEF AnswerSound
    <2>4. calls' = [calls EXCEPT ![i] = c]
      BY <1>0, <1>7, <2>1
    <2>5. \A x : ~Fixes(calls[i], x)
      BY <1>7 DEF Fixes
    <2>6. Uploads'
      <3>1. \A j \in Slots : calls'[j] = calls[j] \/ (calls[j].type # "upload" /\ calls'[j].type # "upload")
        BY <1>0, <1>7, <2>2, <2>4
      <3> QED BY <1>3, <1>7, <3>1, UploadsKept DEF CloudInv, upload
    <2> QED BY <1>3, <1>4, <1>7, <2>3, <2>4, <2>5, <2>6, OneCall DEF list, upload
  <1>8. CASE /\ calls[i].type = "unbind" /\ bound' = bound \ {d}
             /\ calls' = [calls EXCEPT ![i] = Call("unbind", d, "ok", None, n + 1)]
             /\ Published("unbound", d, FALSE) /\ UNCHANGED code
    <2>1. PICK c \in AnyCall : c = Call("unbind", d, "ok", None, n + 1)
      <3>1. "unbind" \in CallTypes /\ "ok" \in Stages /\ None \in AnyRow /\ n + 1 \in 0 .. MaxRev + 1
        BY <1>2, RowFacts DEF CallTypes, Stages
      <3> QED BY <3>1 DEF Call, AnyCall
    <2>2. c.type = "unbind" /\ c.dev = d /\ c.stage = "ok" /\ c.rev = n + 1
      BY <2>1 DEF Call
    <2>3. Told("unbound", d, FALSE)
      BY <1>3, <1>8 DEF Told
    <2>4. Uploads'
      <3>1. \A j \in Slots : calls'[j] = calls[j] \/ (calls[j].type # "upload" /\ calls'[j].type # "upload")
        BY <1>0, <1>8, <2>1, <2>2
      <3> QED BY <1>3, <1>8, <3>1, UploadsKept DEF CloudInv, upload
    <2>5. AnswerSound(c)'
      <3>1. Len(log') = n + 1 /\ log'[n + 1] = [type |-> "unbound", dev |-> d, online |-> FALSE]
        BY <1>2, <1>3, <1>4, <1>8, <2>3, PublishKeeps DEF CloudInv, list
      <3>2. n + 1 \in 1 .. Len(log')
        BY <3>1
      <3>3. Cleared(n + 1, d)'
        BY <3>1 DEF Cleared
      <3> QED BY <2>2, <3>2, <3>3 DEF AnswerSound
    <2> QED BY <1>3, <1>4, <1>8, <2>1, <2>3, <2>4, <2>5, ServeEvent
  <1>9. CASE /\ calls[i].type = "bind" /\ bound' = bound \cup {d}
             /\ calls' = [calls EXCEPT ![i].stage = "ok"]
             /\ Published("bound", d, online[d]) /\ UNCHANGED code
    <2>1. PICK c \in AnyCall : c = [calls[i] EXCEPT !.stage = "ok"]
      BY <1>0 DEF AnyCall, Stages
    <2>2. c.type = "bind"
      BY <1>0, <1>9, <2>1 DEF AnyCall
    <2>3. AnswerSound(c)'
      BY <2>2 DEF AnswerSound
    <2>4. calls' = [calls EXCEPT ![i] = c]
      BY <1>0, <1>9, <2>1
    <2>5. Told("bound", d, online[d]) /\ online[d] \in BOOLEAN
      BY <1>3, <1>4, <1>9 DEF Told
    <2>6. Uploads'
      <3>1. \A j \in Slots : calls'[j] = calls[j] \/ (calls[j].type # "upload" /\ calls'[j].type # "upload")
        BY <1>0, <1>9, <2>2, <2>4
      <3> QED BY <1>3, <1>9, <3>1, UploadsKept DEF CloudInv, upload
    <2> QED BY <1>3, <1>4, <1>9, <2>3, <2>4, <2>5, <2>6, ServeEvent
  <1>10. CASE /\ calls[i].type = "upload"
              /\ code' = [code EXCEPT ![calls[i].dev] = calls[i].val.code]
              /\ calls' = [calls EXCEPT ![i].stage = "ok", ![i].rev = n + 1]
              /\ IF calls[i].dev \in bound THEN Published("code", calls[i].dev, FALSE)
                 ELSE UNCHANGED <<log, wire>>
              /\ UNCHANGED bound
    BY <1>2, <1>3, <1>10, ServeUpload
  <1> QED
    <2>1. n = Rev
      BY <1>2 DEF Rev
    <2> QED BY <1>1, <2>1, <1>5, <1>6, <1>7, <1>8, <1>9, <1>10 DEF Serve

----------------------------------------------------------------------------
(***************************************************************************)
(* The answers.                                                            *)
(***************************************************************************)

\* The row of one device is written, and one call is over.
LEMMA OneRow ==
    ASSUME CloudInv, UNCHANGED <<bound, online, code, log, applied>>, NEW d \in Devices,
           \A x \in Devices \ {d} : rows'[x] = rows[x] /\ devRev'[x] = devRev[x],
           touched \subseteq touched', crossed => crossed',
           NEW i \in Slots, \A j \in Slots \ {i} : calls'[j] = calls[j],
           \A x \in Devices \ {d} : ~Fixes(calls[i], x),
           NEW row, row = rows'[d], code[d] = 0 => row.code = 0,
           d \notin touched' => \A r \in After(applied) : Presence(r, d) \/ Coded(r, d) => r > devRev'[d],
           d \notin touched' /\ applied > 0 => Shows(row, applied, d),
           d \notin touched' /\ applied > 0 /\ (d # Own \/ ~crossed') /\ row.here /\ row.code \notin {0, code[d]} =>
               CodeComes(applied, d) \/ \E j \in Slots \ {i} : Fixes(calls[j], d)
    PROVE  ListSound'
  <1>1. PICK a : a = applied /\ a = applied'
    OBVIOUS
  <1>2. /\ \A row1, rev, x : Shows(row1, rev, x) => Shows(row1, rev, x)'
        /\ \A rev, x : CodeComes(rev, x) => CodeComes(rev, x)'
        /\ \A c, x : Fixes(c, x) => Fixes(c, x)'
    BY SameServer
  <1>3. After(a)' = After(a) /\ \A r, x : (Presence(r, x)' <=> Presence(r, x)) /\ (Coded(r, x)' <=> Coded(r, x))
    BY DEF After, Presence, Coded
  <1>4. \A x : \A j \in Slots \ {i} : Fixes(calls[j], x) => Fixes(calls[j], x)'
    <2> SUFFICES ASSUME NEW x, NEW j \in Slots \ {i}, Fixes(calls[j], x)
                 PROVE  Fixes(calls[j], x)'
      OBVIOUS
    <2>1. PICK c : c = calls[j] /\ c = calls'[j]
      OBVIOUS
    <2>2. Fixes(c, x)'
      BY <1>2, <2>1
    <2> QED BY <2>1, <2>2
  <1>5. \A x \in Devices : code'[x] = 0 => rows'[x].code = 0
    <2>1. \A x \in Devices \ {d} : code'[x] = 0 => rows'[x].code = 0
      BY DEF CloudInv, ListSound
    <2> QED BY <2>1
  <1>6. ASSUME NEW x \in Devices \ touched', NEW r \in After(a), Presence(r, x) \/ Coded(r, x)
        PROVE  r > devRev'[x]
    <2>1. CASE x = d
      BY <1>1, <1>6, <2>1
    <2>2. CASE x # d
      BY <1>1, <1>6, <2>2 DEF CloudInv, ListSound
    <2> QED BY <2>1, <2>2
  <1>7. ASSUME a > 0, NEW x \in Devices \ touched'
        PROVE  /\ Shows(rows[x], a, x)'
               /\ (x # Own \/ ~crossed') /\ rows'[x].here /\ rows'[x].code \notin {0, code'[x]} =>
                     CodeComes(a, x)' \/ \E j \in Slots : Fixes(calls[j], x)'
    <2>1. PICK s : s = rows'[x]
      OBVIOUS
    <2>2. Shows(s, a, x)
      <3>1. CASE x = d
        BY <1>1, <1>7, <2>1, <3>1
      <3>2. CASE x # d
        BY <1>1, <1>7, <2>1, <3>2 DEF CloudInv, ListSound
      <3> QED BY <3>1, <3>2
    <2>3. ASSUME x # Own \/ ~crossed', s.here, s.code \notin {0, code[x]}
          PROVE  CodeComes(a, x) \/ \E j \in Slots \ {i} : Fixes(calls[j], x)
      <3>1. CASE x = d
        BY <1>1, <1>7, <2>1, <2>3, <3>1
      <3>2. CASE x # d
        <4>1. CodeComes(a, x) \/ \E j \in Slots : Fixes(calls[j], x)
          BY <1>1, <1>7, <2>1, <2>3, <3>2 DEF CloudInv, ListSound
        <4> QED BY <3>2, <4>1
      <3> QED BY <3>1, <3>2
    <2>4. Shows(s, a, x)'
      BY <1>2, <2>2
    <2>5. (x # Own \/ ~crossed') /\ s.here /\ s.code \notin {0, code[x]} =>
                     CodeComes(a, x)' \/ \E j \in Slots : Fixes(calls[j], x)'
      BY <1>2, <1>4, <2>3
    <2> QED BY <2>1, <2>4, <2>5
  <1>8. /\ After(applied)' = After(a)
        /\ \A x : Shows(rows[x], a, x)' => Shows(rows[x], applied, x)'
        /\ \A x : CodeComes(a, x)' => CodeComes(applied, x)'
    BY <1>1, <1>3
  <1> QED BY <1>1, <1>3, <1>5, <1>6, <1>7, <1>8 DEF ListSound

LEMMA AnswerKeeps ==
    ASSUME CloudInv, UNCHANGED <<server, logged, socket, serverRev, applied, hostCode, secret, overlap, losses>>,
           NEW i \in Slots, calls' = [calls EXCEPT ![i] = Idle],
           rows' \in [Devices -> AnyRow], devRev' \in [Devices -> 0 .. serverRev], touched' \subseteq Devices,
           synced' \in 0 .. hostCode, crossed' \in BOOLEAN, crossed => crossed', failed' \in BOOLEAN,
           IF calls[i].type = "upload" /\ calls[i].stage = "ok" THEN synced' = calls[i].val.code ELSE synced' = synced,
           failed' = (failed \/ (calls[i].type = "upload" /\ calls[i].stage # "ok")), ListSound'
    PROVE  CloudInv'
  <1>0. UNCHANGED <<bound, online, code, log, token, sock, wire, boot, timer>>
    BY DEF server, socket
  <1>1. PICK c \in AnyCall : c = Idle /\ c.type = "none"
    <2>1. Idle \in AnyCall /\ Idle.type = "none"
      <3>1. "none" \in CallTypes /\ "sent" \in Stages /\ Own \in Devices /\ None \in AnyRow /\ 0 \in 0 .. MaxRev + 1
        BY CloudAssumption, RowFacts DEF CallTypes, Stages
      <3> QED BY <3>1 DEF Idle, Call, AnyCall
    <2> QED BY <2>1
  <1>2. calls' \in [Slots -> AnyCall] /\ calls'[i] = c /\ \A j \in Slots \ {i} : calls'[j] = calls[j]
    BY <1>1 DEF CloudInv, Typed, CallsTypes
  <1>3. GoesOn
    BY <1>0, SameGoesOn DEF CloudInv
  <1>4. Typed'
    BY <1>0, <1>2 DEF CloudInv, Typed, ServerTypes, SocketTypes, ListTypes, CallsTypes, FlagTypes
  <1>5. Answers'
    <2>1. AnswerSound(c)'
      BY <1>1 DEF AnswerSound
    <2>2. \A j \in Slots : calls'[j] = calls[j] \/ \E x \in AnyCall : calls'[j] = x /\ AnswerSound(x)'
      BY <1>2, <2>1
    <2> QED BY <1>3, <2>2, AnswersKept DEF CloudInv
  <1>6. Uploads'
    <2>1. ASSUME NEW j \in Slots
          PROVE  UploadSound(calls[j])'
      <3>1. CASE j = i
        BY <1>1, <1>2, <3>1 DEF UploadSound
      <3>2. CASE j # i
        <4>1. calls'[j] = calls[j] /\ UploadSound(calls[j])
          BY <1>2, <3>2 DEF CloudInv, Uploads
        <4> QED BY <1>0, <4>1 DEF UploadSound
      <3> QED BY <3>1, <3>2
    <2>2. UploadSound(calls[i]) /\ hostCode \in Nat
      BY NumberFacts DEF CloudInv, Uploads, Typed, CallsTypes, Codes
    <2>3. hostCode > 0 /\ ~overlap /\ synced' = hostCode => code[Own] = hostCode
      BY <2>2 DEF CloudInv, Uploads, UploadSound
    <2>4. ASSUME hostCode > 0, secret, ~overlap
          PROVE  synced' = hostCode \/ failed' \/ \E j \in Slots : calls'[j].type = "upload"
      <3>1. CASE calls[i].type = "upload"
        BY <2>2, <2>4, <3>1 DEF UploadSound
      <3>2. CASE calls[i].type # "upload"
        BY <1>2, <2>4, <3>2 DEF CloudInv, Uploads
      <3> QED BY <3>1, <3>2
    <2>5. overlap' => crossed'
      BY DEF CloudInv, Uploads
    <2> QED BY <1>0, <2>1, <2>3, <2>4, <2>5 DEF Uploads
  <1>7. Frames'
    BY <1>0, <1>3, FramesKept DEF CloudInv, GoesOn
  <1>8. Covered'
    BY <1>0 DEF CloudInv, Covered, After, Covers
  <1> QED BY <1>3, <1>4, <1>5, <1>6, <1>7, <1>8 DEF CloudInv, GoesOn

\* An answer that fits: no event about its device is between what it knows and what was heard.
LEMMA FitFacts ==
    ASSUME Typed, NEW d \in Devices, NEW rev \in 1 .. Len(log), ~Misfit(d, rev)
    PROVE  /\ \A r \in After(rev) : Presence(r, d) \/ Coded(r, d) \/ Cleared(r, d) => r \in After(applied)
           /\ \A r \in After(applied) : Presence(r, d) \/ Coded(r, d) => r > serverRev
  <1>1. /\ Len(log) \in Nat /\ applied \in Nat /\ serverRev \in Nat /\ applied <= serverRev /\ serverRev <= Len(log)
    BY NumberFacts
  <1>2. \A r \in (rev + 1 .. applied) \cup (applied + 1 .. serverRev) : ~(Presence(r, d) \/ Coded(r, d) \/ Cleared(r, d))
    BY DEF Misfit, Presence, Coded, Cleared
  <1>3. \A r \in After(rev) : r \in rev + 1 .. applied \/ r \in After(applied)
    BY <1>1 DEF After
  <1>4. \A r \in After(applied) : r \in applied + 1 .. serverRev \/ r > serverRev
    BY <1>1 DEF After
  <1> QED BY <1>2, <1>3, <1>4

LEMMA AnswerStep ==
    ASSUME CloudInv, NEW i \in Slots, Answer(i)
    PROVE  CloudInv'
  <1>0. /\ UNCHANGED <<server, logged, socket, serverRev, applied, hostCode, secret, overlap, losses>>
        /\ calls' = [calls EXCEPT ![i] = Idle] /\ calls[i].stage # "sent"
        /\ UNCHANGED <<bound, online, code, log, token, sock, wire, boot, timer>>
    BY DEF Answer, server, socket
  <1>1. PICK c \in AnyCall : c = calls[i]
    BY DEF CloudInv, Typed, CallsTypes
  <1>2. PICK d \in Devices : d = c.dev
    BY DEF AnyCall
  <1>3. /\ calls \in [Slots -> AnyCall] /\ rows \in [Devices -> AnyRow] /\ devRev \in [Devices -> 0 .. serverRev]
        /\ touched \subseteq Devices /\ synced \in 0 .. hostCode /\ FlagTypes /\ hostCode \in Nat
        /\ rows[d] \in AnyRow /\ devRev[d] \in 0 .. serverRev /\ serverRev \in Nat
        /\ code \in [Devices -> Codes] /\ applied \in Nat /\ Len(log) \in Nat
        /\ crossed \in BOOLEAN /\ failed \in BOOLEAN
    BY NumberFacts DEF CloudInv, Typed, ServerTypes, ListTypes, CallsTypes, FlagTypes
  <1>4. \A j \in Slots \ {i} : calls'[j] = calls[j]
    BY <1>0, <1>3
  <1>5. \A x \in Devices \ {d} : ~Fixes(calls[i], x)
    BY <1>1, <1>2 DEF Fixes
  <1>6. AnswerSound(c) /\ UploadSound(c)
    BY <1>1 DEF CloudInv, Answers, Uploads
  <1>7. /\ rows[d].online \in BOOLEAN /\ rows[d].code \in Codes /\ rows[d].here \in BOOLEAN
        /\ c.val \in AnyRow /\ c.val.code \in Codes /\ c.val.online \in BOOLEAN
    <2>1. c.val \in AnyRow
      BY DEF AnyCall
    <2> QED BY <1>3, <2>1, RowFacts
  <1>8. CASE RefreshAnswer(c)
    <2>1. /\ c.type = "refresh" /\ c.stage = "ok" /\ c.val.code # 0 /\ UNCHANGED <<synced, crossed, failed>>
          /\ rows' = [rows EXCEPT ![d] = IF rows[d].here THEN Row(rows[d].online, c.val.code) ELSE c.val]
          /\ devRev' = [devRev EXCEPT ![d] = IF serverRev > @ THEN serverRev ELSE @]
          /\ touched' = IF Misfit(d, c.rev) THEN touched \cup {d} ELSE touched
      BY <1>2, <1>8 DEF RefreshAnswer
    <2>2. c.val.here /\ c.rev \in 1 .. Len(log) /\ Image(c.val, c.rev, d)
      BY <1>2, <1>6, <2>1 DEF AnswerSound
    <2>3. PICK row \in AnyRow : /\ row = rows'[d] /\ row.here /\ row.code = c.val.code
                                /\ rows[d].here => row.online = rows[d].online
                                /\ ~rows[d].here => row = c.val
      <3>1. CASE rows[d].here
        <4>1. rows'[d] = Row(rows[d].online, c.val.code)
          BY <1>3, <2>1, <3>1
        <4>2. PICK o \in BOOLEAN, v \in Codes : o = rows[d].online /\ v = c.val.code
          BY <1>7
        <4>3. Row(o, v) \in AnyRow /\ Row(o, v).here /\ Row(o, v).online = o /\ Row(o, v).code = v
          BY RowFacts
        <4>4. rows'[d] = Row(o, v)
          BY <4>1, <4>2
        <4> QED BY <3>1, <4>2, <4>3, <4>4
      <3>2. CASE ~rows[d].here
        BY <1>3, <1>7, <2>1, <2>2, <3>2
      <3> QED BY <3>1, <3>2
    <2>4. rows' \in [Devices -> AnyRow] /\ \A x \in Devices \ {d} : rows'[x] = rows[x]
      BY <1>3, <2>1, <2>3
    <2>5. /\ devRev' \in [Devices -> 0 .. serverRev] /\ devRev'[d] = serverRev
          /\ \A x \in Devices \ {d} : devRev'[x] = devRev[x]
      <3>1. devRev' = [devRev EXCEPT ![d] = serverRev]
        <4>1. (IF serverRev > devRev[d] THEN serverRev ELSE devRev[d]) = serverRev
          BY <1>3
        <4>2. devRev' = [devRev EXCEPT ![d] = IF serverRev > devRev[d] THEN serverRev ELSE devRev[d]]
          BY <1>3, <2>1
        <4> QED BY <4>1, <4>2
      <3> QED BY <1>3, <3>1
    <2>6. touched \subseteq touched' /\ touched' \subseteq Devices /\ (d \notin touched' => d \notin touched /\ ~Misfit(d, c.rev))
      BY <1>3, <2>1
    <2>7. code[d] # 0
      BY <2>1, <2>2 DEF Image
    <2>8. d \notin touched' =>
              /\ \A r \in After(c.rev) : Presence(r, d) \/ Coded(r, d) \/ Cleared(r, d) => r \in After(applied)
              /\ \A r \in After(applied) : Presence(r, d) \/ Coded(r, d) => r > devRev'[d]
      BY <2>2, <2>5, <2>6, FitFacts DEF CloudInv
    <2>9. ASSUME d \notin touched', applied > 0
          PROVE  Shows(row, applied, d)
      <3>1. CASE rows[d].here
        <4>1. Shows(rows[d], applied, d)
          BY <2>6, <2>9 DEF CloudInv, ListSound
        <4> QED BY <2>3, <3>1, <4>1 DEF Shows
      <3>2. CASE ~rows[d].here
        <4>1. Shows(row, c.rev, d)
          BY <2>2, <2>3, <3>2 DEF Image
        <4>2. (\A r \in After(applied) : ~Presence(r, d)) => \A r \in After(c.rev) : ~Presence(r, d)
          BY <2>8, <2>9
        <4> QED BY <2>3, <4>1, <4>2 DEF Shows
      <3> QED BY <3>1, <3>2
    <2>10. ASSUME d \notin touched', row.code \notin {0, code[d]}
           PROVE  CodeComes(applied, d)
      <3>1. CodeComes(c.rev, d)
        BY <2>2, <2>3, <2>10 DEF Image
      <3>2. PICK r \in After(c.rev) : Coded(r, d) \/ Cleared(r, d)
        BY <3>1 DEF CodeComes
      <3> QED BY <2>8, <2>10, <3>2 DEF CodeComes
    <2>11. ListSound'
      BY <1>0, <1>4, <1>5, <2>1, <2>3, <2>4, <2>5, <2>6, <2>7, <2>8, <2>9, <2>10, OneRow
    <2> QED BY <1>0, <1>1, <1>3, <2>1, <2>4, <2>5, <2>6, <2>11, AnswerKeeps
  <1>9. CASE UnbindAnswer(c)
    <2>1. /\ c.type = "unbind" /\ c.stage = "ok" /\ UNCHANGED <<devRev, synced, crossed, failed>>
          /\ rows' = [rows EXCEPT ![d] = None]
          /\ touched' = IF Misfit(d, c.rev) THEN touched \cup {d} ELSE touched
      BY <1>2, <1>9 DEF UnbindAnswer
    <2>2. c.rev \in 1 .. Len(log) /\ Cleared(c.rev, d)
      BY <1>2, <1>6, <2>1 DEF AnswerSound
    <2>3. PICK row \in AnyRow : row = None /\ ~row.here /\ row.code = 0
      BY RowFacts
    <2>4. rows' \in [Devices -> AnyRow] /\ rows'[d] = row /\ \A x \in Devices \ {d} : rows'[x] = rows[x]
      BY <1>3, <2>1, <2>3
    <2>5. touched \subseteq touched' /\ touched' \subseteq Devices /\ (d \notin touched' => d \notin touched /\ ~Misfit(d, c.rev))
      BY <1>3, <2>1
    <2>6. d \notin touched' =>
              \A r \in After(c.rev) : Presence(r, d) \/ Coded(r, d) \/ Cleared(r, d) => r \in After(applied)
      BY <2>2, <2>5, FitFacts DEF CloudInv
    <2>7. d \notin touched' => \A r \in After(applied) : Presence(r, d) \/ Coded(r, d) => r > devRev'[d]
      BY <2>1, <2>5 DEF CloudInv, ListSound
    <2>8. log[c.rev].type = "unbound" /\ Presence(c.rev, d)
      BY <2>2 DEF Cleared, Presence
    <2>9. ASSUME d \notin touched'
          PROVE  Shows(row, applied, d)
      <3>1. CASE c.rev \in After(applied)
        BY <2>3, <2>8, <3>1 DEF Shows
      <3>2. CASE c.rev \notin After(applied)
        <4>1. c.rev \in Nat /\ c.rev <= applied
          BY <1>3, <2>2, <3>2 DEF After
        <4>2. ASSUME \A r \in After(applied) : ~Presence(r, d)
              PROVE  d \notin bound
          <5>1. \A r \in After(c.rev) : ~Presence(r, d)
            BY <2>6, <2>9, <4>2
          <5> QED BY <2>2, <2>8, <5>1 DEF CloudInv, LastWord
        <4>3. ASSUME NEW r \in After(applied), Coded(r, d)
              PROVE  \E q \in After(applied) : Presence(q, d)
          <5>1. r \in 1 .. Len(log) /\ c.rev < r
            BY <1>3, <4>1 DEF After
          <5>2. PICK q \in c.rev + 1 .. r - 1 : Presence(q, d)
            BY <2>2, <4>3, <5>1 DEF CloudInv, CodesWhileBound
          <5>3. q \in After(c.rev)
            BY <1>3, <4>1, <5>1 DEF After
          <5> QED BY <2>6, <2>9, <5>2, <5>3
        <4> QED BY <2>3, <4>2, <4>3 DEF Shows
      <3> QED BY <3>1, <3>2
    <2>10. ListSound'
      BY <1>0, <1>4, <1>5, <2>1, <2>3, <2>4, <2>5, <2>7, <2>9, OneRow
    <2> QED BY <1>0, <1>1, <1>3, <2>1, <2>4, <2>5, <2>10, AnswerKeeps
  <1>10. CASE SyncedAnswer(c)
    <2>1. /\ c.type = "upload" /\ c.stage = "ok" /\ synced' = c.val.code /\ UNCHANGED <<devRev, touched, crossed, failed>>
          /\ rows' = IF rows[d].here THEN [rows EXCEPT ![d].code = c.val.code] ELSE rows
      BY <1>2, <1>10 DEF SyncedAnswer
    <2>2. d = Own /\ c.val.code \in 1 .. hostCode /\ code[Own] # 0 /\ (~crossed => c.val.code = code[Own])
      <3>1. overlap => crossed
        BY DEF CloudInv, Uploads
      <3> QED BY <1>2, <1>6, <2>1, <3>1 DEF UploadSound
    <2>3. PICK row \in AnyRow : /\ row.here = rows[d].here /\ row.online = rows[d].online
                                /\ rows[d].here => row.code = c.val.code
                                /\ ~rows[d].here => row = rows[d]
                                /\ rows'[d] = row
      <3>1. CASE rows[d].here
        <4>1. rows'[d] = [rows[d] EXCEPT !.code = c.val.code]
          BY <1>3, <2>1, <3>1
        <4>2. rows[d] \in CodedRow
          BY <1>3, <3>1, RowFacts DEF AnyRow
        <4> QED BY <1>7, <3>1, <4>1, <4>2 DEF AnyRow, CodedRow
      <3>2. CASE ~rows[d].here
        BY <1>3, <2>1, <3>2
      <3> QED BY <3>1, <3>2
    <2>4. rows' \in [Devices -> AnyRow] /\ \A x \in Devices \ {d} : rows'[x] = rows[x]
      <3>1. CASE rows[d].here
        <4>1. rows' = [rows EXCEPT ![d] = row]
          BY <1>3, <2>1, <2>3, <3>1
        <4> QED BY <1>3, <4>1
      <3>2. CASE ~rows[d].here
        BY <1>3, <2>1, <3>2
      <3> QED BY <3>1, <3>2
    <2>5. d \notin touched' => \A r \in After(applied) : Presence(r, d) \/ Coded(r, d) => r > devRev'[d]
      BY <2>1 DEF CloudInv, ListSound
    <2>6. d \notin touched' /\ applied > 0 => Shows(row, applied, d)
      <3>1. d \notin touched' /\ applied > 0 => Shows(rows[d], applied, d)
        BY <2>1 DEF CloudInv, ListSound
      <3> QED BY <2>3, <3>1 DEF Shows
    <2>7. (d # Own \/ ~crossed') /\ row.here => row.code \in {0, code[d]}
      BY <2>1, <2>2, <2>3
    <2>8. code[d] # 0 /\ synced' \in 0 .. hostCode
      BY <1>3, <2>1, <2>2
    <2>9. ListSound'
      BY <1>0, <1>4, <1>5, <2>1, <2>3, <2>4, <2>5, <2>6, <2>7, <2>8, OneRow
    <2> QED BY <1>0, <1>1, <1>3, <2>1, <2>4, <2>8, <2>9, AnswerKeeps
  <1>11. CASE OtherAnswer(c)
    <2>1. /\ \/ c.stage \in {"missing", "failed"}
             \/ c.stage = "ok" /\ c.type = "bind"
             \/ c.stage = "ok" /\ c.type = "refresh" /\ c.val.code = 0
          /\ touched' = IF c.type = "refresh" /\ c.stage = "failed" THEN touched \cup {d} ELSE touched
          /\ crossed' = (crossed \/ (c.type = "upload" /\ c.stage = "failed"))
          /\ failed' = (failed \/ (c.type = "upload" /\ c.stage = "failed"))
          /\ UNCHANGED <<rows, devRev, synced>>
      BY <1>2, <1>11 DEF OtherAnswer
    <2>2. c.type = "upload" => c.stage = "failed"
      BY <1>0, <1>1, <1>6, <2>1 DEF UploadSound
    <2>3. d \notin touched' => ~Fixes(calls[i], d)
      BY <1>1, <2>1 DEF Fixes
    <2>4. PICK row : row = rows[d]
      OBVIOUS
    <2>5. /\ touched \subseteq touched' /\ touched' \subseteq Devices /\ crossed' \in BOOLEAN /\ (crossed => crossed')
          /\ failed' \in BOOLEAN /\ failed' = (failed \/ (c.type = "upload" /\ c.stage # "ok"))
          /\ ~(c.type = "upload" /\ c.stage = "ok") /\ synced' = synced
      BY <1>3, <2>1, <2>2
    <2>6. code[d] = 0 => row.code = 0
      BY <2>4 DEF CloudInv, ListSound
    <2>7. d \notin touched' => \A r \in After(applied) : Presence(r, d) \/ Coded(r, d) => r > devRev'[d]
      BY <2>1, <2>5 DEF CloudInv, ListSound
    <2>8. d \notin touched' /\ applied > 0 => Shows(row, applied, d)
      BY <2>4, <2>5 DEF CloudInv, ListSound
    <2>9. ASSUME d \notin touched', applied > 0, d # Own \/ ~crossed', row.here, row.code \notin {0, code[d]}
          PROVE  CodeComes(applied, d) \/ \E j \in Slots \ {i} : Fixes(calls[j], d)
      <3>1. CodeComes(applied, d) \/ \E j \in Slots : Fixes(calls[j], d)
        BY <2>4, <2>5, <2>9 DEF CloudInv, ListSound
      <3> QED BY <2>3, <2>9, <3>1
    <2>10. ListSound'
      BY <1>0, <1>4, <1>5, <2>1, <2>4, <2>5, <2>6, <2>7, <2>8, <2>9, OneRow
    <2> QED BY <1>0, <1>1, <1>3, <2>1, <2>5, <2>10, AnswerKeeps
  <1> QED BY <1>1, <1>8, <1>9, <1>10, <1>11 DEF Answer

----------------------------------------------------------------------------
(***************************************************************************)
(* The socket.                                                             *)
(***************************************************************************)

\* A step of the socket that keeps the list or forgets its revisions.
LEMMA SocketStep ==
    ASSUME CloudInv, UNCHANGED <<bound, online, code, log, rows, calls, hostCode, secret, synced, crossed, overlap, failed, touched>>,
           token' \in {"ok", "expired", "refreshing"}, losses' \in 0 .. MaxLosses,
           SocketTypes', Frames', Covered',
           \/ UNCHANGED <<serverRev, applied, devRev>>
           \/ serverRev' = 0 /\ applied' = 0 /\ devRev' = [d \in Devices |-> 0]
    PROVE  CloudInv'
  <1>1. GoesOn
    BY SameGoesOn DEF CloudInv
  <1>2. ServerTypes' /\ CallsTypes'
    BY DEF CloudInv, Typed, ServerTypes, CallsTypes, FlagTypes
  <1>3. ListTypes'
    BY NumberFacts DEF CloudInv, Typed, ListTypes
  <1>4. \A i \in Slots : calls'[i] = calls[i]
    OBVIOUS
  <1>5. Answers'
    BY <1>1, <1>4, AnswersKept DEF CloudInv
  <1>6. Uploads'
    BY <1>4, UploadsKept DEF CloudInv, upload
  <1>7. ListSound'
    <2>1. CASE UNCHANGED <<serverRev, applied, devRev>>
      <3>1. \A d \in Devices \ touched : \A i \in Slots :
                 Fixes(calls[i], d) => \E j \in Slots : \E c : calls'[j] = c /\ Fixes(c, d)'
        BY <1>4 DEF Fixes
      <3> QED BY <1>1, <2>1, <3>1, ListKept DEF CloudInv
    <2>2. CASE serverRev' = 0 /\ applied' = 0 /\ devRev' = [d \in Devices |-> 0]
      <3>1. \A d \in Devices : code'[d] = 0 => rows'[d].code = 0
        BY DEF CloudInv, ListSound
      <3>2. PICK n \in Nat : n = Len(log)
        BY NumberFacts DEF CloudInv
      <3>3. After(applied)' = 0 + 1 .. n
        BY <2>2, <3>2 DEF After
      <3>4. \A d \in Devices, r \in 0 + 1 .. n : r > devRev'[d]
        BY <2>2
      <3>5. ~(applied' > 0)
        BY <2>2
      <3> QED BY <3>1, <3>3, <3>4, <3>5 DEF ListSound
    <2> QED BY <2>1, <2>2
  <1> QED BY <1>1, <1>2, <1>3, <1>5, <1>6, <1>7 DEF CloudInv, Typed, GoesOn

LEMMA TokenSteps ==
    ASSUME CloudInv, TokenExpires \/ TokenRefreshed
    PROVE  CloudInv'
  <1>1. /\ UNCHANGED <<bound, online, code, log, logged, sock, wire, boot, timer, serverRev, applied, rows, devRev,
                       calls, hostCode, secret, synced, crossed, overlap, failed, touched>>
        /\ token' \in {"ok", "expired", "refreshing"}
    BY DEF TokenExpires, TokenRefreshed, socket, list, upload
  <1>2. losses' \in 0 .. MaxLosses
    BY CloudAssumption DEF CloudInv, Typed, ServerTypes, TokenExpires, TokenRefreshed
  <1>3. SocketTypes'
    BY <1>1 DEF CloudInv, Typed, SocketTypes
  <1>4. GoesOn
    BY <1>1, SameGoesOn DEF CloudInv
  <1>5. Frames'
    BY <1>1, <1>4, FramesKept DEF CloudInv, GoesOn
  <1>6. Covered'
    BY <1>1 DEF CloudInv, Covered, After, Covers
  <1> QED BY <1>1, <1>2, <1>3, <1>5, <1>6, SocketStep

\* The socket goes away, or another is opened.
LEMMA SocketGone ==
    ASSUME CloudInv, UNCHANGED <<bound, online, code, log, rows, calls, hostCode, secret, synced, crossed, overlap, failed, touched>>,
           token' \in {"ok", "expired", "refreshing"}, losses' \in 0 .. MaxLosses,
           logged' \in BOOLEAN, timer' \in 0 .. 2, wire' = <<>>, boot' = FALSE, sock' \in {"none", "opening", "closed"},
           \/ UNCHANGED <<serverRev, applied, devRev>>
           \/ serverRev' = 0 /\ applied' = 0 /\ devRev' = [d \in Devices |-> 0]
    PROVE  CloudInv'
  <1>1. wire' \in Seq(AnyFrame) /\ Frames' /\ Covered'
    BY WireCleared
  <1>2. SocketTypes'
    BY <1>1 DEF SocketTypes
  <1> QED BY <1>1, <1>2, SocketStep

LEMMA StopSyncGone ==
    ASSUME CloudInv, stopSync
    PROVE  /\ wire' = <<>> /\ boot' = FALSE /\ sock' = "none"
           /\ \/ UNCHANGED <<serverRev, applied, devRev>>
              \/ serverRev' = 0 /\ applied' = 0 /\ devRev' = [d \in Devices |-> 0]
  BY DEF stopSync

LEMMA ClosingSteps ==
    ASSUME CloudInv, Login \/ Logout \/ SocketLost \/ ReconnectTimer
    PROVE  CloudInv'
  <1>1. /\ token \in {"ok", "expired", "refreshing"} /\ losses \in 0 .. MaxLosses
        /\ logged \in BOOLEAN /\ timer \in 0 .. 2 /\ sock \in {"none", "opening", "open", "closed"}
    BY DEF CloudInv, Typed, ServerTypes, SocketTypes
  <1>2. CASE Login
    BY <1>1, <1>2, SocketGone DEF Login, startSync, list, upload
  <1>3. CASE Logout
    <2>1. stopSync /\ logged' = FALSE
      BY <1>3 DEF Logout
    <2> QED BY <1>1, <1>3, <2>1, StopSyncGone, SocketGone DEF Logout, upload
  <1>4. CASE SocketLost
    <2>1. losses' \in 0 .. MaxLosses
      BY <1>1, <1>4, CloudAssumption DEF SocketLost
    <2>2. timer' \in 0 .. 2
      BY <1>1, <1>4 DEF SocketLost, onSyncDisconnected
    <2> QED BY <1>1, <1>4, <2>1, <2>2, SocketGone DEF SocketLost, onSyncDisconnected, server, list, upload
  <1>5. CASE ReconnectTimer
    <2>1. timer' \in 0 .. 2
      BY <1>1, <1>5 DEF ReconnectTimer
    <2>2. UNCHANGED <<bound, online, code, log, token, logged, serverRev, applied, devRev, rows, calls, hostCode,
                      secret, synced, crossed, overlap, failed, losses, touched>>
      BY <1>5 DEF ReconnectTimer, server, list, upload
    <2>3. CASE logged
      BY <1>1, <1>5, <2>1, <2>2, <2>3, SocketGone DEF ReconnectTimer, startSync
    <2>4. CASE ~logged
      <3>1. UNCHANGED <<sock, wire, boot>>
        BY <1>5, <2>4 DEF ReconnectTimer
      <3>2. GoesOn
        BY <2>2, SameGoesOn DEF CloudInv
      <3>3. Frames'
        BY <3>1, <3>2, FramesKept DEF CloudInv, GoesOn
      <3>4. Covered'
        BY <2>2, <3>1 DEF CloudInv, Covered, After, Covers
      <3>5. SocketTypes'
        BY <2>1, <2>2, <3>1 DEF CloudInv, Typed, SocketTypes
      <3> QED BY <1>1, <2>2, <3>3, <3>4, <3>5, SocketStep
    <2> QED BY <2>3, <2>4
  <1> QED BY <1>2, <1>3, <1>4, <1>5

LEMMA SyncConnectedStep ==
    ASSUME CloudInv, SyncConnected
    PROVE  CloudInv'
  <1>1. /\ UNCHANGED <<bound, online, code, log, token, logged, boot, timer, serverRev, applied, devRev, rows, calls,
                       hostCode, secret, synced, crossed, overlap, failed, losses, touched>>
        /\ sock = "opening" /\ sock' = "open"
    BY DEF SyncConnected, server, list, upload
  <1>2. wire' \in Seq(AnyFrame) /\ Frames' /\ Covered'
    <2>0. PICK n \in Nat : n = Len(log) /\ n >= 1 /\ n \in Revs
      BY NumberFacts DEF CloudInv, Revs
    <2>1. CASE token # "ok"
      <3>1. wire' = <<Frame("error", 0, NoRows)>>
        BY <2>1 DEF SyncConnected
      <3>2. PICK f \in AnyFrame : f = Frame("error", 0, NoRows) /\ f.type = "error" /\ f.rev = 0
        <4>1. 0 \in Revs
          BY CloudAssumption DEF Revs
        <4> QED BY <4>1, FrameFacts
      <3>3. wire' \in Seq(AnyFrame) /\ Len(wire') = 1 /\ wire'[1] = f
        BY <3>1, <3>2
      <3>4. ~boot' /\ Len(log') = n
        BY <1>1, <2>0 DEF CloudInv, Typed, SocketTypes
      <3>5. \A i \in 1 .. 1 : i = 1
        OBVIOUS
      <3>6. Frames'
        BY <2>0, <3>2, <3>3, <3>4, <3>5 DEF Frames
      <3>7. Covered'
        BY <3>2, <3>3, <3>5 DEF Covered
      <3> QED BY <3>3, <3>6, <3>7
    <2>2. CASE token = "ok"
      <3>1. PICK mid \in {<<Frame("snapshot", Rev, ServerRows)>>}
                           \cup (IF resumeFrom > 0 THEN {Replay(resumeFrom)} ELSE {}) :
               wire' = <<Frame("auth_ok", Rev, NoRows)>> \o mid \o <<Frame("done", Rev, NoRows)>>
        BY <2>2 DEF SyncConnected
      <3>2. wire' = <<Frame("auth_ok", Len(log), NoRows)>> \o mid \o <<Frame("done", Len(log), NoRows)>>
        BY <3>1 DEF Rev
      <3>3. CASE mid = <<Frame("snapshot", Rev, ServerRows)>>
        <4>1. ServerRows \in [Devices -> AnyRow]
          BY ServerImage DEF CloudInv, ServerRows
        <4>2. PICK f \in AnyFrame : f = Frame("snapshot", n, ServerRows) /\ f.type = "snapshot" /\ f.rev = n
                                    /\ f.rows = ServerRows
          BY <2>0, <4>1, FrameFacts
        <4>3. mid \in Seq(AnyFrame) /\ Len(mid) = 1 /\ mid[1] = f
          BY <2>0, <3>3, <4>2 DEF Rev
        <4>4. \A d \in Devices : Image(f.rows[d], f.rev, d)
          BY <2>0, <4>2, ServerImage DEF CloudInv
        <4>5. \A i \in 1 .. Len(mid) : i = 1
          BY <4>3
        <4>6. \A r \in After(applied) : Covers(f, r)
          BY <2>0, <4>2, NumberFacts DEF CloudInv, After, Covers
        <4>7. \A i \in 1 .. Len(mid) :
                 /\ mid[i].type = "event" \/ (mid[i].type = "snapshot" /\ Len(mid) = 1)
                 /\ mid[i].rev >= 1 /\ mid[i].rev <= Len(log)
                 /\ mid[i].type = "event" => mid[i].rev >= 2
                 /\ mid[i].type = "snapshot" => \A d \in Devices : Image(mid[i].rows[d], mid[i].rev, d)
                 /\ \A j \in 1 .. Len(mid) : i < j => mid[i].rev < mid[j].rev
          BY <2>0, <4>2, <4>3, <4>4, <4>5
        <4>8. \A r \in After(applied) : \E i \in 1 .. Len(mid) : Covers(mid[i], r)
          BY <4>3, <4>6
        <4> QED BY <1>1, <3>2, <4>3, <4>7, <4>8, WireOpened DEF CloudInv
      <3>4. CASE resumeFrom > 0 /\ mid = Replay(resumeFrom)
        <4>1. PICK a \in 1 .. n : a = applied
          BY <2>0, <3>4, NumberFacts DEF CloudInv, resumeFrom
        <4>2. mid = [i \in 1 .. n - a |-> Frame("event", a + i, NoRows)]
          BY <2>0, <3>4, <4>1 DEF Replay, Rev, resumeFrom
        <4>3. \A i \in 1 .. n - a : /\ mid[i] \in AnyFrame /\ mid[i].type = "event" /\ mid[i].rev = a + i
                                    /\ a + i >= 2 /\ a + i <= n
          <5> SUFFICES ASSUME NEW i \in 1 .. n - a
                       PROVE  /\ mid[i] \in AnyFrame /\ mid[i].type = "event" /\ mid[i].rev = a + i
                              /\ a + i >= 2 /\ a + i <= n
            OBVIOUS
          <5>3. MaxRev \in Nat /\ n <= MaxRev
            BY <2>0, CloudAssumption DEF Revs
          <5>4. a + i \in 0 .. MaxRev /\ a + i >= 2 /\ a + i <= n
            BY <4>1, <5>3
          <5>1. PICK r \in Revs : r = a + i /\ r >= 2 /\ r <= n
            BY <5>4 DEF Revs
          <5>2. mid[i] = Frame("event", r, NoRows)
            BY <4>2, <5>1
          <5> QED BY <5>1, <5>2, FrameFacts
        <4>4. mid \in Seq(AnyFrame) /\ Len(mid) = n - a
          <5>1. n - a \in Nat
            BY <4>1
          <5>2. mid \in [1 .. n - a -> AnyFrame]
            BY <4>2, <4>3
          <5> QED BY <5>1, <5>2
        <4>5. \A i \in 1 .. Len(mid) :
                 /\ mid[i].type = "event" \/ (mid[i].type = "snapshot" /\ Len(mid) = 1)
                 /\ mid[i].rev >= 1 /\ mid[i].rev <= Len(log)
                 /\ mid[i].type = "event" => mid[i].rev >= 2
                 /\ mid[i].type = "snapshot" => \A d \in Devices : Image(mid[i].rows[d], mid[i].rev, d)
                 /\ \A j \in 1 .. Len(mid) : i < j => mid[i].rev < mid[j].rev
          BY <2>0, <4>3, <4>4
        <4>6. ASSUME NEW r \in After(applied)
              PROVE  \E i \in 1 .. Len(mid) : Covers(mid[i], r)
          <5>1. r \in a + 1 .. n
            BY <2>0, <4>1 DEF After
          <5>2. PICK i \in 1 .. n - a : r = a + i
            <6>1. r - a \in 1 .. n - a /\ r = a + (r - a)
              BY <4>1, <5>1
            <6> QED BY <6>1
          <5> QED BY <4>3, <4>4, <5>2 DEF Covers
        <4> QED BY <1>1, <3>2, <4>4, <4>5, <4>6, WireOpened DEF CloudInv
      <3> QED BY <3>1, <3>3, <3>4
    <2> QED BY <2>1, <2>2
  <1>3. SocketTypes'
    BY <1>1, <1>2 DEF CloudInv, Typed, SocketTypes
  <1>4. token' \in {"ok", "expired", "refreshing"} /\ losses' \in 0 .. MaxLosses
    BY <1>1 DEF CloudInv, Typed, ServerTypes
  <1> QED BY <1>1, <1>2, <1>3, <1>4, SocketStep

----------------------------------------------------------------------------
(***************************************************************************)
(* The frames that arrive.                                                 *)
(***************************************************************************)

\* A frame may send a call.
SentOrSame == \/ UNCHANGED calls
              \/ FreeSlot # {} /\ \E t \in {"refresh", "bind"} : \E d \in Devices : calls' = Send(t, d, None)

LEMMA SentOrSameFacts ==
    ASSUME CloudInv, SentOrSame, UNCHANGED <<bound, online, code, log, hostCode, secret, synced, crossed, overlap, failed>>
    PROVE  /\ CallsTypes' /\ Answers' /\ Uploads'
           /\ \A x : \A j \in Slots : Fixes(calls[j], x) => \E k \in Slots : Fixes(calls[k], x)'
  <1>1. calls \in [Slots -> AnyCall]
    BY DEF CloudInv, Typed, CallsTypes
  <1>2. GoesOn
    BY SameGoesOn DEF CloudInv
  <1>3. ASSUME NEW x, NEW j \in Slots, calls'[j] = calls[j], Fixes(calls[j], x)
        PROVE  Fixes(calls[j], x)'
    BY <1>3 DEF Fixes
  <1>4. CASE UNCHANGED calls
    <2>1. \A j \in Slots : calls'[j] = calls[j]
      BY <1>4
    <2>2. CallsTypes'
      BY <1>4 DEF CloudInv, Typed, CallsTypes, FlagTypes
    <2> QED BY <1>2, <1>3, <2>1, <2>2, AnswersKept, UploadsKept DEF CloudInv, upload
  <1>5. CASE FreeSlot # {} /\ \E t \in {"refresh", "bind"} : \E d \in Devices : calls' = Send(t, d, None)
    <2>1. PICK t \in {"refresh", "bind"}, d \in Devices : calls' = Send(t, d, None)
      BY <1>5
    <2>2. PICK i \in Slots : calls[i].type = "none" /\ calls' = [calls EXCEPT ![i] = Call(t, d, "sent", None, 0)]
      BY <1>1, <1>5, <2>1, SendFacts
    <2>3. PICK c \in AnyCall : c = Call(t, d, "sent", None, 0)
      <3>1. t \in CallTypes /\ "sent" \in Stages /\ None \in AnyRow /\ 0 \in 0 .. MaxRev + 1
        BY RowFacts, CloudAssumption DEF CallTypes, Stages
      <3> QED BY <3>1 DEF Call, AnyCall
    <2>4. c.type = t /\ c.stage = "sent" /\ t # "upload"
      BY <2>3 DEF Call
    <2>5. calls' \in [Slots -> AnyCall] /\ calls'[i] = c /\ \A j \in Slots \ {i} : calls'[j] = calls[j]
      BY <1>1, <2>2, <2>3
    <2>6. CallsTypes'
      BY <2>5 DEF CloudInv, Typed, CallsTypes, FlagTypes
    <2>7. AnswerSound(c)'
      BY <2>4 DEF AnswerSound
    <2>8. Answers'
      BY <1>2, <2>5, <2>7, AnswersKept DEF CloudInv
    <2>9. Uploads'
      BY <2>2, <2>4, <2>5, UploadsKept DEF CloudInv, upload
    <2>10. \A x : \A j \in Slots : Fixes(calls[j], x) => \E k \in Slots : Fixes(calls[k], x)'
      <3>1. \A x : ~Fixes(calls[i], x)
        BY <2>2 DEF Fixes
      <3> QED BY <1>3, <2>5, <3>1
    <2> QED BY <2>6, <2>8, <2>9, <2>10
  <1> QED BY <1>4, <1>5 DEF SentOrSame

\* What is known of the frame at the head.
LEMMA HeadFacts ==
    ASSUME CloudInv, sock = "open", wire # <<>>, NEW f, f = Head(wire)
    PROVE  /\ f = wire[1] /\ f \in AnyFrame /\ f.rev \in 0 .. Len(log) /\ heardOf(f.rev) \in 0 .. Len(log)
           /\ f.rev <= heardOf(f.rev) /\ serverRev <= heardOf(f.rev) /\ heardOf(f.rev) \in Nat
           /\ f.type = "event" => f.rev >= 2
           /\ f.type = "snapshot" => f.rev >= 1 /\ \A d \in Devices : Image(f.rows[d], f.rev, d)
           /\ f.type = "done" => f.rev <= applied
           /\ f.type = "event" /\ f.rev > applied => f.rev = applied + 1
  <1>1. /\ wire \in Seq(AnyFrame) /\ Len(wire) \in Nat /\ Len(wire) # 0
        /\ serverRev \in Nat /\ serverRev <= Len(log) /\ applied \in Nat /\ Len(log) \in Nat
    BY NumberFacts, EmptySeq DEF CloudInv, Typed, SocketTypes
  <1>2. 1 \in 1 .. Len(wire) /\ f = wire[1]
    BY <1>1
  <1>3. f \in AnyFrame /\ f.rev \in Nat /\ f.rev <= Len(log)
    BY <1>2, NumberFacts, FrameFacts DEF CloudInv, Frames, Revs
  <1>4. /\ f.type = "event" => f.rev >= 2
        /\ f.type = "snapshot" => f.rev >= 1 /\ \A d \in Devices : Image(f.rows[d], f.rev, d)
    BY <1>2 DEF CloudInv, Frames
  <1>5. f.type = "done" => f.rev <= applied
    <2> SUFFICES ASSUME f.type = "done", f.rev > applied
                 PROVE  FALSE
      BY <1>1, <1>3
    <2>1. applied + 1 \in applied + 1 .. f.rev
      BY <1>1, <1>3
    <2>2. \E j \in 1 .. 1 - 1 : Covers(wire[j], applied + 1)
      BY <1>2, <2>1 DEF CloudInv, Covered
    <2> QED BY <2>2
  <1>6. f.type = "event" /\ f.rev > applied => f.rev = applied + 1
    <2> SUFFICES ASSUME f.type = "event", f.rev > applied
                 PROVE  f.rev = applied + 1
      OBVIOUS
    <2>1. \A i \in 1 .. Len(wire) : wire[i].type # "error"
      BY <1>2 DEF CloudInv, Frames
    <2>2. applied + 1 \in After(applied)
      BY <1>1, <1>3 DEF After
    <2>3. PICK i \in 1 .. Len(wire) : Covers(wire[i], applied + 1)
      BY <2>1, <2>2 DEF CloudInv, Covered
    <2>4. CASE i = 1
      BY <1>2, <2>3, <2>4 DEF Covers
    <2>5. CASE i # 1
      <3>1. 1 < i /\ ~(i < 1)
        BY <1>1, <2>5
      <3>2. wire[i].type # "snapshot"
        BY <1>2, <3>1 DEF CloudInv, Frames
      <3>3. wire[i].type = "event" /\ wire[i].rev = applied + 1
        BY <2>3, <3>2 DEF Covers
      <3>4. f.rev < applied + 1
        BY <1>2, <3>1, <3>3 DEF CloudInv, Frames
      <3> QED BY <1>1, <1>3, <3>4
    <2> QED BY <2>4, <2>5
  <1>7. /\ heardOf(f.rev) \in 0 .. Len(log) /\ f.rev <= heardOf(f.rev) /\ serverRev <= heardOf(f.rev) /\ heardOf(f.rev) \in Nat
    BY <1>1, <1>3 DEF heardOf
  <1> QED BY <1>1, <1>2, <1>3, <1>4, <1>5, <1>6, <1>7

\* A frame is taken off the wire.
LEMMA FrameTaken ==
    ASSUME CloudInv, UNCHANGED <<bound, online, code, log, token, losses, logged, sock, timer,
                                 hostCode, secret, synced, crossed, overlap, failed>>,
           sock = "open", wire # <<>>, wire' = Tail(wire), wire[1].type # "error", SentOrSame,
           boot' \in BOOLEAN, boot' => boot \/ wire[1].type = "done",
           serverRev' = heardOf(wire[1].rev), applied' \in 0 .. serverRev', applied <= applied',
           \A r \in applied' + 1 .. Len(log) : ~Covers(wire[1], r),
           rows' \in [Devices -> AnyRow], devRev' \in [Devices -> 0 .. serverRev'], touched' \subseteq Devices,
           ListSound'
    PROVE  CloudInv'
  <1>1. CallsTypes' /\ Answers' /\ Uploads'
    BY SentOrSameFacts
  <1>2. GoesOn
    BY SameGoesOn DEF CloudInv
  <1>3. serverRev' \in 0 .. Len(log)
    <2>1. PICK f : f = Head(wire)
      OBVIOUS
    <2>2. f = wire[1] /\ heardOf(f.rev) \in 0 .. Len(log)
      BY <2>1, HeadFacts
    <2> QED BY <2>2
  <1>4. wire' \in Seq(AnyFrame) /\ Frames' /\ Covered'
    <2>1. applied' \in Nat
      BY <1>3, NumberFacts DEF CloudInv
    <2> QED BY <2>1, WireTail DEF CloudInv
  <1>5. ServerTypes' /\ SocketTypes' /\ ListTypes'
    BY <1>3, <1>4 DEF CloudInv, Typed, ServerTypes, SocketTypes, ListTypes
  <1> QED BY <1>1, <1>2, <1>4, <1>5 DEF CloudInv, Typed, GoesOn

LEMMA ListStays ==
    ASSUME CloudInv, SentOrSame,
           UNCHANGED <<bound, online, code, log, hostCode, secret, synced, crossed, overlap, failed, applied, rows, devRev, touched>>
    PROVE  ListSound'
  <1>1. GoesOn
    BY SameGoesOn DEF CloudInv
  <1>2. \A x : \A j \in Slots : Fixes(calls[j], x) => \E k \in Slots : Fixes(calls[k], x)'
    BY SentOrSameFacts
  <1>3. \A x : \A k \in Slots : Fixes(calls[k], x)' => \E c : calls'[k] = c /\ Fixes(c, x)'
    <2> SUFFICES ASSUME NEW x, NEW k \in Slots, Fixes(calls[k], x)'
                 PROVE  \E c : calls'[k] = c /\ Fixes(c, x)'
      OBVIOUS
    <2>1. PICK c : c = calls'[k]
      OBVIOUS
    <2>2. Fixes(c, x)'
      BY <2>1
    <2> QED BY <2>1, <2>2
  <1> QED BY <1>1, <1>2, <1>3, ListKept DEF CloudInv

LEMMA PlainFrames ==
    ASSUME CloudInv, Deliver, NEW f, f = Head(wire), AuthOkFrame(f) \/ BootstrapDone(f)
    PROVE  CloudInv'
  <1>1. /\ UNCHANGED <<bound, online, code, log, hostCode, secret, synced, crossed, overlap, failed, losses>>
        /\ sock = "open" /\ wire # <<>>
    BY DEF Deliver, upload
  <1>2. /\ f = wire[1] /\ f \in AnyFrame /\ heardOf(f.rev) \in 0 .. Len(log) /\ serverRev <= heardOf(f.rev) /\ heardOf(f.rev) \in Nat
        /\ f.type = "done" => f.rev <= applied
    BY <1>1, HeadFacts
  <1>3. /\ applied \in Nat /\ applied <= serverRev /\ serverRev \in Nat /\ f.rev \in Nat
        /\ devRev \in [Devices -> 0 .. serverRev]
    BY <1>2, NumberFacts, FrameFacts DEF CloudInv, Typed, ListTypes, Revs
  <1>4. /\ serverRev' = heardOf(f.rev) /\ wire' = Tail(wire) /\ f.type \in {"auth_ok", "done"}
        /\ UNCHANGED <<rows, devRev, touched, logged, sock, timer, token>>
        /\ boot' \in BOOLEAN /\ (boot' => f.type = "done")
    BY DEF AuthOkFrame, BootstrapDone
  <1>5. applied' = applied
    <2>1. CASE AuthOkFrame(f)
      BY <2>1 DEF AuthOkFrame
    <2>2. CASE BootstrapDone(f)
      BY <1>2, <1>3, <2>2 DEF BootstrapDone
    <2> QED BY <2>1, <2>2
  <1>6. SentOrSame
    <2>1. CASE AuthOkFrame(f)
      BY <2>1 DEF AuthOkFrame, SentOrSame
    <2>2. CASE BootstrapDone(f)
      BY <2>2, CloudAssumption DEF BootstrapDone, bindHostDeviceIfReady, SentOrSame
    <2> QED BY <2>1, <2>2
  <1>7. ListSound'
    BY <1>1, <1>4, <1>5, <1>6, ListStays
  <1>8. /\ applied' \in 0 .. serverRev' /\ applied <= applied'
        /\ devRev' \in [Devices -> 0 .. serverRev']
    <2>1. applied \in 0 .. heardOf(f.rev)
      BY <1>2, <1>3
    <2>2. \A d \in Devices : devRev[d] \in 0 .. heardOf(f.rev)
      BY <1>2, <1>3
    <2>3. devRev \in [Devices -> 0 .. heardOf(f.rev)]
      BY <1>3, <2>2
    <2> QED BY <1>3, <1>4, <1>5, <2>1, <2>3
  <1>9. \A r : ~Covers(wire[1], r)
    BY <1>2, <1>4 DEF Covers
  <1>10. rows' \in [Devices -> AnyRow] /\ touched' \subseteq Devices
    BY <1>4 DEF CloudInv, Typed, ListTypes
  <1> QED BY <1>1, <1>2, <1>4, <1>6, <1>7, <1>8, <1>9, <1>10, FrameTaken

LEMMA SnapshotStep ==
    ASSUME CloudInv, Deliver, NEW f, f = Head(wire), SnapshotFrame(f)
    PROVE  CloudInv'
  <1>1. /\ UNCHANGED <<bound, online, code, log, hostCode, secret, synced, crossed, overlap, failed, losses>>
        /\ sock = "open" /\ wire # <<>>
    BY DEF Deliver, upload
  <1>2. /\ f = wire[1] /\ f \in AnyFrame /\ heardOf(f.rev) \in 0 .. Len(log) /\ serverRev <= heardOf(f.rev) /\ heardOf(f.rev) \in Nat
        /\ f.rev <= heardOf(f.rev)
        /\ f.type = "snapshot" => f.rev >= 1 /\ \A d \in Devices : Image(f.rows[d], f.rev, d)
    BY <1>1, HeadFacts
  <1>3. /\ applied \in Nat /\ applied <= serverRev /\ serverRev \in Nat /\ f.rev \in Nat /\ Len(log) \in Nat
        /\ devRev \in [Devices -> 0 .. serverRev]
    BY <1>2, NumberFacts, FrameFacts DEF CloudInv, Typed, ListTypes, Revs
  <1>4. /\ serverRev' = heardOf(f.rev) /\ wire' = Tail(wire) /\ f.type = "snapshot"
        /\ UNCHANGED <<logged, sock, boot, calls, timer, token>>
    BY DEF SnapshotFrame
  <1>5. SentOrSame /\ boot' \in BOOLEAN
    BY <1>4 DEF SentOrSame, CloudInv, Typed, SocketTypes
  <1>6. f.rows \in [Devices -> AnyRow]
    BY <1>2, <1>4, FrameFacts
  <1>7. CASE shouldApplyWireFrame(f.rev)
    <2>1. /\ f.rev > applied /\ applied' = f.rev /\ rows' = f.rows /\ touched' = {}
          /\ devRev' = [d \in Devices |-> IF f.rows[d].here THEN f.rev ELSE 0]
      BY <1>7 DEF SnapshotFrame, shouldApplyWireFrame
    <2>2. /\ applied' \in 0 .. serverRev' /\ applied <= applied'
          /\ devRev' \in [Devices -> 0 .. serverRev'] /\ \A d \in Devices : devRev'[d] <= f.rev /\ devRev'[d] \in Nat
      <3>1. f.rev \in 0 .. heardOf(f.rev) /\ 0 \in 0 .. heardOf(f.rev)
        BY <1>2, <1>3
      <3> QED BY <1>3, <1>4, <2>1, <3>1
    <2>3. \A r \in applied' + 1 .. Len(log) : ~Covers(wire[1], r)
      BY <1>2, <1>3, <1>4, <2>1 DEF Covers
    <2>4. ListSound'
      <3>1. PICK a \in Nat : a = f.rev /\ a = applied'
        BY <1>3, <2>1
      <3>2. \A row, x : /\ Shows(row, a, x) => Shows(row, a, x)'
                        /\ CodeComes(a, x) => CodeComes(a, x)'
        BY <1>1, SameServer
      <3>3. \A d \in Devices : code'[d] = 0 => rows'[d].code = 0
        BY <1>1, <1>2, <1>4, <2>1 DEF Image
      <3>4. After(applied)' = a + 1 .. Len(log)
        BY <1>1, <3>1 DEF After
      <3>5. \A d \in Devices, r \in a + 1 .. Len(log) : r > devRev'[d]
        BY <1>3, <2>2, <3>1
      <3>6. ASSUME NEW d \in Devices
            PROVE  /\ Shows(rows[d], applied, d)'
                   /\ rows'[d].here /\ rows'[d].code \notin {0, code'[d]} => CodeComes(applied, d)'
        <4>1. PICK row : row = rows'[d] /\ row = f.rows[d]
          BY <2>1
        <4>2. Image(row, a, d)
          BY <1>2, <1>4, <3>1, <4>1
        <4>3. Shows(row, a, d)'
          BY <3>2, <4>2 DEF Image
        <4>4. row.here /\ row.code \notin {0, code[d]} => CodeComes(a, d)'
          BY <3>2, <4>2 DEF Image
        <4> QED BY <1>1, <3>1, <4>1, <4>3, <4>4
      <3> QED BY <3>3, <3>4, <3>5, <3>6 DEF ListSound
    <2> QED BY <1>1, <1>2, <1>4, <1>5, <1>6, <2>1, <2>2, <2>3, <2>4, FrameTaken
  <1>8. CASE ~shouldApplyWireFrame(f.rev)
    <2>1. f.rev <= applied /\ UNCHANGED <<applied, rows, devRev, touched>>
      BY <1>2, <1>3, <1>4, <1>8 DEF SnapshotFrame, shouldApplyWireFrame
    <2>2. /\ applied' \in 0 .. serverRev' /\ applied <= applied'
          /\ devRev' \in [Devices -> 0 .. serverRev']
      <3>1. applied \in 0 .. heardOf(f.rev)
        BY <1>2, <1>3
      <3>2. \A d \in Devices : devRev[d] \in 0 .. heardOf(f.rev)
        BY <1>2, <1>3
      <3>3. devRev \in [Devices -> 0 .. heardOf(f.rev)]
        BY <1>3, <3>2
      <3> QED BY <1>3, <1>4, <2>1, <3>1, <3>3
    <2>3. \A r \in applied' + 1 .. Len(log) : ~Covers(wire[1], r)
      BY <1>2, <1>3, <1>4, <2>1 DEF Covers
    <2>4. ListSound'
      BY <1>1, <1>5, <2>1, ListStays
    <2>5. rows' \in [Devices -> AnyRow] /\ touched' \subseteq Devices
      BY <2>1 DEF CloudInv, Typed, ListTypes
    <2> QED BY <1>1, <1>2, <1>4, <1>5, <2>1, <2>2, <2>3, <2>4, <2>5, FrameTaken
  <1> QED BY <1>7, <1>8

LEMMA ErrorStep ==
    ASSUME CloudInv, Deliver, NEW f, ErrorFrame(f)
    PROVE  CloudInv'
  <1>1. /\ UNCHANGED <<bound, online, code, log, hostCode, secret, synced, crossed, overlap, failed, losses, logged, calls, touched,
                       serverRev, applied, rows, devRev>>
        /\ timer < 2 /\ wire' = <<>> /\ boot' = FALSE /\ sock' = "closed"
        /\ timer' = (IF logged THEN timer + 1 ELSE timer)
        /\ token' = IF token = "expired" THEN "refreshing" ELSE token
    BY DEF Deliver, upload, ErrorFrame, onSyncDisconnected, list
  <1>2. /\ token' \in {"ok", "expired", "refreshing"} /\ losses' \in 0 .. MaxLosses
        /\ logged' \in BOOLEAN /\ timer' \in 0 .. 2
    BY <1>1 DEF CloudInv, Typed, ServerTypes, SocketTypes
  <1> QED BY <1>1, <1>2, SocketGone

\* The next event is applied: only the row of its device may change.
LEMMA NextEvent ==
    ASSUME CloudInv, SentOrSame, UNCHANGED <<bound, online, code, log, hostCode, secret, synced, crossed, overlap, failed, touched>>,
           NEW rev \in 1 .. Len(log), rev = applied + 1, applied > 0, applied' = rev,
           NEW d \in Devices, d = log[rev].dev,
           \A x \in Devices \ {d} : rows'[x] = rows[x] /\ devRev'[x] = devRev[x],
           NEW row, row = rows'[d], code[d] = 0 => row.code = 0,
           d \notin touched => \A r \in After(rev) : Presence(r, d) \/ Coded(r, d) => r > devRev'[d],
           d \notin touched => Shows(row, rev, d),
           d \notin touched /\ (d # Own \/ ~crossed) /\ row.here /\ row.code \notin {0, code[d]} =>
               CodeComes(rev, d) \/ \E j \in Slots : Fixes(calls[j], d) \/ Fixes(calls[j], d)'
    PROVE  ListSound'
  <1>1. /\ \A row1, a, x : Shows(row1, a, x) => Shows(row1, a, x)'
        /\ \A a, x : CodeComes(a, x) => CodeComes(a, x)'
    BY SameServer
  <1>2. \A x : \A j \in Slots : Fixes(calls[j], x) => \E k \in Slots : Fixes(calls[k], x)'
    BY SentOrSameFacts
  <1>3. After(rev)' = After(rev) /\ \A r, x : (Presence(r, x)' <=> Presence(r, x)) /\ (Coded(r, x)' <=> Coded(r, x))
    BY DEF After, Presence, Coded
  <1>4. /\ \A r \in After(rev) : r \in After(applied)
        /\ \A r \in After(applied) : r \in After(rev) \/ r = rev
    BY NumberFacts DEF CloudInv, After
  <1>5. \A x \in Devices \ {d} : ~Presence(rev, x) /\ ~Coded(rev, x) /\ ~Cleared(rev, x)
    BY DEF Presence, Coded, Cleared
  <1>6. \A x \in Devices : code'[x] = 0 => rows'[x].code = 0
    <2>1. \A x \in Devices \ {d} : code'[x] = 0 => rows'[x].code = 0
      BY DEF CloudInv, ListSound
    <2> QED BY <2>1
  <1>7. ASSUME NEW x \in Devices \ touched, NEW r \in After(rev), Presence(r, x) \/ Coded(r, x)
        PROVE  r > devRev'[x]
    <2>1. CASE x = d
      BY <1>7, <2>1
    <2>2. CASE x # d
      BY <1>4, <1>7, <2>2 DEF CloudInv, ListSound
    <2> QED BY <2>1, <2>2
  <1>8. ASSUME NEW x \in Devices \ touched
        PROVE  /\ Shows(rows[x], rev, x)'
               /\ (x # Own \/ ~crossed') /\ rows'[x].here /\ rows'[x].code \notin {0, code'[x]} =>
                     CodeComes(rev, x)' \/ \E j \in Slots : Fixes(calls[j], x)'
    <2>1. PICK s : s = rows'[x]
      OBVIOUS
    <2>2. Shows(s, rev, x)
      <3>1. CASE x = d
        BY <1>8, <2>1, <3>1
      <3>2. CASE x # d
        <4>1. Shows(s, applied, x)
          BY <1>8, <2>1, <3>2 DEF CloudInv, ListSound
        <4> QED BY <1>4, <1>5, <3>2, <4>1 DEF Shows
      <3> QED BY <3>1, <3>2
    <2>3. ASSUME x # Own \/ ~crossed, s.here, s.code \notin {0, code[x]}
          PROVE  CodeComes(rev, x) \/ \E j \in Slots : Fixes(calls[j], x) \/ Fixes(calls[j], x)'
      <3>1. CASE x = d
        BY <1>8, <2>1, <2>3, <3>1
      <3>2. CASE x # d
        <4>1. CodeComes(applied, x) \/ \E j \in Slots : Fixes(calls[j], x)
          BY <1>8, <2>1, <2>3, <3>2 DEF CloudInv, ListSound
        <4>2. CodeComes(applied, x) => CodeComes(rev, x)
          BY <1>4, <1>5, <3>2 DEF CodeComes
        <4> QED BY <4>1, <4>2
      <3> QED BY <3>1, <3>2
    <2>4. Shows(s, rev, x)'
      BY <1>1, <2>2
    <2>5. (x # Own \/ ~crossed) /\ s.here /\ s.code \notin {0, code[x]} =>
                     CodeComes(rev, x)' \/ \E j \in Slots : Fixes(calls[j], x)'
      BY <1>1, <1>2, <2>3
    <2> QED BY <2>1, <2>4, <2>5
  <1>9. /\ After(applied)' = After(rev)
        /\ \A x : Shows(rows[x], rev, x)' => Shows(rows[x], applied, x)'
        /\ \A x : CodeComes(rev, x)' => CodeComes(applied, x)'
    BY <1>3 DEF After
  <1> QED BY <1>3, <1>6, <1>7, <1>8, <1>9 DEF ListSound

\* A row that is told of a presence, or kept.
LEMMA AppliedRow ==
    ASSUME CloudInv, NEW rev \in 1 .. Len(log), rev = applied + 1, applied > 0, NEW d \in Devices \ touched,
           d = log[rev].dev
    PROVE  /\ Presence(rev, d) \/ Coded(rev, d) => rev > devRev[d]
           /\ ~Presence(rev, d) => (rows[d].here => Shows(rows[d], rev, d)) /\ (~Coded(rev, d) => Shows(rows[d], rev, d))
           /\ Coded(rev, d) /\ ~rows[d].here => \E q \in After(rev) : Presence(q, d)
           /\ ~Coded(rev, d) /\ ~Cleared(rev, d) /\ (d # Own \/ ~crossed) /\ rows[d].here /\ rows[d].code \notin {0, code[d]} =>
                 CodeComes(rev, d) \/ \E j \in Slots : Fixes(calls[j], d)
           /\ Cleared(rev, d) => /\ (\A r \in After(rev) : ~Presence(r, d)) => d \notin bound
                                 /\ (\E r \in After(rev) : Coded(r, d)) => \E q \in After(rev) : Presence(q, d)
           /\ Presence(rev, d) /\ ~Cleared(rev, d) /\ (\A r \in After(rev) : ~Presence(r, d)) =>
                 d \in bound /\ online[d] = log[rev].online
  <1>1. /\ \A r \in After(rev) : r \in After(applied)
        /\ \A r \in After(applied) : r \in After(rev) \/ r = rev
        /\ rev \in After(applied)
    BY NumberFacts DEF CloudInv, After
  <1>2. Shows(rows[d], applied, d)
    BY DEF CloudInv, ListSound
  <1>3. Presence(rev, d) \/ Coded(rev, d) => rev > devRev[d]
    BY <1>1 DEF CloudInv, ListSound
  <1>4. ~Presence(rev, d) => (rows[d].here => Shows(rows[d], rev, d)) /\ (~Coded(rev, d) => Shows(rows[d], rev, d))
    BY <1>1, <1>2 DEF Shows
  <1>5. Coded(rev, d) /\ ~rows[d].here => \E q \in After(rev) : Presence(q, d)
    <2> SUFFICES ASSUME Coded(rev, d), ~rows[d].here
                 PROVE  \E q \in After(rev) : Presence(q, d)
      OBVIOUS
    <2>1. PICK q \in After(applied) : Presence(q, d)
      BY <1>1, <1>2 DEF Shows
    <2>2. q # rev
      BY <2>1 DEF Coded, Presence
    <2> QED BY <1>1, <2>1, <2>2
  <1>6. ~Coded(rev, d) /\ ~Cleared(rev, d) /\ (d # Own \/ ~crossed) /\ rows[d].here /\ rows[d].code \notin {0, code[d]} =>
                 CodeComes(rev, d) \/ \E j \in Slots : Fixes(calls[j], d)
    <2>1. ~Coded(rev, d) /\ ~Cleared(rev, d) /\ CodeComes(applied, d) => CodeComes(rev, d)
      BY <1>1 DEF CodeComes
    <2> QED BY <2>1 DEF CloudInv, ListSound
  <1>7. Cleared(rev, d) => /\ (\A r \in After(rev) : ~Presence(r, d)) => d \notin bound
                           /\ (\E r \in After(rev) : Coded(r, d)) => \E q \in After(rev) : Presence(q, d)
    <2> SUFFICES ASSUME Cleared(rev, d)
                 PROVE  /\ (\A r \in After(rev) : ~Presence(r, d)) => d \notin bound
                        /\ (\E r \in After(rev) : Coded(r, d)) => \E q \in After(rev) : Presence(q, d)
      OBVIOUS
    <2>1. log[rev].type = "unbound" /\ Presence(rev, d)
      BY DEF Cleared, Presence
    <2>2. (\A r \in After(rev) : ~Presence(r, d)) => d \notin bound
      BY <2>1 DEF CloudInv, LastWord
    <2>3. ASSUME NEW r \in After(rev), Coded(r, d)
          PROVE  \E q \in After(rev) : Presence(q, d)
      <3>1. r \in 1 .. Len(log) /\ rev < r /\ \A q \in rev + 1 .. r - 1 : q \in After(rev)
        BY NumberFacts DEF CloudInv, After
      <3>2. PICK q \in rev + 1 .. r - 1 : Presence(q, d)
        BY <2>3, <3>1 DEF CloudInv, CodesWhileBound
      <3> QED BY <3>1, <3>2
    <2> QED BY <2>2, <2>3
  <1>8. Presence(rev, d) /\ ~Cleared(rev, d) /\ (\A r \in After(rev) : ~Presence(r, d)) =>
                 d \in bound /\ online[d] = log[rev].online
    BY DEF CloudInv, LastWord, Presence, Cleared
  <1> QED BY <1>3, <1>4, <1>5, <1>6, <1>7, <1>8

LEMMA EventStep ==
    ASSUME CloudInv, Deliver, NEW f, f = Head(wire), EventFrame(f)
    PROVE  CloudInv'
  <1>1. /\ UNCHANGED <<bound, online, code, log, hostCode, secret, synced, crossed, overlap, failed, losses, timer, token, touched>>
        /\ sock = "open" /\ wire # <<>> /\ f.type = "event"
    BY DEF Deliver, upload, EventFrame
  <1>2. /\ f = wire[1] /\ f \in AnyFrame /\ heardOf(f.rev) \in 0 .. Len(log) /\ serverRev <= heardOf(f.rev) /\ heardOf(f.rev) \in Nat
        /\ f.rev <= heardOf(f.rev) /\ f.rev >= 2 /\ f.rev \in 0 .. Len(log)
        /\ f.rev > applied => f.rev = applied + 1
    BY <1>1, HeadFacts
  <1>3. /\ applied \in Nat /\ applied <= serverRev /\ serverRev \in Nat /\ f.rev \in Nat /\ Len(log) \in Nat
        /\ devRev \in [Devices -> 0 .. serverRev] /\ rows \in [Devices -> AnyRow] /\ touched \subseteq Devices
        /\ calls \in [Slots -> AnyCall] /\ boot \in BOOLEAN
    BY <1>2, NumberFacts, FrameFacts DEF CloudInv, Typed, ListTypes, CallsTypes, SocketTypes, Revs
  <1>4. devRev \in [Devices -> 0 .. heardOf(f.rev)]
    <2>1. \A d \in Devices : devRev[d] \in 0 .. heardOf(f.rev)
      BY <1>2, <1>3
    <2> QED BY <1>3, <2>1
  <1>5. CASE ~shouldApplyWireFrame(f.rev)
    <2>1. /\ serverRev' = heardOf(f.rev) /\ wire' = Tail(wire)
          /\ UNCHANGED <<applied, rows, devRev, calls, logged, sock, boot>>
      BY <1>5 DEF EventFrame
    <2>2. f.rev <= applied
      BY <1>2, <1>3, <1>5 DEF shouldApplyWireFrame
    <2>3. applied' \in 0 .. serverRev' /\ applied <= applied'
      <3>1. applied \in 0 .. heardOf(f.rev)
        BY <1>2, <1>3
      <3> QED BY <1>3, <2>1, <3>1
    <2>4. \A r \in applied' + 1 .. Len(log) : ~Covers(wire[1], r)
      BY <1>1, <1>2, <1>3, <2>1, <2>2 DEF Covers
    <2>5. SentOrSame
      BY <2>1 DEF SentOrSame
    <2>6. ListSound'
      BY <1>1, <2>1, <2>5, ListStays
    <2> QED BY <1>1, <1>2, <1>3, <1>4, <2>1, <2>3, <2>4, <2>5, <2>6, FrameTaken
  <1>6. CASE shouldApplyWireFrame(f.rev) /\ log[f.rev].type = "revoked"
    <2>1. logged' = FALSE /\ stopSync /\ UNCHANGED <<rows, calls>>
      BY <1>6 DEF EventFrame
    <2>2. /\ token' \in {"ok", "expired", "refreshing"} /\ losses' \in 0 .. MaxLosses /\ timer' \in 0 .. 2
      BY <1>1 DEF CloudInv, Typed, ServerTypes, SocketTypes
    <2> QED BY <1>1, <2>1, <2>2, StopSyncGone, SocketGone
  <1>7. CASE shouldApplyWireFrame(f.rev) /\ log[f.rev].type # "revoked"
    <2>1. /\ serverRev' = heardOf(f.rev) /\ applied' = f.rev /\ wire' = Tail(wire) /\ UNCHANGED <<logged, sock, boot>>
          /\ IF log[f.rev].type = "other" THEN UNCHANGED <<rows, devRev, calls>>
             ELSE applyDeviceEvent(log[f.rev], f.rev)
      BY <1>7 DEF EventFrame
    <2>2. PICK rev \in 1 .. Len(log) : rev = f.rev /\ rev = applied + 1 /\ applied > 0 /\ rev \in 0 .. heardOf(f.rev)
      BY <1>2, <1>3, <1>7 DEF shouldApplyWireFrame
    <2>3. PICK e \in LogEntry : e = log[rev]
      BY NumberFacts DEF CloudInv
    <2>4. PICK d \in Devices : d = e.dev /\ e.online \in BOOLEAN
      BY DEF LogEntry
    <2>5. applied' \in 0 .. serverRev' /\ applied <= applied'
      BY <1>2, <1>3, <2>1, <2>2
    <2>6. \A r \in applied' + 1 .. Len(log) : ~Covers(wire[1], r)
      BY <1>1, <1>2, <1>3, <2>1 DEF Covers
    <2>7. /\ rows[d] \in AnyRow /\ rows[d].online \in BOOLEAN /\ rows[d].code \in Codes /\ rows[d].here \in BOOLEAN
          /\ ~rows[d].here => rows[d].code = 0
          /\ devRev[d] \in 0 .. serverRev
      BY <1>3, RowFacts
    <2>8. code[d] = 0 => rows[d].code = 0
      BY DEF CloudInv, ListSound
    <2>9. ASSUME SentOrSame, rows' \in [Devices -> AnyRow], devRev' \in [Devices -> 0 .. heardOf(f.rev)], ListSound'
          PROVE  CloudInv'
      <3>1. boot' \in BOOLEAN /\ (boot' => boot) /\ touched' \subseteq Devices
        BY <1>1, <1>3, <2>1
      <3> QED BY <1>1, <1>2, <2>1, <2>5, <2>6, <2>9, <3>1, FrameTaken
    <2>10. CASE e.type = "other"
      <3>1. UNCHANGED <<rows, devRev, calls>>
        BY <2>1, <2>2, <2>3, <2>10
      <3>2. SentOrSame
        BY <3>1 DEF SentOrSame
      <3>3. ~Presence(rev, d) /\ ~Coded(rev, d) /\ ~Cleared(rev, d)
        BY <2>3, <2>10 DEF Presence, Coded, Cleared
      <3>4. PICK row : row = rows[d]
        OBVIOUS
      <3>5. d \notin touched => Shows(row, rev, d)
        BY <2>2, <2>3, <2>4, <3>3, <3>4, AppliedRow
      <3>6. d \notin touched /\ (d # Own \/ ~crossed) /\ row.here /\ row.code \notin {0, code[d]} =>
               CodeComes(rev, d) \/ \E j \in Slots : Fixes(calls[j], d)
        BY <2>2, <2>3, <2>4, <3>3, <3>4, AppliedRow
      <3>7. d \notin touched => \A r \in After(rev) : Presence(r, d) \/ Coded(r, d) => r > devRev'[d]
        <4>1. \A r \in After(rev) : r \in After(applied)
          BY <1>3, <2>2 DEF After
        <4> QED BY <3>1, <4>1 DEF CloudInv, ListSound
      <3>8. ListSound'
        BY <1>1, <2>1, <2>2, <2>3, <2>4, <2>8, <3>1, <3>2, <3>4, <3>5, <3>6, <3>7, NextEvent
      <3> QED BY <1>3, <1>4, <2>9, <3>1, <3>2, <3>8
    <2>11. CASE e.type = "unbound"
      <3>1. /\ rows' = [rows EXCEPT ![d] = None] /\ devRev' = [devRev EXCEPT ![d] = rev] /\ UNCHANGED calls
        BY <2>1, <2>2, <2>3, <2>4, <2>11 DEF applyDeviceEvent
      <3>2. SentOrSame
        BY <3>1 DEF SentOrSame
      <3>3. PICK row \in AnyRow : row = None /\ ~row.here /\ row.code = 0
        BY RowFacts
      <3>4. rows' \in [Devices -> AnyRow] /\ rows'[d] = row /\ \A x \in Devices \ {d} : rows'[x] = rows[x]
        BY <1>3, <3>1, <3>3
      <3>5. devRev' \in [Devices -> 0 .. heardOf(f.rev)] /\ devRev'[d] = rev /\ \A x \in Devices \ {d} : devRev'[x] = devRev[x]
        BY <1>4, <2>2, <3>1
      <3>6. Cleared(rev, d)
        BY <2>3, <2>4, <2>11 DEF Cleared
      <3>7. d \notin touched => Shows(row, rev, d)
        BY <2>2, <2>3, <2>4, <3>3, <3>6, AppliedRow DEF Shows
      <3>8. \A r \in After(rev) : r > devRev'[d]
        BY <1>3, <3>5 DEF After
      <3>9. ListSound'
        BY <1>1, <2>1, <2>2, <2>3, <2>4, <3>2, <3>3, <3>4, <3>5, <3>7, <3>8, NextEvent
      <3> QED BY <2>9, <3>2, <3>4, <3>5, <3>9
    <2>12. CASE e.type \in {"bound", "online"}
      <3>1. patchRow(d, rev, Row(e.online, rows[d].code)) /\ UNCHANGED calls
        BY <2>1, <2>2, <2>3, <2>4, <2>12 DEF applyDeviceEvent
      <3>2. SentOrSame
        BY <3>1 DEF SentOrSame
      <3>3. Presence(rev, d) /\ ~Coded(rev, d) /\ ~Cleared(rev, d)
        BY <2>3, <2>4, <2>12 DEF Presence, Coded, Cleared
      <3>4. CASE rows[d].here /\ rev <= devRev[d]
        <4>1. UNCHANGED <<rows, devRev>>
          BY <3>1, <3>4 DEF patchRow
        <4>2. d \in touched
          <5> SUFFICES ASSUME d \notin touched
                       PROVE  FALSE
            OBVIOUS
          <5>1. rev > devRev[d]
            BY <2>2, <2>3, <2>4, <3>3, AppliedRow
          <5> QED BY <1>3, <2>7, <3>4, <5>1
        <4>3. PICK row : row = rows[d]
          OBVIOUS
        <4>4. ListSound'
          BY <1>1, <2>1, <2>2, <2>3, <2>4, <2>8, <3>2, <4>1, <4>2, <4>3, NextEvent
        <4> QED BY <1>3, <1>4, <2>9, <3>2, <4>1, <4>4
      <3>5. CASE ~(rows[d].here /\ rev <= devRev[d])
        <4>1. /\ rows' = [rows EXCEPT ![d] = Row(e.online, rows[d].code)]
              /\ devRev' = [devRev EXCEPT ![d] = rev]
          BY <3>1, <3>5 DEF patchRow, PutRow
        <4>2. PICK o \in BOOLEAN, v \in Codes : o = e.online /\ v = rows[d].code
          BY <2>4, <2>7
        <4>3. PICK row \in AnyRow : row = Row(o, v) /\ row.here /\ row.online = o /\ row.code = v
          BY RowFacts
        <4>4. rows' \in [Devices -> AnyRow] /\ rows'[d] = row /\ \A x \in Devices \ {d} : rows'[x] = rows[x]
          BY <1>3, <4>1, <4>2, <4>3
        <4>5. devRev' \in [Devices -> 0 .. heardOf(f.rev)] /\ devRev'[d] = rev /\ \A x \in Devices \ {d} : devRev'[x] = devRev[x]
          BY <1>4, <2>2, <4>1
        <4>6. d \notin touched => Shows(row, rev, d)
          <5>1. d \notin touched /\ (\A r \in After(rev) : ~Presence(r, d)) => d \in bound /\ online[d] = e.online
            BY <2>2, <2>3, <2>4, <3>3, AppliedRow
          <5> QED BY <4>2, <4>3, <5>1 DEF Shows
        <4>7. \A r \in After(rev) : r > devRev'[d]
          BY <1>3, <4>5 DEF After
        <4>8. d \notin touched /\ (d # Own \/ ~crossed) /\ row.here /\ row.code \notin {0, code[d]} =>
                 CodeComes(rev, d) \/ \E j \in Slots : Fixes(calls[j], d)
          <5>1. row.code # 0 => rows[d].here /\ row.code = rows[d].code
            BY <2>7, <4>2, <4>3
          <5> QED BY <2>2, <2>3, <2>4, <3>3, <5>1, AppliedRow
        <4>9. code[d] = 0 => row.code = 0
          BY <2>8, <4>2, <4>3
        <4>10. ListSound'
          BY <1>1, <2>1, <2>2, <2>3, <2>4, <3>2, <4>4, <4>5, <4>6, <4>7, <4>8, <4>9, NextEvent
        <4> QED BY <2>9, <3>2, <4>4, <4>5, <4>10
      <3> QED BY <3>4, <3>5
    <2>13. CASE e.type = "code"
      <3>1. /\ patchRow(d, rev, Row(rows[d].online, rows[d].code))
            /\ IF rows[d].here /\ rev > devRev[d]
               THEN FreeSlot # {} /\ calls' = Send("refresh", d, None)
               ELSE UNCHANGED calls
        BY <2>1, <2>2, <2>3, <2>4, <2>13 DEF applyDeviceEvent
      <3>2. SentOrSame
        BY <3>1 DEF SentOrSame
      <3>3. Coded(rev, d) /\ ~Presence(rev, d)
        BY <2>3, <2>4, <2>13 DEF Presence, Coded, Cleared
      <3>4. CASE rows[d].here /\ rev <= devRev[d]
        <4>1. UNCHANGED <<rows, devRev>>
          BY <3>1, <3>4 DEF patchRow
        <4>2. d \in touched
          <5> SUFFICES ASSUME d \notin touched
                       PROVE  FALSE
            OBVIOUS
          <5>1. rev > devRev[d]
            BY <2>2, <2>3, <2>4, <3>3, AppliedRow
          <5> QED BY <1>3, <2>7, <3>4, <5>1
        <4>3. PICK row : row = rows[d]
          OBVIOUS
        <4>4. ListSound'
          BY <1>1, <2>1, <2>2, <2>3, <2>4, <2>8, <3>2, <4>1, <4>2, <4>3, NextEvent
        <4> QED BY <1>3, <1>4, <2>9, <3>2, <4>1, <4>4
      <3>5. CASE ~(rows[d].here /\ rev <= devRev[d])
        <4>1. /\ rows' = [rows EXCEPT ![d] = Row(rows[d].online, rows[d].code)]
              /\ devRev' = [devRev EXCEPT ![d] = rev]
          BY <3>1, <3>5 DEF patchRow, PutRow
        <4>2. PICK o \in BOOLEAN, v \in Codes : o = rows[d].online /\ v = rows[d].code
          BY <2>7
        <4>3. PICK row \in AnyRow : row = Row(o, v) /\ row.here /\ row.online = o /\ row.code = v
          BY RowFacts
        <4>4. rows' \in [Devices -> AnyRow] /\ rows'[d] = row /\ \A x \in Devices \ {d} : rows'[x] = rows[x]
          BY <1>3, <4>1, <4>2, <4>3
        <4>5. devRev' \in [Devices -> 0 .. heardOf(f.rev)] /\ devRev'[d] = rev /\ \A x \in Devices \ {d} : devRev'[x] = devRev[x]
          BY <1>4, <2>2, <4>1
        <4>6. d \notin touched => Shows(row, rev, d)
          <5>1. CASE rows[d].here
            <6>1. d \notin touched => Shows(rows[d], rev, d)
              BY <2>2, <2>3, <2>4, <3>3, <5>1, AppliedRow
            <6> QED BY <4>2, <4>3, <5>1, <6>1 DEF Shows
          <5>2. CASE ~rows[d].here
            <6>1. d \notin touched => \E q \in After(rev) : Presence(q, d)
              BY <2>2, <2>3, <2>4, <3>3, <5>2, AppliedRow
            <6> QED BY <4>3, <6>1 DEF Shows
          <5> QED BY <5>1, <5>2
        <4>7. \A r \in After(rev) : r > devRev'[d]
          BY <1>3, <4>5 DEF After
        <4>8. row.code \notin {0, code[d]} => \E j \in Slots : Fixes(calls[j], d)'
          <5> SUFFICES ASSUME row.code # 0
                       PROVE  \E j \in Slots : Fixes(calls[j], d)'
            OBVIOUS
          <5>1. rows[d].here /\ rev > devRev[d]
            BY <1>3, <2>7, <3>5, <4>2, <4>3
          <5>2. PICK i \in Slots : calls[i].type = "none" /\ calls' = [calls EXCEPT ![i] = Call("refresh", d, "sent", None, 0)]
            BY <1>3, <3>1, <5>1, SendFacts
          <5>3. calls'[i].type = "refresh" /\ calls'[i].dev = d /\ calls'[i].stage = "sent"
            BY <1>3, <5>2 DEF Call
          <5> QED BY <5>3 DEF Fixes
        <4>9. code[d] = 0 => row.code = 0
          BY <2>8, <4>2, <4>3
        <4>10. ListSound'
          BY <1>1, <2>1, <2>2, <2>3, <2>4, <3>2, <4>4, <4>5, <4>6, <4>7, <4>8, <4>9, NextEvent
        <4> QED BY <2>9, <3>2, <4>4, <4>5, <4>10
      <3> QED BY <3>4, <3>5
    <2>14. e.type \in {"other", "unbound", "bound", "online", "code"}
      <3>1. e.type \in EventTypes /\ e.type # "revoked"
        BY <1>7, <2>2, <2>3 DEF LogEntry
      <3> QED BY <3>1 DEF EventTypes
    <2> QED BY <2>10, <2>11, <2>12, <2>13, <2>14
  <1> QED BY <1>5, <1>6, <1>7

LEMMA DeliverStep ==
    ASSUME CloudInv, Deliver
    PROVE  CloudInv'
  <1>1. PICK f : f = Head(wire)
    OBVIOUS
  <1>2. AuthOkFrame(f) \/ SnapshotFrame(f) \/ BootstrapDone(f) \/ EventFrame(f) \/ ErrorFrame(f)
    BY <1>1 DEF Deliver
  <1> QED BY <1>1, <1>2, PlainFrames, SnapshotStep, EventStep, ErrorStep

----------------------------------------------------------------------------
(***************************************************************************)
(* The theorems.                                                           *)
(***************************************************************************)

LEMMA CloudInitially ==
    CloudInit => CloudInv
  <1> SUFFICES ASSUME CloudInit
               PROVE  CloudInv
    OBVIOUS
  <1>1. Own \in Devices /\ 0 \in Codes /\ 1 \in Codes /\ 1 \in 1 .. MaxRev /\ 0 \in 0 .. MaxLosses
    BY CloudAssumption DEF Codes
  <1>2. PICK e \in LogEntry : log = <<e>> /\ e.type = "other"
    <2> DEFINE e == [type |-> "other", dev |-> Own, online |-> FALSE]
    <2>1. e \in LogEntry /\ e.type = "other"
      BY <1>1 DEF LogEntry, EventTypes
    <2>2. log = <<e>>
      BY DEF CloudInit
    <2> QED BY <2>1, <2>2
  <1>3. log \in Seq(LogEntry) /\ Len(log) = 1 /\ log[1] = e
    BY <1>2
  <1>4. \A r \in 1 .. Len(log) : \A d : ~Presence(r, d) /\ ~Coded(r, d) /\ ~Cleared(r, d)
    BY <1>2, <1>3 DEF Presence, Coded, Cleared
  <1>5. wire \in Seq(AnyFrame) /\ wire = <<>> /\ Len(wire) = 0
    BY EmptySeq DEF CloudInit
  <1>6. PICK c \in AnyCall : c = Idle /\ c.type = "none"
    <2>1. "none" \in CallTypes /\ "sent" \in Stages /\ None \in AnyRow /\ 0 \in 0 .. MaxRev + 1
      BY CloudAssumption, RowFacts DEF CallTypes, Stages
    <2>2. Idle \in AnyCall /\ Idle.type = "none"
      BY <1>1, <2>1 DEF Idle, Call, AnyCall
    <2> QED BY <2>2
  <1>7. calls \in [Slots -> AnyCall] /\ \A i \in Slots : calls[i].type = "none"
    BY <1>6 DEF CloudInit
  <1>8. ServerTypes
    <2>1. code \in [Devices -> Codes] /\ online \in [Devices -> BOOLEAN]
      BY <1>1 DEF CloudInit
    <2> QED BY <1>1, <1>3, <2>1 DEF CloudInit, ServerTypes
  <1>9. SocketTypes
    <2>1. logged = FALSE /\ boot = FALSE /\ timer = 0 /\ sock = "none"
      BY DEF CloudInit
    <2>2. logged \in BOOLEAN /\ boot \in BOOLEAN /\ ~boot
      BY <2>1
    <2>3. timer \in 0 .. 2
      BY <2>1
    <2> QED BY <1>5, <2>1, <2>2, <2>3 DEF SocketTypes
  <1>10. ListTypes
    <2>1. rows \in [Devices -> AnyRow]
      BY RowFacts DEF CloudInit, NoRows
    <2>2. serverRev \in 0 .. Len(log) /\ applied \in 0 .. serverRev /\ devRev \in [Devices -> 0 .. serverRev]
      BY <1>3 DEF CloudInit
    <2> QED BY <2>1, <2>2 DEF CloudInit, ListTypes
  <1>11. CallsTypes
    <2>1. hostCode = 0 /\ synced = 0 /\ crossed = FALSE /\ secret = FALSE /\ overlap = FALSE /\ failed = FALSE
      BY DEF CloudInit
    <2>2. synced \in 0 .. hostCode
      BY <2>1
    <2> QED BY <1>1, <1>7, <2>1, <2>2 DEF CallsTypes, FlagTypes
  <1>12. LastWord /\ CodesWhileBound
    BY <1>4 DEF LastWord, CodesWhileBound
  <1>13. Answers
    BY <1>7 DEF Answers, AnswerSound
  <1>14. Uploads
    BY <1>7 DEF CloudInit, Uploads, UploadSound
  <1>15. Frames /\ Covered
    BY <1>5 DEF CloudInit, Frames, Covered
  <1>16. ListSound
    <2>1. \A d \in Devices : rows[d].code = 0
      BY RowFacts DEF CloudInit, NoRows
    <2>2. After(applied) = 1 .. Len(log) /\ ~(applied > 0)
      BY DEF CloudInit, After
    <2> QED BY <1>4, <2>1, <2>2 DEF ListSound
  <1> QED BY <1>8, <1>9, <1>10, <1>11, <1>12, <1>13, <1>14, <1>15, <1>16 DEF CloudInv, Typed

LEMMA CloudStutters ==
    ASSUME CloudInv, UNCHANGED cloudVars
    PROVE  CloudInv'
  <1>1. /\ UNCHANGED <<bound, online, code, log, logged, sock, wire, boot, timer, serverRev, applied, rows, devRev,
                       calls, hostCode, secret, synced, crossed, overlap, failed, touched, token, losses>>
    BY DEF cloudVars
  <1>2. GoesOn
    BY <1>1, SameGoesOn DEF CloudInv
  <1>3. Frames'
    BY <1>1, <1>2, FramesKept DEF CloudInv, GoesOn
  <1>4. Covered'
    BY <1>1 DEF CloudInv, Covered, After, Covers
  <1>5. SocketTypes' /\ token' \in {"ok", "expired", "refreshing"} /\ losses' \in 0 .. MaxLosses
    BY <1>1 DEF CloudInv, Typed, SocketTypes, ServerTypes
  <1> QED BY <1>1, <1>3, <1>4, <1>5, SocketStep

LEMMA CloudSteps ==
    CloudInv /\ [CloudNext]_cloudVars => CloudInv'
  <1> SUFFICES ASSUME CloudInv, [CloudNext]_cloudVars
               PROVE  CloudInv'
    OBVIOUS
  <1>1. CASE UNCHANGED cloudVars
    BY <1>1, CloudStutters
  <1>2. CASE CloudNext
    <2>1. ASSUME NEW d \in Devices, DeviceChanged(d)
          PROVE  CloudInv'
      BY <2>1, DeviceChangedStep
    <2>2. CASE (\E d \in Devices : unbindDevice(d) \/ RefreshNow(d)) \/ HostCode \/ HostSecret \/ HostReadyBinds
      BY <2>2, SendSteps
    <2>3. CASE SessionRevoked
      BY <2>3, SessionRevokedStep
    <2>4. CASE TokenExpires \/ TokenRefreshed
      BY <2>4, TokenSteps
    <2>5. CASE Login \/ Logout \/ SocketLost \/ ReconnectTimer
      BY <2>5, ClosingSteps
    <2>6. CASE SyncConnected
      BY <2>6, SyncConnectedStep
    <2>7. CASE Deliver
      BY <2>7, DeliverStep
    <2>8. ASSUME NEW i \in Slots, Serve(i)
          PROVE  CloudInv'
      BY <2>8, ServeStep
    <2>9. ASSUME NEW i \in Slots, CallFails(i)
          PROVE  CloudInv'
      BY <2>9, CallFailsStep
    <2>10. ASSUME NEW i \in Slots, Answer(i)
           PROVE  CloudInv'
      BY <2>10, AnswerStep
    <2> QED BY <1>2, <2>1, <2>2, <2>3, <2>4, <2>5, <2>6, <2>7, <2>8, <2>9, <2>10 DEF CloudNext
  <1> QED BY <1>1, <1>2

LEMMA CloudInductive ==
    CloudSpec => []CloudInv
  <1> QED BY CloudInitially, CloudSteps, PTL DEF CloudSpec

LEMMA InvTyped ==
    CloudInv => CloudTypeOK
  <1> SUFFICES ASSUME CloudInv
               PROVE  CloudTypeOK
    OBVIOUS
  <1>1. /\ bound \subseteq Devices /\ touched \subseteq Devices
        /\ online \in [Devices -> BOOLEAN] /\ code \in [Devices -> Codes]
        /\ token \in {"ok", "expired", "refreshing"} /\ logged \in BOOLEAN /\ boot \in BOOLEAN
        /\ {secret, crossed, overlap, failed} \subseteq BOOLEAN
        /\ sock \in {"none", "opening", "open", "closed"}
        /\ timer \in 0 .. 2 /\ losses \in 0 .. MaxLosses
    BY DEF CloudInv, Typed, ServerTypes, SocketTypes, ListTypes, CallsTypes, FlagTypes
  <1>2. Len(log) \in Revs /\ serverRev \in Revs /\ applied \in 0 .. serverRev /\ devRev \in [Devices -> 0 .. serverRev]
    BY NumberFacts DEF CloudInv, Typed, ListTypes, Revs
  <1>3. \A r \in 1 .. Len(log) : log[r].type \in EventTypes
    BY NumberFacts DEF CloudInv, LogEntry
  <1>4. \A d \in Devices : IsRow(rows[d]) /\ (~rows[d].here => rows[d] = None)
    <2>1. ASSUME NEW r \in AnyRow
          PROVE  DOMAIN r = {"online", "code", "here"}
      <3>1. CASE r = None
        BY <3>1 DEF None
      <3>2. CASE r \in CodedRow
        BY <3>2 DEF CodedRow
      <3> QED BY <3>1, <3>2 DEF AnyRow
    <2> QED BY <2>1, RowFacts DEF CloudInv, Typed, ListTypes, IsRow
  <1>5. hostCode \in Codes /\ synced \in Codes
    <2>1. hostCode \in Codes /\ synced \in 0 .. hostCode /\ MaxCode \in Nat
      BY NumberFacts DEF CloudInv, Typed, CallsTypes
    <2> QED BY <2>1 DEF Codes
  <1>6. \A i \in Slots : calls[i].type \in CallTypes /\ calls[i].dev \in Devices
    BY DEF CloudInv, Typed, CallsTypes, AnyCall
  <1> QED BY <1>1, <1>2, <1>3, <1>4, <1>5, <1>6 DEF CloudTypeOK

LEMMA InvHasCode ==
    CloudInv => CloudHasCode
  BY DEF CloudInv, Uploads, CloudHasCode, Uploading

LEMMA InvConverges ==
    CloudInv => ListConverges
  <1> SUFFICES ASSUME CloudInv, Quiet, NEW d \in Devices \ touched, d # Own \/ ~crossed
               PROVE  Matches(d)
    BY DEF ListConverges
  <1>1. /\ Len(log) \in Nat /\ Len(log) >= 1 /\ applied \in Nat /\ applied <= Len(log)
    BY NumberFacts DEF CloudInv
  <1>2. sock = "open" /\ Len(wire) = 0
    BY EmptySeq DEF Quiet, CloudInv, Typed, SocketTypes
  <1>3. After(applied) = {}
    BY <1>2 DEF CloudInv, Covered
  <1>4. applied > 0
    <2> SUFFICES ASSUME applied = 0
                 PROVE  FALSE
      BY <1>1
    <2>1. 1 \in After(applied)
      BY <1>1 DEF After
    <2> QED BY <1>3, <2>1
  <1>5. \A i \in Slots : ~Fixes(calls[i], d)
    BY DEF Quiet, Fixes
  <1>6. ~CodeComes(applied, d)
    BY <1>3 DEF CodeComes
  <1>7. /\ rows[d].here <=> (d \in bound)
        /\ rows[d].here => rows[d].online = online[d]
    BY <1>3, <1>4 DEF CloudInv, ListSound, Shows
  <1>8. rows[d].here => rows[d].code \in {0, code[d]}
    BY <1>4, <1>5, <1>6 DEF CloudInv, ListSound
  <1> QED BY <1>7, <1>8 DEF Matches

\* What CloudDeviceManager keeps of every device, the frames of its socket and
\* its HTTP calls are well typed, and so are the server's side of the account
\* and the access code that HostManager has.
THEOREM CloudTypeCorrect ==
    CloudSpec => []CloudTypeOK
  BY CloudInductive, InvTyped, PTL

\* Once syncAccessCode has no upload under way and HostManager has a device
\* secret, the cloud has the access code of HostManager or the client knows that
\* an upload has failed, for any number of codes, revisions, calls and losses,
\* unless the last uploads overlapped with different codes.
THEOREM CloudKeepsCode ==
    CloudSpec => []CloudHasCode
  BY CloudInductive, InvHasCode, PTL

\* Once nothing is on its way, the list that applyDeviceEvent, the snapshot and
\* the answers of refreshDevice have made shows every device as the cloud has
\* it, for any devices, revisions, calls and losses, but for the devices whose
\* answer was overtaken and, after a crossed upload, this host's own.
THEOREM ListsConverge ==
    CloudSpec => []ListConverges
  BY CloudInductive, InvConverges, PTL
=============================================================================
