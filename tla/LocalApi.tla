------------------------------ MODULE LocalApi ------------------------------
(***************************************************************************)
(* The desktop client's local API: WebSocketApiServer hands the slow       *)
(* methods to the global thread pool, where a worker asks the user for a   *)
(* confirmation (TrustHandler), calls a tool of the remote host            *)
(* (SkillHandler), watches the screen (VerificationService,                *)
(* UiStateService) or clicks on a text (ApiHandler); MainController hashes *)
(* video frames in the same pool for its screenChanged events.             *)
(*                                                                         *)
(* A slot of the UI thread is one step; a worker's step is what it does    *)
(* between two points where another thread can come in.  The program never *)
(* sets an API token, a rate limit or a session timeout, so every client   *)
(* that is connected may call every method.                                *)
(***************************************************************************)
EXTENDS Integers, Sequences, FiniteSets

CONSTANTS
    Addrs,      \* addresses a QWebSocket can have in memory
    PoolSize,   \* threads of QThreadPool::globalInstance
    Poll,       \* kPollMs, kPollIntervalMs
    Timeouts,   \* values of timeoutMs
    Gap,        \* shortest time between two screenChanged events (200 ms)
    MaxConns,   \* bound: connections in a run
    MaxJobs,    \* bound: jobs in a run
    Loads,      \* bound: the kinds of the jobs of a run, in the order they are handed over
    MaxTime     \* bound: time of a video frame

ASSUME ApiAssumption ==
    /\ PoolSize \in Nat \ {0} /\ Poll \in Nat \ {0} /\ Timeouts \subseteq Int /\ Gap \in Nat \ {0}
    /\ MaxConns \in Nat /\ MaxJobs \in Nat /\ MaxTime \in Nat

VARIABLES
    conns,    \* m_clients: the connection whose socket is at an address, 0 for none
    opened,   \* connections so far
    jobs,     \* jobs of the pool, in the order they were handed to it
    pending,  \* m_pending of TrustHandler and of SkillHandler
    auto,     \* trustConfirmMode is "auto_approve"
    text,     \* the text looked for is on the remote screen
    now,      \* time of the newest video frame
    last,     \* m_screenChangeState: time and content of the last screenChanged
    due       \* history: time of the newest frame its handlers are done with, of
              \* those that did not repeat the screen announced last

vars == <<conns, opened, jobs, pending, auto, text, now, last, due>>

Confirm(a) == [kind |-> "confirm", addr |-> a, pc |-> "queued", done |-> "no", answer |-> "none",
               signalled |-> FALSE, stopped |-> FALSE, said |-> "none"]
Skill(a) == [kind |-> "skill", addr |-> a, pc |-> "queued", done |-> "no", answer |-> "none",
             signalled |-> FALSE, cmd |-> "none"]
Watch(k, a, t) == [kind |-> k, addr |-> a, pc |-> "queued", answer |-> "none",
                   limit |-> t, elapsed |-> 0, slept |-> 0, looked |-> -1]
Click(a) == [kind |-> "click", addr |-> a, pc |-> "queued", answer |-> "none", left |-> 3]
Glance(a) == [kind |-> "glance", addr |-> a, pc |-> "queued", answer |-> "none"]
Hash(t, x) == [kind |-> "hash", pc |-> "queued", stamp |-> t, shown |-> x]

Jobs == 1 .. Len(jobs)
Is(j, k, p) == jobs[j].kind \in k /\ jobs[j].pc \in p
Blocking == {"confirm", "skill"}
Watching == {"verify", "wait"}
Working == {"start", "asking", "asked", "waiting", "woken", "sending"}
Running == {j \in Jobs : jobs[j].pc \in Working}
frame == IF text THEN 1 ELSE 0       \* what a video frame shows
NoEvent == [stamp |-> -Gap, shown |-> 2]

\* One type invariant: it includes that the pool keeps its size.
TypeOK ==
    /\ conns \in [Addrs -> 0 .. MaxConns] /\ opened \in 0 .. MaxConns
    /\ Len(jobs) <= MaxJobs /\ Cardinality(Running) <= PoolSize
    /\ pending \subseteq {j \in Jobs : jobs[j].kind \in Blocking}
    /\ \A j \in Jobs :
          /\ jobs[j].pc \in Working \cup {"queued", "posted", "over"}
          /\ jobs[j].kind # "hash" => jobs[j].addr \in Addrs
          /\ Is(j, {"confirm"}, {"posted", "over"}) =>
                jobs[j].answer \in {"approved", "denied", "timeout"}
          /\ Is(j, {"skill"}, {"posted", "over"}) => jobs[j].answer \in {"value", "timeout", "error"}
          /\ Is(j, Watching \cup {"glance"}, {"posted", "over"}) =>
                jobs[j].answer \in {"found", "failed", "error"}
    /\ auto \in BOOLEAN /\ text \in BOOLEAN
    /\ now \in 0 .. MaxTime
    /\ last.stamp \in -Gap .. MaxTime /\ last.shown \in 0 .. 2 /\ due \in -Gap .. MaxTime

Init ==
    /\ conns = [a \in Addrs |-> 0] /\ opened = 0 /\ jobs = <<>> /\ pending = {}
    /\ auto \in BOOLEAN /\ text = FALSE /\ now = 0
    /\ last = NoEvent /\ due = -Gap

(***************************************************************************)
(* Connections and jobs.                                                   *)
(***************************************************************************)
\* Bound: the next job of a run may be of kind k.
Allowed(k) ==
    \E l \in Loads : Len(l) > Len(jobs) /\ l[Len(jobs) + 1] = k /\ \A i \in Jobs : jobs[i].kind = l[i]

onNewConnection(a) ==
    /\ conns[a] = 0 /\ opened < MaxConns
    /\ opened' = opened + 1 /\ conns' = [conns EXCEPT ![a] = opened + 1]
    /\ UNCHANGED <<jobs, pending, auto, text, now, last, due>>

\* deleteLater frees the address for a later socket.
onClientDisconnected(a) ==
    /\ conns[a] # 0 /\ conns' = [conns EXCEPT ![a] = 0]
    /\ UNCHANGED <<opened, jobs, pending, auto, text, now, last, due>>

\* The methods of kAsyncMethods.  A request that is refused (parse error, rate
\* limit, permission, device list, dangerous operation) and every other method
\* is answered at once and starts no job.
onTextMessageReceived(a) ==
    /\ conns[a] # 0 /\ Len(jobs) < MaxJobs
    /\ \E job \in {Confirm(a), Skill(a), Click(a), Glance(a)} \cup
                  {Watch(k, a, t) : k \in Watching, t \in Timeouts} :
          Allowed(job.kind) /\ jobs' = Append(jobs, job)
    /\ UNCHANGED <<conns, opened, pending, auto, text, now, last, due>>

\* The pool takes its jobs in order.
Start(j) ==
    /\ jobs[j].pc = "queued" /\ Cardinality(Running) < PoolSize
    /\ \A i \in 1 .. j - 1 : jobs[i].pc # "queued"
    /\ jobs' = [jobs EXCEPT ![j].pc = "start"]
    /\ UNCHANGED <<conns, opened, pending, auto, text, now, last, due>>

\* The answer is posted to the UI thread, and sent if a socket is still known
\* at the address.
Reply(j) ==
    /\ jobs[j].kind # "hash" /\ jobs[j].pc = "posted"
    /\ jobs' = [jobs EXCEPT ![j].pc = "over"]
    /\ UNCHANGED <<conns, opened, pending, auto, text, now, last, due>>

answered(j, x) == [jobs EXCEPT ![j].pc = "posted", ![j].answer = x]

(***************************************************************************)
(* TrustHandler and SkillHandler: a worker blocks on a condition variable  *)
(* of its own stack, which m_pending refers to.                            *)
(***************************************************************************)
\* The policy is read on the UI thread, which the worker waits for; if the call
\* cannot be made the user is asked.
ReadPolicy(j) ==
    /\ Is(j, {"confirm"}, {"start"})
    /\ \/ auto /\ jobs' = answered(j, "approved")
       \/ jobs' = [jobs EXCEPT ![j].pc = "asking"]
    /\ UNCHANGED <<conns, opened, pending, auto, text, now, last, due>>

\* m_pending, then confirmationRequested.
Ask(j) ==
    /\ Is(j, {"confirm"}, {"asking"})
    /\ jobs' = [jobs EXCEPT ![j].pc = "asked"] /\ pending' = pending \cup {j}
    /\ UNCHANGED <<conns, opened, auto, text, now, last, due>>

\* isConnectionValid reads m_connections of the UI thread without a lock: it
\* may say either.  The command is sent by the UI thread.
SendAndWait(j) ==
    /\ Is(j, {"skill"}, {"start"})
    /\ \/ jobs' = answered(j, "error") /\ UNCHANGED pending
       \/ /\ jobs' = [jobs EXCEPT ![j].pc = "asked", ![j].cmd = "queued"]
          /\ pending' = pending \cup {j}
    /\ UNCHANGED <<conns, opened, auto, text, now, last, due>>

\* The result may have come before the worker looks.
Wait(j) ==
    /\ Is(j, Blocking, {"asked"})
    /\ jobs' = [jobs EXCEPT ![j].pc = IF jobs[j].done # "no" THEN "woken" ELSE "waiting"]
    /\ UNCHANGED <<conns, opened, pending, auto, text, now, last, due>>

\* Mutant: the wait has no timeout.
WakeSignalled(j) ==
    /\ Is(j, Blocking, {"waiting"}) /\ jobs[j].done # "no"
    /\ jobs' = [jobs EXCEPT ![j].pc = "woken", ![j].signalled = TRUE]
    /\ UNCHANGED <<conns, opened, pending, auto, text, now, last, due>>

\* wakeOne or the timeout, whichever comes first.  How long the timeout is does
\* not matter here: a timeout_secs that is negative or too large wraps around as
\* an unsigned long (in milliseconds, so never the one value that means forever)
\* and gives some other wait, at worst of weeks.
Wake(j) ==
    /\ Is(j, Blocking, {"waiting"})
    /\ \E s \in BOOLEAN :
          /\ s => jobs[j].done # "no"
          /\ jobs' = [jobs EXCEPT ![j].pc = "woken", ![j].signalled = s]
    /\ UNCHANGED <<conns, opened, pending, auto, text, now, last, due>>

\* Mutant: what the wait returned decides.
VerdictOfWait(j) == IF jobs[j].done = "no" \/ ~jobs[j].signalled THEN "timeout" ELSE jobs[j].done

verdict(j) == IF jobs[j].done = "no" THEN "timeout" ELSE jobs[j].done

\* The entry is removed before the result is read.
Finish(j) ==
    /\ Is(j, Blocking, {"woken"}) /\ jobs' = answered(j, verdict(j)) /\ pending' = pending \ {j}
    /\ UNCHANGED <<conns, opened, auto, text, now, last, due>>

\* The user answers a dialog; one whose request is gone is ignored.
resolveConfirmation(j, d) ==
    /\ jobs[j].kind = "confirm" /\ j \in pending
    /\ jobs' = [jobs EXCEPT ![j].done = d, ![j].said = d]
    /\ UNCHANGED <<conns, opened, pending, auto, text, now, last, due>>

stoppedJobs == [j \in Jobs |-> IF j \in pending /\ jobs[j].kind = "confirm"
                               THEN [jobs[j] EXCEPT !.done = "denied", !.said = "denied",
                                                    !.stopped = TRUE]
                               ELSE jobs[j]]

\* From the user interface or by the API, on the UI thread.
handleEmergencyStop ==
    /\ jobs' = stoppedJobs /\ pending' = {j \in pending : jobs[j].kind # "confirm"}
    /\ UNCHANGED <<conns, opened, auto, text, now, last, due>>

SendSkill(j) ==
    /\ jobs[j].kind = "skill" /\ jobs[j].cmd = "queued"
    /\ \E c \in {"sent", "lost"} : jobs' = [jobs EXCEPT ![j].cmd = c]    \* lost: the device is gone
    /\ UNCHANGED <<conns, opened, pending, auto, text, now, last, due>>

onSkillResponse(j) ==
    /\ jobs[j].kind = "skill" /\ jobs[j].cmd = "sent"
    /\ jobs' = [jobs EXCEPT ![j].cmd = "answered",
                            ![j].done = IF j \in pending THEN "value" ELSE jobs[j].done]
    /\ UNCHANGED <<conns, opened, pending, auto, text, now, last, due>>

setTrustConfirmMode ==
    /\ auto' = ~auto /\ UNCHANGED <<conns, opened, jobs, pending, text, now, last, due>>

(***************************************************************************)
(* Looking at the screen.                                                  *)
(***************************************************************************)
ScreenChanges == text' = ~text /\ UNCHANGED <<conns, opened, jobs, pending, auto, now, last, due>>

lesser(x, y) == IF x < y THEN x ELSE y

\* Sleep, and count a whole interval.
slept(j) == [jobs EXCEPT ![j].looked = jobs[j].slept,
                         ![j].slept = @ + lesser(Poll, jobs[j].limit - jobs[j].elapsed),
                         ![j].elapsed = @ + Poll]
gaveUp(j) == [jobs EXCEPT ![j].looked = jobs[j].slept, ![j].answer = "failed", ![j].pc = "posted"]

\* verifyActionResult looks, and looks again until the time is up.
verifyAgain(j) == IF jobs[j].elapsed >= jobs[j].limit THEN gaveUp(j) ELSE slept(j)

\* waitForText does not look again once the count has passed the limit.
waitAgain(j) ==
    IF jobs[j].elapsed >= jobs[j].limit THEN gaveUp(j)
    ELSE IF jobs[j].elapsed + Poll > jobs[j].limit
         THEN [slept(j) EXCEPT ![j].answer = "failed", ![j].pc = "posted"]
    ELSE slept(j)

\* runOcr: no engine, no attached segment or no frame; else what is recognised,
\* from the cache or anew, is what the frame shows.
Seen == {"error", IF text THEN "found" ELSE "failed"}

\* A negative limit keeps waitForText from looking at all.
Look(j) ==
    /\ Is(j, Watching, {"start"})
    /\ \/ jobs[j].kind = "wait" /\ jobs[j].limit < 0 /\ jobs' = answered(j, "failed")
       \/ /\ jobs[j].kind = "wait" => jobs[j].limit >= 0
          /\ \E x \in Seen : jobs' = IF x # "failed" THEN answered(j, x)
                                    ELSE IF jobs[j].kind = "verify" THEN verifyAgain(j)
                                    ELSE waitAgain(j)
    /\ UNCHANGED <<conns, opened, pending, auto, text, now, last, due>>

\* The methods that look once: getUiState, getScreenText, findElement,
\* assertTextPresent, assertScreenState, screenDiffSummary.
LookOnce(j) ==
    /\ Is(j, {"glance"}, {"start"}) /\ \E x \in Seen : jobs' = answered(j, x)
    /\ UNCHANGED <<conns, opened, pending, auto, text, now, last, due>>

\* handleClickText: the worker itself sends a move, a press and a release
\* where the text was.
FindAndClick(j) ==
    /\ Is(j, {"click"}, {"start"})
    /\ \E x \in Seen : jobs' = IF x = "found" THEN [jobs EXCEPT ![j].pc = "sending"]
                              ELSE answered(j, x)
    /\ UNCHANGED <<conns, opened, pending, auto, text, now, last, due>>

\* One message to the native client; what has gone by then is not taken back.
ClickSend(j) ==
    /\ Is(j, {"click"}, {"sending"})
    /\ jobs' = IF jobs[j].left = 1 THEN answered(j, "clicked") ELSE [jobs EXCEPT ![j].left = @ - 1]
    /\ UNCHANGED <<conns, opened, pending, auto, text, now, last, due>>

(***************************************************************************)
(* screenChanged.                                                          *)
(***************************************************************************)
later(x, y) == IF x < y THEN y ELSE x

\* A frame that comes too soon is passed over for good.
videoFrameReady ==
    /\ Len(jobs) < MaxJobs
    /\ \E t \in now .. MaxTime :
          /\ now' = t
          /\ IF t - last.stamp < Gap THEN UNCHANGED jobs /\ due' = later(t, due)
             ELSE Allowed("hash") /\ jobs' = Append(jobs, Hash(t, frame)) /\ UNCHANGED due
    /\ UNCHANGED <<conns, opened, pending, auto, text, last>>

computeFrameHash(j) ==
    /\ Is(j, {"hash"}, {"start"}) /\ jobs' = [jobs EXCEPT ![j].pc = "posted"]
    /\ UNCHANGED <<conns, opened, pending, auto, text, now, last, due>>

\* Mutant: the frame's age is not looked at again.
BroadcastIfChanged(j) ==
    /\ Is(j, {"hash"}, {"posted"}) /\ jobs' = [jobs EXCEPT ![j].pc = "over"]
    /\ IF jobs[j].shown = last.shown THEN UNCHANGED <<last, due>>
       ELSE /\ last' = [stamp |-> jobs[j].stamp, shown |-> jobs[j].shown]
            /\ due' = later(jobs[j].stamp, due)
    /\ UNCHANGED <<conns, opened, pending, auto, text, now>>

\* Hashes come back in any order.  One that repeats the screen announced last
\* does not renew the time of the announcement.
screenChanged(j) ==
    /\ Is(j, {"hash"}, {"posted"}) /\ jobs' = [jobs EXCEPT ![j].pc = "over"]
    /\ IF jobs[j].shown = last.shown THEN UNCHANGED <<last, due>>
       ELSE /\ due' = later(jobs[j].stamp, due)
            /\ last' = IF jobs[j].stamp - last.stamp < Gap THEN last
                       ELSE [stamp |-> jobs[j].stamp, shown |-> jobs[j].shown]
    /\ UNCHANGED <<conns, opened, pending, auto, text, now>>

connectionRemoved ==
    /\ last # NoEvent /\ last' = NoEvent /\ due' = -Gap
    /\ UNCHANGED <<conns, opened, jobs, pending, auto, text, now>>

(***************************************************************************)
(* The system.                                                             *)
(***************************************************************************)
Work(j) ==
    \/ ReadPolicy(j) \/ Ask(j) \/ SendAndWait(j) \/ Wait(j) \/ Wake(j) \/ Finish(j)
    \/ Look(j) \/ LookOnce(j) \/ FindAndClick(j) \/ ClickSend(j) \/ computeFrameHash(j)

Next ==
    \/ \E a \in Addrs : onNewConnection(a) \/ onClientDisconnected(a) \/ onTextMessageReceived(a)
    \/ \E j \in Jobs : Start(j) \/ Work(j) \/ Reply(j) \/ screenChanged(j)
    \/ \E j \in Jobs, d \in {"approved", "denied"} : resolveConfirmation(j, d)
    \/ \E j \in Jobs : SendSkill(j) \/ onSkillResponse(j)
    \/ handleEmergencyStop \/ setTrustConfirmMode
    \/ ScreenChanges \/ videoFrameReady \/ connectionRemoved

Spec == Init /\ [][Next]_vars

\* Threads of the pool run, waits time out, and the UI thread serves its queue.
FairSpec ==
    /\ Spec
    /\ \A j \in 1 .. MaxJobs :
          /\ WF_vars(j \in Jobs /\ Start(j)) /\ WF_vars(j \in Jobs /\ Work(j))
          /\ WF_vars(j \in Jobs /\ Reply(j))

(***************************************************************************)
(* Properties.                                                             *)
(***************************************************************************)
\* A confirmation that was open when the user pressed the emergency stop is
\* never approved, whatever dialog is answered and whatever times out before
\* its worker runs again (TrustHandler::handleEmergencyStop).
StopDenies ==
    \A j \in Jobs : jobs[j].kind = "confirm" /\ jobs[j].stopped => jobs[j].answer # "approved"

\* The caller is told what the user said last, also when the wait had already
\* timed out: an answer the dialog could still give is not reported as a
\* timeout (TrustHandler::handleRequestConfirmation, resolveConfirmation).
DecisionHonoured ==
    \A j \in Jobs :
        Is(j, {"confirm"}, {"posted", "over"}) /\ jobs[j].said # "none" => jobs[j].answer = jobs[j].said

\* m_pending never refers to the stack of a worker that has returned
\* (TrustHandler and SkillHandler: insertion, removal and emergency stop).
PendingOnStack == \A j \in pending : jobs[j].pc \in {"asked", "waiting", "woken"}

\* A watch that gave up did look late enough: verifyActionResult at its limit
\* or later, waitForText within the last interval before it
\* (VerificationService::verifyActionResult, UiStateService::waitForText).
LooksToTheEnd ==
    \A j \in Jobs :
        Is(j, Watching, {"posted", "over"}) /\ jobs[j].answer = "failed" =>
            IF jobs[j].kind = "verify" THEN jobs[j].looked >= 0 /\ jobs[j].looked >= jobs[j].limit
            ELSE jobs[j].limit < 0 \/ jobs[j].looked > jobs[j].limit - Poll

\* What a caller is told is true, whichever of user, timeout, emergency stop
\* and disconnect the worker's wait met first.
AnswersSound == StopDenies /\ DecisionHonoured /\ PendingOnStack /\ LooksToTheEnd

\* Whoever listens to screenChanged is never Gap behind: a frame the handlers
\* are done with, passed over, too early or announced, is at most just short of
\* Gap newer than the last announced one, in whatever order the threads of the
\* pool finish (MainController::setupWebSocketApiEvents).  Frames that repeated
\* the announced screen are left out: an older frame whose hash comes late can
\* still be announced after them.
EventsKeepUp == due - last.stamp < Gap

\* Every job that was handed to the pool ends and its answer is sent or
\* dropped, also those that wait in the queue while every thread of the pool
\* waits for a user or a remote host
\* (WebSocketApiServer::onTextMessageReceived).
RequestsEnd ==
    \A j \in 1 .. MaxJobs :
        (j \in Jobs /\ jobs[j].kind # "hash") ~> (j \in Jobs /\ jobs[j].pc = "over")
=============================================================================
