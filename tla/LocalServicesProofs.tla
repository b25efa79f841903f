------------------------ MODULE LocalServicesProofs -------------------------
(***************************************************************************)
(* Proofs about LocalApi, for any number of addresses, threads,            *)
(* connections and jobs: the types and the size of the pool, that what a   *)
(* caller is told is true (AnswersSound), and that screenChanged events    *)
(* keep up with the frames (EventsKeepUp).                                 *)
(*                                                                         *)
(* AnswersSound follows job by job (Good) from what the two sides of a     *)
(* wait leave in the worker's own state, and from the entry in pending     *)
(* that lets the UI thread reach it: an answer can change only while the   *)
(* entry is there, the entry is there only while the worker is inside its  *)
(* wait, and the emergency stop removes it.  For the methods that poll the *)
(* screen, the time slept is known from the intervals counted.             *)
(*                                                                         *)
(* The last part is about VirtualDisplay, for any number of processes,     *)
(* monitors, swap-chains and failures: the types, that a monitor Windows   *)
(* shows can be plugged out again (MonitorsTracked), and that a running    *)
(* thread has an owner (ThreadsOwned).  It rests on the exclusive handle   *)
(* (Opened): one request is in the driver at a time, its monitor is the    *)
(* newest, and its connector is free until the slot is set.                *)
(***************************************************************************)
EXTENDS LocalApi, VirtualDisplay, SequenceTheorems, FiniteSetTheorems, TLAPS

PCs == Working \cup {"queued", "posted", "over"}
Done == {"posted", "over"}
Said == {"none", "approved", "denied"}

\* The jobs of each kind.
ConfirmJob == [kind : {"confirm"}, addr : Addrs, pc : PCs, done : {"no", "approved", "denied"},
               answer : {"none", "approved", "denied", "timeout"}, signalled : BOOLEAN,
               stopped : BOOLEAN, said : Said]
SkillJob == [kind : {"skill"}, addr : Addrs, pc : PCs, done : {"no", "value"},
             answer : {"none", "value", "timeout", "error"}, signalled : BOOLEAN,
             cmd : {"none", "queued", "sent", "lost", "answered"}]
WatchJob == [kind : Watching, addr : Addrs, pc : PCs,
             answer : {"none", "found", "failed", "error"},
             limit : Int, elapsed : Nat, slept : Int, looked : Int]
ClickJob == [kind : {"click"}, addr : Addrs, pc : PCs,
             answer : {"none", "failed", "error", "clicked"}, left : Int]
GlanceJob == [kind : {"glance"}, addr : Addrs, pc : PCs,
              answer : {"none", "found", "failed", "error"}]
HashJob == [kind : {"hash"}, pc : PCs, stamp : 0 .. MaxTime, shown : 0 .. 1]
Job == ConfirmJob \cup SkillJob \cup WatchJob \cup ClickJob \cup GlanceJob \cup HashJob

\* A confirmation: what it has been told is what was said last, and nobody can
\* tell it more after the emergency stop, or after it has answered.
GoodConfirm(r, p) ==
    /\ r.pc \in {"queued", "start", "asking"} => r.said = "none"
    /\ r.done = IF r.said = "none" THEN "no" ELSE r.said
    /\ r.stopped => r.said = "denied" /\ ~p
    /\ r.pc \notin Done => r.answer = "none"
    /\ r.pc \in Done => r.answer # "none"
    /\ r.pc \in Done /\ r.said # "none" => r.answer = r.said

\* A watch has slept as long as it counted, up to its limit, and was not
\* longer asleep than it may be when it gave up.
GoodWatch(r) ==
    /\ r.limit < 0 => r.elapsed = 0 /\ r.slept = 0
    /\ r.limit >= 0 => r.slept = lesser(r.elapsed, r.limit)
    /\ r.pc \in Done => r.answer # "none"
    /\ r.pc \in Done /\ r.answer = "failed" =>
          IF r.kind = "verify" THEN r.looked >= 0 /\ r.looked >= r.limit
          ELSE r.limit < 0 \/ r.looked > r.limit - Poll

\* The state of a job, of which p says whether pending has an entry for it.
Good(r, p) ==
    /\ p => r.kind \in Blocking /\ r.pc \in {"asked", "waiting", "woken"}
    /\ r.kind = "confirm" => GoodConfirm(r, p)
    /\ r.kind \in Watching => GoodWatch(r)
    /\ r.kind \in {"skill", "glance"} /\ r.pc \in Done => r.answer # "none"

Typed ==
    /\ conns \in [Addrs -> 0 .. MaxConns] /\ opened \in 0 .. MaxConns
    /\ jobs \in Seq(Job) /\ Len(jobs) <= MaxJobs /\ pending \subseteq Jobs
    /\ auto \in BOOLEAN /\ text \in BOOLEAN /\ now \in 0 .. MaxTime
    /\ last.stamp \in -Gap .. MaxTime /\ last.shown \in 0 .. 2
AllGood == \A j \in Jobs : Good(jobs[j], j \in pending)
PoolKept == IsFiniteSet(Running) /\ Cardinality(Running) <= PoolSize

IInv == Typed /\ AllGood /\ PoolKept

\* The time of the last event is set, and forgotten, together with due.
KeptUp == due \in -Gap .. MaxTime /\ EventsKeepUp

----------------------------------------------------------------------------
(***************************************************************************)
(* What the steps have in common.                                          *)
(***************************************************************************)

\* The kind of a job says which fields it has.
LEMMA Kinds ==
    ASSUME NEW r \in Job
    PROVE  /\ r.pc \in PCs
           /\ r.kind = "confirm" => r \in ConfirmJob
           /\ r.kind = "skill" => r \in SkillJob
           /\ r.kind \in Watching => r \in WatchJob
           /\ r.kind = "click" => r \in ClickJob
           /\ r.kind = "glance" => r \in GlanceJob
           /\ r.kind = "hash" => r \in HashJob
  BY DEF Job, ConfirmJob, SkillJob, WatchJob, ClickJob, GlanceJob, HashJob, Watching

\* Each kind of job is a job.
LEMMA AreJobs ==
    ConfirmJob \cup SkillJob \cup WatchJob \cup ClickJob \cup GlanceJob \cup HashJob \subseteq Job
  BY DEF Job

\* A job of the pool.
LEMMA IsJob == ASSUME Typed, NEW j \in Jobs PROVE jobs[j] \in Job /\ j \in 1 .. Len(jobs)
  BY DEF Typed, Jobs

\* Fewer threads run, or one more when there was room.
LEMMA PoolStays ==
    ASSUME PoolKept, NEW x,
           Running' \subseteq Running
             \/ (Running' \subseteq Running \cup {x} /\ Cardinality(Running) < PoolSize)
    PROVE  PoolKept'
  <1>1. IsFiniteSet(Running) /\ Cardinality(Running) \in Nat /\ Cardinality(Running) <= PoolSize
    BY FS_CardinalityType DEF PoolKept
  <1>2. CASE Running' \subseteq Running
    <2>1. IsFiniteSet(Running') /\ Cardinality(Running') <= Cardinality(Running)
      BY <1>1, <1>2, FS_Subset
    <2>2. Cardinality(Running') \in Nat
      BY <2>1, FS_CardinalityType
    <2> QED BY <1>1, <2>1, <2>2, ApiAssumption DEF PoolKept
  <1>3. CASE Running' \subseteq Running \cup {x} /\ Cardinality(Running) < PoolSize
    <2> DEFINE S == Running \cup {x}
    <2>1. IsFiniteSet(S) /\ Cardinality(S) <= Cardinality(Running) + 1
      BY <1>1, FS_AddElement
    <2>2. IsFiniteSet(Running') /\ Cardinality(Running') <= Cardinality(S)
      BY <1>3, <2>1, FS_Subset
    <2>3. Cardinality(S) \in Nat /\ Cardinality(Running') \in Nat
      BY <2>1, <2>2, FS_CardinalityType
    <2> QED BY <1>1, <1>3, <2>1, <2>2, <2>3, ApiAssumption DEF PoolKept
  <1> QED BY <1>2, <1>3

\* A step of one job.
LEMMA OneJob ==
    ASSUME IInv, NEW j \in Jobs, NEW r \in Job, jobs' = [jobs EXCEPT ![j] = r],
           pending' \subseteq pending \cup {j},
           \A i \in Jobs : i # j => (i \in pending' <=> i \in pending),
           Good(r, j \in pending'),
           r.pc \in Working => jobs[j].pc \in Working \/ Cardinality(Running) < PoolSize,
           UNCHANGED <<conns, opened, auto, text, now>>,
           last'.stamp \in -Gap .. MaxTime, last'.shown \in 0 .. 2
    PROVE  IInv'
  <1>1. Typed /\ AllGood /\ PoolKept
    BY DEF IInv
  <1>2. /\ jobs' \in Seq(Job) /\ Len(jobs') = Len(jobs)
        /\ \A i \in 1 .. Len(jobs) : jobs'[i] = IF i = j THEN r ELSE jobs[i]
    BY <1>1, ExceptSeq DEF Typed, Jobs
  <1>3. Jobs' = Jobs /\ \A i \in Jobs : jobs'[i] = IF i = j THEN r ELSE jobs[i]
    BY <1>2 DEF Jobs
  <1>4. Typed'
    BY <1>1, <1>2, <1>3 DEF Typed
  <1>5. AllGood'
    <2> SUFFICES ASSUME NEW i \in Jobs PROVE Good(jobs'[i], i \in pending')
      BY <1>3 DEF AllGood
    <2>1. CASE i = j
      BY <1>3, <2>1
    <2>2. CASE i # j
      BY <1>1, <1>3, <2>2 DEF AllGood, Good, GoodConfirm
    <2> QED BY <2>1, <2>2
  <1>6. PoolKept'
    <2>1. CASE r.pc \in Working => jobs[j].pc \in Working
      <3>1. Running' \subseteq Running
        BY <1>3, <2>1 DEF Running
      <3> QED BY <1>1, <3>1, PoolStays
    <2>2. CASE Cardinality(Running) < PoolSize
      <3>1. Running' \subseteq Running \cup {j}
        BY <1>3 DEF Running
      <3> QED BY <1>1, <2>2, <3>1, PoolStays
    <2> QED BY <2>1, <2>2
  <1> QED BY <1>4, <1>5, <1>6 DEF IInv

\* A new job.
LEMMA NewJob ==
    ASSUME IInv, NEW r \in Job, Len(jobs) < MaxJobs, jobs' = Append(jobs, r), pending' = pending,
           Good(r, FALSE), r.pc = "queued",
           UNCHANGED <<conns, opened, auto, text, last>>, now' \in 0 .. MaxTime
    PROVE  IInv'
  <1>1. Typed /\ AllGood /\ PoolKept
    BY DEF IInv
  <1> DEFINE n == Len(jobs) + 1
  <1>2. /\ jobs' \in Seq(Job) /\ Len(jobs') = n /\ jobs'[n] = r /\ Len(jobs) \in Nat
        /\ \A i \in 1 .. Len(jobs) : jobs'[i] = jobs[i]
    BY <1>1, AppendProperties, LenProperties DEF Typed
  <1>3. /\ Jobs' = Jobs \cup {n} /\ n \notin Jobs /\ \A i \in Jobs : jobs'[i] = jobs[i]
    BY <1>2 DEF Jobs
  <1>4. Typed'
    <2>1. Len(jobs') <= MaxJobs
      BY <1>2, ApiAssumption
    <2> QED BY <1>1, <1>2, <1>3, <2>1 DEF Typed
  <1>5. AllGood'
    <2> SUFFICES ASSUME NEW i \in Jobs \cup {n} PROVE Good(jobs'[i], i \in pending')
      BY <1>3 DEF AllGood
    <2>1. CASE i = n
      <3>1. i \notin pending' /\ jobs'[i] = r
        BY <1>1, <1>2, <1>3, <2>1 DEF Typed
      <3> QED BY <3>1 DEF Good, GoodConfirm
    <2>2. CASE i \in Jobs
      BY <1>1, <1>3, <2>2 DEF AllGood
    <2> QED BY <2>1, <2>2
  <1>6. PoolKept'
    <2>1. Running' \subseteq Running
      BY <1>2, <1>3 DEF Running, Working
    <2> QED BY <1>1, <2>1, PoolStays
  <1> QED BY <1>4, <1>5, <1>6 DEF IInv

\* A step that no job sees.
LEMMA NoJob ==
    ASSUME IInv, UNCHANGED <<jobs, pending>>, Typed'
    PROVE  IInv'
  <1>1. AllGood' /\ PoolKept'
    BY DEF IInv, AllGood, Jobs, PoolKept, Running
  <1> QED BY <1>1 DEF IInv

----------------------------------------------------------------------------
(***************************************************************************)
(* Connections and jobs.                                                   *)
(***************************************************************************)

\* Connections come and go, the screen and the setting change.
LEMMA ConnectionsInv ==
    ASSUME IInv,
           \/ \E a \in Addrs : onNewConnection(a) \/ onClientDisconnected(a)
           \/ setTrustConfirmMode \/ ScreenChanges \/ connectionRemoved
    PROVE  IInv'
  <1>1. Typed
    BY DEF IInv
  <1>2. UNCHANGED <<jobs, pending, now>> /\ Jobs' = Jobs
    BY DEF onNewConnection, onClientDisconnected, setTrustConfirmMode, ScreenChanges,
           connectionRemoved, Jobs
  <1>3. conns' \in [Addrs -> 0 .. MaxConns] /\ opened' \in 0 .. MaxConns
    <2>1. CASE \E a \in Addrs : onNewConnection(a)
      <3>1. opened' \in 0 .. MaxConns /\ opened' = opened + 1
        BY <1>1, <2>1, ApiAssumption DEF onNewConnection, Typed
      <3>2. \E a \in Addrs : conns' = [conns EXCEPT ![a] = opened']
        BY <2>1, <3>1 DEF onNewConnection
      <3> QED BY <1>1, <3>1, <3>2 DEF Typed
    <2>2. CASE \E a \in Addrs : onClientDisconnected(a)
      <3>1. 0 \in 0 .. MaxConns /\ opened' = opened
        BY <2>2, ApiAssumption DEF onClientDisconnected
      <3>2. \E a \in Addrs : conns' = [conns EXCEPT ![a] = 0]
        BY <2>2 DEF onClientDisconnected
      <3> QED BY <1>1, <3>1, <3>2 DEF Typed
    <2>3. CASE setTrustConfirmMode \/ ScreenChanges \/ connectionRemoved
      BY <1>1, <2>3 DEF Typed, setTrustConfirmMode, ScreenChanges, connectionRemoved
    <2> QED BY <2>1, <2>2, <2>3
  <1>4. auto' \in BOOLEAN /\ text' \in BOOLEAN
    BY <1>1 DEF Typed, onNewConnection, onClientDisconnected, setTrustConfirmMode,
                ScreenChanges, connectionRemoved
  <1>5. last'.stamp \in -Gap .. MaxTime /\ last'.shown \in 0 .. 2
    <2>1. CASE connectionRemoved
      <3>1. last' = NoEvent
        BY <2>1 DEF connectionRemoved
      <3> QED BY <3>1, ApiAssumption DEF NoEvent
    <2>2. CASE ~connectionRemoved
      <3>1. last' = last
        BY <2>2 DEF onNewConnection, onClientDisconnected, setTrustConfirmMode, ScreenChanges
      <3> QED BY <1>1, <3>1 DEF Typed
    <2> QED BY <2>1, <2>2
  <1>6. Typed'
    BY <1>1, <1>2, <1>3, <1>4, <1>5 DEF Typed
  <1> QED BY <1>2, <1>6, NoJob

\* onTextMessageReceived.
LEMMA RequestInv ==
    ASSUME IInv, NEW a \in Addrs, onTextMessageReceived(a) PROVE IInv'
  <1> DEFINE R == {Confirm(a), Skill(a), Click(a), Glance(a)} \cup
                  {Watch(k, a, t) : k \in Watching, t \in Timeouts}
  <1>1. /\ Len(jobs) < MaxJobs
        /\ UNCHANGED <<conns, opened, pending, auto, text, now, last>>
        /\ \E r \in R : jobs' = Append(jobs, r)
    BY DEF onTextMessageReceived
  <1>2. now' \in 0 .. MaxTime
    BY <1>1 DEF IInv, Typed
  <1>3. ASSUME NEW r \in R PROVE r \in Job /\ Good(r, FALSE) /\ r.pc = "queued"
    <2>1. CASE r = Confirm(a)
      BY <2>1 DEF Confirm, Job, ConfirmJob, PCs, Said, Good, GoodConfirm, Done, Watching
    <2>2. CASE r = Skill(a)
      BY <2>2 DEF Skill, Job, SkillJob, PCs, Good, Done, Watching
    <2>3. CASE r = Click(a)
      BY <2>3 DEF Click, Job, ClickJob, PCs, Good, Watching
    <2>4. CASE r = Glance(a)
      BY <2>4 DEF Glance, Job, GlanceJob, PCs, Good, Done, Watching
    <2>5. ASSUME NEW k \in Watching, NEW t \in Timeouts, r = Watch(k, a, t)
          PROVE  r \in Job /\ Good(r, FALSE) /\ r.pc = "queued"
      <3>1. t \in Int
        BY ApiAssumption
      <3>2. r \in WatchJob /\ r.pc = "queued" /\ r.elapsed = 0 /\ r.slept = 0 /\ r.kind = k
            /\ r.limit = t
        BY <2>5, <3>1 DEF Watch, WatchJob, PCs
      <3>3. GoodWatch(r)
        BY <3>1, <3>2 DEF GoodWatch, Done, lesser
      <3>4. r \in Job
        BY <3>2, AreJobs
      <3>5. r.kind \notin {"confirm", "skill", "glance"}
        BY <3>2 DEF Watching
      <3> QED BY <3>2, <3>3, <3>4, <3>5 DEF Good, GoodConfirm
    <2>6. \/ r \in {Confirm(a), Skill(a), Click(a), Glance(a)}
          \/ \E k \in Watching, t \in Timeouts : r = Watch(k, a, t)
      OBVIOUS
    <2> HIDE DEF R
    <2> QED BY <2>1, <2>2, <2>3, <2>4, <2>5, <2>6
  <1> HIDE DEF R
  <1> QED BY <1>1, <1>2, <1>3, NewJob

\* videoFrameReady.
LEMMA FrameInv == ASSUME IInv, videoFrameReady PROVE IInv'
  <1>1. Typed
    BY DEF IInv
  <1>2. PICK t \in now .. MaxTime :
          /\ now' = t
          /\ UNCHANGED jobs \/ jobs' = Append(jobs, Hash(t, frame))
    BY DEF videoFrameReady
  <1>3. Len(jobs) < MaxJobs /\ UNCHANGED <<conns, opened, pending, auto, text, last>>
    BY DEF videoFrameReady
  <1>4. now' \in 0 .. MaxTime
    BY <1>1, <1>2, ApiAssumption DEF Typed
  <1>5. CASE UNCHANGED jobs
    <2>1. Typed'
      BY <1>1, <1>3, <1>4, <1>5 DEF Typed, Jobs
    <2> QED BY <1>3, <1>5, <2>1, NoJob
  <1>6. CASE jobs' = Append(jobs, Hash(t, frame))
    <2> DEFINE r == Hash(t, frame)
    <2>1. frame \in 0 .. 1 /\ t \in 0 .. MaxTime
      BY <1>2, <1>4 DEF frame
    <2>2. r \in HashJob /\ r.pc = "queued" /\ r.kind = "hash"
      BY <2>1 DEF Hash, HashJob, PCs
    <2>3. Good(r, FALSE) /\ r \in Job
      BY <2>2, AreJobs DEF Good, Watching
    <2> HIDE DEF r
    <2> QED BY <1>3, <1>4, <1>6, <2>2, <2>3, NewJob DEF r
  <1> QED BY <1>2, <1>5, <1>6

\* The pool takes a job, and answers are posted.
LEMMA ScheduleInv == ASSUME IInv, NEW j \in Jobs, Start(j) \/ Reply(j) PROVE IInv'
  <1> DEFINE p == IF Start(j) THEN "start" ELSE "over"
             r == [jobs[j] EXCEPT !.pc = p]
  <1>1. Typed /\ AllGood
    BY DEF IInv
  <1>2. /\ UNCHANGED <<conns, opened, pending, auto, text, now, last>>
        /\ jobs' = [jobs EXCEPT ![j] = r]
        /\ \/ jobs[j].pc = "queued" /\ p = "start" /\ Cardinality(Running) < PoolSize
           \/ jobs[j].pc = "posted" /\ p = "over"
    BY <1>1 DEF Start, Reply, Typed, Jobs
  <1>3. p \in {"start", "over"}
    OBVIOUS
  <1> HIDE DEF p
  <1>4. jobs[j] \in Job /\ Good(jobs[j], j \in pending)
    BY <1>1, IsJob DEF AllGood
  <1>5. r \in Job /\ r.pc = p
    BY <1>3, <1>4 DEF Job, ConfirmJob, SkillJob, WatchJob, ClickJob, GlanceJob, HashJob, PCs,
                      Working
  <1>6. Good(r, j \in pending')
    <2>1. CASE jobs[j].kind = "confirm"
      <3>1. jobs[j] \in ConfirmJob
        BY <1>4, <2>1, Kinds
      <3> QED BY <1>2, <1>3, <1>4, <2>1, <3>1
              DEF Good, GoodConfirm, ConfirmJob, Done, Watching
    <2>2. CASE jobs[j].kind \in Watching
      <3>1. jobs[j] \in WatchJob
        BY <1>4, <2>2, Kinds
      <3> QED BY <1>2, <1>3, <1>4, <2>2, <3>1 DEF Good, GoodWatch, WatchJob, Done, Watching
    <2>3. CASE jobs[j].kind \notin Watching \cup {"confirm"}
      <3>1. r.kind = jobs[j].kind
            /\ (jobs[j].kind \in {"skill", "glance"} => r.answer = jobs[j].answer)
        BY <1>4, Kinds DEF SkillJob, GlanceJob, Job, ConfirmJob, WatchJob, ClickJob, HashJob
      <3>2. j \notin pending'
        BY <1>2, <1>4 DEF Good
      <3> QED BY <1>2, <1>4, <1>5, <2>3, <3>1, <3>2 DEF Good, Done, Watching
    <2> QED BY <2>1, <2>2, <2>3
  <1> HIDE DEF r
  <1>7. r.pc \in Working => Cardinality(Running) < PoolSize
    BY <1>2, <1>5 DEF Working
  <1>8. last'.stamp \in -Gap .. MaxTime /\ last'.shown \in 0 .. 2
    BY <1>1, <1>2 DEF Typed
  <1> QED BY <1>2, <1>5, <1>6, <1>7, <1>8, OneJob

----------------------------------------------------------------------------
(***************************************************************************)
(* TrustHandler and SkillHandler.                                          *)
(***************************************************************************)

\* A confirmation and the user.
LEMMA ConfirmInv ==
    ASSUME IInv, NEW j \in Jobs,
           \/ ReadPolicy(j) \/ Ask(j)
           \/ \E d \in {"approved", "denied"} : resolveConfirmation(j, d)
    PROVE  IInv'
  <1>1. Typed /\ AllGood
    BY DEF IInv
  <1>2. jobs[j].kind = "confirm" /\ jobs[j] \in Job /\ Good(jobs[j], j \in pending)
    BY <1>1, IsJob DEF AllGood, ReadPolicy, Ask, resolveConfirmation, Is
  <1>3. jobs[j] \in ConfirmJob /\ GoodConfirm(jobs[j], j \in pending)
        /\ (j \in pending => jobs[j].pc \in {"asked", "waiting", "woken"})
    BY <1>2, Kinds DEF Good
  <1>4. UNCHANGED <<conns, opened, auto, text, now, last>>
    BY DEF ReadPolicy, Ask, resolveConfirmation
  <1>5. last'.stamp \in -Gap .. MaxTime /\ last'.shown \in 0 .. 2
    BY <1>1, <1>4 DEF Typed
  <1>6. CASE ReadPolicy(j)
    <2> DEFINE R == {[jobs[j] EXCEPT !.pc = "posted", !.answer = "approved"],
                     [jobs[j] EXCEPT !.pc = "asking"]}
    <2>1. /\ \E r \in R : jobs' = [jobs EXCEPT ![j] = r]
          /\ pending' = pending /\ jobs[j].pc = "start"
      BY <1>1, <1>6 DEF ReadPolicy, Is, answered, Typed, Jobs
    <2>2. ASSUME NEW r \in R PROVE r \in Job /\ Good(r, j \in pending')
      <3>1. r \in ConfirmJob
        BY <1>3 DEF ConfirmJob, PCs, Working
      <3>2. Good(r, j \in pending')
        BY <1>3, <2>1 DEF Good, GoodConfirm, ConfirmJob, Done, Watching
      <3> QED BY <3>1, <3>2, AreJobs
    <2>3. jobs[j].pc \in Working
      BY <2>1 DEF Working
    <2> HIDE DEF R
    <2> QED BY <1>4, <1>5, <2>1, <2>2, <2>3, OneJob
  <1>7. CASE Ask(j)
    <2> DEFINE r == [jobs[j] EXCEPT !.pc = "asked"]
    <2>1. jobs' = [jobs EXCEPT ![j] = r] /\ pending' = pending \cup {j} /\ jobs[j].pc = "asking"
      BY <1>1, <1>7 DEF Ask, Is, Typed, Jobs
    <2>2. r \in ConfirmJob
      BY <1>3 DEF ConfirmJob, PCs, Working
    <2>3. Good(r, j \in pending')
      BY <1>3, <2>1 DEF Good, GoodConfirm, ConfirmJob, Done, Watching, Blocking
    <2>4. r \in Job /\ jobs[j].pc \in Working
      BY <2>1, <2>2, AreJobs DEF Working
    <2> HIDE DEF r
    <2> QED BY <1>4, <1>5, <2>1, <2>3, <2>4, OneJob
  <1>8. ASSUME NEW d \in {"approved", "denied"}, resolveConfirmation(j, d) PROVE IInv'
    <2> DEFINE r == [jobs[j] EXCEPT !.done = d, !.said = d]
    <2>1. jobs' = [jobs EXCEPT ![j] = r] /\ pending' = pending /\ j \in pending
      BY <1>1, <1>8 DEF resolveConfirmation, Typed, Jobs
    <2>2. r \in ConfirmJob /\ r.pc = jobs[j].pc
      BY <1>3 DEF ConfirmJob, Said
    <2>3. Good(r, j \in pending')
      BY <1>3, <2>1 DEF Good, GoodConfirm, ConfirmJob, Done, Watching, Blocking
    <2>4. r \in Job
      BY <2>2, AreJobs
    <2> HIDE DEF r
    <2> QED BY <1>4, <1>5, <2>1, <2>2, <2>3, <2>4, OneJob
  <1> QED BY <1>6, <1>7, <1>8

\* The wait of a worker.
LEMMA WaitInv ==
    ASSUME IInv, NEW j \in Jobs, Wait(j) \/ Wake(j) \/ Finish(j)
    PROVE  IInv'
  <1>1. Typed /\ AllGood
    BY DEF IInv
  <1>2. /\ jobs[j].kind \in Blocking /\ jobs[j].pc \in Working /\ jobs[j].pc \in {"asked", "waiting", "woken"}
        /\ UNCHANGED <<conns, opened, auto, text, now, last>>
    BY DEF Wait, Wake, Finish, Is, Working
  <1>3. jobs[j] \in Job /\ Good(jobs[j], j \in pending)
    BY <1>1, IsJob DEF AllGood
  <1>4. last'.stamp \in -Gap .. MaxTime /\ last'.shown \in 0 .. 2
    BY <1>1, <1>2 DEF Typed
  <1>5. CASE Wait(j) \/ Wake(j)
    <2>1. PICK p \in {"waiting", "woken"}, b \in BOOLEAN :
            jobs' = [jobs EXCEPT ![j] = [jobs[j] EXCEPT !.pc = p, !.signalled = b]]
      <3>1. CASE Wait(j)
        <4>1. jobs[j].signalled \in BOOLEAN
          BY <1>2, <1>3, Kinds DEF Blocking, ConfirmJob, SkillJob
        <4> DEFINE p == IF jobs[j].done # "no" THEN "woken" ELSE "waiting"
        <4>2. jobs' = [jobs EXCEPT ![j] = [jobs[j] EXCEPT !.pc = p]]
          BY <1>1, <3>1 DEF Wait, Typed, Jobs
        <4>3. p \in {"waiting", "woken"}
          OBVIOUS
        <4> HIDE DEF p
        <4>4. [jobs[j] EXCEPT !.pc = p] = [jobs[j] EXCEPT !.pc = p, !.signalled = jobs[j].signalled]
          BY <1>2, <1>3, Kinds DEF Blocking, ConfirmJob, SkillJob
        <4> QED BY <4>1, <4>2, <4>3, <4>4
      <3>2. CASE Wake(j)
        BY <1>1, <3>2 DEF Wake, Typed, Jobs
      <3> QED BY <1>5, <3>1, <3>2
    <2> DEFINE r == [jobs[j] EXCEPT !.pc = p, !.signalled = b]
    <2>2. pending' = pending
      BY <1>5 DEF Wait, Wake
    <2>3. r \in Job /\ Good(r, j \in pending')
      <3>1. CASE jobs[j].kind = "confirm"
        <4>1. jobs[j] \in ConfirmJob
          BY <1>3, <3>1, Kinds
        <4>2. r \in ConfirmJob
          BY <4>1 DEF ConfirmJob, PCs, Working
        <4>3. Good(r, j \in pending')
          BY <1>2, <1>3, <2>2, <3>1, <4>1
             DEF Good, GoodConfirm, ConfirmJob, Done, Watching, Blocking
        <4> QED BY <4>2, <4>3, AreJobs
      <3>2. CASE jobs[j].kind = "skill"
        <4>1. jobs[j] \in SkillJob
          BY <1>3, <3>2, Kinds
        <4>2. r \in SkillJob
          BY <4>1 DEF SkillJob, PCs, Working
        <4>3. Good(r, j \in pending')
          BY <1>2, <1>3, <2>2, <3>2, <4>1 DEF Good, SkillJob, Done, Watching, Blocking
        <4> QED BY <4>2, <4>3, AreJobs
      <3> QED BY <1>2, <3>1, <3>2 DEF Blocking
    <2> HIDE DEF r
    <2> QED BY <1>2, <1>4, <2>1, <2>2, <2>3, OneJob DEF r
  <1>6. CASE Finish(j)
    <2> DEFINE r == [jobs[j] EXCEPT !.pc = "posted", !.answer = verdict(j)]
    <2>1. jobs' = [jobs EXCEPT ![j] = r] /\ pending' = pending \ {j}
      BY <1>1, <1>6 DEF Finish, answered, Typed, Jobs
    <2>2. r \in Job /\ Good(r, FALSE) /\ r.pc = "posted"
      <3>1. CASE jobs[j].kind = "confirm"
        <4>1. jobs[j] \in ConfirmJob
          BY <1>3, <3>1, Kinds
        <4>2. r \in ConfirmJob /\ r.pc = "posted"
          BY <4>1 DEF ConfirmJob, PCs, verdict
        <4>3. Good(r, FALSE)
          BY <1>2, <1>3, <3>1, <4>1
             DEF Good, GoodConfirm, ConfirmJob, Done, Watching, Blocking, verdict, Said
        <4> QED BY <4>2, <4>3, AreJobs
      <3>2. CASE jobs[j].kind = "skill"
        <4>1. jobs[j] \in SkillJob
          BY <1>3, <3>2, Kinds
        <4>2. r \in SkillJob /\ r.pc = "posted"
          BY <4>1 DEF SkillJob, PCs, verdict
        <4>3. Good(r, FALSE)
          BY <1>2, <1>3, <3>2, <4>1 DEF Good, SkillJob, Done, Watching, Blocking, verdict
        <4> QED BY <4>2, <4>3, AreJobs
      <3> QED BY <1>2, <3>1, <3>2 DEF Blocking
    <2> HIDE DEF r
    <2>3. j \notin pending' /\ pending' \subseteq pending \cup {j}
          /\ \A i \in Jobs : i # j => (i \in pending' <=> i \in pending)
      BY <2>1
    <2>4. Good(r, j \in pending')
      BY <2>2, <2>3 DEF Good, GoodConfirm
    <2>5. r.pc \notin Working
      BY <2>2 DEF Working
    <2> QED BY <1>2, <1>4, <2>1, <2>2, <2>3, <2>4, <2>5, OneJob
  <1> QED BY <1>5, <1>6

\* A call of a remote tool.
LEMMA SkillInv ==
    ASSUME IInv, NEW j \in Jobs, SendAndWait(j) \/ SendSkill(j) \/ onSkillResponse(j)
    PROVE  IInv'
  <1>1. Typed /\ AllGood
    BY DEF IInv
  <1>2. /\ jobs[j].kind = "skill"
        /\ UNCHANGED <<conns, opened, auto, text, now, last>>
    BY DEF SendAndWait, SendSkill, onSkillResponse, Is
  <1>3. jobs[j] \in SkillJob /\ Good(jobs[j], j \in pending)
    BY <1>1, <1>2, IsJob, Kinds DEF AllGood
  <1>4. last'.stamp \in -Gap .. MaxTime /\ last'.shown \in 0 .. 2
    BY <1>1, <1>2 DEF Typed
  <1>5. CASE SendAndWait(j)
    <2>1. jobs[j].pc = "start" /\ jobs[j].pc \in Working
      BY <1>5 DEF SendAndWait, Is, Working
    <2>2. CASE jobs' = answered(j, "error") /\ UNCHANGED pending
      <3> DEFINE r == [jobs[j] EXCEPT !.pc = "posted", !.answer = "error"]
      <3>1. jobs' = [jobs EXCEPT ![j] = r]
        BY <1>1, <2>2 DEF answered, Typed, Jobs
      <3>2. r \in SkillJob
        BY <1>3 DEF SkillJob, PCs
      <3>3. Good(r, j \in pending')
        BY <1>3, <2>1, <2>2 DEF Good, SkillJob, Done, Watching
      <3>4. r \in Job
        BY <3>2, AreJobs
      <3> HIDE DEF r
      <3> QED BY <1>2, <1>4, <2>1, <2>2, <3>1, <3>3, <3>4, OneJob
    <2>3. CASE /\ jobs' = [jobs EXCEPT ![j].pc = "asked", ![j].cmd = "queued"]
               /\ pending' = pending \cup {j}
      <3> DEFINE r == [jobs[j] EXCEPT !.pc = "asked", !.cmd = "queued"]
      <3>1. jobs' = [jobs EXCEPT ![j] = r]
        BY <1>1, <2>3 DEF Typed, Jobs
      <3>2. r \in SkillJob
        BY <1>3 DEF SkillJob, PCs, Working
      <3>3. Good(r, j \in pending')
        BY <1>3, <2>3 DEF Good, SkillJob, Done, Watching, Blocking
      <3>4. r \in Job
        BY <3>2, AreJobs
      <3> HIDE DEF r
      <3> QED BY <1>2, <1>4, <2>1, <2>3, <3>1, <3>3, <3>4, OneJob
    <2> QED BY <1>5, <2>2, <2>3 DEF SendAndWait
  <1>6. CASE SendSkill(j) \/ onSkillResponse(j)
    <2>1. pending' = pending
      BY <1>6 DEF SendSkill, onSkillResponse
    <2>2. PICK c \in {"sent", "lost", "answered"}, d \in {"no", "value"} :
            jobs' = [jobs EXCEPT ![j] = [jobs[j] EXCEPT !.cmd = c, !.done = d]]
      <3>1. CASE SendSkill(j)
        <4>1. PICK c \in {"sent", "lost"} : jobs' = [jobs EXCEPT ![j].cmd = c]
          BY <3>1 DEF SendSkill
        <4>2. [jobs[j] EXCEPT !.cmd = c] = [jobs[j] EXCEPT !.cmd = c, !.done = jobs[j].done]
          BY <1>3 DEF SkillJob
        <4>3. jobs[j].done \in {"no", "value"}
          BY <1>3 DEF SkillJob
        <4>4. jobs' = [jobs EXCEPT ![j] = [jobs[j] EXCEPT !.cmd = c]]
          BY <1>1, <4>1 DEF Typed, Jobs
        <4> QED BY <4>1, <4>2, <4>3, <4>4
      <3>2. CASE onSkillResponse(j)
        <4> DEFINE d == IF j \in pending THEN "value" ELSE jobs[j].done
        <4>1. d \in {"no", "value"}
          BY <1>3 DEF SkillJob
        <4>2. jobs' = [jobs EXCEPT ![j] = [jobs[j] EXCEPT !.cmd = "answered", !.done = d]]
          BY <1>1, <3>2 DEF onSkillResponse, Typed, Jobs
        <4> HIDE DEF d
        <4> QED BY <4>1, <4>2
      <3> QED BY <1>6, <3>1, <3>2
    <2> DEFINE r == [jobs[j] EXCEPT !.cmd = c, !.done = d]
    <2>3. r \in SkillJob /\ r.pc = jobs[j].pc
      BY <1>3 DEF SkillJob
    <2>4. Good(r, j \in pending')
      BY <1>3, <2>1 DEF Good, SkillJob, Done, Watching
    <2>5. r \in Job
      BY <2>3, AreJobs
    <2> HIDE DEF r
    <2> QED BY <1>2, <1>4, <2>1, <2>2, <2>3, <2>4, <2>5, OneJob DEF r
  <1> QED BY <1>5, <1>6

\* The emergency stop denies every open confirmation and forgets it.
LEMMA StopInv == ASSUME IInv, handleEmergencyStop PROVE IInv'
  <1>1. Typed /\ AllGood /\ PoolKept
    BY DEF IInv
  <1>2. /\ jobs' = stoppedJobs /\ pending' = {j \in pending : jobs[j].kind # "confirm"}
        /\ UNCHANGED <<conns, opened, auto, text, now, last>>
    BY DEF handleEmergencyStop
  <1> DEFINE Stop(r) == [r EXCEPT !.done = "denied", !.said = "denied", !.stopped = TRUE]
             S(j) == j \in pending /\ jobs[j].kind = "confirm"
             new(j) == IF S(j) THEN Stop(jobs[j]) ELSE jobs[j]
  <1>3. \A j \in Jobs : jobs[j] \in Job /\ Good(jobs[j], j \in pending)
    BY <1>1, IsJob DEF AllGood
  <1>4. ASSUME NEW j \in Jobs, S(j)
        PROVE  Stop(jobs[j]) \in Job /\ Good(Stop(jobs[j]), FALSE) /\ Stop(jobs[j]).pc = jobs[j].pc
    <2>1. jobs[j] \in ConfirmJob
      BY <1>3, <1>4, Kinds
    <2>2. Stop(jobs[j]) \in ConfirmJob /\ Stop(jobs[j]).pc = jobs[j].pc
      BY <2>1 DEF ConfirmJob, Said
    <2>3. Good(Stop(jobs[j]), FALSE)
      BY <1>3, <1>4, <2>1 DEF Good, GoodConfirm, ConfirmJob, Done, Watching, Said
    <2> QED BY <2>2, <2>3, AreJobs
  <1>5. \A j \in Jobs : /\ new(j) \in Job /\ new(j).pc = jobs[j].pc
                        /\ Good(new(j), j \in pending')
    <2> SUFFICES ASSUME NEW j \in Jobs
                 PROVE  new(j) \in Job /\ new(j).pc = jobs[j].pc /\ Good(new(j), j \in pending')
      OBVIOUS
    <2>1. CASE S(j)
      <3>1. j \notin pending'
        BY <1>2, <2>1
      <3> HIDE DEF Stop
      <3> QED BY <1>4, <2>1, <3>1 DEF Good, GoodConfirm
    <2>2. CASE ~S(j)
      <3>1. j \in pending' <=> j \in pending
        BY <1>2, <2>2
      <3> QED BY <1>3, <2>2, <3>1 DEF Good, GoodConfirm
    <2> QED BY <2>1, <2>2
  <1>6. jobs' = [j \in Jobs |-> new(j)]
    BY <1>2 DEF stoppedJobs
  <1> HIDE DEF new, Stop, S
  <1>7. jobs' \in Seq(Job) /\ Len(jobs') = Len(jobs) /\ Jobs' = Jobs
    <2>1. Len(jobs) \in Nat
      BY <1>1, LenProperties DEF Typed
    <2>2. jobs' \in Seq(Job) /\ Len(jobs') = Len(jobs)
      BY <1>5, <1>6, <2>1 DEF Jobs
    <2> QED BY <2>2 DEF Jobs
  <1>8. Typed'
    BY <1>1, <1>2, <1>7 DEF Typed
  <1>9. AllGood'
    BY <1>5, <1>6, <1>7 DEF AllGood
  <1>10. PoolKept'
    <2>1. Running' \subseteq Running
      BY <1>5, <1>6, <1>7 DEF Running
    <2> QED BY <1>1, <2>1, PoolStays
  <1> QED BY <1>8, <1>9, <1>10 DEF IInv

----------------------------------------------------------------------------
(***************************************************************************)
(* Looking at the screen.                                                  *)
(***************************************************************************)

\* verifyActionResult and waitForText: what the record of a watch becomes.
LEMMA LookInv == ASSUME IInv, NEW j \in Jobs, Look(j) PROVE IInv'
  <1> DEFINE q == jobs[j]
             gave == [q EXCEPT !.looked = q.slept, !.answer = "failed", !.pc = "posted"]
             nap == [q EXCEPT !.looked = q.slept,
                              !.slept = q.slept + lesser(Poll, q.limit - q.elapsed),
                              !.elapsed = q.elapsed + Poll]
             late == [nap EXCEPT !.answer = "failed", !.pc = "posted"]
             told(x) == [q EXCEPT !.pc = "posted", !.answer = x]
  <1>1. Typed /\ AllGood
    BY DEF IInv
  <1>2. /\ q.kind \in Watching /\ q.pc = "start"
        /\ UNCHANGED <<conns, opened, pending, auto, text, now, last>>
    BY DEF Look, Is
  <1>3. q \in WatchJob /\ Good(q, j \in pending)
    BY <1>1, <1>2, IsJob, Kinds DEF AllGood
  <1>4. j \notin pending /\ GoodWatch(q)
    BY <1>2, <1>3 DEF Good
  <1>5. /\ q.limit \in Int /\ q.elapsed \in Nat /\ q.slept \in Int /\ q.looked \in Int
        /\ Poll \in Nat /\ Poll > 0
    BY <1>3, ApiAssumption DEF WatchJob
  <1>6. /\ answered(j, "found") = [jobs EXCEPT ![j] = told("found")]
        /\ answered(j, "error") = [jobs EXCEPT ![j] = told("error")]
        /\ answered(j, "failed") = [jobs EXCEPT ![j] = told("failed")]
        /\ gaveUp(j) = [jobs EXCEPT ![j] = gave]
        /\ slept(j) = [jobs EXCEPT ![j] = nap]
    BY <1>1 DEF answered, gaveUp, slept, Typed, Jobs
  <1>7. [slept(j) EXCEPT ![j].answer = "failed", ![j].pc = "posted"] = [jobs EXCEPT ![j] = late]
    <2> HIDE DEF nap
    <2>1. jobs \in Seq(Job) /\ j \in 1 .. Len(jobs)
      BY <1>1 DEF Typed, Jobs
    <2> QED BY <1>6, <2>1
  <1>8. \/ jobs' = [jobs EXCEPT ![j] = told("found")]
        \/ jobs' = [jobs EXCEPT ![j] = told("error")]
        \/ jobs' = [jobs EXCEPT ![j] = told("failed")] /\ q.kind = "wait" /\ q.limit < 0
        \/ jobs' = [jobs EXCEPT ![j] = gave] /\ q.elapsed >= q.limit
        \/ jobs' = [jobs EXCEPT ![j] = nap] /\ q.elapsed < q.limit
        \/ /\ jobs' = [jobs EXCEPT ![j] = late] /\ q.kind = "wait"
           /\ q.elapsed < q.limit /\ q.elapsed + Poll > q.limit
    <2> HIDE DEF told, gave, nap, late
    <2>1. CASE q.kind = "wait" /\ q.limit < 0 /\ jobs' = answered(j, "failed")
      BY <1>6, <2>1
    <2>2. ASSUME NEW x \in Seen,
                 jobs' = IF x # "failed" THEN answered(j, x)
                         ELSE IF q.kind = "verify" THEN verifyAgain(j) ELSE waitAgain(j)
          PROVE  \/ jobs' = [jobs EXCEPT ![j] = told("found")]
                 \/ jobs' = [jobs EXCEPT ![j] = told("error")]
                 \/ jobs' = [jobs EXCEPT ![j] = gave] /\ q.elapsed >= q.limit
                 \/ jobs' = [jobs EXCEPT ![j] = nap] /\ q.elapsed < q.limit
                 \/ /\ jobs' = [jobs EXCEPT ![j] = late] /\ q.kind = "wait"
                    /\ q.elapsed < q.limit /\ q.elapsed + Poll > q.limit
      <3>1. x \in {"found", "failed", "error"}
        BY DEF Seen
      <3>2. CASE x # "failed"
        BY <1>6, <2>2, <3>1, <3>2
      <3>3. CASE x = "failed" /\ q.kind = "verify"
        <4>1. jobs' = IF q.elapsed >= q.limit THEN gaveUp(j) ELSE slept(j)
          BY <2>2, <3>3 DEF verifyAgain
        <4> QED BY <1>5, <1>6, <4>1
      <3>4. CASE x = "failed" /\ q.kind # "verify"
        <4>1. jobs' = IF q.elapsed >= q.limit THEN gaveUp(j)
                      ELSE IF q.elapsed + Poll > q.limit
                           THEN [slept(j) EXCEPT ![j].answer = "failed", ![j].pc = "posted"]
                      ELSE slept(j)
          BY <2>2, <3>4 DEF waitAgain
        <4>2. q.kind = "wait"
          BY <1>2, <3>4 DEF Watching
        <4> HIDE DEF q
        <4> QED BY <1>5, <1>6, <1>7, <4>1, <4>2
      <3> QED BY <3>2, <3>3, <3>4
    <2> QED BY <2>1, <2>2 DEF Look
  <1>9. \A x \in {"found", "error"} : told(x) \in WatchJob /\ GoodWatch(told(x))
    BY <1>2, <1>3, <1>4 DEF WatchJob, PCs, GoodWatch, Done
  <1>10. q.limit < 0 /\ q.kind = "wait" =>
            told("failed") \in WatchJob /\ GoodWatch(told("failed"))
    BY <1>2, <1>3, <1>4 DEF WatchJob, PCs, GoodWatch, Done
  <1>11. q.elapsed >= q.limit => gave \in WatchJob /\ GoodWatch(gave)
    <2> SUFFICES ASSUME q.elapsed >= q.limit PROVE gave \in WatchJob /\ GoodWatch(gave)
      OBVIOUS
    <2>1. /\ gave \in WatchJob /\ gave.kind = q.kind /\ gave.limit = q.limit
          /\ gave.elapsed = q.elapsed /\ gave.slept = q.slept /\ gave.looked = q.slept
          /\ gave.answer = "failed"
      BY <1>3 DEF WatchJob, PCs
    <2> HIDE DEF gave, q
    <2>2. q.slept >= 0 /\ q.slept >= q.limit
      BY <1>4, <1>5 DEF GoodWatch, lesser
    <2> QED BY <1>4, <1>5, <2>1, <2>2 DEF GoodWatch
  <1>12. q.elapsed < q.limit =>
           /\ nap \in WatchJob /\ GoodWatch(nap) /\ nap.pc = "start"
           /\ q.elapsed + Poll > q.limit /\ q.kind = "wait" => late \in WatchJob /\ GoodWatch(late)
    <2> SUFFICES ASSUME q.elapsed < q.limit
                 PROVE  /\ nap \in WatchJob /\ GoodWatch(nap) /\ nap.pc = "start"
                        /\ q.elapsed + Poll > q.limit /\ q.kind = "wait" =>
                              late \in WatchJob /\ GoodWatch(late)
      OBVIOUS
    <2> DEFINE e == q.elapsed + Poll
               s == q.slept + lesser(Poll, q.limit - q.elapsed)
    <2>1. e \in Nat /\ s \in Int
      BY <1>5 DEF lesser
    <2>2. s = lesser(e, q.limit) /\ q.slept = q.elapsed /\ q.limit >= 0
      <3> HIDE DEF q
      <3> QED BY <1>4, <1>5 DEF GoodWatch, lesser
    <2> HIDE DEF e, s
    <2>3. nap = [q EXCEPT !.looked = q.slept, !.slept = s, !.elapsed = e]
      BY DEF e, s
    <2>4. /\ nap \in WatchJob /\ nap.kind = q.kind /\ nap.limit = q.limit /\ nap.pc = "start"
          /\ nap.elapsed = e /\ nap.slept = s /\ nap.looked = q.slept
      BY <1>2, <1>3, <2>1, <2>3 DEF WatchJob
    <2> HIDE DEF nap
    <2>5. /\ late \in WatchJob /\ late.kind = q.kind /\ late.limit = q.limit
          /\ late.elapsed = e /\ late.slept = s /\ late.looked = q.slept
          /\ late.answer = "failed"
      BY <2>4 DEF WatchJob, PCs
    <2> HIDE DEF late, q
    <2>6. GoodWatch(nap)
      BY <1>5, <2>1, <2>2, <2>4 DEF GoodWatch, Done
    <2>7. q.elapsed + Poll > q.limit /\ q.kind = "wait" => GoodWatch(late)
      BY <1>5, <2>1, <2>2, <2>5 DEF GoodWatch
    <2> QED BY <2>4, <2>5, <2>6, <2>7
  <1> HIDE DEF told, gave, nap, late
  <1>13. \E r \in WatchJob : jobs' = [jobs EXCEPT ![j] = r] /\ GoodWatch(r) /\ r.kind \in Watching
    <2>1. \A r \in WatchJob : r.kind \in Watching
      BY DEF WatchJob
    <2> QED BY <1>5, <1>8, <1>9, <1>10, <1>11, <1>12, <2>1
  <1>14. PICK r \in WatchJob : jobs' = [jobs EXCEPT ![j] = r] /\ GoodWatch(r) /\ r.kind \in Watching
    BY <1>13
  <1>15. r \in Job /\ Good(r, j \in pending')
    BY <1>2, <1>4, <1>14, AreJobs DEF Good, Watching
  <1>16. last'.stamp \in -Gap .. MaxTime /\ last'.shown \in 0 .. 2
    BY <1>1, <1>2 DEF Typed
  <1>17. jobs[j].pc \in Working
    BY <1>2 DEF Working
  <1> QED BY <1>2, <1>14, <1>15, <1>16, <1>17, OneJob

\* The methods that look once, and those that click where the text was.
LEMMA GlanceInv ==
    ASSUME IInv, NEW j \in Jobs, LookOnce(j) \/ FindAndClick(j) \/ ClickSend(j)
    PROVE  IInv'
  <1>1. Typed /\ AllGood
    BY DEF IInv
  <1>2. /\ UNCHANGED <<conns, opened, pending, auto, text, now, last>>
        /\ jobs[j].pc \in {"start", "sending"} /\ jobs[j].pc \in Working
    BY DEF LookOnce, FindAndClick, ClickSend, Is, Working
  <1>3. jobs[j] \in Job /\ Good(jobs[j], j \in pending)
    BY <1>1, IsJob DEF AllGood
  <1>4. j \notin pending'
    BY <1>2, <1>3 DEF Good
  <1>5. last'.stamp \in -Gap .. MaxTime /\ last'.shown \in 0 .. 2
    BY <1>1, <1>2 DEF Typed
  <1>6. CASE LookOnce(j)
    <2>1. PICK x \in {"found", "failed", "error"} : jobs' = answered(j, x)
      BY <1>6 DEF LookOnce, Seen
    <2> DEFINE r == [jobs[j] EXCEPT !.pc = "posted", !.answer = x]
    <2>2. jobs' = [jobs EXCEPT ![j] = r]
      BY <1>1, <2>1 DEF answered, Typed, Jobs
    <2>3. jobs[j] \in GlanceJob
      BY <1>3, <1>6, Kinds DEF LookOnce, Is
    <2>4. r \in GlanceJob /\ r.answer = x /\ r.kind = "glance"
      BY <2>3 DEF GlanceJob, PCs
    <2> HIDE DEF r
    <2>5. r \in Job
      BY <2>4, AreJobs
    <2>6. Good(r, j \in pending')
      BY <1>4, <2>4 DEF Good, GoodConfirm, Watching
    <2> QED BY <1>2, <1>5, <2>2, <2>5, <2>6, OneJob
  <1>7. CASE FindAndClick(j) \/ ClickSend(j)
    <2>1. jobs[j] \in ClickJob
      BY <1>3, <1>7, Kinds DEF FindAndClick, ClickSend, Is
    <2>2. PICK r \in ClickJob : jobs' = [jobs EXCEPT ![j] = r]
      <3>1. CASE FindAndClick(j)
        <4>1. PICK x \in {"found", "failed", "error"} :
                jobs' = IF x = "found" THEN [jobs EXCEPT ![j].pc = "sending"] ELSE answered(j, x)
          BY <3>1 DEF FindAndClick, Seen
        <4>2. CASE x = "found"
          <5>1. jobs' = [jobs EXCEPT ![j] = [jobs[j] EXCEPT !.pc = "sending"]]
            BY <1>1, <4>1, <4>2 DEF Typed, Jobs
          <5>2. [jobs[j] EXCEPT !.pc = "sending"] \in ClickJob
            BY <2>1 DEF ClickJob, PCs, Working
          <5> QED BY <5>1, <5>2
        <4>3. CASE x # "found"
          <5>1. jobs' = [jobs EXCEPT ![j] = [jobs[j] EXCEPT !.pc = "posted", !.answer = x]]
            BY <1>1, <4>1, <4>3 DEF answered, Typed, Jobs
          <5>2. [jobs[j] EXCEPT !.pc = "posted", !.answer = x] \in ClickJob
            BY <2>1, <4>3 DEF ClickJob, PCs
          <5> QED BY <5>1, <5>2
        <4> QED BY <4>2, <4>3
      <3>2. CASE ClickSend(j)
        <4>1. CASE jobs[j].left = 1
          <5>1. jobs' = [jobs EXCEPT ![j] = [jobs[j] EXCEPT !.pc = "posted", !.answer = "clicked"]]
            BY <1>1, <3>2, <4>1 DEF ClickSend, answered, Typed, Jobs
          <5>2. [jobs[j] EXCEPT !.pc = "posted", !.answer = "clicked"] \in ClickJob
            BY <2>1 DEF ClickJob, PCs
          <5> QED BY <5>1, <5>2
        <4>2. CASE jobs[j].left # 1
          <5>1. jobs' = [jobs EXCEPT ![j] = [jobs[j] EXCEPT !.left = jobs[j].left - 1]]
            BY <1>1, <3>2, <4>2 DEF ClickSend, Typed, Jobs
          <5>2. [jobs[j] EXCEPT !.left = jobs[j].left - 1] \in ClickJob
            BY <2>1 DEF ClickJob
          <5> QED BY <5>1, <5>2
        <4> QED BY <4>1, <4>2
      <3> QED BY <1>7, <3>1, <3>2
    <2>3. r \in Job
      BY AreJobs
    <2>4. r.kind = "click"
      BY DEF ClickJob
    <2>5. Good(r, j \in pending')
      BY <1>4, <2>4 DEF Good, GoodConfirm, Watching
    <2> QED BY <1>2, <1>5, <2>2, <2>3, <2>5, OneJob
  <1> QED BY <1>6, <1>7

\* A video frame's hash, computed by a worker and looked at by the UI thread.
LEMMA HashInv ==
    ASSUME IInv, NEW j \in Jobs, computeFrameHash(j) \/ screenChanged(j)
    PROVE  IInv'
  <1> DEFINE p == IF jobs[j].pc = "start" THEN "posted" ELSE "over"
             r == [jobs[j] EXCEPT !.pc = p]
  <1>1. Typed /\ AllGood
    BY DEF IInv
  <1>2. /\ UNCHANGED <<conns, opened, pending, auto, text, now>>
        /\ jobs[j].kind = "hash" /\ jobs[j].pc \in {"start", "posted"}
        /\ jobs' = [jobs EXCEPT ![j] = r]
    BY <1>1 DEF computeFrameHash, screenChanged, Is, Typed, Jobs
  <1>3. jobs[j] \in HashJob /\ j \notin pending'
    BY <1>1, <1>2, IsJob, Kinds DEF AllGood, Good
  <1>4. r \in HashJob /\ r.pc \in {"posted", "over"} /\ r.kind = "hash"
    BY <1>3 DEF HashJob, PCs
  <1> HIDE DEF r
  <1>5. r \in Job
    BY <1>4, AreJobs
  <1>6. Good(r, j \in pending')
    BY <1>3, <1>4 DEF Good, GoodConfirm, Watching
  <1>7. last'.stamp \in -Gap .. MaxTime /\ last'.shown \in 0 .. 2
    <2>1. jobs[j].stamp \in 0 .. MaxTime /\ jobs[j].shown \in 0 .. 1
      BY <1>3 DEF HashJob
    <2>2. last' = last \/ last' = [stamp |-> jobs[j].stamp, shown |-> jobs[j].shown]
      BY DEF computeFrameHash, screenChanged
    <2>3. CASE last' = last
      BY <1>1, <2>3 DEF Typed
    <2>4. CASE last' = [stamp |-> jobs[j].stamp, shown |-> jobs[j].shown]
      BY <2>1, <2>4, ApiAssumption
    <2> QED BY <2>2, <2>3, <2>4
  <1>8. r.pc \notin Working
    BY <1>4 DEF Working
  <1> QED BY <1>2, <1>3, <1>5, <1>6, <1>7, <1>8, OneJob

----------------------------------------------------------------------------
(***************************************************************************)
(* The invariant, and what follows from it.                                *)
(***************************************************************************)

\* No job yet.
LEMMA InitInv == Init => IInv
  <1> SUFFICES ASSUME Init PROVE IInv
    OBVIOUS
  <1>1. jobs = <<>> /\ Len(jobs) = 0 /\ jobs \in Seq(Job) /\ pending = {}
    BY EmptySeq DEF Init
  <1>2. Jobs = {}
    BY <1>1 DEF Jobs
  <1>3. Typed
    <2>1. 0 \in 0 .. MaxConns /\ 0 <= MaxJobs /\ 0 \in 0 .. MaxTime /\ -Gap \in -Gap .. MaxTime
      BY ApiAssumption
    <2>2. last.stamp = -Gap /\ last.shown = 2
      BY DEF Init, NoEvent
    <2>3. conns \in [Addrs -> 0 .. MaxConns] /\ opened \in 0 .. MaxConns
      BY <2>1 DEF Init
    <2>4. auto \in BOOLEAN /\ text \in BOOLEAN /\ now = 0
      BY DEF Init
    <2>5. last.stamp \in -Gap .. MaxTime /\ last.shown \in 0 .. 2
      BY <2>1, <2>2
    <2> QED BY <1>1, <1>2, <2>1, <2>3, <2>4, <2>5 DEF Typed
  <1>4. AllGood
    BY <1>2 DEF AllGood
  <1>5. PoolKept
    <2>1. Running = {}
      BY <1>2 DEF Running
    <2> QED BY <2>1, FS_EmptySet, ApiAssumption DEF PoolKept
  <1> QED BY <1>3, <1>4, <1>5 DEF IInv

\* Every step of a slot or a worker keeps the invariant.
LEMMA NextInv == IInv /\ [Next]_vars => IInv'
  <1> SUFFICES ASSUME IInv, [Next]_vars PROVE IInv'
    OBVIOUS
  <1>1. CASE \E a \in Addrs : onNewConnection(a) \/ onClientDisconnected(a)
                              \/ onTextMessageReceived(a)
    BY <1>1, ConnectionsInv, RequestInv
  <1>2. ASSUME NEW j \in Jobs, Start(j) \/ Work(j) \/ Reply(j) \/ screenChanged(j) PROVE IInv'
    BY <1>2, ScheduleInv, ConfirmInv, WaitInv, SkillInv, LookInv, GlanceInv, HashInv DEF Work
  <1>3. CASE \E j \in Jobs, d \in {"approved", "denied"} : resolveConfirmation(j, d)
    BY <1>3, ConfirmInv
  <1>4. CASE \E j \in Jobs : SendSkill(j) \/ onSkillResponse(j)
    BY <1>4, SkillInv
  <1>5. CASE handleEmergencyStop
    BY <1>5, StopInv
  <1>6. CASE setTrustConfirmMode \/ ScreenChanges \/ connectionRemoved
    BY <1>6, ConnectionsInv
  <1>7. CASE videoFrameReady
    BY <1>7, FrameInv
  <1>8. CASE UNCHANGED vars
    <2>1. UNCHANGED <<jobs, pending>> /\ Typed'
      BY <1>8 DEF IInv, Typed, Jobs, vars
    <2> QED BY <2>1, NoJob
  <1> QED BY <1>1, <1>2, <1>3, <1>4, <1>5, <1>6, <1>7, <1>8 DEF Next

\* No event and no frame yet.
LEMMA KeptUpInit == Init => KeptUp
  <1> SUFFICES ASSUME Init PROVE KeptUp
    OBVIOUS
  <1>1. due = -Gap /\ last.stamp = -Gap
    BY DEF Init, NoEvent
  <1> QED BY <1>1, ApiAssumption DEF KeptUp, EventsKeepUp

\* The steps that touch the last event or due: a frame passed over, a hash
\* looked at, a connection removed.
LEMMA KeptUpNext == IInv /\ KeptUp /\ [Next]_vars => KeptUp'
  <1> SUFFICES ASSUME IInv, KeptUp, [Next]_vars PROVE KeptUp'
    OBVIOUS
  <1>1. /\ due \in -Gap .. MaxTime /\ last.stamp \in -Gap .. MaxTime /\ due - last.stamp < Gap
        /\ now \in 0 .. MaxTime /\ Gap \in Nat \ {0} /\ MaxTime \in Nat
    BY ApiAssumption DEF KeptUp, EventsKeepUp, IInv, Typed
  <1>2. CASE UNCHANGED <<last, due>>
    BY <1>1, <1>2 DEF KeptUp, EventsKeepUp
  <1>3. CASE connectionRemoved
    <2>1. due' = -Gap /\ last'.stamp = -Gap
      BY <1>3 DEF connectionRemoved, NoEvent
    <2> QED BY <1>1, <2>1 DEF KeptUp, EventsKeepUp
  <1>4. CASE videoFrameReady
    <2>1. PICK t \in now .. MaxTime :
             IF t - last.stamp < Gap THEN due' = later(t, due) ELSE due' = due
      BY <1>4 DEF videoFrameReady
    <2>2. last' = last
      BY <1>4 DEF videoFrameReady
    <2> QED BY <1>1, <2>1, <2>2 DEF KeptUp, EventsKeepUp, later
  <1>5. ASSUME NEW j \in Jobs, screenChanged(j) PROVE KeptUp'
    <2>1. jobs[j].kind = "hash"
      BY <1>5 DEF screenChanged, Is
    <2>2. jobs[j] \in HashJob
      BY <2>1, IsJob, Kinds DEF IInv
    <2>3. jobs[j].stamp \in 0 .. MaxTime
      BY <2>2 DEF HashJob
    <2>4. CASE jobs[j].shown = last.shown
      <3>1. UNCHANGED <<last, due>>
        BY <1>5, <2>4 DEF screenChanged
      <3> QED BY <1>1, <3>1 DEF KeptUp, EventsKeepUp
    <2>5. CASE jobs[j].shown # last.shown
      <3>1. /\ due' = later(jobs[j].stamp, due)
            /\ last' = IF jobs[j].stamp - last.stamp < Gap THEN last
                       ELSE [stamp |-> jobs[j].stamp, shown |-> jobs[j].shown]
        BY <1>5, <2>5 DEF screenChanged
      <3>2. last'.stamp = IF jobs[j].stamp - last.stamp < Gap THEN last.stamp ELSE jobs[j].stamp
        BY <3>1
      <3> QED BY <1>1, <2>3, <3>1, <3>2 DEF KeptUp, EventsKeepUp, later
    <2> QED BY <2>4, <2>5
  <1>6. UNCHANGED <<last, due>> \/ connectionRemoved \/ videoFrameReady
        \/ \E j \in Jobs : screenChanged(j)
    <2>1. ASSUME NEW a \in Addrs,
                 onNewConnection(a) \/ onClientDisconnected(a) \/ onTextMessageReceived(a)
          PROVE  UNCHANGED <<last, due>>
      BY <2>1 DEF onNewConnection, onClientDisconnected, onTextMessageReceived
    <2>2. ASSUME NEW j \in Jobs, Start(j) \/ Work(j) \/ Reply(j)
          PROVE  UNCHANGED <<last, due>>
      BY <2>2 DEF Start, Work, Reply, ReadPolicy, Ask, SendAndWait, Wait, Wake, Finish,
                  Look, LookOnce, FindAndClick, ClickSend, computeFrameHash
    <2>3. ASSUME NEW j \in Jobs,
                 \/ \E d \in {"approved", "denied"} : resolveConfirmation(j, d)
                 \/ SendSkill(j) \/ onSkillResponse(j)
          PROVE  UNCHANGED <<last, due>>
      BY <2>3 DEF resolveConfirmation, SendSkill, onSkillResponse
    <2>4. CASE handleEmergencyStop \/ setTrustConfirmMode \/ ScreenChanges \/ UNCHANGED vars
      BY <2>4 DEF handleEmergencyStop, setTrustConfirmMode, ScreenChanges, vars
    <2> QED BY <2>1, <2>2, <2>3, <2>4 DEF Next
  <1> QED BY <1>2, <1>3, <1>4, <1>5, <1>6

\* The invariant of the specification.
LEMMA Invariant == Spec => [](IInv /\ KeptUp)
  BY InitInv, NextInv, KeptUpInit, KeptUpNext, PTL DEF Spec

\* The state of the local API keeps its types, and the global thread pool its
\* size.
THEOREM LocalApiTypeCorrect == Spec => []TypeOK
  <1>1. IInv /\ KeptUp => TypeOK
    <2> SUFFICES ASSUME IInv, KeptUp PROVE TypeOK
      OBVIOUS
    <2>1. Typed /\ AllGood /\ PoolKept
      BY DEF IInv
    <2>2. ASSUME NEW j \in Jobs
          PROVE  /\ jobs[j].pc \in PCs
                 /\ jobs[j].kind # "hash" => jobs[j].addr \in Addrs
                 /\ j \in pending => jobs[j].kind \in Blocking
                 /\ Is(j, {"confirm"}, {"posted", "over"}) =>
                       jobs[j].answer \in {"approved", "denied", "timeout"}
                 /\ Is(j, {"skill"}, {"posted", "over"}) =>
                       jobs[j].answer \in {"value", "timeout", "error"}
                 /\ Is(j, Watching \cup {"glance"}, {"posted", "over"}) =>
                       jobs[j].answer \in {"found", "failed", "error"}
      <3> DEFINE r == jobs[j]
      <3>1. r \in Job /\ Good(r, j \in pending)
        BY <2>1, IsJob DEF AllGood
      <3>2. r.pc \in PCs /\ (j \in pending => r.kind \in Blocking)
        BY <3>1, Kinds DEF Good
      <3>3. r.kind # "hash" => r.addr \in Addrs
        BY <3>1 DEF Job, ConfirmJob, SkillJob, WatchJob, ClickJob, GlanceJob, HashJob
      <3>4. r.kind = "confirm" /\ r.pc \in Done => r.answer \in {"approved", "denied", "timeout"}
        BY <3>1, Kinds DEF Good, GoodConfirm, ConfirmJob
      <3>5. r.kind = "skill" /\ r.pc \in Done => r.answer \in {"value", "timeout", "error"}
        BY <3>1, Kinds DEF Good, SkillJob
      <3>6. r.kind \in Watching /\ r.pc \in Done => r.answer \in {"found", "failed", "error"}
        BY <3>1, Kinds DEF Good, GoodWatch, WatchJob
      <3>7. r.kind = "glance" /\ r.pc \in Done => r.answer \in {"found", "failed", "error"}
        BY <3>1, Kinds DEF Good, GlanceJob
      <3> QED BY <3>2, <3>3, <3>4, <3>5, <3>6, <3>7 DEF Is, Done
    <2>3. pending \subseteq {j \in Jobs : jobs[j].kind \in Blocking}
      BY <2>1, <2>2 DEF Typed
    <2> QED BY <2>1, <2>2, <2>3 DEF TypeOK, Typed, PoolKept, PCs, KeptUp
  <1> QED BY <1>1, Invariant, PTL

\* What a caller is told is true: nothing is approved past the emergency stop,
\* the user's last word is what is reported, m_pending refers only to the
\* stack of a waiting worker, and a watch that gave up did look late enough
\* (TrustHandler, SkillHandler, VerificationService, UiStateService).
THEOREM AnswersAreSound == Spec => []AnswersSound
  <1>1. IInv => AnswersSound
    <2> SUFFICES ASSUME IInv PROVE AnswersSound
      OBVIOUS
    <2>1. \A j \in Jobs : Good(jobs[j], j \in pending)
      BY DEF IInv, AllGood
    <2>2. pending \subseteq Jobs
      BY DEF IInv, Typed
    <2>3. StopDenies /\ DecisionHonoured
      BY <2>1 DEF StopDenies, DecisionHonoured, Good, GoodConfirm, Is, Done
    <2>4. PendingOnStack
      BY <2>1, <2>2 DEF PendingOnStack, Good
    <2>5. LooksToTheEnd
      BY <2>1 DEF LooksToTheEnd, Good, GoodWatch, Is, Done
    <2> QED BY <2>3, <2>4, <2>5 DEF AnswersSound
  <1> QED BY <1>1, Invariant, PTL

\* Listeners of screenChanged are never Gap behind a frame that showed them
\* something new, or that was passed over, in whatever order the pool computes
\* the hashes (MainController::setupWebSocketApiEvents).
THEOREM EventsStayFresh == Spec => []EventsKeepUp
  BY Invariant, PTL DEF KeptUp

----------------------------------------------------------------------------
(***************************************************************************)
(* The virtual display: the invariant.                                     *)
(***************************************************************************)

Monitor == [slot : Slots, state : {"created", "arrived", "departed"},
            context : BOOLEAN, thread : 0 .. MaxChains, os : {"idle", "assign", "unassign"}]
Thread == [monitor : Nat, chain : {"live", "abandoned", "deleted"},
           runs : BOOLEAN, stop : BOOLEAN, frames : 0 .. MaxFrames]
Call == [op : {None, "create", "keep", "in", "out", "modes"}, index : Indices \cup {0},
         left : 0 .. MaxRetries,
         pc : {"idle", "creating", "open", "ioctl", "created", "arrived"}]

\* The types: of the library's side, and of the driver's.
LibraryTypes ==
    /\ device \in {"absent", "creating", "present"}
    /\ owner \in [who : Callers \cup {None}, lost : BOOLEAN] /\ keeps \in BOOLEAN
    /\ adapter \in {"off", "starting", "ready", "failed"}
    /\ handle \in Callers \cup {None}
    /\ call \in [Callers -> Call] /\ faults \in 0 .. MaxFaults

DriverTypes ==
    /\ slots \in [Slots -> 0 .. MaxMonitors]
    /\ monitors \in Seq(Monitor) /\ Len(monitors) <= MaxMonitors
    /\ threads \in Seq(Thread) /\ Len(threads) <= MaxChains
    /\ \A t \in ThreadIds : threads[t].monitor \in MonitorIds

\* A library call is inside the driver's plug-in.
InDriver(c) == call[c].pc \in {"created", "arrived"}

\* Who talks to the driver has the device open, so there is one at a time.
Opened == \A c \in Callers : call[c].pc \in {"ioctl", "created", "arrived"} => handle = c

\* Without a device there is nothing of the driver's.
Present ==
    /\ adapter # "off" => device = "present"
    /\ device # "present" => /\ slots = [i \in Slots |-> 0]
                             /\ \A c \in Callers : ~InDriver(c)
                             /\ \A m \in MonitorIds : monitors[m].state = "departed"

\* The monitor of a plug-in under way is the newest one, for a free connector.
Plugging ==
    \A c \in Callers : InDriver(c) =>
        /\ call[c].index \in Slots /\ slots[call[c].index] = 0
        /\ Len(monitors) # 0
        /\ monitors[Len(monitors)].slot = call[c].index
        /\ monitors[Len(monitors)].state = call[c].pc

\* A monitor that Windows shows is in its slot or about to be put there.
Tracked ==
    \A m \in MonitorIds : monitors[m].state = "arrived" =>
        \/ slots[monitors[m].slot] = m
        \/ m = Len(monitors) /\ \E c \in Callers : call[c].pc = "arrived"

\* What a slot holds is a monitor that Windows shows there.
Held ==
    \A i \in Slots : slots[i] # 0 =>
        /\ slots[i] \in MonitorIds
        /\ monitors[slots[i]].slot = i /\ monitors[slots[i]].state = "arrived"

\* A context's SwapChainProcessor has a thread that was started.
Linked == \A m \in MonitorIds : monitors[m].thread \in 0 .. Len(threads)

DisplayInv ==
    /\ LibraryTypes /\ DriverTypes
    /\ Opened /\ Present /\ Plugging /\ Tracked /\ Held /\ Linked /\ ThreadsOwned

\* A function over the indices of a sequence is a sequence as long.
LEMMA SeqMap ==
    ASSUME NEW S, NEW s, NEW R, s \in Seq(R), NEW f, f \in [1 .. Len(s) -> S]
    PROVE  f \in Seq(S) /\ Len(f) = Len(s)
  <1>1. Len(s) \in Nat
    BY LenProperties
  <1>2. f \in Seq(S)
    BY <1>1, SeqDef
  <1>3. Len(f) \in Nat /\ DOMAIN f = 1 .. Len(f)
    BY <1>2, LenProperties
  <1>4. 1 .. Len(f) = 1 .. Len(s)
    BY <1>3
  <1>5. Len(f) = Len(s)
    BY <1>1, <1>3, <1>4
  <1> QED BY <1>2, <1>5

LEMMA DriverFacts ==
    ASSUME DriverTypes
    PROVE  /\ Len(monitors) \in Nat /\ Len(threads) \in Nat
           /\ \A m \in MonitorIds : monitors[m] \in Monitor
           /\ \A t \in ThreadIds : threads[t] \in Thread
  BY LenProperties, ElementOfSeq DEF DriverTypes, MonitorIds, ThreadIds

----------------------------------------------------------------------------
(***************************************************************************)
(* What several actions do to the invariant.                               *)
(***************************************************************************)

\* Nothing of the driver's slots, monitors and threads changes.
LEMMA QuietStep ==
    ASSUME DisplayInv, UNCHANGED <<slots, monitors, threads>>,
           LibraryTypes', Opened',
           \A c \in Callers : InDriver(c) \/ InDriver(c)' => call'[c] = call[c],
           adapter' # "off" => device' = "present",
           device' # "present" => device # "present"
    PROVE  DisplayInv'
  <1>1. \A c \in Callers : InDriver(c)' <=> InDriver(c)
    BY DEF InDriver
  <1>2. DriverTypes' /\ Linked' /\ ThreadsOwned' /\ Held'
    BY DEF DisplayInv, DriverTypes, Linked, ThreadsOwned, Held, MonitorIds, ThreadIds
  <1>3. Present'
    BY <1>1 DEF DisplayInv, Present, MonitorIds
  <1>4. Plugging'
    BY <1>1 DEF DisplayInv, Plugging
  <1>5. \A c \in Callers : call[c].pc = "arrived" => call'[c].pc = "arrived"
    BY DEF InDriver
  <1>6. Tracked'
    BY <1>5 DEF DisplayInv, Tracked, MonitorIds
  <1> QED BY <1>2, <1>3, <1>4, <1>6 DEF DisplayInv

\* The driver ends or is brought down.
LEMMA DownStep ==
    ASSUME DisplayInv, callsFailed, LibraryTypes',
           slots' = [i \in Slots |-> 0],
           monitors' \in Seq(Monitor), Len(monitors') = Len(monitors),
           \A m \in MonitorIds : monitors'[m].state = "departed",
           threads' \in Seq(Thread), Len(threads') = Len(threads),
           \A t \in ThreadIds : threads'[t].monitor = threads[t].monitor,
           Linked', ThreadsOwned', adapter' # "off" => device' = "present"
    PROVE  DisplayInv'
  <1>1. \A c \in Callers : ~InDriver(c)'
    BY DEF callsFailed, InDriver, Idle, DisplayInv, LibraryTypes
  <1>2. MonitorIds' = MonitorIds /\ ThreadIds' = ThreadIds
    BY DEF MonitorIds, ThreadIds
  <1>3. slots' \in [Slots -> 0 .. MaxMonitors] /\ \A i \in Slots : slots'[i] = 0
    BY DisplayAssumption
  <1>4. DriverTypes'
    BY <1>2, <1>3 DEF DisplayInv, DriverTypes
  <1>5. Opened'
    <2> SUFFICES ASSUME NEW c \in Callers, call'[c].pc \in {"ioctl", "created", "arrived"}
                 PROVE  handle' = c
      BY DEF Opened
    <2>1. call'[c] = call[c] /\ call[c].pc = "ioctl"
      BY <1>1 DEF callsFailed, InDriver, Idle
    <2>2. handle = c
      BY <2>1 DEF DisplayInv, Opened
    <2> QED BY <2>1, <2>2 DEF callsFailed
  <1>6. Present'
    BY <1>1, <1>2 DEF Present
  <1>7. Plugging' /\ Tracked' /\ Held'
    BY <1>1, <1>2, <1>3 DEF Plugging, Tracked, Held
  <1> QED BY <1>4, <1>5, <1>6, <1>7 DEF DisplayInv

\* Windows, the contexts and their threads go on.
LEMMA ThreadStep ==
    ASSUME DisplayInv,
           UNCHANGED <<software, adapter, handle, call, slots>>, faults' \in 0 .. MaxFaults,
           monitors' \in Seq(Monitor), Len(monitors') = Len(monitors),
           \A m \in MonitorIds : /\ monitors'[m].state = monitors[m].state
                                 /\ monitors'[m].slot = monitors[m].slot,
           threads' \in Seq(Thread), Len(threads') <= MaxChains,
           \A t \in ThreadIds' : threads'[t].monitor \in MonitorIds,
           Linked', ThreadsOwned'
    PROVE  DisplayInv'
  <1>1. MonitorIds' = MonitorIds
    BY DEF MonitorIds
  <1>2. UNCHANGED <<device, owner, keeps>>
    BY DEF software
  <1>3. LibraryTypes' /\ DriverTypes'
    BY <1>1, <1>2 DEF DisplayInv, LibraryTypes, DriverTypes
  <1>4. Opened' /\ Present'
    BY <1>1, <1>2 DEF DisplayInv, Opened, Present, InDriver
  <1>5. Plugging'
    <2>1. Len(monitors) # 0 => Len(monitors) \in MonitorIds
      BY DriverFacts DEF DisplayInv, MonitorIds
    <2> QED BY <2>1 DEF DisplayInv, Plugging, InDriver
  <1>6. Tracked'
    BY <1>1 DEF DisplayInv, Tracked
  <1>7. Held'
    BY <1>1 DEF DisplayInv, Held
  <1> QED BY <1>3, <1>4, <1>5, <1>6, <1>7 DEF DisplayInv

----------------------------------------------------------------------------
(***************************************************************************)
(* The actions of the library and of the software device.                  *)
(***************************************************************************)

\* A call that is not in the driver changes, and not into the driver.
LEMMA CallStep1 ==
    ASSUME DisplayInv, NEW c \in Callers, NEW x \in Call,
           call' = [call EXCEPT ![c] = x], ~InDriver(c), x.pc \notin {"created", "arrived"},
           x.pc = "ioctl" => handle' = c,
           \A e \in Callers \ {c} : handle = e => handle' = e
    PROVE  /\ call' \in [Callers -> Call] /\ Opened'
           /\ \A e \in Callers : InDriver(e) \/ InDriver(e)' => call'[e] = call[e]
  <1>1. call \in [Callers -> Call]
    BY DEF DisplayInv, LibraryTypes
  <1>2. call' \in [Callers -> Call] /\ call'[c] = x /\ \A e \in Callers \ {c} : call'[e] = call[e]
    BY <1>1
  <1>3. Opened'
    BY <1>2 DEF DisplayInv, Opened
  <1>4. \A e \in Callers : InDriver(e) \/ InDriver(e)' => call'[e] = call[e]
    BY <1>2 DEF InDriver
  <1> QED BY <1>2, <1>3, <1>4

LEMMA IdleCall == Idle \in Call /\ Idle.pc = "idle"
  <1>1. 0 \in 0 .. MaxRetries /\ 0 \in Indices \cup {0}
    BY DisplayAssumption
  <1> QED BY <1>1 DEF Idle, Call, None

LEMMA CreateInv ==
    ASSUME DisplayInv, NEW c \in Callers, NEW op \in {"create", "keep"}, DeviceCreate(c, op)
    PROVE  DisplayInv'
  <1> DEFINE x == [Idle EXCEPT !.op = op, !.pc = "creating"]
  <1>1. x \in Call /\ x.pc = "creating"
      BY IdleCall DEF Idle, Call
  <1>2. /\ call' = [call EXCEPT ![c] = x] /\ ~InDriver(c) /\ handle' = handle
        /\ UNCHANGED <<slots, monitors, threads, adapter, keeps, faults>>
    BY DEF DeviceCreate, InDriver, driver
  <1> HIDE DEF x
  <1>3. /\ call' \in [Callers -> Call] /\ Opened'
        /\ \A e \in Callers : InDriver(e) \/ InDriver(e)' => call'[e] = call[e]
    BY <1>1, <1>2, CallStep1
  <1>4. /\ device' \in {"absent", "creating", "present"}
        /\ owner' \in [who : Callers \cup {None}, lost : BOOLEAN]
        /\ (device' = "present" <=> device = "present")
    BY DEF DeviceCreate, DisplayInv, LibraryTypes
  <1>5. LibraryTypes'
    BY <1>2, <1>3, <1>4 DEF DisplayInv, LibraryTypes
  <1> QED BY <1>2, <1>3, <1>4, <1>5, QuietStep DEF DisplayInv, Present

LEMMA CallbackInv ==
    ASSUME DisplayInv, CreationCallback
    PROVE  DisplayInv'
  <1> DEFINE c == owner.who
             x == IF call[c].pc = "creating" THEN Idle ELSE call[c]
  <1>0. /\ c \in Callers /\ call \in [Callers -> Call] /\ UNCHANGED <<owner, handle, monitors, threads>>
        /\ call' = [call EXCEPT ![c] = x]
    BY DEF CreationCallback, DisplayInv, LibraryTypes
  <1>1. x \in Call /\ (x = call[c] \/ (x.pc = "idle" /\ ~InDriver(c)))
    BY <1>0, IdleCall DEF InDriver
  <1> HIDE DEF x
  <1>2. /\ call' \in [Callers -> Call] /\ Opened'
        /\ \A e \in Callers : InDriver(e) \/ InDriver(e)' => call'[e] = call[e]
    <2>1. CASE x = call[c]
      <3>1. call' = call
        BY <1>0, <2>1
      <3> QED BY <1>0, <3>1 DEF Opened, DisplayInv
    <2>2. CASE x.pc = "idle" /\ ~InDriver(c)
      BY <1>0, <1>1, <2>2, CallStep1
    <2> QED BY <1>1, <2>1, <2>2
  <1>3. /\ device' \in {"absent", "creating", "present"} /\ keeps' \in BOOLEAN
        /\ adapter' \in {"off", "starting", "ready", "failed"} /\ faults' \in 0 .. MaxFaults
        /\ slots' = slots /\ (adapter' # "off" => device' = "present")
        /\ (device' # "present" => device # "present")
    <2>1. CASE device = "present"
      <3>1. /\ device' = "present" /\ UNCHANGED <<adapter, slots, faults>> /\ keeps' \in BOOLEAN
        BY <2>1 DEF CreationCallback
      <3> QED BY <3>1 DEF DisplayInv, LibraryTypes
    <2>2. CASE device # "present"
      <3>1. slots = [i \in Slots |-> 0] /\ adapter = "off"
        BY <2>2 DEF DisplayInv, Present, LibraryTypes
      <3>2. CASE device' = "present" /\ DeviceAdd /\ InitAdapter
        <4>1. keeps' \in BOOLEAN
          BY <2>2, <3>2 DEF CreationCallback
        <4> QED BY <2>2, <3>1, <3>2, <4>1, DisplayAssumption
                DEF DeviceAdd, InitAdapter, Fault, DisplayInv, LibraryTypes
      <3>3. CASE Fault /\ device' = "absent" /\ UNCHANGED <<keeps, adapter, slots>>
        BY <2>2, <3>1, <3>3, DisplayAssumption DEF Fault, DisplayInv, LibraryTypes
      <3> QED BY <2>2, <3>2, <3>3 DEF CreationCallback
    <2> QED BY <2>1, <2>2
  <1>4. LibraryTypes'
    BY <1>0, <1>2, <1>3 DEF DisplayInv, LibraryTypes
  <1> QED BY <1>0, <1>2, <1>3, <1>4, QuietStep

LEMMA TimesOutInv ==
    ASSUME DisplayInv, NEW c \in Callers, CreateTimesOut(c)
    PROVE  DisplayInv'
  <1>1. /\ call' = [call EXCEPT ![c] = Idle] /\ ~InDriver(c)
        /\ UNCHANGED <<device, owner, keeps, adapter, slots, monitors, threads, handle>>
        /\ faults' \in 0 .. MaxFaults
    BY DisplayAssumption DEF CreateTimesOut, Fault, InDriver, software, driver, DisplayInv, LibraryTypes
  <1>2. /\ call' \in [Callers -> Call] /\ Opened'
        /\ \A e \in Callers : InDriver(e) \/ InDriver(e)' => call'[e] = call[e]
    BY <1>1, IdleCall, CallStep1
  <1>3. LibraryTypes'
    BY <1>1, <1>2 DEF DisplayInv, LibraryTypes
  <1> QED BY <1>1, <1>2, <1>3, QuietStep DEF DisplayInv, Present

\* The driver's objects when the device goes.
LEMMA DriverGone ==
    ASSUME DisplayInv, driverGone
    PROVE  /\ monitors' \in Seq(Monitor) /\ Len(monitors') = Len(monitors)
           /\ \A m \in MonitorIds : monitors'[m].state = "departed"
           /\ threads' \in Seq(Thread) /\ Len(threads') = Len(threads)
           /\ \A t \in ThreadIds : threads'[t].monitor = threads[t].monitor
           /\ Linked' /\ ThreadsOwned' /\ adapter' = "off" /\ slots' = [i \in Slots |-> 0]
  <1> DEFINE M == [m \in MonitorIds |-> [monitors[m] EXCEPT !.state = "departed"]]
  <1>0. /\ monitors \in Seq(Monitor) /\ threads \in Seq(Thread)
        /\ \A m \in MonitorIds : monitors[m] \in Monitor
        /\ \A t \in ThreadIds : threads[t] \in Thread /\ threads[t].monitor \in MonitorIds
    BY DriverFacts DEF DisplayInv, DriverTypes
  <1>1. /\ monitors' \in [MonitorIds -> Monitor]
        /\ \A m \in MonitorIds : /\ monitors'[m].state = "departed"
                                 /\ monitors'[m].thread = monitors[m].thread
    <2>1. \A m \in MonitorIds : LET y == [monitors[m] EXCEPT !.state = "departed"] IN
             y \in Monitor /\ y.state = "departed" /\ y.thread = monitors[m].thread
      BY <1>0 DEF Monitor
    <2> QED BY <2>1 DEF driverGone
  <1>2. monitors' \in Seq(Monitor) /\ Len(monitors') = Len(monitors)
    BY <1>0, <1>1, SeqMap DEF MonitorIds
  <1>3. /\ threads' \in [ThreadIds -> Thread]
        /\ \A t \in ThreadIds : /\ threads'[t].monitor = threads[t].monitor
                                /\ threads'[t].runs = threads[t].runs
                                /\ threads'[t].chain = "deleted" => threads[t].chain = "deleted"
    <2>1. \A t \in ThreadIds : LET y == [threads[t] EXCEPT !.chain = "abandoned"] IN
             y \in Thread /\ y.chain = "abandoned" /\ y.monitor = threads[t].monitor
             /\ y.runs = threads[t].runs
      BY <1>0 DEF Thread
    <2> QED BY <1>0, <2>1 DEF driverGone, abandon
  <1>4. threads' \in Seq(Thread) /\ Len(threads') = Len(threads)
    BY <1>0, <1>3, SeqMap DEF ThreadIds
  <1>5. Linked'
    BY <1>1, <1>2, <1>4 DEF DisplayInv, Linked, MonitorIds
  <1>6. ThreadsOwned'
    BY <1>0, <1>1, <1>3, <1>4 DEF DisplayInv, ThreadsOwned, ThreadIds
  <1> QED BY <1>1, <1>2, <1>3, <1>4, <1>5, <1>6 DEF driverGone

LEMMA RemovedInv ==
    ASSUME DisplayInv, removed, UNCHANGED faults
    PROVE  DisplayInv'
  <1>1. /\ device' = "absent" /\ owner' = Nobody /\ keeps' = FALSE
        /\ owner' \in [who : Callers \cup {None}, lost : BOOLEAN]
    BY DEF removed, Nobody
  <1>2. CASE device = "present"
    <2>1. driverGone /\ callsFailed
      BY <1>2 DEF removed
    <2>2. /\ call' \in [Callers -> Call] /\ handle' \in Callers \cup {None}
      BY <2>1, IdleCall DEF callsFailed, DisplayInv, LibraryTypes
    <2>3. LibraryTypes'
      BY <1>1, <2>1, <2>2, DriverGone DEF DisplayInv, LibraryTypes
    <2> QED BY <2>1, <2>3, DriverGone, DownStep
  <1>3. CASE device # "present"
    <2>1. UNCHANGED <<adapter, slots, monitors, threads, call, handle>> /\ adapter = "off"
      BY <1>3 DEF removed, driver, DisplayInv, Present
    <2>2. LibraryTypes' /\ Opened'
      BY <1>1, <2>1 DEF DisplayInv, LibraryTypes, Opened
    <2> QED BY <1>1, <1>3, <2>1, <2>2, QuietStep
  <1> QED BY <1>2, <1>3

LEMMA CloseInv ==
    ASSUME DisplayInv, NEW c \in Callers, DeviceClose(c)
    PROVE  DisplayInv'
  <1>1. CASE removed /\ UNCHANGED faults
    BY <1>1, RemovedInv
  <1>2. CASE /\ Fault /\ owner' = [who |-> c, lost |-> TRUE]
             /\ UNCHANGED <<device, keeps, driver, call, handle>>
    <2>1. faults' \in 0 .. MaxFaults /\ owner' \in [who : Callers \cup {None}, lost : BOOLEAN]
      BY <1>2, DisplayAssumption DEF Fault, DisplayInv, LibraryTypes
    <2>2. UNCHANGED <<device, keeps, adapter, slots, monitors, threads, call, handle>>
      BY <1>2 DEF driver
    <2>3. LibraryTypes' /\ Opened'
      BY <2>1, <2>2 DEF DisplayInv, LibraryTypes, Opened
    <2> QED BY <2>2, <2>3, QuietStep DEF DisplayInv, Present
  <1> QED BY <1>1, <1>2 DEF DeviceClose

LEMMA EndsInv ==
    ASSUME DisplayInv, NEW c \in Callers, ProcessEnds(c)
    PROVE  DisplayInv'
  <1>1. CASE removed
    BY <1>1, RemovedInv DEF ProcessEnds
  <1>2. CASE /\ UNCHANGED <<device, keeps, driver, call>>
             /\ owner' \in {owner, Nobody} /\ handle' \in {handle, None}
             /\ handle' # handle => handle = c
    <2>1. UNCHANGED <<device, keeps, adapter, slots, monitors, threads, call, faults>>
      BY <1>2 DEF ProcessEnds, driver
    <2>2. Nobody \in [who : Callers \cup {None}, lost : BOOLEAN]
      BY DEF Nobody
    <2>5. LibraryTypes'
      BY <1>2, <2>1, <2>2 DEF DisplayInv, LibraryTypes
    <2>3. call[c].pc = "idle"
      BY DEF ProcessEnds
    <2>4. Opened'
      BY <1>2, <2>1, <2>3 DEF DisplayInv, Opened
    <2> QED BY <2>1, <2>5, <2>4, QuietStep DEF DisplayInv, Present
  <1> QED BY <1>1, <1>2 DEF ProcessEnds, software

LEMMA AdapterInv ==
    ASSUME DisplayInv, AdapterInitFinished
    PROVE  DisplayInv'
  <1>1. /\ adapter = "starting" /\ adapter' \in {"ready", "failed"} /\ faults' \in 0 .. MaxFaults
        /\ UNCHANGED <<device, owner, keeps, handle, call, slots, monitors, threads>>
    BY DisplayAssumption DEF AdapterInitFinished, Fault, software, DisplayInv, LibraryTypes
  <1>2. LibraryTypes' /\ Opened'
    BY <1>1 DEF DisplayInv, LibraryTypes, Opened
  <1> QED BY <1>1, <1>2, QuietStep DEF DisplayInv, Present

----------------------------------------------------------------------------
(***************************************************************************)
(* The library's requests and the driver's handlers for them.              *)
(***************************************************************************)

\* Who talks to the driver is alone in that.
LEMMA Alone ==
    ASSUME DisplayInv, NEW c \in Callers, call[c].pc \in {"ioctl", "created", "arrived"}
    PROVE  /\ handle = c /\ c # None
           /\ \A e \in Callers \ {c} : call[e].pc \notin {"ioctl", "created", "arrived"}
  BY DisplayAssumption DEF DisplayInv, Opened

LEMMA AskInv ==
    ASSUME DisplayInv, NEW c \in Callers, NEW op \in {"in", "out", "modes"},
           NEW i \in Indices \cup {0}, Request(c, op, i)
    PROVE  DisplayInv'
  <1> DEFINE r == IF op = "in" THEN MaxRetries ELSE 0
             x == [op |-> op, index |-> i, left |-> r, pc |-> "ioctl"]
             y == [x EXCEPT !.left = r - 1, !.pc = "open"]
  <1>1. r \in 0 .. MaxRetries /\ (r > 0 => r - 1 \in 0 .. MaxRetries)
    BY DisplayAssumption
  <1>2. x \in Call /\ x.pc = "ioctl"
    BY <1>1 DEF Call
  <1>3. r > 0 => y \in Call /\ y.pc = "open"
    BY <1>1 DEF Call
  <1>4. /\ ~InDriver(c)
        /\ UNCHANGED <<device, owner, keeps, adapter, slots, monitors, threads, faults>>
        /\ \/ handle = None /\ handle' = c /\ call' = [call EXCEPT ![c] = x]
           \/ r > 0 /\ handle' = handle /\ call' = [call EXCEPT ![c] = y]
    BY DEF Request, mayOpen, InDriver, software, driver
  <1> HIDE DEF r, x, y
  <1>5. /\ call' \in [Callers -> Call] /\ Opened'
        /\ \A e \in Callers : InDriver(e) \/ InDriver(e)' => call'[e] = call[e]
    <2>1. CASE handle = None /\ handle' = c /\ call' = [call EXCEPT ![c] = x]
      <3>1. \A e \in Callers \ {c} : handle # e
        BY <2>1, DisplayAssumption
      <3> QED BY <1>2, <1>4, <2>1, <3>1, CallStep1
    <2>2. CASE r > 0 /\ handle' = handle /\ call' = [call EXCEPT ![c] = y]
      BY <1>3, <1>4, <2>2, CallStep1
    <2> QED BY <1>4, <2>1, <2>2
  <1>6. LibraryTypes'
    BY <1>4, <1>5 DEF DisplayInv, LibraryTypes
  <1> QED BY <1>4, <1>5, <1>6, QuietStep DEF DisplayInv, Present

LEMMA OpenInv ==
    ASSUME DisplayInv, NEW c \in Callers, Open(c)
    PROVE  DisplayInv'
  <1> DEFINE x == [call[c] EXCEPT !.pc = "ioctl"]
             y == IF call[c].left = 0 THEN Idle ELSE [call[c] EXCEPT !.left = call[c].left - 1]
  <1>1. /\ call[c] \in Call /\ call[c].pc = "open" /\ ~InDriver(c)
        /\ UNCHANGED <<device, owner, keeps, adapter, slots, monitors, threads, faults>>
        /\ \/ handle = None /\ handle' = c /\ call' = [call EXCEPT ![c] = x]
           \/ handle' = handle /\ call' = [call EXCEPT ![c] = y]
    BY DEF Open, mayOpen, to, InDriver, software, driver, DisplayInv, LibraryTypes
  <1>2. x \in Call /\ x.pc = "ioctl"
    BY <1>1 DEF Call
  <1>3. y \in Call /\ y.pc \in {"idle", "open"}
    <2>1. CASE call[c].left = 0
      BY <2>1, IdleCall
    <2>2. CASE call[c].left # 0
      <3>1. call[c].left - 1 \in 0 .. MaxRetries
        BY <1>1, <2>2, DisplayAssumption DEF Call
      <3> QED BY <1>1, <2>2, <3>1 DEF Call
    <2> QED BY <2>1, <2>2
  <1> HIDE DEF x, y
  <1>4. /\ call' \in [Callers -> Call] /\ Opened'
        /\ \A e \in Callers : InDriver(e) \/ InDriver(e)' => call'[e] = call[e]
    <2>1. CASE handle = None /\ handle' = c /\ call' = [call EXCEPT ![c] = x]
      <3>1. \A e \in Callers \ {c} : handle # e
        BY <2>1, DisplayAssumption
      <3> QED BY <1>1, <1>2, <2>1, <3>1, CallStep1
    <2>2. CASE handle' = handle /\ call' = [call EXCEPT ![c] = y]
      BY <1>1, <1>3, <2>2, CallStep1
    <2> QED BY <1>1, <2>1, <2>2
  <1>5. LibraryTypes'
    BY <1>1, <1>4 DEF DisplayInv, LibraryTypes
  <1> QED BY <1>1, <1>4, <1>5, QuietStep DEF DisplayInv, Present

LEMMA ModesInv ==
    ASSUME DisplayInv, NEW c \in Callers, UpdateModes(c)
    PROVE  DisplayInv'
  <1>1. /\ call[c].pc = "ioctl" /\ ~InDriver(c) /\ call' = [call EXCEPT ![c] = Idle]
        /\ UNCHANGED <<device, owner, keeps, adapter, slots, monitors, threads>>
        /\ handle' \in {handle, None} /\ (handle' # handle => handle = c)
        /\ faults' \in 0 .. MaxFaults
    BY DisplayAssumption DEF UpdateModes, UpdateMonitorModes, done, Fault, InDriver, software, driver,
       DisplayInv, LibraryTypes
  <1>2. /\ call' \in [Callers -> Call] /\ Opened'
        /\ \A e \in Callers : InDriver(e) \/ InDriver(e)' => call'[e] = call[e]
    BY <1>1, IdleCall, CallStep1
  <1>3. LibraryTypes'
    BY <1>1, <1>2 DEF DisplayInv, LibraryTypes
  <1> QED BY <1>1, <1>2, <1>3, QuietStep DEF DisplayInv, Present

\* A request that returns or is tried again is out of the driver.
LEMMA CallEnds ==
    ASSUME DisplayInv, NEW c \in Callers, call[c].pc \in {"ioctl", "created", "arrived"},
           done(c) \/ failed(c)
    PROVE  /\ call' \in [Callers -> Call] /\ handle' \in Callers \cup {None} /\ Opened'
           /\ \A e \in Callers : ~InDriver(e)'
  <1> DEFINE x == IF call[c].left > 0 THEN [call[c] EXCEPT !.left = @ - 1, !.pc = "ioctl"] ELSE Idle
  <1>1. call \in [Callers -> Call] /\ handle = c
    BY Alone DEF DisplayInv, LibraryTypes
  <1>2. x \in Call /\ x.pc \in {"idle", "ioctl"}
    <2>1. CASE call[c].left > 0
      <3>1. call[c].left - 1 \in 0 .. MaxRetries
        BY <1>1, <2>1, DisplayAssumption DEF Call
      <3> QED BY <1>1, <2>1, <3>1 DEF Call
    <2>2. CASE ~(call[c].left > 0)
      BY <2>2, IdleCall
    <2> QED BY <2>1, <2>2
  <1>3. \/ call' = [call EXCEPT ![c] = Idle] /\ handle' = None
        \/ call' = [call EXCEPT ![c] = x] /\ handle' = c
    BY <1>1 DEF done, failed
  <1> HIDE DEF x
  <1>4. /\ call' \in [Callers -> Call] /\ \A e \in Callers \ {c} : call'[e] = call[e]
        /\ call'[c].pc \in {"idle", "ioctl"}
        /\ handle' \in {None, c} /\ (call'[c].pc = "ioctl" => handle' = c)
    BY <1>1, <1>2, <1>3, IdleCall
  <1> QED BY <1>4, Alone DEF Opened, InDriver

\* A request that goes on in the driver is the only one there.
LEMMA CallMoves ==
    ASSUME DisplayInv, NEW c \in Callers, call[c].pc \in {"ioctl", "created", "arrived"},
           NEW pc \in {"created", "arrived"}, call' = to(c, pc), handle' = handle
    PROVE  /\ call' \in [Callers -> Call] /\ Opened'
           /\ call'[c].pc = pc /\ call'[c].index = call[c].index
           /\ \A e \in Callers \ {c} : ~InDriver(e)'
  <1> DEFINE x == [call[c] EXCEPT !.pc = pc]
  <1>1. call \in [Callers -> Call] /\ call' = [call EXCEPT ![c] = x]
    BY DEF DisplayInv, LibraryTypes, to
  <1>2. x \in Call /\ x.pc = pc /\ x.index = call[c].index
    BY <1>1 DEF Call
  <1> HIDE DEF x
  <1>3. call' \in [Callers -> Call] /\ call'[c] = x /\ \A e \in Callers \ {c} : call'[e] = call[e]
    BY <1>1, <1>2
  <1> QED BY <1>2, <1>3, Alone DEF Opened, InDriver

\* A monitor changes, or a thread.
LEMMA MonitorSet ==
    ASSUME DriverTypes, NEW m \in MonitorIds, NEW y \in Monitor, monitors' = [monitors EXCEPT ![m] = y]
    PROVE  /\ monitors' \in Seq(Monitor) /\ Len(monitors') = Len(monitors) /\ monitors'[m] = y
           /\ MonitorIds' = MonitorIds /\ \A k \in MonitorIds \ {m} : monitors'[k] = monitors[k]
  <1>1. monitors \in Seq(Monitor) /\ m \in 1 .. Len(monitors)
    BY DEF DriverTypes, MonitorIds
  <1> QED BY <1>1, ExceptSeq DEF MonitorIds

LEMMA ThreadSet ==
    ASSUME DriverTypes, NEW t \in ThreadIds, NEW y \in Thread, threads' = [threads EXCEPT ![t] = y]
    PROVE  /\ threads' \in Seq(Thread) /\ Len(threads') = Len(threads) /\ threads'[t] = y
           /\ ThreadIds' = ThreadIds /\ \A k \in ThreadIds \ {t} : threads'[k] = threads[k]
  <1>1. threads \in Seq(Thread) /\ t \in 1 .. Len(threads)
    BY DEF DriverTypes, ThreadIds
  <1> QED BY <1>1, ExceptSeq DEF ThreadIds

\* A failing request, whatever it did before, leaves the driver as it was.
LEMMA QuietEnd ==
    ASSUME DisplayInv, NEW c \in Callers, call[c].pc = "ioctl", done(c) \/ failed(c),
           UNCHANGED <<software, adapter, slots, monitors, threads>>, faults' \in 0 .. MaxFaults
    PROVE  DisplayInv'
  <1>1. /\ call' \in [Callers -> Call] /\ handle' \in Callers \cup {None} /\ Opened'
        /\ \A e \in Callers : ~InDriver(e)'
    BY CallEnds
  <1>2. \A e \in Callers : ~InDriver(e)
    BY Alone DEF InDriver
  <1>3. UNCHANGED <<device, owner, keeps>>
    BY DEF software
  <1>4. LibraryTypes'
    BY <1>1, <1>3 DEF DisplayInv, LibraryTypes
  <1> QED BY <1>1, <1>2, <1>3, <1>4, QuietStep DEF DisplayInv, Present

LEMMA PlugInInv ==
    ASSUME DisplayInv, NEW c \in Callers, PlugIn(c)
    PROVE  DisplayInv'
  <1> DEFINE i == call[c].index
             y == [slot |-> i, state |-> "created", context |-> FALSE, thread |-> 0, os |-> "idle"]
             n == Len(monitors)
  <1>1. /\ call[c].pc = "ioctl" /\ UNCHANGED <<software, adapter, slots, threads>>
        /\ UNCHANGED <<device, owner, keeps>>
    BY DEF PlugIn, software
  <1>2. CASE failed(c) /\ UNCHANGED monitors /\ faults' \in 0 .. MaxFaults
    BY <1>1, <1>2, QuietEnd
  <1>3. CASE /\ mayPlugIn(i) /\ n < MaxMonitors /\ call' = to(c, "created")
             /\ UNCHANGED <<handle, faults>> /\ monitors' = Append(monitors, y)
    <2>1. /\ n \in Nat /\ monitors \in Seq(Monitor) /\ threads \in Seq(Thread)
          /\ \A t \in ThreadIds : threads[t].monitor \in MonitorIds
      BY DriverFacts DEF DisplayInv, DriverTypes
    <2>2. i \in Slots /\ slots[i] = 0 /\ device = "present"
      <3>1. i \in Nat /\ i < MaxMonitorCount /\ slots[i] = 0 /\ adapter = "ready"
        <4>1. call[c] \in Call
          BY DEF DisplayInv, LibraryTypes
        <4>2. i \in Nat
          <5>1. i \in Indices \cup {0}
            BY <4>1 DEF Call
          <5>2. Indices \subseteq Nat /\ 0 \in Nat
            BY DisplayAssumption
          <5> QED BY <5>1, <5>2
        <4> QED BY <1>3, <4>2 DEF mayPlugIn
      <3>2. i \in Slots
        BY <3>1, DisplayAssumption DEF Slots
      <3> QED BY <3>1, <3>2 DEF DisplayInv, Present
    <2>3. y \in Monitor /\ y.slot = i /\ y.state = "created" /\ y.thread = 0
      BY <2>2, DisplayAssumption DEF Monitor
    <2> HIDE DEF y
    <2>4. /\ monitors' \in Seq(Monitor) /\ Len(monitors') = n + 1 /\ monitors'[n + 1] = y
          /\ \A k \in 1 .. n : monitors'[k] = monitors[k]
      BY <1>3, <2>1, <2>3, AppendProperties
    <2>5. /\ call' \in [Callers -> Call] /\ Opened' /\ call'[c].pc = "created" /\ call'[c].index = i
          /\ \A e \in Callers \ {c} : ~InDriver(e)'
      BY <1>1, <1>3, CallMoves
    <2>6. \A e \in Callers : call[e].pc # "arrived"
      BY <1>1, Alone
    <2> HIDE DEF i, n
    <2>7. MonitorIds = 1 .. n /\ MonitorIds' = 1 .. n + 1
      BY <2>4 DEF MonitorIds, n
    <2>8. LibraryTypes'
      BY <1>1, <1>3, <2>5 DEF DisplayInv, LibraryTypes
    <2>9. DriverTypes'
      BY <1>1, <1>3, <2>1, <2>4, <2>7, DisplayAssumption DEF DisplayInv, DriverTypes, ThreadIds
    <2>10. Present'
      BY <1>1, <2>2 DEF DisplayInv, Present
    <2>11. Plugging'
      BY <1>1, <2>1, <2>2, <2>3, <2>4, <2>5 DEF Plugging, InDriver
    <2>12. Tracked'
      <3> SUFFICES ASSUME NEW k \in 1 .. n + 1, monitors'[k].state = "arrived"
                   PROVE  slots[monitors'[k].slot] = k
        BY <1>1, <2>7 DEF Tracked
      <3>1. k \in 1 .. n
        BY <2>1, <2>3, <2>4
      <3> QED BY <2>4, <2>6, <2>7, <3>1 DEF DisplayInv, Tracked
    <2>13. Held'
      BY <1>1, <2>1, <2>4, <2>7 DEF DisplayInv, Held
    <2>14. Linked' /\ ThreadsOwned'
      <3>1. n + 1 \in Nat /\ 0 \in 0 .. Len(threads)
        BY <2>1, DriverFacts DEF DisplayInv
      <3>2. Linked'
        <4> SUFFICES ASSUME NEW k \in 1 .. n + 1 PROVE monitors'[k].thread \in 0 .. Len(threads)
          BY <1>1, <2>7 DEF Linked
        <4>1. CASE k = n + 1
          BY <2>3, <2>4, <3>1, <4>1
        <4>2. CASE k \in 1 .. n
          BY <2>4, <2>7, <4>2 DEF DisplayInv, Linked
        <4> QED BY <2>1, <4>1, <4>2
      <3>3. ThreadsOwned'
        BY <1>1, <2>1, <2>4, <2>7 DEF DisplayInv, ThreadsOwned, ThreadIds
      <3> QED BY <3>2, <3>3
    <2> QED BY <2>5, <2>8, <2>9, <2>10, <2>11, <2>12, <2>13, <2>14 DEF DisplayInv
  <1>4. UNCHANGED faults \/ Fault => faults' \in 0 .. MaxFaults
    BY DisplayAssumption DEF Fault, DisplayInv, LibraryTypes
  <1> QED BY <1>2, <1>3, <1>4 DEF PlugIn

LEMMA ArrivalInv ==
    ASSUME DisplayInv, NEW c \in Callers, Arrival(c)
    PROVE  DisplayInv'
  <1> DEFINE m == Len(monitors)
             y(s) == [monitors[m] EXCEPT !.state = s]
  <1>1. /\ call[c].pc = "created" /\ UNCHANGED <<software, adapter, slots, threads>>
        /\ UNCHANGED <<device, owner, keeps>> /\ InDriver(c)
    BY DEF Arrival, software, InDriver
  <1>2. /\ m \in MonitorIds /\ monitors[m] \in Monitor /\ monitors[m].state = "created"
        /\ monitors[m].slot = call[c].index /\ call[c].index \in Slots
        /\ slots[call[c].index] = 0 /\ device = "present"
    BY <1>1, DriverFacts DEF DisplayInv, Plugging, Present, MonitorIds
  <1>3. PICK s \in {"arrived", "departed"} :
            /\ monitors' = [monitors EXCEPT ![m] = y(s)] /\ faults' \in 0 .. MaxFaults
            /\ IF s = "arrived" THEN call' = to(c, "arrived") /\ handle' = handle ELSE failed(c)
    BY DisplayAssumption DEF Arrival, Fault, DisplayInv, LibraryTypes
  <1>4. /\ y(s) \in Monitor /\ y(s).state = s /\ y(s).slot = monitors[m].slot
        /\ y(s).thread = monitors[m].thread
    BY <1>2 DEF Monitor
  <1> HIDE DEF y
  <1>5. /\ monitors' \in Seq(Monitor) /\ Len(monitors') = m /\ monitors'[m] = y(s)
        /\ MonitorIds' = MonitorIds /\ \A k \in MonitorIds \ {m} : monitors'[k] = monitors[k]
    BY <1>2, <1>3, <1>4, MonitorSet DEF DisplayInv
  <1>6. /\ call' \in [Callers -> Call] /\ handle' \in Callers \cup {None} /\ Opened'
        /\ \A e \in Callers \ {c} : ~InDriver(e)'
        /\ IF s = "arrived" THEN call'[c].pc = "arrived" /\ call'[c].index = call[c].index
           ELSE ~InDriver(c)'
    <2>1. CASE s = "arrived"
      BY <1>1, <1>3, <2>1, CallMoves DEF DisplayInv, LibraryTypes
    <2>2. CASE s # "arrived"
      BY <1>1, <1>3, <2>2, CallEnds
    <2> QED BY <2>1, <2>2
  <1> HIDE DEF m
  <1>7. LibraryTypes' /\ DriverTypes'
    BY <1>1, <1>3, <1>5, <1>6 DEF DisplayInv, LibraryTypes, DriverTypes, ThreadIds, m
  <1>8. Present'
    BY <1>1, <1>2 DEF DisplayInv, Present
  <1>9. Plugging'
    BY <1>1, <1>2, <1>4, <1>5, <1>6 DEF DisplayInv, Plugging, InDriver, m
  <1>10. Tracked'
    BY <1>1, <1>2, <1>4, <1>5, <1>6, Alone DEF DisplayInv, Tracked, m
  <1>11. Held'
    <2> SUFFICES ASSUME NEW i \in Slots, slots[i] # 0
                 PROVE  /\ slots[i] \in MonitorIds
                        /\ monitors'[slots[i]].slot = i /\ monitors'[slots[i]].state = "arrived"
      BY <1>1, <1>5 DEF Held
    <2>1. /\ slots[i] \in MonitorIds
          /\ monitors[slots[i]].slot = i /\ monitors[slots[i]].state = "arrived"
      BY DEF DisplayInv, Held
    <2> QED BY <1>2, <1>5, <2>1
  <1>12. Linked'
    BY <1>1, <1>2, <1>4, <1>5 DEF DisplayInv, Linked
  <1>13. ThreadsOwned'
    <2>1. \A k \in MonitorIds : monitors'[k].thread = monitors[k].thread
      BY <1>4, <1>5
    <2> QED BY <1>1, <2>1 DEF DisplayInv, ThreadsOwned, DriverTypes, ThreadIds
  <1> QED BY <1>6, <1>7, <1>8, <1>9, <1>10, <1>11, <1>12, <1>13 DEF DisplayInv

LEMMA PluggedInv ==
    ASSUME DisplayInv, NEW c \in Callers, Plugged(c)
    PROVE  DisplayInv'
  <1> DEFINE m == Len(monitors)
             i == call[c].index
             y == [monitors[m] EXCEPT !.context = TRUE]
  <1>1. /\ call[c].pc = "arrived" /\ UNCHANGED <<software, adapter, threads, faults>> /\ done(c)
        /\ UNCHANGED <<device, owner, keeps>> /\ InDriver(c)
        /\ monitors' = [monitors EXCEPT ![m] = y] /\ slots' = [slots EXCEPT ![i] = m]
    BY DEF Plugged, software, InDriver
  <1>2. /\ m \in MonitorIds /\ m # 0 /\ monitors[m] \in Monitor /\ monitors[m].state = "arrived"
        /\ monitors[m].slot = i /\ i \in Slots /\ slots[i] = 0 /\ device = "present"
    BY <1>1, DriverFacts DEF DisplayInv, Plugging, Present, MonitorIds
  <1>3. /\ y \in Monitor /\ y.state = "arrived" /\ y.slot = i /\ y.thread = monitors[m].thread
    BY <1>2 DEF Monitor
  <1> HIDE DEF y
  <1>4. /\ monitors' \in Seq(Monitor) /\ Len(monitors') = m /\ monitors'[m] = y
        /\ MonitorIds' = MonitorIds /\ \A k \in MonitorIds \ {m} : monitors'[k] = monitors[k]
    BY <1>1, <1>2, <1>3, MonitorSet DEF DisplayInv
  <1>5. /\ call' \in [Callers -> Call] /\ handle' \in Callers \cup {None} /\ Opened'
        /\ \A e \in Callers : ~InDriver(e)'
    BY <1>1, CallEnds
  <1>6. m \in 0 .. MaxMonitors /\ slots \in [Slots -> 0 .. MaxMonitors]
    BY DriverFacts, DisplayAssumption DEF DisplayInv, DriverTypes
  <1> HIDE DEF m, i
  <1>7. /\ slots' \in [Slots -> 0 .. MaxMonitors] /\ slots'[i] = m
        /\ \A k \in Slots \ {i} : slots'[k] = slots[k]
    BY <1>1, <1>2, <1>6
  <1>8. LibraryTypes' /\ DriverTypes'
    BY <1>1, <1>4, <1>5, <1>7 DEF DisplayInv, LibraryTypes, DriverTypes, ThreadIds, m
  <1>9. Present' /\ Plugging'
    BY <1>1, <1>2, <1>5 DEF DisplayInv, Present, Plugging
  <1>10. \A k \in MonitorIds : /\ monitors'[k].thread = monitors[k].thread
                               /\ monitors'[k].slot = monitors[k].slot
                               /\ monitors'[k].state = monitors[k].state
                               /\ monitors[k].slot \in Slots
    BY <1>2, <1>3, <1>4, DriverFacts DEF DisplayInv, Monitor
  <1>11. Tracked'
    <2> SUFFICES ASSUME NEW k \in MonitorIds, monitors[k].state = "arrived"
                 PROVE  slots'[monitors[k].slot] = k
      BY <1>4, <1>10 DEF Tracked
    <2>1. CASE k = m
      BY <1>2, <1>7, <2>1
    <2>2. CASE k # m
      <3>1. slots[monitors[k].slot] = k
        BY <2>2 DEF DisplayInv, Tracked, m
      <3>2. monitors[k].slot # i
        BY <1>2, <3>1, DriverFacts DEF DisplayInv, MonitorIds
      <3> QED BY <1>7, <1>10, <3>1, <3>2
    <2> QED BY <2>1, <2>2
  <1>12. Held'
    BY <1>2, <1>4, <1>7, <1>10 DEF DisplayInv, Held
  <1>13. Linked'
    BY <1>1, <1>4, <1>10 DEF DisplayInv, Linked
  <1>14. ThreadsOwned'
    BY <1>1, <1>10 DEF DisplayInv, ThreadsOwned, DriverTypes, ThreadIds
  <1> QED BY <1>5, <1>8, <1>9, <1>11, <1>12, <1>13, <1>14 DEF DisplayInv

LEMMA PlugOutInv ==
    ASSUME DisplayInv, NEW c \in Callers, PlugOut(c)
    PROVE  DisplayInv'
  <1> DEFINE i == call[c].index
             m == slots[i]
             y == [monitors[m] EXCEPT !.state = "departed"]
  <1>1. /\ call[c].pc = "ioctl" /\ UNCHANGED <<software, adapter>> /\ done(c)
        /\ UNCHANGED <<device, owner, keeps>>
    BY DEF PlugOut, software
  <1>2. CASE UNCHANGED <<slots, monitors, threads>> /\ faults' \in 0 .. MaxFaults
    BY <1>1, <1>2, QuietEnd
  <1>3. CASE /\ mayPlugOut(i) /\ UNCHANGED faults /\ monitors' = [monitors EXCEPT ![m] = y]
             /\ threads' = abandon({m}) /\ slots' = [slots EXCEPT ![i] = 0]
    <2>1. i \in Slots /\ m # 0 /\ device = "present"
      BY <1>3, DisplayAssumption DEF mayPlugOut, Slots, DisplayInv, LibraryTypes, Call
    <2>2. /\ m \in MonitorIds /\ monitors[m] \in Monitor /\ monitors[m].slot = i
          /\ \A k \in MonitorIds : monitors[k].slot \in Slots
          /\ \A t \in ThreadIds : threads[t] \in Thread
      BY <2>1, DriverFacts DEF DisplayInv, Held, Monitor
    <2>3. y \in Monitor /\ y.state = "departed" /\ y.slot = i /\ y.thread = monitors[m].thread
      BY <2>2 DEF Monitor
    <2> HIDE DEF y
    <2>4. /\ monitors' \in Seq(Monitor) /\ Len(monitors') = Len(monitors) /\ monitors'[m] = y
          /\ MonitorIds' = MonitorIds /\ \A k \in MonitorIds \ {m} : monitors'[k] = monitors[k]
      BY <1>3, <2>2, <2>3, MonitorSet DEF DisplayInv
    <2>5. /\ threads' \in [ThreadIds -> Thread]
          /\ \A t \in ThreadIds : /\ threads'[t].monitor = threads[t].monitor
                                  /\ threads'[t].runs = threads[t].runs
                                  /\ threads'[t].chain = "deleted" => threads[t].chain = "deleted"
      <3>1. \A t \in ThreadIds : LET z == [threads[t] EXCEPT !.chain = "abandoned"] IN
               z \in Thread /\ z.chain = "abandoned" /\ z.monitor = threads[t].monitor
               /\ z.runs = threads[t].runs
        BY <2>2 DEF Thread
      <3> QED BY <1>3, <2>2, <3>1 DEF abandon
    <2>6. threads' \in Seq(Thread) /\ Len(threads') = Len(threads) /\ ThreadIds' = ThreadIds
      BY <2>5, SeqMap DEF DisplayInv, DriverTypes, ThreadIds
    <2>7. /\ slots' \in [Slots -> 0 .. MaxMonitors] /\ slots'[i] = 0
          /\ \A k \in Slots \ {i} : slots'[k] = slots[k]
      BY <1>3, <2>1, DisplayAssumption DEF DisplayInv, DriverTypes
    <2>8. /\ call' \in [Callers -> Call] /\ handle' \in Callers \cup {None} /\ Opened'
          /\ \A e \in Callers : ~InDriver(e)'
      BY <1>1, CallEnds
    <2> HIDE DEF i, m
    <2>9. LibraryTypes'
      BY <1>1, <1>3, <2>8 DEF DisplayInv, LibraryTypes
    <2>10. DriverTypes'
      BY <2>4, <2>5, <2>6, <2>7 DEF DisplayInv, DriverTypes
    <2>11. Present' /\ Plugging'
      BY <1>1, <2>1, <2>8 DEF DisplayInv, Present, Plugging
    <2>12. Tracked'
      <3> SUFFICES ASSUME NEW k \in MonitorIds, monitors'[k].state = "arrived"
                   PROVE  slots'[monitors'[k].slot] = k
        BY <2>4 DEF Tracked
      <3>1. k # m /\ monitors'[k] = monitors[k]
        BY <2>3, <2>4
      <3>2. slots[monitors[k].slot] = k
        BY <1>1, <3>1, Alone DEF DisplayInv, Tracked
      <3>3. monitors[k].slot # i
        BY <3>1, <3>2 DEF m
      <3> QED BY <2>2, <2>7, <3>1, <3>2, <3>3
    <2>13. Held'
      <3> SUFFICES ASSUME NEW k \in Slots, slots'[k] # 0
                   PROVE  /\ slots'[k] \in MonitorIds
                          /\ monitors'[slots'[k]].slot = k /\ monitors'[slots'[k]].state = "arrived"
        BY <2>4 DEF Held
      <3>1. k # i /\ slots'[k] = slots[k]
        BY <2>7
      <3>2. /\ slots[k] \in MonitorIds
            /\ monitors[slots[k]].slot = k /\ monitors[slots[k]].state = "arrived"
        BY <3>1 DEF DisplayInv, Held
      <3> QED BY <2>2, <2>4, <3>1, <3>2
    <2>14. \A k \in MonitorIds : monitors'[k].thread = monitors[k].thread
      BY <2>3, <2>4
    <2>15. Linked'
      BY <2>4, <2>6, <2>14 DEF DisplayInv, Linked
    <2>16. ThreadsOwned'
      BY <2>5, <2>6, <2>14 DEF DisplayInv, ThreadsOwned, DriverTypes
    <2> QED BY <2>8, <2>9, <2>10, <2>11, <2>12, <2>13, <2>15, <2>16 DEF DisplayInv
  <1>4. UNCHANGED faults \/ Fault => faults' \in 0 .. MaxFaults
    BY DisplayAssumption DEF Fault, DisplayInv, LibraryTypes
  <1> QED BY <1>2, <1>3, <1>4 DEF PlugOut

----------------------------------------------------------------------------
(***************************************************************************)
(* Windows, the contexts and their threads.                                *)
(***************************************************************************)

\* Telling a thread to stop changes nothing else of it.
LEMMA Stopped ==
    ASSUME DisplayInv, NEW m \in MonitorIds, threads' = stopped(m)
    PROVE  /\ threads' \in Seq(Thread) /\ Len(threads') = Len(threads) /\ ThreadIds' = ThreadIds
           /\ \A t \in ThreadIds : /\ threads'[t].monitor = threads[t].monitor
                                   /\ threads'[t].runs = threads[t].runs
                                   /\ threads'[t].chain = threads[t].chain
  <1>1. \A t \in ThreadIds : threads[t] \in Thread
    BY DriverFacts DEF DisplayInv
  <1>2. \A t \in ThreadIds : LET z == [threads[t] EXCEPT !.stop = TRUE] IN
           z \in Thread /\ z.chain = threads[t].chain /\ z.monitor = threads[t].monitor
           /\ z.runs = threads[t].runs
    BY <1>1 DEF Thread
  <1>3. /\ threads' \in [ThreadIds -> Thread]
        /\ \A t \in ThreadIds : /\ threads'[t].monitor = threads[t].monitor
                                /\ threads'[t].runs = threads[t].runs
                                /\ threads'[t].chain = threads[t].chain
    BY <1>1, <1>2 DEF stopped
  <1> QED BY <1>3, SeqMap DEF DisplayInv, DriverTypes, ThreadIds

\* A context takes or gives back its SwapChainProcessor; a thread is told of it.
LEMMA ContextStep ==
    ASSUME DisplayInv, NEW m \in MonitorIds, NEW os \in {"assign", "unassign"},
           monitors' = [monitors EXCEPT ![m].os = os], threads' = stopped(m),
           UNCHANGED <<software, adapter, slots, call, handle, faults>>
    PROVE  DisplayInv'
  <1> DEFINE y == [monitors[m] EXCEPT !.os = os]
  <1>1. /\ y \in Monitor /\ y.state = monitors[m].state /\ y.slot = monitors[m].slot
        /\ y.thread = monitors[m].thread
    BY DriverFacts DEF DisplayInv, Monitor
  <1>2. monitors' = [monitors EXCEPT ![m] = y]
    OBVIOUS
  <1> HIDE DEF y
  <1>3. /\ monitors' \in Seq(Monitor) /\ Len(monitors') = Len(monitors) /\ monitors'[m] = y
        /\ MonitorIds' = MonitorIds /\ \A k \in MonitorIds \ {m} : monitors'[k] = monitors[k]
    BY <1>1, <1>2, MonitorSet DEF DisplayInv
  <1>4. \A k \in MonitorIds : /\ monitors'[k].state = monitors[k].state
                              /\ monitors'[k].slot = monitors[k].slot
                              /\ monitors'[k].thread = monitors[k].thread
    BY <1>1, <1>3
  <1>5. Linked'
    BY <1>3, <1>4, Stopped DEF DisplayInv, Linked
  <1>6. ThreadsOwned'
    <2> SUFFICES ASSUME NEW t \in ThreadIds, threads'[t].runs
                 PROVE  /\ monitors'[threads'[t].monitor].thread = t
                        /\ threads'[t].chain # "deleted"
      BY Stopped DEF ThreadsOwned
    <2>1. /\ threads'[t].monitor = threads[t].monitor /\ threads[t].runs
          /\ threads'[t].chain = threads[t].chain /\ threads[t].monitor \in MonitorIds
      BY Stopped DEF DisplayInv, DriverTypes
    <2> QED BY <1>4, <2>1 DEF DisplayInv, ThreadsOwned
  <1>7. \A t \in ThreadIds' : threads'[t].monitor \in MonitorIds
    BY Stopped DEF DisplayInv, DriverTypes
  <1>8. Len(threads') <= MaxChains /\ faults' \in 0 .. MaxFaults
    BY Stopped DEF DisplayInv, DriverTypes, LibraryTypes
  <1> QED BY <1>3, <1>4, <1>5, <1>6, <1>7, <1>8, Stopped, ThreadStep

LEMMA AssignInv ==
    ASSUME DisplayInv, NEW m \in MonitorIds, AssignSwapChain(m)
    PROVE  DisplayInv'
  <1>1. CASE monitors[m].context
    BY <1>1, ContextStep DEF AssignSwapChain
  <1>2. CASE ~monitors[m].context
    <2> DEFINE y(k) == [monitors[k] EXCEPT !.state = "departed", !.os = "idle", !.thread = 0]
    <2>1. /\ monitors[m].state = "arrived" /\ UNCHANGED <<software, faults>>
          /\ UNCHANGED <<device, owner, keeps>> /\ callsFailed /\ adapter' = "starting"
          /\ slots' = [i \in Slots |-> 0] /\ monitors' = [k \in MonitorIds |-> y(k)]
          /\ threads' = [t \in ThreadIds |-> Ended(t)]
      BY <1>2 DEF AssignSwapChain, software
    <2>2. device = "present"
      BY <2>1 DEF DisplayInv, Present
    <2>3. /\ monitors \in Seq(Monitor) /\ threads \in Seq(Thread)
          /\ \A k \in MonitorIds : monitors[k] \in Monitor
          /\ \A t \in ThreadIds : threads[t] \in Thread
          /\ Len(threads) \in Nat
      BY DriverFacts DEF DisplayInv, DriverTypes
    <2>4. \A k \in MonitorIds : y(k) \in Monitor /\ y(k).state = "departed" /\ y(k).thread = 0
      <3>1. 0 \in 0 .. MaxChains
        BY DisplayAssumption
      <3> QED BY <2>3, <3>1 DEF Monitor
    <2>5. \A t \in ThreadIds : /\ Ended(t) \in Thread /\ ~Ended(t).runs
                               /\ Ended(t).monitor = threads[t].monitor
      <3>1. 0 \in 0 .. MaxFrames
        BY DisplayAssumption
      <3> QED BY <2>3, <3>1 DEF Ended, Thread
    <2> HIDE DEF y
    <2>6. /\ monitors' \in [MonitorIds -> Monitor]
          /\ \A k \in MonitorIds : monitors'[k].state = "departed" /\ monitors'[k].thread = 0
      BY <2>1, <2>4
    <2>7. monitors' \in Seq(Monitor) /\ Len(monitors') = Len(monitors) /\ MonitorIds' = MonitorIds
      BY <2>3, <2>6, SeqMap DEF MonitorIds
    <2>8. /\ threads' \in [ThreadIds -> Thread]
          /\ \A t \in ThreadIds : ~threads'[t].runs /\ threads'[t].monitor = threads[t].monitor
      BY <2>1, <2>5
    <2>9. threads' \in Seq(Thread) /\ Len(threads') = Len(threads) /\ ThreadIds' = ThreadIds
      BY <2>3, <2>8, SeqMap DEF ThreadIds
    <2>10. call' \in [Callers -> Call] /\ handle' \in Callers \cup {None}
      BY <2>1, IdleCall DEF callsFailed, DisplayInv, LibraryTypes
    <2>11. LibraryTypes'
      BY <2>1, <2>10 DEF DisplayInv, LibraryTypes
    <2>12. Linked' /\ ThreadsOwned'
      BY <2>3, <2>6, <2>7, <2>8, <2>9 DEF Linked, ThreadsOwned
    <2> QED BY <2>1, <2>2, <2>6, <2>7, <2>8, <2>9, <2>11, <2>12, DownStep
  <1> QED BY <1>1, <1>2

LEMMA UnassignInv ==
    ASSUME DisplayInv, NEW m \in MonitorIds, UnassignSwapChain(m)
    PROVE  DisplayInv'
  BY ContextStep DEF UnassignSwapChain

LEMMA ResetInv ==
    ASSUME DisplayInv, NEW m \in MonitorIds, Reset(m)
    PROVE  DisplayInv'
  <1> DEFINE n == Len(threads)
             y(t) == [monitors[m] EXCEPT !.os = "idle", !.thread = t]
             z == [monitor |-> m, runs |-> TRUE, stop |-> FALSE, frames |-> 0,
                   chain |-> IF monitors[m].state = "arrived" THEN "live" ELSE "abandoned"]
  <1>1. UNCHANGED <<software, adapter, handle, call, slots>> /\ joined(m)
    BY DEF Reset
  <1>2. /\ monitors[m] \in Monitor /\ threads \in Seq(Thread) /\ n \in Nat /\ n <= MaxChains
        /\ m \in Nat /\ \A t \in ThreadIds : threads[t] \in Thread /\ threads[t].monitor \in MonitorIds
    BY DriverFacts DEF DisplayInv, DriverTypes, MonitorIds
  <1>3. \A t \in 0 .. MaxChains :
           /\ y(t) \in Monitor /\ y(t).state = monitors[m].state /\ y(t).slot = monitors[m].slot
           /\ y(t).thread = t
    BY <1>2 DEF Monitor
  <1>4. PICK t \in 0 .. MaxChains :
           /\ monitors' = [monitors EXCEPT ![m] = y(t)] /\ faults' \in 0 .. MaxFaults
           /\ \/ t = 0 /\ threads' = threads
              \/ t = n + 1 /\ n < MaxChains /\ threads' = Append(threads, z)
    <2>1. CASE /\ monitors' = [monitors EXCEPT ![m] = y(0)]
               /\ threads' = threads /\ (Fault \/ UNCHANGED faults)
      <3>1. faults' \in 0 .. MaxFaults /\ 0 \in 0 .. MaxChains
        BY <2>1, DisplayAssumption DEF Fault, DisplayInv, LibraryTypes
      <3> QED BY <2>1, <3>1
    <2>2. CASE n < MaxChains /\ UNCHANGED faults /\ startThread(m)
      <3>1. n + 1 \in 0 .. MaxChains /\ faults' \in 0 .. MaxFaults
        BY <1>2, <2>2, DisplayAssumption DEF DisplayInv, LibraryTypes
      <3> QED BY <2>2, <3>1 DEF startThread
    <2> QED BY <2>1, <2>2 DEF Reset, Direct3DFails
  <1>5. z \in Thread /\ z.monitor = m /\ z.chain # "deleted"
    <2>1. 0 \in 0 .. MaxFrames
      BY DisplayAssumption
    <2> QED BY <1>2, <2>1 DEF Thread
  <1> HIDE DEF y, z
  <1>6. /\ monitors' \in Seq(Monitor) /\ Len(monitors') = Len(monitors) /\ monitors'[m] = y(t)
        /\ MonitorIds' = MonitorIds /\ \A k \in MonitorIds \ {m} : monitors'[k] = monitors[k]
    BY <1>3, <1>4, MonitorSet DEF DisplayInv
  <1>7. \A k \in MonitorIds : /\ monitors'[k].state = monitors[k].state
                              /\ monitors'[k].slot = monitors[k].slot
    BY <1>3, <1>6
  <1>8. \A u \in ThreadIds : threads[u].runs => /\ monitors'[threads[u].monitor].thread = u
                                                /\ threads[u].chain # "deleted"
    <2> SUFFICES ASSUME NEW u \in ThreadIds, threads[u].runs
                 PROVE  /\ monitors'[threads[u].monitor].thread = u
                        /\ threads[u].chain # "deleted"
      OBVIOUS
    <2>1. monitors[threads[u].monitor].thread = u /\ threads[u].chain # "deleted"
      BY DEF DisplayInv, ThreadsOwned
    <2>2. threads[u].monitor # m
      BY <1>1, <1>2, <2>1 DEF joined, ThreadIds
    <2> QED BY <1>2, <1>6, <2>1, <2>2
  <1>9. CASE t = 0 /\ threads' = threads
    <2>1. Linked'
      <3> SUFFICES ASSUME NEW k \in MonitorIds PROVE monitors'[k].thread \in 0 .. n
        BY <1>6, <1>9 DEF Linked
      <3>1. CASE k = m
        BY <1>2, <1>3, <1>6, <1>9, <3>1
      <3>2. CASE k # m
        BY <1>6, <3>2 DEF DisplayInv, Linked
      <3> QED BY <3>1, <3>2
    <2>3. ThreadsOwned'
      BY <1>8, <1>9 DEF ThreadsOwned, ThreadIds
    <2>2. \A u \in ThreadIds' : threads'[u].monitor \in MonitorIds
      BY <1>2, <1>9 DEF ThreadIds
    <2> QED BY <1>1, <1>2, <1>4, <1>6, <1>7, <1>9, <2>1, <2>2, <2>3, ThreadStep
  <1>10. CASE t = n + 1 /\ n < MaxChains /\ threads' = Append(threads, z)
    <2>1. /\ threads' \in Seq(Thread) /\ Len(threads') = n + 1 /\ threads'[n + 1] = z
          /\ \A u \in 1 .. n : threads'[u] = threads[u]
      BY <1>2, <1>5, <1>10, AppendProperties
    <2> HIDE DEF n
    <2>2. ThreadIds = 1 .. n /\ ThreadIds' = 1 .. n + 1
      BY <2>1 DEF ThreadIds, n
    <2>3. Linked'
      <3> SUFFICES ASSUME NEW k \in MonitorIds PROVE monitors'[k].thread \in 0 .. n + 1
        BY <1>6, <2>1 DEF Linked
      <3>1. CASE k = m
        BY <1>2, <1>3, <1>6, <1>10, <3>1
      <3>2. CASE k # m
        BY <1>2, <1>6, <3>2 DEF DisplayInv, Linked, n
      <3> QED BY <3>1, <3>2
    <2>4. ThreadsOwned' /\ \A u \in ThreadIds' : threads'[u].monitor \in MonitorIds
      <3> SUFFICES ASSUME NEW u \in 1 .. n + 1
                   PROVE  /\ threads'[u].runs => /\ monitors'[threads'[u].monitor].thread = u
                                                 /\ threads'[u].chain # "deleted"
                          /\ threads'[u].monitor \in MonitorIds
        BY <2>2 DEF ThreadsOwned
      <3>1. CASE u = n + 1
        BY <1>3, <1>5, <1>6, <1>10, <2>1, <3>1
      <3>2. CASE u # n + 1
        BY <1>2, <1>8, <2>1, <2>2, <3>2
      <3> QED BY <3>1, <3>2
    <2>5. Len(threads') <= MaxChains
      BY <1>2, <1>10, <2>1, DisplayAssumption
    <2> QED BY <1>1, <1>4, <1>6, <1>7, <2>1, <2>3, <2>4, <2>5, ThreadStep
  <1> QED BY <1>4, <1>9, <1>10

\* One thread or its swap-chain changes.
LEMMA OneThread ==
    ASSUME DisplayInv, NEW t \in ThreadIds, NEW y \in Thread, threads' = [threads EXCEPT ![t] = y],
           y.monitor = threads[t].monitor, y.runs => threads[t].runs,
           y.runs => y.chain # "deleted",
           UNCHANGED <<software, adapter, handle, call, slots, monitors>>, faults' \in 0 .. MaxFaults
    PROVE  DisplayInv'
  <1>1. /\ threads' \in Seq(Thread) /\ Len(threads') = Len(threads) /\ threads'[t] = y
        /\ ThreadIds' = ThreadIds /\ \A k \in ThreadIds \ {t} : threads'[k] = threads[k]
    BY ThreadSet DEF DisplayInv
  <1>2. ThreadsOwned'
    BY <1>1 DEF DisplayInv, ThreadsOwned
  <1>3. Linked'
    BY <1>1 DEF DisplayInv, Linked, MonitorIds
  <1>4. /\ monitors' \in Seq(Monitor) /\ Len(monitors') = Len(monitors) /\ Len(threads') <= MaxChains
        /\ \A u \in ThreadIds' : threads'[u].monitor \in MonitorIds
    BY <1>1 DEF DisplayInv, DriverTypes
  <1> QED BY <1>1, <1>2, <1>3, <1>4, ThreadStep

LEMMA ChainInv ==
    ASSUME DisplayInv, NEW t \in ThreadIds, FrameReady(t) \/ ChainLost(t) \/ Run(t)
    PROVE  DisplayInv'
  <1>1. /\ UNCHANGED <<software, adapter, handle, call, slots, monitors>>
        /\ threads[t] \in Thread /\ threads[t].frames \in Nat
        /\ threads[t].runs => threads[t].chain # "deleted"
    BY DriverFacts DEF FrameReady, ChainLost, Run, DisplayInv, ThreadsOwned, Thread
  <1>2. faults' \in 0 .. MaxFaults
    BY DisplayAssumption DEF FrameReady, ChainLost, Run, Fault, DisplayInv, LibraryTypes
  <1>3. ASSUME NEW f \in 0 .. MaxFrames, threads' = [threads EXCEPT ![t].frames = f]
        PROVE  DisplayInv'
    <2> DEFINE y == [threads[t] EXCEPT !.frames = f]
    <2>1. /\ y \in Thread /\ y.monitor = threads[t].monitor /\ y.runs = threads[t].runs
          /\ y.chain = threads[t].chain
      BY <1>1 DEF Thread
    <2>2. threads' = [threads EXCEPT ![t] = y]
      BY <1>3
    <2> HIDE DEF y
    <2> QED BY <1>1, <1>2, <2>1, <2>2, OneThread
  <1>4. CASE FrameReady(t)
    <2>1. threads[t].frames + 1 \in 0 .. MaxFrames
      BY <1>1, <1>4, DisplayAssumption DEF FrameReady
    <2> QED BY <1>3, <1>4, <2>1 DEF FrameReady
  <1>5. CASE ChainLost(t)
    <2> DEFINE y == [threads[t] EXCEPT !.chain = "abandoned"]
    <2>1. /\ y \in Thread /\ y.monitor = threads[t].monitor /\ y.runs = threads[t].runs
          /\ y.chain = "abandoned"
      BY <1>1 DEF Thread
    <2>2. threads' = [threads EXCEPT ![t] = y]
      BY <1>5 DEF ChainLost
    <2> HIDE DEF y
    <2> QED BY <1>1, <1>2, <2>1, <2>2, OneThread
  <1>6. CASE Run(t)
    <2>1. CASE threads[t].frames > 0 /\ threads' = [threads EXCEPT ![t].frames = @ - 1]
      <3>1. threads[t].frames - 1 \in 0 .. MaxFrames
        BY <1>1, <2>1, DisplayAssumption DEF Thread
      <3> QED BY <1>3, <2>1, <3>1
    <2>2. CASE threads' = [threads EXCEPT ![t] = Ended(t)]
      <3>1. Ended(t) \in Thread /\ Ended(t).monitor = threads[t].monitor /\ ~Ended(t).runs
        <4>1. 0 \in 0 .. MaxFrames
          BY DisplayAssumption
        <4> QED BY <1>1, <4>1 DEF Ended, Thread
      <3> QED BY <1>1, <1>2, <2>2, <3>1, OneThread
    <2> QED BY <1>6, <2>1, <2>2 DEF Run
  <1> QED BY <1>4, <1>5, <1>6

----------------------------------------------------------------------------
(***************************************************************************)
(* The theorems.                                                           *)
(***************************************************************************)

LEMMA StartInv ==
    ASSUME DisplayInit
    PROVE  DisplayInv
  <1>1. Len(monitors) = 0 /\ Len(threads) = 0 /\ MonitorIds = {} /\ ThreadIds = {}
    BY DEF DisplayInit, MonitorIds, ThreadIds
  <1>2. call \in [Callers -> Call] /\ \A c \in Callers : call[c].pc = "idle"
    BY IdleCall DEF DisplayInit
  <1>3. LibraryTypes
    <2>1. Nobody \in [who : Callers \cup {None}, lost : BOOLEAN] /\ 0 \in 0 .. MaxFaults
      BY DisplayAssumption DEF Nobody
    <2> QED BY <1>2, <2>1 DEF DisplayInit, LibraryTypes
  <1>4. DriverTypes
    <2>1. monitors \in Seq(Monitor) /\ threads \in Seq(Thread)
      BY EmptySeq DEF DisplayInit
    <2> QED BY <1>1, <2>1, DisplayAssumption DEF DisplayInit, DriverTypes
  <1>5. Held
    BY DEF DisplayInit, Held
  <1>6. Opened /\ Present /\ Plugging
    BY <1>1, <1>2 DEF DisplayInit, Opened, Present, Plugging, InDriver
  <1>7. Tracked /\ Linked /\ ThreadsOwned
    BY <1>1 DEF Tracked, Linked, ThreadsOwned
  <1> QED BY <1>3, <1>4, <1>5, <1>6, <1>7 DEF DisplayInv

LEMMA NextDisplayInv ==
    ASSUME DisplayInv, [DisplayNext]_displayVars
    PROVE  DisplayInv'
  <1>1. CASE UNCHANGED displayVars
    <2>1. /\ UNCHANGED <<device, owner, keeps, adapter, handle, call, slots, monitors, threads, faults>>
      BY <1>1 DEF displayVars
    <2>2. LibraryTypes' /\ Opened'
      BY <2>1 DEF DisplayInv, LibraryTypes, Opened
    <2> QED BY <2>1, <2>2, QuietStep DEF DisplayInv, Present
  <1>2. ASSUME NEW c \in Callers, CallStep(c)
        PROVE  DisplayInv'
    BY <1>2, OpenInv, PlugInInv, ArrivalInv, PluggedInv, PlugOutInv, ModesInv DEF CallStep
  <1>3. ASSUME NEW c \in Callers,
               \/ DeviceCreate(c, "create") \/ DeviceCreate(c, "keep") \/ CreateTimesOut(c)
               \/ DeviceClose(c) \/ ProcessEnds(c)
        PROVE  DisplayInv'
    BY <1>3, CreateInv, TimesOutInv, CloseInv, EndsInv
  <1>4. ASSUME NEW c \in Callers,
               \/ MonitorModesUpdate(c)
               \/ \E i \in Indices : MonitorPlugIn(c, i) \/ MonitorPlugOut(c, i)
        PROVE  DisplayInv'
    BY <1>4, AskInv DEF MonitorModesUpdate, MonitorPlugIn, MonitorPlugOut
  <1>5. ASSUME NEW m \in MonitorIds, AssignSwapChain(m) \/ UnassignSwapChain(m) \/ Reset(m)
        PROVE  DisplayInv'
    BY <1>5, AssignInv, UnassignInv, ResetInv
  <1> QED BY <1>1, <1>2, <1>3, <1>4, <1>5, CallbackInv, AdapterInv, ChainInv DEF DisplayNext

LEMMA DisplayInvHolds == DisplaySpec => []DisplayInv
  BY StartInv, NextDisplayInv, PTL DEF DisplaySpec

\* Every state of the library, of the driver and of Windows is one the code can
\* be in (IddController, Driver).
THEOREM DisplayTypeCorrect == DisplaySpec => []DisplayTypeOK
  <1>1. DisplayInv => DisplayTypeOK
    <2> SUFFICES ASSUME DisplayInv PROVE DisplayTypeOK
      OBVIOUS
    <2>1. \A m \in MonitorIds : monitors[m] \in Monitor
      BY DriverFacts DEF DisplayInv
    <2>3. \A t \in ThreadIds :
             threads[t] \in [monitor : MonitorIds, chain : {"live", "abandoned", "deleted"},
                             runs : BOOLEAN, stop : BOOLEAN, frames : 0 .. MaxFrames]
      BY DriverFacts DEF DisplayInv, DriverTypes, Thread
    <2> QED BY <2>1, <2>3 DEF DisplayTypeOK, DisplayInv, LibraryTypes, DriverTypes, Monitor, Call
  <1> QED BY <1>1, DisplayInvHolds, PTL

\* No failure of a call to Windows leaves a monitor shown that the driver no
\* longer holds in its slot, and a connector shows one monitor at most
\* (PlugInMonitor, PlugOutMonitor).
THEOREM MonitorsStayTracked == DisplaySpec => []MonitorsTracked
  <1>1. DisplayInv => MonitorsTracked
    <2> SUFFICES ASSUME DisplayInv, NEW i \in Slots
                 PROVE  /\ Cardinality(ShownAt(i)) <= 1
                        /\ \/ ShownAt(i) = {slots[i]} \ {0}
                           \/ \E c \in Callers : call[c].index = i /\ call[c].pc = "arrived"
      BY DEF MonitorsTracked
    <2>1. \A m \in ShownAt(i) : \/ slots[i] = m
                                \/ /\ m = Len(monitors)
                                   /\ \E c \in Callers : call[c].index = i /\ call[c].pc = "arrived"
      BY DEF ShownAt, DisplayInv, Tracked, Plugging, InDriver
    <2>2. slots[i] # 0 => slots[i] \in ShownAt(i)
      BY DEF DisplayInv, Held, ShownAt
    <2>3. 0 \notin ShownAt(i)
      BY DEF ShownAt, MonitorIds
    <2>4. \A m, n \in ShownAt(i) : m = n
      <3>1. CASE \E c \in Callers : call[c].index = i /\ call[c].pc = "arrived"
        <4>1. slots[i] = 0
          BY <3>1 DEF DisplayInv, Plugging, InDriver
        <4> QED BY <2>1, <2>3, <4>1
      <3>2. CASE ~\E c \in Callers : call[c].index = i /\ call[c].pc = "arrived"
        BY <2>1, <3>2
      <3> QED BY <3>1, <3>2
    <2>5. Cardinality(ShownAt(i)) <= 1
      <3>1. CASE ShownAt(i) = {}
        BY <3>1, FS_EmptySet
      <3>2. CASE ShownAt(i) # {}
        <4>1. PICK m \in ShownAt(i) : TRUE
          BY <3>2
        <4>2. ShownAt(i) = {m}
          BY <2>4, <4>1
        <4> QED BY <4>2, FS_Singleton
      <3> QED BY <3>1, <3>2
    <2>6. \/ ShownAt(i) = {slots[i]} \ {0}
          \/ \E c \in Callers : call[c].index = i /\ call[c].pc = "arrived"
      BY <2>1, <2>2, <2>3
    <2> QED BY <2>5, <2>6
  <1> QED BY <1>1, DisplayInvHolds, PTL

\* A thread that runs is owned by its monitor's context and has its swap-chain
\* (AssignSwapChain, UnassignSwapChain, ~SwapChainProcessor, Run).
THEOREM ThreadsStayOwned == DisplaySpec => []ThreadsOwned
  BY DisplayInvHolds, PTL DEF DisplayInv
=============================================================================
