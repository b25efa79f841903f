------------------------- MODULE FileTransfersProofs -------------------------
(***************************************************************************)
(* Proofs about FileTransfers, for any number of connections, files, tasks *)
(* and faults: the types and the limits of the queue, that the native      *)
(* program has one unfinished upload of a connection at a time             *)
(* (OneUploadAtATime), and that a row of the list tells of the transfer it *)
(* was made for (TasksSound).                                              *)
(*                                                                         *)
(* The two rest on each other.  A row may adopt the name in an event       *)
(* because the native program has no other unfinished upload of that       *)
(* connection; it has none because a row stays dispatched until an event   *)
(* with its own name ends it.  Linked says so: whatever upload of a live   *)
(* session is on its way, or under way, or has ended unheard, is that of   *)
(* the one dispatched row of the connection.                               *)
(*                                                                         *)
(* The invariant is stated over its parts (the rows ts, the sessions S and *)
(* the retired connections R, the commands box, the native transfers nat,  *)
(* the buried names bur and the number n of tasks made), since a handler   *)
(* that fails to send a command goes on to end the session, from rows it   *)
(* has already changed.                                                    *)
(***************************************************************************)
EXTENDS FileTransfers, SequenceTheorems, FiniteSetTheorems, FunctionTheorems,
        WellFoundedInduction, TLAPS

Command == [type : {"upload", "download"}, conn : Conns, task : Nat]
           \cup [type : {"cancel"}, dir : Directions, wire : Nat]
Message == [type : {"started", "progress", "complete", "error"}, conn : Conns,
            dir : Directions, wire : Nat, name : {FileName[f] : f \in Files}]

\* A row whose upload has been given to the native program, or was to be.
Under(t) == t.dir = "upload" /\ t.status \notin Terminal \cup {"queued"}

\* An upload of task x is on its way to the native program, or has reached it.
Out(x, box, nat) ==
    \/ \E k \in DOMAIN box : box[k].type = "upload" /\ box[k].task = x
    \/ \E n \in DOMAIN nat["upload"] : nat["upload"][n].task = x

\* Tasks are numbered as they are made, an upload is sent once, and a transfer
\* has one row.
Numbered(ts, box, nat, n) ==
    /\ \A i \in DOMAIN ts : ts[i].dir = "upload" => ts[i].id <= n
    /\ \A i, j \in DOMAIN ts :
          ts[i].dir = ts[j].dir =>
             /\ ts[i].dir = "upload" /\ ts[i].id = ts[j].id => i = j
             /\ ts[i].dir = "download" /\ ts[i].wire = ts[j].wire => i = j
    /\ \A x \in Nat : Out(x, box, nat) => x <= n
    /\ \A k, l \in DOMAIN box :
          box[k].type = "upload" /\ box[l].type = "upload" /\ box[k].task = box[l].task => k = l
    /\ \A k, l \in DOMAIN nat["upload"] : nat["upload"][k].task = nat["upload"][l].task => k = l
    /\ \A k \in DOMAIN box : \A l \in DOMAIN nat["upload"] :
          box[k].type = "upload" => box[k].task # nat["upload"][l].task

\* Everything belongs to a connection that has, or had, a session.
Placed(ts, S, R, box, nat) ==
    /\ S \cap R = {}
    /\ \A i \in DOMAIN ts : ts[i].status \notin Terminal => ts[i].conn \in S
    /\ \A k \in DOMAIN box : box[k].type # "cancel" => box[k].conn \in S \cup R
    /\ \A d \in Directions : \A n \in DOMAIN nat[d] : nat[d][n].conn \in S \cup R

\* What a row with a name, and one that was never sent, can rely on.
Belongs(t, box, nat) ==
    /\ t.wire # Unnamed =>
          /\ t.wire \in DOMAIN nat[t.dir]
          /\ nat[t.dir][t.wire].conn = t.conn /\ nat[t.dir][t.wire].task = t.id
          /\ t.status \in {"complete", "error"} => nat[t.dir][t.wire].state = t.status
    /\ t.status = "complete" => t.wire # Unnamed
    /\ t.dir = "download" => t.wire # Unnamed
    /\ t.status \in {"queued", "cancelled"} =>
          t.dir = "upload" /\ t.wire = Unnamed /\ ~Out(t.id, box, nat)

\* The row of upload x of connection c, which has the name w or none.
RowOf(t, x, c, w) == Under(t) /\ t.id = x /\ t.conn = c /\ t.wire \in {Unnamed, w}

\* A connection has one dispatched row, and whatever the native program has,
\* or will have, of a live session's uploads is of that row, until it has
\* ended and its name is buried.
Linked(ts, S, box, nat, bur) ==
    /\ \A i, j \in DOMAIN ts : Under(ts[i]) /\ Under(ts[j]) /\ ts[i].conn = ts[j].conn => i = j
    /\ \A k \in DOMAIN box :
          box[k].type = "upload" /\ box[k].conn \in S =>
             \E i \in DOMAIN ts : RowOf(ts[i], box[k].task, box[k].conn, Unnamed)
    /\ \A n \in DOMAIN nat["upload"] :
          nat["upload"][n].conn \in S =>
             \/ <<nat["upload"][n].conn, "upload", n>> \in bur
             \/ \E i \in DOMAIN ts : RowOf(ts[i], nat["upload"][n].task, nat["upload"][n].conn, n)
    /\ \A i \in DOMAIN ts :
          ts[i].dir = "download" /\ ts[i].conn \in S /\ ts[i].status \in Terminal =>
             <<ts[i].conn, "download", ts[i].wire>> \in bur

\* A name is buried when its transfer has ended.
Rests(bur, nat) ==
    \A c \in Conns : \A d \in Directions : \A n \in Nat :
        <<c, d, n>> \in bur =>
            n \in DOMAIN nat[d] /\ nat[d][n].conn = c /\ nat[d][n].state # "running"

Sound(ts, S, R, box, nat, bur, n) ==
    /\ ts \in Seq(Task) /\ box \in Seq(Command) /\ nat \in [Directions -> Seq(Transfer)]
    /\ n \in Nat
    /\ Numbered(ts, box, nat, n)
    /\ Placed(ts, S, R, box, nat)
    /\ \A i \in DOMAIN ts : Belongs(ts[i], box, nat)
    /\ Linked(ts, S, box, nat, bur)
    /\ Rests(bur, nat)

\* An event is about the transfer it names; one that says that a transfer has
\* ended comes after the end, and only downloads are announced.
True(m, nat) ==
    /\ m.wire # Unnamed =>
          /\ m.wire \in DOMAIN nat[m.dir] /\ nat[m.dir][m.wire].conn = m.conn
          /\ m.type \in {"complete", "error"} => nat[m.dir][m.wire].state = m.type
    /\ m.type = "started" => m.dir = "download"

\* A session that has ended stays ended.
Connected ==
    /\ \A c \in sessions : rtc[c] = "connected"
    /\ \A c \in Conns : rtc[c] = "connected" => c \in sessions \cup retired

\* A cancel that could be sent has been.
Settled(t) == t.asked /\ t.wire # Unnamed /\ t.status \notin Terminal => t.sent

Typed ==
    /\ sessions \subseteq Conns /\ roots \subseteq Conns /\ retired \subseteq Conns
    /\ blocked \subseteq Conns /\ pumps \subseteq Conns
    /\ buried \subseteq Conns \X Directions \X Nat
    /\ made \in 0 .. MaxTasks /\ alive \in BOOLEAN
    /\ rtc \in [Conns -> {"new", "connecting", "connected", "down", "gone"}]
    /\ events \in Seq(Message)
    /\ faults \in 0 .. MaxFaults

\* A path is pending once and the queue keeps its limit (enqueueUpload).
PendingIn(c, ts) ==
    {i \in DOMAIN ts : ts[i].conn = c /\ ts[i].dir = "upload" /\ ts[i].status \notin Terminal}
Limited(ts) ==
    \A c \in Conns :
        /\ Cardinality(PendingIn(c, ts)) <= MaxPending
        /\ \A i, j \in PendingIn(c, ts) : ts[i].file = ts[j].file => i = j

\* What the rows say, and what they must keep to.
Fine(ts, S, R, box, nat, bur, n) ==
    /\ Sound(ts, S, R, box, nat, bur, n)
    /\ Limited(ts)
    /\ \A i \in DOMAIN ts : Settled(ts[i])

IInv ==
    /\ Typed
    /\ Fine(tasks, sessions, retired, inbox, native, buried, made)
    /\ \A k \in DOMAIN events : True(events[k], native)
    /\ Connected

(***************************************************************************)
(* Facts about sequences and the least element of a set.                   *)
(***************************************************************************)
\* A set of numbers has a least one (First, of pump and handleMessage).
LEMMA FirstIsLeast ==
    ASSUME NEW X \in SUBSET Nat, X # {}
    PROVE  First(X) \in X /\ \A j \in X : First(X) <= j
<1> DEFINE less == {p \in Nat \X Nat : p[1] < p[2]}
<1>1. IsWellFoundedOn(less, Nat)
  <2>1. OpToRel(<, Nat) = less
    BY Zenon DEF OpToRel
  <2> QED
    BY <2>1, NatLessThanWellFounded, Zenon
<1>2. PICK x \in X : \A y \in X : <<y, x>> \notin less
  <2> HIDE DEF less
  <2> QED
    BY <1>1, WFMin, Zenon
<1>3. ASSUME NEW y \in X PROVE x <= y
  <2>1. x \in Nat /\ y \in Nat /\ <<y, x>> \notin less
    BY <1>2
  <2>2. y < x => <<y, x>> \in less
    BY <2>1
  <2> QED
    BY <2>1, <2>2
<1> QED
  BY <1>3 DEF First

\* A sequence has its domain, and a list that is rewritten entry by entry is
\* one of the same length (the loops over m_tasks).
LEMMA Listed ==
    ASSUME NEW X, NEW s \in Seq(X)
    PROVE  /\ Len(s) \in Nat /\ DOMAIN s = 1 .. Len(s) /\ DOMAIN s \subseteq Nat
           /\ \A i \in DOMAIN s : s[i] \in X
           /\ \A f \in [DOMAIN s -> X] : f \in Seq(X) /\ DOMAIN f = DOMAIN s
<1>1. Len(s) \in Nat /\ DOMAIN s = 1 .. Len(s) /\ s \in [1 .. Len(s) -> X]
  BY LenProperties
<1>2. \A f \in [1 .. Len(s) -> X] : f \in Seq(X)
  BY <1>1, SeqDef
<1> QED
  BY <1>1, <1>2

\* What appending does (m_tasks, the pipes).
LEMMA Longer ==
    ASSUME NEW X, NEW s \in Seq(X), NEW e \in X
    PROVE  /\ Append(s, e) \in Seq(X)
           /\ DOMAIN Append(s, e) = DOMAIN s \cup {Len(s) + 1}
           /\ Len(s) + 1 \notin DOMAIN s /\ Len(s) + 1 \in Nat
           /\ Append(s, e)[Len(s) + 1] = e
           /\ \A i \in DOMAIN s : Append(s, e)[i] = s[i]
<1>1. Len(s) \in Nat /\ DOMAIN s = 1 .. Len(s)
  BY Listed
<1>2. /\ Append(s, e) \in Seq(X) /\ Len(Append(s, e)) = Len(s) + 1
      /\ \A i \in 1 .. Len(s) : Append(s, e)[i] = s[i]
      /\ Append(s, e)[Len(s) + 1] = e
  BY AppendProperties
<1>3. DOMAIN Append(s, e) = 1 .. Len(s) + 1
  BY <1>2, Listed
<1> QED
  BY <1>1, <1>2, <1>3

\* What removing the first entry does (the pipes).
LEMMA Shorter ==
    ASSUME NEW X, NEW s \in Seq(X), s # <<>>
    PROVE  /\ Tail(s) \in Seq(X) /\ Head(s) \in X /\ Head(s) = s[1] /\ 1 \in DOMAIN s
           /\ \A k \in DOMAIN Tail(s) : k + 1 \in DOMAIN s /\ k + 1 # 1 /\ Tail(s)[k] = s[k + 1]
           /\ \A k \in DOMAIN Tail(s) : k \in Nat
<1>1. /\ Tail(s) \in Seq(X) /\ Len(Tail(s)) = Len(s) - 1 /\ Head(s) \in X
      /\ Len(s) \in Nat \ {0}
      /\ DOMAIN s = 1 .. Len(s) /\ DOMAIN Tail(s) = 1 .. Len(Tail(s))
  BY HeadTailProperties, EmptySeq, LenProperties
<1>2. ASSUME NEW k \in DOMAIN Tail(s)
      PROVE  k + 1 \in DOMAIN s /\ k + 1 # 1 /\ Tail(s)[k] = s[k + 1] /\ k \in Nat
  BY <1>1, <1>2
<1>3. Head(s) = s[1]
  OBVIOUS
<1> QED
  BY <1>1, <1>2, <1>3

(***************************************************************************)
(* What the handlers do to the rows, and that each keeps them sound.       *)
(***************************************************************************)
\* A row that is under way changes its state but not its name (Cancel,
\* cancellationTimedOut, sendCancel, Uncertain).
Kept(t, u) ==
    /\ u.id = t.id /\ u.conn = t.conn /\ u.dir = t.dir /\ u.wire = t.wire
    /\ t.status \notin Terminal \cup {"queued"} /\ u.status \notin Terminal \cup {"queued"}

LEMMA KeptSound ==
    ASSUME NEW ts, NEW S, NEW R, NEW box, NEW nat, NEW bur, NEW n,
           Sound(ts, S, R, box, nat, bur, n),
           NEW us \in [DOMAIN ts -> Task],
           \A i \in DOMAIN ts : us[i] = ts[i] \/ Kept(ts[i], us[i])
    PROVE  Sound(us, S, R, box, nat, bur, n)
<1>0. ts \in Seq(Task)
  BY DEF Sound
<1>1. us \in Seq(Task) /\ DOMAIN us = DOMAIN ts
  BY <1>0, Listed
<1>2. Numbered(us, box, nat, n)
  <2>1. \A i \in DOMAIN ts : us[i].id = ts[i].id /\ us[i].dir = ts[i].dir /\ us[i].wire = ts[i].wire
    BY DEF Kept
  <2>2. Numbered(ts, box, nat, n)
    BY DEF Sound
  <2> QED
    BY <1>1, <2>1, <2>2 DEF Numbered
<1>3. Placed(us, S, R, box, nat)
  BY <1>1 DEF Sound, Placed, Kept
<1>4. \A i \in DOMAIN us : Belongs(us[i], box, nat)
  <2> SUFFICES ASSUME NEW i \in DOMAIN us PROVE Belongs(us[i], box, nat)
    OBVIOUS
  <2>1. Belongs(ts[i], box, nat)
    BY <1>1 DEF Sound
  <2> QED
    BY <1>1, <2>1 DEF Belongs, Kept, Terminal
<1>5. Linked(us, S, box, nat, bur)
  <2>1. \A i \in DOMAIN ts : /\ Under(us[i]) <=> Under(ts[i])
                             /\ us[i].id = ts[i].id /\ us[i].conn = ts[i].conn
                             /\ us[i].dir = ts[i].dir /\ us[i].wire = ts[i].wire
                             /\ us[i].status \in Terminal => ts[i].status \in Terminal
    BY DEF Under, Kept
  <2>2. \A i \in DOMAIN ts : \A x, c, w : RowOf(ts[i], x, c, w) => RowOf(us[i], x, c, w)
    BY <2>1 DEF RowOf
  <2> QED
    BY <1>1, <2>1, <2>2 DEF Sound, Linked
<1> QED
  BY <1>1, <1>2, <1>3, <1>4, <1>5 DEF Sound

\* The rows of the connections E are over (endSession).
EndedRows(E, ts) ==
    [i \in DOMAIN ts |->
        IF ts[i].conn \in E /\ ts[i].status \notin Terminal
        THEN [ts[i] EXCEPT !.status = "disconnected"] ELSE ts[i]]

LEMMA EndedFacts ==
    ASSUME NEW E, NEW ts \in Seq(Task)
    PROVE  /\ EndedRows(E, ts) \in Seq(Task) /\ DOMAIN EndedRows(E, ts) = DOMAIN ts
           /\ \A i \in DOMAIN ts :
                 LET t == ts[i]
                     u == EndedRows(E, ts)[i]
                 IN  /\ u.id = t.id /\ u.conn = t.conn /\ u.dir = t.dir /\ u.wire = t.wire
                     /\ u.file = t.file /\ u.asked = t.asked /\ u.sent = t.sent
                     /\ t.conn \in E => u.status \in Terminal
                     /\ u = t \/ (t.conn \in E /\ u.status = "disconnected")
<1>1. ASSUME NEW i \in DOMAIN ts
      PROVE  LET t == ts[i]
                 u == EndedRows(E, ts)[i]
             IN  /\ u \in Task
                 /\ u.id = t.id /\ u.conn = t.conn /\ u.dir = t.dir /\ u.wire = t.wire
                 /\ u.file = t.file /\ u.asked = t.asked /\ u.sent = t.sent
                 /\ t.conn \in E => u.status \in Terminal
                 /\ u = t \/ (t.conn \in E /\ u.status = "disconnected")
  <2>1. ts[i] \in Task
    BY Listed
  <2>2. CASE ts[i].conn \in E /\ ts[i].status \notin Terminal
    <3>1. EndedRows(E, ts)[i] = [ts[i] EXCEPT !.status = "disconnected"]
      BY <2>2 DEF EndedRows
    <3>2. "disconnected" \in Statuses /\ "disconnected" \in Terminal
      BY DEF Statuses, Terminal
    <3> QED
      BY <2>1, <2>2, <3>1, <3>2 DEF Task
  <2>3. CASE ~(ts[i].conn \in E /\ ts[i].status \notin Terminal)
    <3>1. EndedRows(E, ts)[i] = ts[i]
      BY <2>3 DEF EndedRows
    <3> QED
      BY <2>1, <2>3, <3>1
  <2> QED
    BY <2>2, <2>3
<1>2. EndedRows(E, ts) \in [DOMAIN ts -> Task]
  BY <1>1 DEF EndedRows
<1> QED
  BY <1>1, <1>2, Listed

\* Ending sessions leaves the rows of the others as they are.
LEMMA EndedSound ==
    ASSUME NEW ts, NEW S, NEW R, NEW box, NEW nat, NEW bur, NEW n,
           Sound(ts, S, R, box, nat, bur, n), NEW E
    PROVE  Sound(EndedRows(E, ts), S \ E, R \cup E, box, nat, bur, n)
<1> DEFINE us == EndedRows(E, ts)
<1>0. ts \in Seq(Task)
  BY DEF Sound
<1>1. /\ us \in Seq(Task) /\ DOMAIN us = DOMAIN ts
      /\ \A i \in DOMAIN ts :
            /\ us[i].id = ts[i].id /\ us[i].conn = ts[i].conn
            /\ us[i].dir = ts[i].dir /\ us[i].wire = ts[i].wire
            /\ ts[i].conn \in E => us[i].status \in Terminal
            /\ us[i] = ts[i] \/ (ts[i].conn \in E /\ us[i].status = "disconnected")
  BY <1>0, EndedFacts
<1> HIDE DEF us
<1>2. Numbered(us, box, nat, n)
  BY <1>1 DEF Sound, Numbered
<1>3. Placed(us, S \ E, R \cup E, box, nat)
  BY <1>1 DEF Sound, Placed
<1>4. \A i \in DOMAIN us : Belongs(us[i], box, nat)
  <2> SUFFICES ASSUME NEW i \in DOMAIN us PROVE Belongs(us[i], box, nat)
    OBVIOUS
  <2>1. Belongs(ts[i], box, nat)
    BY <1>1 DEF Sound
  <2> QED
    BY <1>1, <2>1 DEF Belongs
<1>5. Linked(us, S \ E, box, nat, bur)
  <2>1. \A i \in DOMAIN ts : Under(us[i]) => Under(ts[i])
    BY <1>1 DEF Under
  <2>2. \A i \in DOMAIN ts : \A x, c, w : c \notin E /\ RowOf(ts[i], x, c, w) => RowOf(us[i], x, c, w)
    BY <1>1 DEF RowOf
  <2>3. \A i \in DOMAIN ts : ts[i].conn \notin E => us[i] = ts[i]
    BY <1>1
  <2> QED
    BY <1>1, <2>1, <2>2, <2>3 DEF Sound, Linked
<1> QED
  BY <1>0, <1>1, <1>2, <1>3, <1>4, <1>5 DEF Sound, us

\* Queued uploads fail when their file is gone (pump), or are cancelled.
Dropped(t, u) ==
    /\ u.id = t.id /\ u.conn = t.conn /\ u.dir = t.dir /\ u.wire = t.wire
    /\ t.status = "queued" /\ u.status \in {"error", "cancelled"}

LEMMA DroppedSound ==
    ASSUME NEW ts, NEW S, NEW R, NEW box, NEW nat, NEW bur, NEW n,
           Sound(ts, S, R, box, nat, bur, n),
           NEW us \in [DOMAIN ts -> Task],
           \A i \in DOMAIN ts : us[i] = ts[i] \/ Dropped(ts[i], us[i])
    PROVE  Sound(us, S, R, box, nat, bur, n)
<1>0. ts \in Seq(Task)
  BY DEF Sound
<1>1. us \in Seq(Task) /\ DOMAIN us = DOMAIN ts
  BY <1>0, Listed
<1>2. \A i \in DOMAIN ts : us[i].id = ts[i].id /\ us[i].dir = ts[i].dir /\ us[i].wire = ts[i].wire
  BY DEF Dropped
<1>3. Numbered(us, box, nat, n)
  <2>1. Numbered(ts, box, nat, n)
    BY DEF Sound
  <2> QED
    BY <1>1, <1>2, <2>1 DEF Numbered
<1>4. Placed(us, S, R, box, nat)
  BY <1>1 DEF Sound, Placed, Dropped, Terminal
<1>5. \A i \in DOMAIN us : Belongs(us[i], box, nat)
  <2> SUFFICES ASSUME NEW i \in DOMAIN us PROVE Belongs(us[i], box, nat)
    OBVIOUS
  <2>1. Belongs(ts[i], box, nat)
    BY <1>1 DEF Sound
  <2> QED
    BY <1>1, <2>1 DEF Belongs, Dropped
<1>6. Linked(us, S, box, nat, bur)
  <2>1. \A i \in DOMAIN ts : us[i] = ts[i] \/ (~Under(us[i]) /\ ~Under(ts[i]) /\ ts[i].dir = "upload")
    <3> SUFFICES ASSUME NEW i \in DOMAIN ts, Dropped(ts[i], us[i])
                 PROVE  ~Under(us[i]) /\ ~Under(ts[i]) /\ ts[i].dir = "upload"
      OBVIOUS
    <3>1. Belongs(ts[i], box, nat)
      BY DEF Sound
    <3> QED
      BY <3>1 DEF Belongs, Dropped, Under, Terminal
  <2>2. \A i \in DOMAIN ts : \A x, c, w : RowOf(ts[i], x, c, w) => RowOf(us[i], x, c, w)
    BY <2>1 DEF RowOf
  <2>3. Linked(ts, S, box, nat, bur)
    BY DEF Sound
  <2> QED
    BY <1>1, <1>2, <2>1, <2>2, <2>3 DEF Linked
<1> QED
  BY <1>1, <1>3, <1>4, <1>5, <1>6 DEF Sound

\* A command that is not an upload goes into the pipe (Cancel, startFileDownload).
LEMMA CommandSound ==
    ASSUME NEW ts, NEW S, NEW R, NEW box, NEW nat, NEW bur, NEW n,
           Sound(ts, S, R, box, nat, bur, n),
           NEW m \in Command, m.type # "upload", m.type # "cancel" => m.conn \in S \cup R
    PROVE  Sound(ts, S, R, Append(box, m), nat, bur, n)
<1> DEFINE new == Append(box, m)
           last == Len(box) + 1
<1>0. box \in Seq(Command)
  BY DEF Sound
<1>1. /\ new \in Seq(Command) /\ DOMAIN new = DOMAIN box \cup {last} /\ new[last] = m
      /\ \A k \in DOMAIN box : new[k] = box[k]
  BY <1>0, Longer
<1> HIDE DEF new, last
<1>2. \A k \in DOMAIN new : new[k].type = "upload" => k \in DOMAIN box /\ new[k] = box[k]
  BY <1>1
<1>3. \A x : Out(x, new, nat) <=> Out(x, box, nat)
  BY <1>1, <1>2 DEF Out
<1>4. Numbered(ts, new, nat, n)
  BY <1>2, <1>3 DEF Sound, Numbered
<1>5. Placed(ts, S, R, new, nat)
  BY <1>1 DEF Sound, Placed
<1>6. \A i \in DOMAIN ts : Belongs(ts[i], new, nat)
  BY <1>3 DEF Sound, Belongs
<1>7. Linked(ts, S, new, nat, bur)
  BY <1>2 DEF Sound, Linked
<1> QED
  BY <1>1, <1>4, <1>5, <1>6, <1>7 DEF Sound, new

\* More tasks have been made (startFileDownload).
LEMMA MadeSound ==
    ASSUME NEW ts, NEW S, NEW R, NEW box, NEW nat, NEW bur, NEW n,
           Sound(ts, S, R, box, nat, bur, n)
    PROVE  Sound(ts, S, R, box, nat, bur, n + 1)
<1>1. n \in Nat /\ \A i \in DOMAIN ts : ts[i].id \in Nat
  <2>1. ts \in Seq(Task) /\ n \in Nat
    BY DEF Sound
  <2>2. \A i \in DOMAIN ts : ts[i] \in Task
    BY <2>1, Listed
  <2> QED
    BY <2>1, <2>2 DEF Task
<1>2. Numbered(ts, box, nat, n + 1)
  BY <1>1 DEF Sound, Numbered
<1> QED
  BY <1>1, <1>2 DEF Sound

\* A new upload is queued (enqueueUpload).
LEMMA QueuedSound ==
    ASSUME NEW ts, NEW S, NEW R, NEW box, NEW nat, NEW bur, NEW n,
           Sound(ts, S, R, box, nat, bur, n),
           NEW t \in Task, t.id = n + 1, t.conn \in S, t.dir = "upload", t.status = "queued",
           t.wire = Unnamed
    PROVE  Sound(Append(ts, t), S, R, box, nat, bur, n + 1)
<1> DEFINE us == Append(ts, t)
           last == Len(ts) + 1
<1>0. /\ ts \in Seq(Task) /\ n \in Nat
      /\ \A i \in DOMAIN ts : ts[i].id \in Nat
  <2>1. ts \in Seq(Task) /\ n \in Nat
    BY DEF Sound
  <2>2. \A i \in DOMAIN ts : ts[i] \in Task
    BY <2>1, Listed
  <2> QED
    BY <2>1, <2>2 DEF Task
<1>1. /\ us \in Seq(Task) /\ DOMAIN us = DOMAIN ts \cup {last} /\ us[last] = t
      /\ \A i \in DOMAIN ts : us[i] = ts[i]
  BY <1>0, Longer
<1> HIDE DEF us, last
<1>2. Numbered(us, box, nat, n + 1)
  <2>1. Numbered(ts, box, nat, n)
    BY DEF Sound
  <2>2. \A i \in DOMAIN us : us[i].dir = "upload" => us[i].id <= n + 1
    BY <1>0, <1>1, <2>1 DEF Numbered
  <2>3. \A i, j \in DOMAIN us :
          us[i].dir = us[j].dir =>
             /\ us[i].dir = "upload" /\ us[i].id = us[j].id => i = j
             /\ us[i].dir = "download" /\ us[i].wire = us[j].wire => i = j
    <3>1. \A i \in DOMAIN ts : ts[i].dir = "upload" => ts[i].id # n + 1
      BY <1>0, <2>1 DEF Numbered
    <3> QED
      BY <1>1, <2>1, <3>1 DEF Numbered
  <2>4. \A x \in Nat : Out(x, box, nat) => x <= n + 1
    BY <1>0, <2>1 DEF Numbered
  <2> QED
    BY <2>1, <2>2, <2>3, <2>4 DEF Numbered
<1>3. Placed(us, S, R, box, nat)
  BY <1>1 DEF Sound, Placed
<1>4. \A i \in DOMAIN us : Belongs(us[i], box, nat)
  <2>1. ~Out(n + 1, box, nat)
    <3>1. n + 1 \in Nat /\ ~(n + 1 <= n)
      BY <1>0
    <3> QED
      BY <3>1 DEF Sound, Numbered
  <2>2. Belongs(t, box, nat)
    BY <2>1 DEF Belongs
  <2> QED
    BY <1>1, <2>2 DEF Sound
<1>5. Linked(us, S, box, nat, bur)
  <2>1. ~Under(t) /\ t.dir # "download"
    BY DEF Under
  <2> QED
    BY <1>1, <2>1 DEF Sound, Linked
<1> QED
  BY <1>0, <1>1, <1>2, <1>3, <1>4, <1>5 DEF Sound, us

\* A queued upload is dispatched: its row is the only one that is, and it had
\* not been sent before (pump).
LEMMA DispatchedSound ==
    ASSUME NEW ts, NEW S, NEW R, NEW box, NEW nat, NEW bur, NEW n,
           Sound(ts, S, R, box, nat, bur, n),
           NEW i \in DOMAIN ts, ts[i].status = "queued", ts[i].conn \in S,
           \A j \in DOMAIN ts : Under(ts[j]) => ts[j].conn # ts[i].conn,
           NEW us \in [DOMAIN ts -> Task],
           us[i] = [ts[i] EXCEPT !.status = "uploading"],
           \A j \in DOMAIN ts : j # i => us[j] = ts[j],
           NEW m \in Command, m.type = "upload", m.conn = ts[i].conn, m.task = ts[i].id
    PROVE  Sound(us, S, R, Append(box, m), nat, bur, n)
<1> DEFINE new == Append(box, m)
           last == Len(box) + 1
<1>0. /\ ts \in Seq(Task) /\ box \in Seq(Command) /\ ts[i] \in Task
      /\ Numbered(ts, box, nat, n) /\ Placed(ts, S, R, box, nat) /\ Linked(ts, S, box, nat, bur)
      /\ \A j \in DOMAIN ts : Belongs(ts[j], box, nat)
  <2>1. ts \in Seq(Task)
    BY DEF Sound
  <2>2. ts[i] \in Task
    BY <2>1, Listed
  <2> QED
    BY <2>1, <2>2 DEF Sound
<1>1. /\ new \in Seq(Command) /\ DOMAIN new = DOMAIN box \cup {last} /\ new[last] = m
      /\ last \notin DOMAIN box /\ \A k \in DOMAIN box : new[k] = box[k]
  BY <1>0, Longer
<1>2. us \in Seq(Task) /\ DOMAIN us = DOMAIN ts
  BY <1>0, Listed
<1> HIDE DEF new, last
<1>3. ts[i].dir = "upload" /\ ts[i].wire = Unnamed /\ ~Out(ts[i].id, box, nat)
  BY <1>0 DEF Belongs
<1>4. /\ us[i].id = ts[i].id /\ us[i].conn = ts[i].conn /\ us[i].dir = "upload"
      /\ us[i].wire = Unnamed /\ us[i].status = "uploading" /\ Under(us[i])
  <2>1. /\ us[i].id = ts[i].id /\ us[i].conn = ts[i].conn /\ us[i].dir = ts[i].dir
        /\ us[i].wire = ts[i].wire /\ us[i].status = "uploading"
    BY <1>0 DEF Task
  <2> QED
    BY <1>3, <2>1 DEF Under, Terminal
<1>5. \A x : Out(x, new, nat) <=> Out(x, box, nat) \/ x = ts[i].id
  BY <1>1 DEF Out
<1>6. \A j \in DOMAIN ts : us[j].id = ts[j].id /\ us[j].dir = ts[j].dir /\ us[j].wire = ts[j].wire
                           /\ us[j].conn = ts[j].conn
  BY <1>3, <1>4
<1>7. Numbered(us, new, nat, n)
  <2>1. \A x \in Nat : Out(x, new, nat) => x <= n
    BY <1>0, <1>3, <1>5 DEF Numbered
  <2>2. \A k \in DOMAIN new : new[k].type = "upload" =>
           (k \in DOMAIN box /\ new[k] = box[k]) \/ (k = last /\ new[k].task = ts[i].id)
    BY <1>1
  <2>3. \A k \in DOMAIN box : box[k].type = "upload" => box[k].task # ts[i].id
    BY <1>3 DEF Out
  <2>4. \A k \in DOMAIN nat["upload"] : nat["upload"][k].task # ts[i].id
    BY <1>3 DEF Out
  <2>5. \A k, l \in DOMAIN new :
          new[k].type = "upload" /\ new[l].type = "upload" /\ new[k].task = new[l].task => k = l
    BY <1>0, <2>2, <2>3 DEF Numbered
  <2>6. \A k \in DOMAIN new : \A l \in DOMAIN nat["upload"] :
          new[k].type = "upload" => new[k].task # nat["upload"][l].task
    BY <1>0, <2>2, <2>4 DEF Numbered
  <2>7. \A j \in DOMAIN us : us[j].dir = "upload" => us[j].id <= n
    BY <1>0, <1>2, <1>6 DEF Numbered
  <2>8. \A j, k \in DOMAIN us :
           us[j].dir = us[k].dir =>
              /\ us[j].dir = "upload" /\ us[j].id = us[k].id => j = k
              /\ us[j].dir = "download" /\ us[j].wire = us[k].wire => j = k
    BY <1>0, <1>2, <1>6 DEF Numbered
  <2> QED
    BY <1>0, <2>1, <2>5, <2>6, <2>7, <2>8 DEF Numbered
<1>8. Placed(us, S, R, new, nat)
  BY <1>0, <1>1, <1>2, <1>4 DEF Placed
<1>9. \A j \in DOMAIN us : Belongs(us[j], new, nat)
  <2> SUFFICES ASSUME NEW j \in DOMAIN us PROVE Belongs(us[j], new, nat)
    OBVIOUS
  <2>1. CASE j = i
    BY <1>4, <2>1 DEF Belongs
  <2>2. CASE j # i
    <3>1. us[j] = ts[j] /\ Belongs(ts[j], box, nat)
      BY <1>0, <1>2, <2>2
    <3>2. ts[j].dir = "upload" => ts[j].id # ts[i].id
      BY <1>0, <1>2, <1>3, <2>2 DEF Numbered
    <3> QED
      BY <1>5, <3>1, <3>2 DEF Belongs
  <2> QED
    BY <2>1, <2>2
<1>10. Linked(us, S, new, nat, bur)
  <2>1. \A j \in DOMAIN ts : \A x, c, w : RowOf(ts[j], x, c, w) => RowOf(us[j], x, c, w)
    <3>1. ~Under(ts[i])
      BY DEF Under
    <3> QED
      BY <3>1 DEF RowOf
  <2>2. \A j, k \in DOMAIN us : Under(us[j]) /\ Under(us[k]) /\ us[j].conn = us[k].conn => j = k
    <3>1. \A j \in DOMAIN us :
             \/ j = i
             \/ us[j] = ts[j] /\ (Under(us[j]) => Under(ts[j]) /\ us[j].conn # us[i].conn)
      BY <1>2, <1>4
    <3>2. \A j, k \in DOMAIN ts : Under(ts[j]) /\ Under(ts[k]) /\ ts[j].conn = ts[k].conn => j = k
      BY <1>0 DEF Linked
    <3> QED
      BY <1>2, <3>1, <3>2
  <2>3. ASSUME NEW k \in DOMAIN new, new[k].type = "upload", new[k].conn \in S
        PROVE  \E j \in DOMAIN us : RowOf(us[j], new[k].task, new[k].conn, Unnamed)
    <3>1. CASE k = last
      <4>1. RowOf(us[i], new[k].task, new[k].conn, Unnamed)
        BY <1>1, <1>4, <3>1 DEF RowOf
      <4> QED
        BY <1>2, <4>1
    <3>2. CASE k \in DOMAIN box
      BY <1>0, <1>1, <1>2, <2>1, <2>3, <3>2 DEF Linked
    <3> QED
      BY <1>1, <3>1, <3>2
  <2>4. \A l \in DOMAIN nat["upload"] :
          nat["upload"][l].conn \in S =>
             \/ <<nat["upload"][l].conn, "upload", l>> \in bur
             \/ \E j \in DOMAIN us : RowOf(us[j], nat["upload"][l].task, nat["upload"][l].conn, l)
    BY <1>0, <1>2, <2>1 DEF Linked
  <2>5. \A j \in DOMAIN us :
          us[j].dir = "download" /\ us[j].conn \in S /\ us[j].status \in Terminal =>
             <<us[j].conn, "download", us[j].wire>> \in bur
    <3>1. \A j \in DOMAIN us : j = i \/ us[j] = ts[j]
      BY <1>2
    <3>2. us[i].dir # "download"
      BY <1>4
    <3> QED
      BY <1>0, <1>2, <3>1, <3>2 DEF Linked
  <2> QED
    BY <2>2, <2>3, <2>4, <2>5 DEF Linked
<1> QED
  BY <1>1, <1>2, <1>7, <1>8, <1>9, <1>10 DEF Sound, new

\* The name of a finished transfer is buried with its row (finish).
LEMMA FinishedSound ==
    ASSUME NEW ts, NEW S, NEW R, NEW box, NEW nat, NEW bur, NEW n,
           Sound(ts, S, R, box, nat, bur, n), bur \subseteq Conns \X Directions \X Nat,
           NEW i \in DOMAIN ts, ts[i].wire # Unnamed, ts[i].status \notin Terminal,
           NEW s \in {"complete", "error"}, nat[ts[i].dir][ts[i].wire].state = s,
           NEW us \in [DOMAIN ts -> Task],
           us[i] = [ts[i] EXCEPT !.status = s],
           \A j \in DOMAIN ts : j # i => us[j] = ts[j]
    PROVE  Sound(us, S, R, box, nat, bur \cup {<<ts[i].conn, ts[i].dir, ts[i].wire>>}, n)
<1> DEFINE more == bur \cup {<<ts[i].conn, ts[i].dir, ts[i].wire>>}
<1>0. /\ ts \in Seq(Task) /\ ts[i] \in Task
      /\ Numbered(ts, box, nat, n) /\ Placed(ts, S, R, box, nat) /\ Linked(ts, S, box, nat, bur)
      /\ \A j \in DOMAIN ts : Belongs(ts[j], box, nat)
      /\ Rests(bur, nat)
  <2>1. ts \in Seq(Task)
    BY DEF Sound
  <2>2. ts[i] \in Task
    BY <2>1, Listed
  <2> QED
    BY <2>1, <2>2 DEF Sound
<1>1. us \in Seq(Task) /\ DOMAIN us = DOMAIN ts
  BY <1>0, Listed
<1>2. /\ us[i].id = ts[i].id /\ us[i].conn = ts[i].conn /\ us[i].dir = ts[i].dir
      /\ us[i].wire = ts[i].wire /\ us[i].status = s
  BY <1>0 DEF Task
<1>3. \A j \in DOMAIN ts : us[j].id = ts[j].id /\ us[j].dir = ts[j].dir /\ us[j].wire = ts[j].wire
                           /\ us[j].conn = ts[j].conn
  BY <1>2
<1>4. Numbered(us, box, nat, n)
  BY <1>0, <1>1, <1>3 DEF Numbered
<1>5. Placed(us, S, R, box, nat)
  BY <1>0, <1>1, <1>2 DEF Placed, Terminal
<1>6. \A j \in DOMAIN us : Belongs(us[j], box, nat)
  <2>1. Belongs(us[i], box, nat)
    BY <1>0, <1>2 DEF Belongs
  <2> QED
    BY <1>0, <1>1, <2>1
<1>7. Linked(us, S, box, nat, more)
  <2>1. \A j, k \in DOMAIN us : Under(us[j]) /\ Under(us[k]) /\ us[j].conn = us[k].conn => j = k
    <3>1. ~Under(us[i])
      BY <1>2 DEF Under, Terminal
    <3> QED
      BY <1>0, <1>1, <3>1 DEF Linked
  <2>2. nat[ts[i].dir][ts[i].wire].conn = ts[i].conn /\ nat[ts[i].dir][ts[i].wire].task = ts[i].id
    BY <1>0 DEF Belongs
  <2>3. \A k \in DOMAIN box :
          box[k].type = "upload" /\ box[k].conn \in S =>
             \E j \in DOMAIN us : RowOf(us[j], box[k].task, box[k].conn, Unnamed)
    <3>1. \A x, c : ~RowOf(ts[i], x, c, Unnamed)
      BY DEF RowOf
    <3> QED
      BY <1>0, <1>1, <3>1 DEF Linked
  <2>4. ASSUME NEW l \in DOMAIN nat["upload"], nat["upload"][l].conn \in S
        PROVE  \/ <<nat["upload"][l].conn, "upload", l>> \in more
               \/ \E j \in DOMAIN us : RowOf(us[j], nat["upload"][l].task, nat["upload"][l].conn, l)
    <3>1. CASE RowOf(ts[i], nat["upload"][l].task, nat["upload"][l].conn, l)
      <4>1. ts[i].wire = l /\ ts[i].dir = "upload" /\ ts[i].conn = nat["upload"][l].conn
        BY <3>1 DEF RowOf, Under
      <4> QED
        BY <4>1
    <3>2. CASE ~RowOf(ts[i], nat["upload"][l].task, nat["upload"][l].conn, l)
      BY <1>0, <1>1, <2>4, <3>2 DEF Linked
    <3> QED
      BY <3>1, <3>2
  <2>5. \A j \in DOMAIN us :
          us[j].dir = "download" /\ us[j].conn \in S /\ us[j].status \in Terminal =>
             <<us[j].conn, "download", us[j].wire>> \in more
    BY <1>0, <1>1, <1>2 DEF Linked
  <2> QED
    BY <2>1, <2>3, <2>4, <2>5 DEF Linked
<1>8. Rests(more, nat)
  <2>1. ts[i].wire \in DOMAIN nat[ts[i].dir] /\ nat[ts[i].dir][ts[i].wire].conn = ts[i].conn
    BY <1>0 DEF Belongs
  <2> SUFFICES ASSUME NEW c \in Conns, NEW d \in Directions, NEW k \in Nat, <<c, d, k>> \in more
               PROVE  k \in DOMAIN nat[d] /\ nat[d][k].conn = c /\ nat[d][k].state # "running"
    BY DEF Rests
  <2>2. CASE <<c, d, k>> \in bur
    BY <1>0, <2>2 DEF Rests
  <2>3. CASE <<c, d, k>> = <<ts[i].conn, ts[i].dir, ts[i].wire>>
    <3>1. c = ts[i].conn /\ d = ts[i].dir /\ k = ts[i].wire
      BY <2>3
    <3> QED
      BY <2>1, <3>1
  <2> QED
    BY <2>2, <2>3
<1> QED
  BY <1>1, <1>4, <1>5, <1>6, <1>7, <1>8 DEF Sound

\* The dispatched row takes the name of its own transfer (Adopting).
LEMMA AdoptedSound ==
    ASSUME NEW ts, NEW S, NEW R, NEW box, NEW nat, NEW bur, NEW n,
           Sound(ts, S, R, box, nat, bur, n),
           NEW i \in DOMAIN ts, Under(ts[i]),
           NEW w \in DOMAIN nat["upload"], nat["upload"][w].task = ts[i].id,
           nat["upload"][w].conn = ts[i].conn,
           NEW us \in [DOMAIN ts -> Task],
           us[i] = [ts[i] EXCEPT !.wire = w],
           \A j \in DOMAIN ts : j # i => us[j] = ts[j]
    PROVE  Sound(us, S, R, box, nat, bur, n)
<1>0. /\ ts \in Seq(Task) /\ ts[i] \in Task
      /\ Numbered(ts, box, nat, n) /\ Placed(ts, S, R, box, nat) /\ Linked(ts, S, box, nat, bur)
      /\ \A j \in DOMAIN ts : Belongs(ts[j], box, nat)
      /\ \A k \in DOMAIN box : box[k].type = "upload" => box[k].task # ts[i].id
      /\ ts[i].dir = "upload" /\ ts[i].status \notin Terminal \cup {"queued"}
  <2>1. ts \in Seq(Task)
    BY DEF Sound
  <2>2. ts[i] \in Task
    BY <2>1, Listed
  <2>3. \A k \in DOMAIN box : box[k].type = "upload" => box[k].task # ts[i].id
    BY DEF Sound, Numbered
  <2> QED
    BY <2>1, <2>2, <2>3 DEF Sound, Under
<1>1. us \in Seq(Task) /\ DOMAIN us = DOMAIN ts
  BY <1>0, Listed
<1>2. /\ us[i].id = ts[i].id /\ us[i].conn = ts[i].conn /\ us[i].dir = ts[i].dir
      /\ us[i].wire = w /\ us[i].status = ts[i].status
  BY <1>0 DEF Task
<1>3. \A j \in DOMAIN us : j = i \/ us[j] = ts[j]
  BY <1>1
<1>4. Numbered(us, box, nat, n)
  <2>1. \A j \in DOMAIN us : /\ us[j].id = ts[j].id /\ us[j].dir = ts[j].dir
                             /\ us[j].dir = "download" => us[j].wire = ts[j].wire
    BY <1>0, <1>1, <1>2, <1>3
  <2> QED
    BY <1>0, <1>1, <2>1 DEF Numbered
<1>5. Placed(us, S, R, box, nat)
  BY <1>0, <1>1, <1>2, <1>3 DEF Placed
<1>6. \A j \in DOMAIN us : Belongs(us[j], box, nat)
  <2>1. Belongs(us[i], box, nat)
    BY <1>0, <1>2 DEF Belongs, Terminal
  <2> QED
    BY <1>0, <1>1, <1>3, <2>1
<1>7. Linked(us, S, box, nat, bur)
  <2>1. \A j \in DOMAIN us : /\ Under(us[j]) <=> Under(ts[j])
                             /\ us[j].conn = ts[j].conn /\ us[j].id = ts[j].id
    BY <1>1, <1>2, <1>3 DEF Under
  <2>2. \A j, k \in DOMAIN us : Under(us[j]) /\ Under(us[k]) /\ us[j].conn = us[k].conn => j = k
    BY <1>0, <1>1, <2>1 DEF Linked
  <2>3. \A k \in DOMAIN box :
          box[k].type = "upload" /\ box[k].conn \in S =>
             \E j \in DOMAIN us : RowOf(us[j], box[k].task, box[k].conn, Unnamed)
    <3> SUFFICES ASSUME NEW k \in DOMAIN box, box[k].type = "upload", box[k].conn \in S
                 PROVE  \E j \in DOMAIN us : RowOf(us[j], box[k].task, box[k].conn, Unnamed)
      OBVIOUS
    <3>1. PICK j \in DOMAIN ts : RowOf(ts[j], box[k].task, box[k].conn, Unnamed)
      BY <1>0 DEF Linked
    <3>2. j # i
      BY <1>0, <3>1 DEF RowOf
    <3> QED
      BY <1>1, <1>3, <3>1, <3>2
  <2>4. ASSUME NEW l \in DOMAIN nat["upload"], nat["upload"][l].conn \in S,
               <<nat["upload"][l].conn, "upload", l>> \notin bur
        PROVE  \E j \in DOMAIN us : RowOf(us[j], nat["upload"][l].task, nat["upload"][l].conn, l)
    <3>1. PICK j \in DOMAIN ts : RowOf(ts[j], nat["upload"][l].task, nat["upload"][l].conn, l)
      BY <1>0, <2>4 DEF Linked
    <3>2. CASE j = i
      <4>1. nat["upload"][l].task = nat["upload"][w].task
        BY <3>1, <3>2 DEF RowOf
      <4>2. l = w
        BY <1>0, <4>1 DEF Numbered
      <4>3. RowOf(us[i], nat["upload"][l].task, nat["upload"][l].conn, l)
        BY <1>1, <1>2, <2>1, <3>1, <3>2, <4>2 DEF RowOf
      <4> QED
        BY <1>1, <4>3
    <3>3. CASE j # i
      BY <1>1, <1>3, <3>1, <3>3
    <3> QED
      BY <3>2, <3>3
  <2>5. \A j \in DOMAIN us :
          us[j].dir = "download" /\ us[j].conn \in S /\ us[j].status \in Terminal =>
             <<us[j].conn, "download", us[j].wire>> \in bur
    BY <1>0, <1>1, <1>2, <1>3 DEF Linked
  <2> QED
    BY <2>2, <2>3, <2>4, <2>5 DEF Linked
<1> QED
  BY <1>1, <1>4, <1>5, <1>6, <1>7 DEF Sound

\* A download gets its row when it is announced, and no other
\* (handleMessage, upsert).
LEMMA AnnouncedSound ==
    ASSUME NEW ts, NEW S, NEW R, NEW box, NEW nat, NEW bur, NEW n,
           Sound(ts, S, R, box, nat, bur, n),
           NEW t \in Task, t.dir = "download", t.status = "downloading", t.conn \in S,
           t.wire \in DOMAIN nat["download"], nat["download"][t.wire].conn = t.conn,
           nat["download"][t.wire].task = t.id, t.wire # Unnamed,
           <<t.conn, "download", t.wire>> \notin bur,
           \A i \in DOMAIN ts : ts[i].dir = "download" /\ ts[i].conn = t.conn
                                /\ ts[i].status \notin Terminal => ts[i].wire # t.wire
    PROVE  Sound(Append(ts, t), S, R, box, nat, bur, n)
<1> DEFINE us == Append(ts, t)
           last == Len(ts) + 1
<1>0. /\ ts \in Seq(Task)
      /\ Numbered(ts, box, nat, n) /\ Placed(ts, S, R, box, nat) /\ Linked(ts, S, box, nat, bur)
      /\ \A j \in DOMAIN ts : Belongs(ts[j], box, nat)
  BY DEF Sound
<1>1. /\ us \in Seq(Task) /\ DOMAIN us = DOMAIN ts \cup {last} /\ us[last] = t
      /\ \A i \in DOMAIN ts : us[i] = ts[i]
  BY <1>0, Longer
<1> HIDE DEF us, last
<1>2. \A i \in DOMAIN ts : ts[i].dir = "download" => ts[i].wire # t.wire
  <2> SUFFICES ASSUME NEW i \in DOMAIN ts, ts[i].dir = "download", ts[i].wire = t.wire
               PROVE  FALSE
    OBVIOUS
  <2>1. ts[i].conn = t.conn
    BY <1>0 DEF Belongs
  <2>2. ts[i].status \in Terminal
    BY <2>1
  <2> QED
    BY <1>0, <2>1, <2>2 DEF Linked
<1>3. Numbered(us, box, nat, n)
  BY <1>0, <1>1, <1>2 DEF Numbered
<1>4. Placed(us, S, R, box, nat)
  BY <1>0, <1>1 DEF Placed
<1>5. \A i \in DOMAIN us : Belongs(us[i], box, nat)
  <2>1. Belongs(t, box, nat)
    BY DEF Belongs
  <2> QED
    BY <1>0, <1>1, <2>1
<1>6. Linked(us, S, box, nat, bur)
  <2>1. ~Under(t) /\ t.status \notin Terminal
    BY DEF Under, Terminal
  <2> QED
    BY <1>0, <1>1, <2>1 DEF Linked
<1> QED
  BY <1>1, <1>3, <1>4, <1>5, <1>6 DEF Sound, us

\* us lists rows of ts, each at most once and those that have not ended
\* without fail; g tells where it has them from (clearCompleted).
Culled(ts, us, g) ==
    /\ us \in Seq(Task) /\ g \in [DOMAIN us -> DOMAIN ts]
    /\ \A k \in DOMAIN us : us[k] = ts[g[k]]
    /\ \A j, k \in DOMAIN us : g[j] = g[k] => j = k
    /\ \A i \in DOMAIN ts : ts[i].status \notin Terminal => \E k \in DOMAIN us : g[k] = i

LEMMA ClearedSound ==
    ASSUME NEW ts, NEW S, NEW R, NEW box, NEW nat, NEW bur, NEW n,
           Sound(ts, S, R, box, nat, bur, n), NEW us, NEW g, Culled(ts, us, g)
    PROVE  Sound(us, S, R, box, nat, bur, n)
<1> USE DEF Culled
<1>0. /\ Numbered(ts, box, nat, n) /\ Placed(ts, S, R, box, nat) /\ Linked(ts, S, box, nat, bur)
      /\ \A j \in DOMAIN ts : Belongs(ts[j], box, nat)
  BY DEF Sound
<1>1. Numbered(us, box, nat, n)
  <2>1. \A k \in DOMAIN us : us[k].dir = "upload" => us[k].id <= n
    BY <1>0 DEF Numbered
  <2>2. \A j, k \in DOMAIN us :
          us[j].dir = us[k].dir =>
             /\ us[j].dir = "upload" /\ us[j].id = us[k].id => g[j] = g[k]
             /\ us[j].dir = "download" /\ us[j].wire = us[k].wire => g[j] = g[k]
    BY <1>0 DEF Numbered
  <2> QED
    BY <1>0, <2>1, <2>2 DEF Numbered
<1>2. Placed(us, S, R, box, nat)
  BY <1>0 DEF Placed
<1>3. \A k \in DOMAIN us : Belongs(us[k], box, nat)
  BY <1>0
<1>4. Linked(us, S, box, nat, bur)
  <2>1. \A x, c, w : (\E i \in DOMAIN ts : RowOf(ts[i], x, c, w)) => \E k \in DOMAIN us : RowOf(us[k], x, c, w)
    <3> SUFFICES ASSUME NEW x, NEW c, NEW w, NEW i \in DOMAIN ts, RowOf(ts[i], x, c, w)
                 PROVE  \E k \in DOMAIN us : RowOf(us[k], x, c, w)
      OBVIOUS
    <3>1. ts[i].status \notin Terminal
      BY DEF RowOf, Under
    <3> QED
      BY <3>1
  <2>2. \A j, k \in DOMAIN us : Under(us[j]) /\ Under(us[k]) /\ us[j].conn = us[k].conn => j = k
    <3>1. \A j, k \in DOMAIN ts : Under(ts[j]) /\ Under(ts[k]) /\ ts[j].conn = ts[k].conn => j = k
      BY <1>0 DEF Linked
    <3> SUFFICES ASSUME NEW j \in DOMAIN us, NEW k \in DOMAIN us,
                        Under(us[j]), Under(us[k]), us[j].conn = us[k].conn
                 PROVE  j = k
      OBVIOUS
    <3>2. g[j] = g[k]
      BY <3>1
    <3> QED
      BY <3>2
  <2> QED
    BY <1>0, <2>1, <2>2 DEF Linked
<1> QED
  BY <1>1, <1>2, <1>3, <1>4 DEF Sound

(***************************************************************************)
(* The native program and the sessions.                                    *)
(***************************************************************************)
\* The native program's transfers go on: what has ended stays as it ended.
GoesOn(nat, new) ==
    /\ new \in [Directions -> Seq(Transfer)]
    /\ \A d \in Directions :
          /\ DOMAIN new[d] = DOMAIN nat[d]
          /\ \A k \in DOMAIN nat[d] :
                /\ new[d][k].conn = nat[d][k].conn /\ new[d][k].task = nat[d][k].task
                /\ nat[d][k].state # "running" => new[d][k].state = nat[d][k].state

LEMMA GoesOnSound ==
    ASSUME NEW ts, NEW S, NEW R, NEW box, NEW nat, NEW bur, NEW n,
           Sound(ts, S, R, box, nat, bur, n), NEW new, GoesOn(nat, new)
    PROVE  Sound(ts, S, R, box, new, bur, n)
<1>0. /\ ts \in Seq(Task)
      /\ Numbered(ts, box, nat, n) /\ Placed(ts, S, R, box, nat) /\ Linked(ts, S, box, nat, bur)
      /\ \A j \in DOMAIN ts : Belongs(ts[j], box, nat)
      /\ Rests(bur, nat) /\ "upload" \in Directions
  BY DEF Sound, Directions
<1>1. /\ DOMAIN new["upload"] = DOMAIN nat["upload"]
      /\ \A k \in DOMAIN nat["upload"] : /\ new["upload"][k].conn = nat["upload"][k].conn
                                         /\ new["upload"][k].task = nat["upload"][k].task
  BY <1>0 DEF GoesOn
<1>2. \A x : Out(x, box, new) <=> Out(x, box, nat)
  BY <1>1 DEF Out
<1>3. Numbered(ts, box, new, n)
  BY <1>0, <1>1, <1>2 DEF Numbered
<1>4. Placed(ts, S, R, box, new)
  <2>1. \A d \in Directions : \A k \in DOMAIN new[d] :
          k \in DOMAIN nat[d] /\ new[d][k].conn = nat[d][k].conn
    BY DEF GoesOn
  <2> QED
    BY <1>0, <2>1 DEF Placed
<1>5. ASSUME NEW j \in DOMAIN ts PROVE Belongs(ts[j], box, new)
  <2>1. ts[j].dir \in Directions
    <3>1. ts[j] \in Task
      BY <1>0, Listed
    <3> QED
      BY <3>1 DEF Task
  <2>2. Belongs(ts[j], box, nat)
    BY <1>0
  <2>3. ts[j].status \in {"complete", "error"} => ts[j].status # "running"
    OBVIOUS
  <2> QED
    BY <1>2, <2>1, <2>2, <2>3 DEF Belongs, GoesOn
<1>6. Linked(ts, S, box, new, bur)
  BY <1>0, <1>1 DEF Linked
<1>7. Rests(bur, new)
  <2>1. \A d \in Directions : \A k \in DOMAIN nat[d] :
          /\ k \in DOMAIN new[d] /\ new[d][k].conn = nat[d][k].conn
          /\ nat[d][k].state # "running" => new[d][k].state = nat[d][k].state
    BY DEF GoesOn
  <2> QED
    BY <1>0, <2>1 DEF Rests
<1> QED
  BY <1>3, <1>4, <1>5, <1>6, <1>7 DEF Sound, GoesOn

\* What an event says stays true as transfers go on, or start.
LEMMA StaysTrue ==
    ASSUME NEW nat, NEW new, NEW m \in Message, True(m, nat),
           \A d \in Directions : \A k \in DOMAIN nat[d] :
              /\ k \in DOMAIN new[d] /\ new[d][k].conn = nat[d][k].conn
              /\ nat[d][k].state # "running" => new[d][k].state = nat[d][k].state
    PROVE  True(m, new)
<1>1. m.dir \in Directions
  BY DEF Message
<1> QED
  BY <1>1 DEF True

\* The command at the head of the pipe becomes the transfer t (Takes).
Starts(box, nat, d, t, new) ==
    /\ box # <<>> /\ Head(box).type # "cancel" /\ d \in Directions /\ d = Head(box).type
    /\ t \in Transfer /\ t.conn = Head(box).conn /\ t.task = Head(box).task
    /\ t.state = "running"
    /\ new = [nat EXCEPT ![d] = Append(nat[d], t)]

\* A transfer starts: it is the command's (Takes).
LEMMA StartedSound ==
    ASSUME NEW ts, NEW S, NEW R, NEW box, NEW nat, NEW bur, NEW n,
           Sound(ts, S, R, box, nat, bur, n),
           NEW d, NEW t, NEW new, Starts(box, nat, d, t, new)
    PROVE  /\ Sound(ts, S, R, Tail(box), new, bur, n)
           /\ \A e \in Directions : \A k \in DOMAIN nat[e] :
                 k \in DOMAIN new[e] /\ new[e][k] = nat[e][k]
           /\ Len(nat[d]) + 1 \in DOMAIN new[d] /\ new[d][Len(nat[d]) + 1] = t
           /\ Len(nat[d]) + 1 \in Nat
<1> USE DEF Starts
<1> DEFINE rest == Tail(box)
           last == Len(nat[d]) + 1
<1>0. /\ ts \in Seq(Task) /\ box \in Seq(Command) /\ nat \in [Directions -> Seq(Transfer)]
      /\ Numbered(ts, box, nat, n) /\ Placed(ts, S, R, box, nat) /\ Linked(ts, S, box, nat, bur)
      /\ \A j \in DOMAIN ts : Belongs(ts[j], box, nat)
      /\ Rests(bur, nat) /\ "upload" \in Directions
  BY DEF Sound, Directions
<1>1. /\ rest \in Seq(Command) /\ Head(box) = box[1] /\ 1 \in DOMAIN box
      /\ \A k \in DOMAIN rest : k + 1 \in DOMAIN box /\ k + 1 # 1 /\ rest[k] = box[k + 1] /\ k \in Nat
  BY <1>0, Shorter
<1>2. nat[d] \in Seq(Transfer)
  BY <1>0
<1>3. /\ Append(nat[d], t) \in Seq(Transfer)
      /\ DOMAIN Append(nat[d], t) = DOMAIN nat[d] \cup {last} /\ last \notin DOMAIN nat[d]
      /\ last \in Nat /\ Append(nat[d], t)[last] = t
      /\ \A k \in DOMAIN nat[d] : Append(nat[d], t)[k] = nat[d][k]
  BY <1>2, Longer
<1>4. /\ new \in [Directions -> Seq(Transfer)] /\ new[d] = Append(nat[d], t)
      /\ \A e \in Directions : e # d => new[e] = nat[e]
  BY <1>0, <1>3
<1> HIDE DEF rest, last
<1>5. /\ \A e \in Directions : \A k \in DOMAIN nat[e] : k \in DOMAIN new[e] /\ new[e][k] = nat[e][k]
      /\ \A e \in Directions : \A k \in DOMAIN new[e] :
            k \in DOMAIN nat[e] \/ (e = d /\ k = last /\ new[e][k] = t)
      /\ last \in DOMAIN new[d] /\ new[d][last] = t
  BY <1>3, <1>4
<1>6. \A k \in DOMAIN new["upload"] :
         \/ k \in DOMAIN nat["upload"] /\ new["upload"][k] = nat["upload"][k]
         \/ d = "upload" /\ k = last /\ new["upload"][k] = t
  BY <1>0, <1>5
<1>7. \A x : Out(x, rest, new) => Out(x, box, nat)
  <2> SUFFICES ASSUME NEW x, Out(x, rest, new) PROVE Out(x, box, nat)
    OBVIOUS
  <2>1. CASE \E k \in DOMAIN rest : rest[k].type = "upload" /\ rest[k].task = x
    BY <1>1, <2>1 DEF Out
  <2>2. CASE \E k \in DOMAIN new["upload"] : new["upload"][k].task = x
    BY <1>1, <1>6, <2>2 DEF Out
  <2> QED
    BY <2>1, <2>2 DEF Out
<1>8. Numbered(ts, rest, new, n)
  <2>1. \A k, l \in DOMAIN rest :
          rest[k].type = "upload" /\ rest[l].type = "upload" /\ rest[k].task = rest[l].task => k = l
    <3> SUFFICES ASSUME NEW k \in DOMAIN rest, NEW l \in DOMAIN rest, rest[k].type = "upload",
                        rest[l].type = "upload", rest[k].task = rest[l].task
                 PROVE  k = l
      OBVIOUS
    <3>1. k + 1 = l + 1
      BY <1>0, <1>1 DEF Numbered
    <3>2. k \in Nat /\ l \in Nat
      BY <1>1
    <3> QED
      BY <3>1, <3>2
  <2>2. \A k, l \in DOMAIN new["upload"] : new["upload"][k].task = new["upload"][l].task => k = l
    <3>1. d = "upload" => \A k \in DOMAIN nat["upload"] : nat["upload"][k].task # t.task
      BY <1>0, <1>1 DEF Numbered
    <3> QED
      BY <1>0, <1>6, <3>1 DEF Numbered
  <2>3. \A k \in DOMAIN rest : \A l \in DOMAIN new["upload"] :
          rest[k].type = "upload" => rest[k].task # new["upload"][l].task
    <3> SUFFICES ASSUME NEW k \in DOMAIN rest, NEW l \in DOMAIN new["upload"],
                        rest[k].type = "upload"
                 PROVE  rest[k].task # new["upload"][l].task
      OBVIOUS
    <3>1. k + 1 \in DOMAIN box /\ k + 1 # 1 /\ rest[k] = box[k + 1]
      BY <1>1
    <3>2. CASE l \in DOMAIN nat["upload"] /\ new["upload"][l] = nat["upload"][l]
      BY <1>0, <3>1, <3>2 DEF Numbered
    <3>3. CASE d = "upload" /\ new["upload"][l] = t
      BY <1>0, <1>1, <3>1, <3>3 DEF Numbered
    <3> QED
      BY <1>6, <3>2, <3>3
  <2> QED
    BY <1>0, <1>7, <2>1, <2>2, <2>3 DEF Numbered
<1>9. Placed(ts, S, R, rest, new)
  <2>1. \A k \in DOMAIN rest : rest[k].type # "cancel" => rest[k].conn \in S \cup R
    BY <1>0, <1>1 DEF Placed
  <2>2. t.conn \in S \cup R
    BY <1>0, <1>1 DEF Placed
  <2>3. \A e \in Directions : \A k \in DOMAIN new[e] : new[e][k].conn \in S \cup R
    BY <1>0, <1>5, <2>2 DEF Placed
  <2> QED
    BY <1>0, <2>1, <2>3 DEF Placed
<1>10. ASSUME NEW j \in DOMAIN ts PROVE Belongs(ts[j], rest, new)
  <2>1. ts[j].dir \in Directions
    <3>1. ts[j] \in Task
      BY <1>0, Listed
    <3> QED
      BY <3>1 DEF Task
  <2>2. Belongs(ts[j], box, nat)
    BY <1>0
  <2> QED
    BY <1>5, <1>7, <2>1, <2>2 DEF Belongs
<1>11. Linked(ts, S, rest, new, bur)
  <2>1. \A k \in DOMAIN rest :
          rest[k].type = "upload" /\ rest[k].conn \in S =>
             \E i \in DOMAIN ts : RowOf(ts[i], rest[k].task, rest[k].conn, Unnamed)
    BY <1>0, <1>1 DEF Linked
  <2>2. ASSUME NEW l \in DOMAIN new["upload"], new["upload"][l].conn \in S,
               <<new["upload"][l].conn, "upload", l>> \notin bur
        PROVE  \E i \in DOMAIN ts : RowOf(ts[i], new["upload"][l].task, new["upload"][l].conn, l)
    <3>1. CASE l \in DOMAIN nat["upload"] /\ new["upload"][l] = nat["upload"][l]
      BY <1>0, <2>2, <3>1 DEF Linked
    <3>2. CASE d = "upload" /\ l = last /\ new["upload"][l] = t
      <4>1. PICK i \in DOMAIN ts : RowOf(ts[i], t.task, t.conn, Unnamed)
        BY <1>0, <1>1, <2>2, <3>2 DEF Linked
      <4>2. RowOf(ts[i], t.task, t.conn, l)
        BY <4>1 DEF RowOf
      <4> QED
        BY <3>2, <4>2
    <3> QED
      BY <1>6, <3>1, <3>2
  <2> QED
    BY <1>0, <2>1, <2>2 DEF Linked
<1>12. Rests(bur, new)
  BY <1>0, <1>5 DEF Rests
<1>13. Sound(ts, S, R, rest, new, bur, n)
  BY <1>0, <1>1, <1>4, <1>8, <1>9, <1>10, <1>11, <1>12 DEF Sound
<1> QED
  BY <1>3, <1>5, <1>13 DEF rest, last

\* A command is read and does nothing to the transfers (Takes).
LEMMA ReadSound ==
    ASSUME NEW ts, NEW S, NEW R, NEW box, NEW nat, NEW bur, NEW n,
           Sound(ts, S, R, box, nat, bur, n),
           NEW rest \in Seq(Command),
           NEW h, \A k \in DOMAIN rest : /\ k \in Nat /\ k + h \in DOMAIN box
                                         /\ rest[k] = box[k + h],
           h \in Nat
    PROVE  Sound(ts, S, R, rest, nat, bur, n)
<1>0. /\ Numbered(ts, box, nat, n) /\ Placed(ts, S, R, box, nat) /\ Linked(ts, S, box, nat, bur)
      /\ \A j \in DOMAIN ts : Belongs(ts[j], box, nat)
  BY DEF Sound
<1>1. \A x : Out(x, rest, nat) => Out(x, box, nat)
  BY DEF Out
<1>2. Numbered(ts, rest, nat, n)
  <2>1. \A k, l \in DOMAIN rest :
          rest[k].type = "upload" /\ rest[l].type = "upload" /\ rest[k].task = rest[l].task => k = l
    <3> SUFFICES ASSUME NEW k \in DOMAIN rest, NEW l \in DOMAIN rest, rest[k].type = "upload",
                        rest[l].type = "upload", rest[k].task = rest[l].task
                 PROVE  k = l
      OBVIOUS
    <3>1. k + h = l + h
      BY <1>0 DEF Numbered
    <3> QED
      BY <3>1
  <2>2. \A k \in DOMAIN rest : \A l \in DOMAIN nat["upload"] :
          rest[k].type = "upload" => rest[k].task # nat["upload"][l].task
    BY <1>0 DEF Numbered
  <2> QED
    BY <1>0, <1>1, <2>1, <2>2 DEF Numbered
<1>3. Placed(ts, S, R, rest, nat)
  BY <1>0 DEF Placed
<1>4. \A j \in DOMAIN ts : Belongs(ts[j], rest, nat)
  BY <1>0, <1>1 DEF Belongs
<1>5. Linked(ts, S, rest, nat, bur)
  BY <1>0 DEF Linked
<1> QED
  BY <1>2, <1>3, <1>4, <1>5 DEF Sound

\* A session begins, of a connection that never had one (beginSession).
LEMMA BegunSound ==
    ASSUME NEW ts, NEW S, NEW R, NEW box, NEW nat, NEW bur, NEW n,
           Sound(ts, S, R, box, nat, bur, n), NEW c, c \notin R
    PROVE  Sound(ts, S \cup {c}, R, box, nat, bur, n)
<1>1. CASE c \in S
  <2>1. S \cup {c} = S
    BY <1>1
  <2> QED
    BY <2>1
<1>2. CASE c \notin S
  <2>0. /\ ts \in Seq(Task) /\ "upload" \in Directions /\ "download" \in Directions
        /\ Numbered(ts, box, nat, n) /\ Placed(ts, S, R, box, nat) /\ Linked(ts, S, box, nat, bur)
        /\ \A j \in DOMAIN ts : Belongs(ts[j], box, nat)
    BY DEF Sound, Directions
  <2>1. Placed(ts, S \cup {c}, R, box, nat)
    BY <2>0 DEF Placed
  <2>2. \A k \in DOMAIN box : box[k].type = "upload" => box[k].conn # c
    BY <1>2, <2>0 DEF Placed
  <2>3. \A d \in Directions : \A k \in DOMAIN nat[d] : nat[d][k].conn # c
    BY <1>2, <2>0 DEF Placed
  <2>4. \A i \in DOMAIN ts : ts[i].dir = "download" => ts[i].conn # c
    BY <2>0, <2>3 DEF Belongs
  <2>5. Linked(ts, S \cup {c}, box, nat, bur)
    BY <2>0, <2>2, <2>3, <2>4 DEF Linked
  <2> QED
    BY <2>1, <2>5 DEF Sound
<1> QED
  BY <1>1, <1>2

(***************************************************************************)
(* The limits of the queue, and rows that owe no cancel.                   *)
(***************************************************************************)
\* A list in which no upload is new keeps the limit (enqueueUpload).
LEMMA StillLimited ==
    ASSUME NEW ts \in Seq(Task), Limited(ts), NEW us,
           \A i \in DOMAIN us :
              us[i].dir = "upload" /\ us[i].status \notin Terminal =>
                 /\ i \in DOMAIN ts /\ ts[i].status \notin Terminal
                 /\ ts[i].conn = us[i].conn /\ ts[i].dir = us[i].dir /\ ts[i].file = us[i].file
    PROVE  Limited(us)
<1> SUFFICES ASSUME NEW c \in Conns
             PROVE  /\ Cardinality(PendingIn(c, us)) <= MaxPending
                    /\ \A i, j \in PendingIn(c, us) : us[i].file = us[j].file => i = j
  BY DEF Limited
<1>1. PendingIn(c, us) \subseteq PendingIn(c, ts)
  BY DEF PendingIn
<1>2. IsFiniteSet(PendingIn(c, ts))
  <2>1. DOMAIN ts = 1 .. Len(ts) /\ Len(ts) \in Nat
    BY Listed
  <2>2. PendingIn(c, ts) \subseteq 1 .. Len(ts) /\ IsFiniteSet(1 .. Len(ts))
    BY <2>1, FS_Interval DEF PendingIn
  <2> QED
    BY <2>2, FS_Subset
<1>3. Cardinality(PendingIn(c, us)) <= MaxPending
  <2>1. /\ Cardinality(PendingIn(c, us)) <= Cardinality(PendingIn(c, ts))
        /\ Cardinality(PendingIn(c, us)) \in Nat /\ Cardinality(PendingIn(c, ts)) \in Nat
    BY <1>1, <1>2, FS_Subset, FS_CardinalityType
  <2>2. Cardinality(PendingIn(c, ts)) <= MaxPending /\ MaxPending \in Nat
    BY TransfersAssumption DEF Limited
  <2> QED
    BY <2>1, <2>2
<1>4. \A i, j \in PendingIn(c, us) : us[i].file = us[j].file => i = j
  <2>1. \A i \in PendingIn(c, us) : i \in PendingIn(c, ts) /\ us[i].file = ts[i].file
    BY <1>1 DEF PendingIn
  <2>2. \A i, j \in PendingIn(c, ts) : ts[i].file = ts[j].file => i = j
    BY DEF Limited
  <2> QED
    BY <2>1, <2>2
<1> QED
  BY <1>3, <1>4

\* A queue that is not full takes a path that is not pending (enqueueUpload).
LEMMA QueuedLimited ==
    ASSUME NEW ts \in Seq(Task), Limited(ts), NEW t \in Task,
           \A i \in PendingIn(t.conn, ts) : ts[i].file # t.file,
           Cardinality(PendingIn(t.conn, ts)) < MaxPending
    PROVE  Limited(Append(ts, t))
<1> DEFINE us == Append(ts, t)
           last == Len(ts) + 1
<1>1. /\ DOMAIN us = DOMAIN ts \cup {last} /\ us[last] = t /\ last \notin DOMAIN ts
      /\ \A i \in DOMAIN ts : us[i] = ts[i]
  BY Longer
<1>2. DOMAIN ts = 1 .. Len(ts) /\ Len(ts) \in Nat
  BY Listed
<1> HIDE DEF us, last
<1> SUFFICES ASSUME NEW c \in Conns
             PROVE  /\ Cardinality(PendingIn(c, us)) <= MaxPending
                    /\ \A i, j \in PendingIn(c, us) : us[i].file = us[j].file => i = j
  BY DEF Limited, us
<1>3. PendingIn(c, us) = PendingIn(c, ts) \/
      (c = t.conn /\ PendingIn(c, us) = PendingIn(c, ts) \cup {last})
  BY <1>1 DEF PendingIn
<1>4. last \notin PendingIn(c, ts)
  BY <1>1 DEF PendingIn
<1>5. IsFiniteSet(PendingIn(c, ts))
  <2>1. PendingIn(c, ts) \subseteq 1 .. Len(ts) /\ IsFiniteSet(1 .. Len(ts))
    BY <1>2, FS_Interval DEF PendingIn
  <2> QED
    BY <2>1, FS_Subset
<1>6. Cardinality(PendingIn(c, us)) <= MaxPending
  <2>1. Cardinality(PendingIn(c, ts)) \in Nat /\ MaxPending \in Nat
    BY <1>5, FS_CardinalityType, TransfersAssumption
  <2>2. Cardinality(PendingIn(c, ts) \cup {last}) = Cardinality(PendingIn(c, ts)) + 1
    BY <1>4, <1>5, FS_AddElement
  <2>3. Cardinality(PendingIn(c, ts)) <= MaxPending
    BY DEF Limited
  <2>4. CASE PendingIn(c, us) = PendingIn(c, ts)
    BY <2>3, <2>4
  <2>5. CASE c = t.conn /\ PendingIn(c, us) = PendingIn(c, ts) \cup {last}
    <3>1. Cardinality(PendingIn(c, ts)) < MaxPending
      BY <2>5
    <3> QED
      BY <2>1, <2>2, <2>5, <3>1
  <2> QED
    BY <1>3, <2>4, <2>5
<1>7. \A i, j \in PendingIn(c, us) : us[i].file = us[j].file => i = j
  <2>1. \A i \in PendingIn(c, ts) : i \in DOMAIN ts
    BY DEF PendingIn
  <2> QED
    BY <1>1, <1>3, <2>1 DEF Limited
<1> QED
  BY <1>6, <1>7

\* Rows that end owe nothing (endSession).
LEMMA EndedFine ==
    ASSUME NEW ts, NEW S, NEW R, NEW box, NEW nat, NEW bur, NEW n,
           Fine(ts, S, R, box, nat, bur, n), NEW E
    PROVE  Fine(EndedRows(E, ts), S \ E, R \cup E, box, nat, bur, n)
<1> DEFINE us == EndedRows(E, ts)
<1>0. ts \in Seq(Task) /\ Sound(ts, S, R, box, nat, bur, n) /\ Limited(ts)
  BY DEF Fine, Sound
<1>1. /\ us \in Seq(Task) /\ DOMAIN us = DOMAIN ts
      /\ \A i \in DOMAIN ts : us[i] = ts[i] \/ us[i].status = "disconnected"
  BY <1>0, EndedFacts
<1> HIDE DEF us
<1>2. \A i \in DOMAIN us : us[i].status \notin Terminal => us[i] = ts[i]
  BY <1>1 DEF Terminal
<1>3. Limited(us)
  BY <1>0, <1>1, <1>2, StillLimited
<1>4. \A i \in DOMAIN us : Settled(us[i])
  BY <1>1, <1>2 DEF Fine, Settled
<1>5. Sound(us, S \ E, R \cup E, box, nat, bur, n)
  BY <1>0, EndedSound DEF us
<1> QED
  BY <1>3, <1>4, <1>5 DEF Fine, us

(***************************************************************************)
(* The parts that handlers share: ending sessions, sending a command,      *)
(* ending a row, and the pump.                                             *)
(***************************************************************************)
\* No session begins, and one that ends is retired.
Narrows ==
    /\ sessions' \subseteq sessions
    /\ sessions \cup retired \subseteq sessions' \cup retired'
    /\ roots' \subseteq Conns /\ blocked' \subseteq Conns /\ retired' \subseteq Conns

\* endSession, from rows that the handler may already have changed.
LEMMA EndedHolds ==
    ASSUME Typed, NEW E \in SUBSET Conns, NEW ts, NEW box, NEW nat, NEW bur, NEW n,
           Fine(ts, sessions, retired, box, nat, bur, n), endSessions(E, ts)
    PROVE  Fine(tasks', sessions', retired', box, nat, bur, n) /\ Narrows
<1>1. /\ sessions' = sessions \ E /\ retired' = retired \cup E
      /\ roots' = roots \ E /\ blocked' = blocked \ E
      /\ tasks' = EndedRows(E, ts)
  BY DEF endSessions, EndedRows
<1>2. Fine(EndedRows(E, ts), sessions \ E, retired \cup E, box, nat, bur, n)
  BY EndedFine
<1>3. Narrows
  BY <1>1 DEF Narrows, Typed
<1> QED
  BY <1>1, <1>2, <1>3

\* The handler sends nothing.
LEMMA NothingHolds ==
    ASSUME Typed, NEW ts, NEW nat, NEW bur, NEW n,
           Fine(ts, sessions, retired, inbox, nat, bur, n), Nothing(ts)
    PROVE  Fine(tasks', sessions', retired', inbox', nat, bur, n) /\ Narrows
<1>1. /\ sessions' = sessions /\ retired' = retired /\ inbox' = inbox /\ tasks' = ts
      /\ roots' = roots /\ blocked' = blocked
  BY DEF Nothing
<1>2. Narrows
  BY <1>1 DEF Narrows, Typed
<1> QED
  BY <1>1, <1>2

\* The lambda on commandRequested: the command is sent, or the session ends.
LEMMA SendHolds ==
    ASSUME Typed, NEW c \in Conns, NEW m, NEW ts, NEW nat, NEW bur, NEW n,
           Fine(ts, sessions, retired, Append(inbox, m), nat, bur, n),
           Fine(ts, sessions, retired, inbox, nat, bur, n), Send(c, m, ts)
    PROVE  Fine(tasks', sessions', retired', inbox', nat, bur, n) /\ Narrows
<1>1. CASE alive /\ rtc[c] = "connected"
  <2>1. /\ sessions' = sessions /\ retired' = retired /\ inbox' = Append(inbox, m)
        /\ tasks' = ts /\ roots' = roots /\ blocked' = blocked
    BY <1>1 DEF Send
  <2>2. Narrows
    BY <2>1 DEF Narrows, Typed
  <2> QED
    BY <2>1, <2>2
<1>2. CASE ~(alive /\ rtc[c] = "connected")
  <2>1. endSessions({c}, ts) /\ inbox' = inbox
    BY <1>2 DEF Send
  <2>2. Fine(tasks', sessions', retired', inbox, nat, bur, n) /\ Narrows
    BY <2>1, EndedHolds
  <2> QED
    BY <2>1, <2>2
<1> QED
  BY <1>1, <1>2

\* What an action that leaves rtcState alone owes for the invariant.
LEMMA Closing ==
    ASSUME IInv, Narrows, rtc' = rtc,
           Fine(tasks', sessions', retired', inbox', native', buried', made'),
           pumps' \subseteq Conns, buried' \subseteq Conns \X Directions \X Nat,
           made' \in 0 .. MaxTasks, alive' \in BOOLEAN, faults' \in 0 .. MaxFaults,
           events' \in Seq(Message), \A k \in DOMAIN events' : True(events'[k], native')
    PROVE  IInv'
<1>1. Typed'
  BY DEF IInv, Typed, Narrows
<1>2. Connected'
  BY DEF IInv, Connected, Narrows
<1> QED
  BY <1>1, <1>2 DEF IInv

\* A fault keeps to its bound.
LEMMA FaultBound ==
    ASSUME Typed, Fault
    PROVE  faults' \in 0 .. MaxFaults
BY TransfersAssumption DEF Typed, Fault

\* Rows that no handler made new keep the limits of the queue.
LEMMA RowsFine ==
    ASSUME NEW ts, NEW S, NEW R, NEW box, NEW nat, NEW bur, NEW n,
           Fine(ts, S, R, box, nat, bur, n),
           NEW us, NEW box2, NEW bur2, NEW n2, Sound(us, S, R, box2, nat, bur2, n2),
           \A i \in DOMAIN us :
              /\ i \in DOMAIN ts /\ us[i].conn = ts[i].conn /\ us[i].dir = ts[i].dir
              /\ us[i].file = ts[i].file
              /\ us[i].status \notin Terminal => ts[i].status \notin Terminal
              /\ Settled(us[i])
    PROVE  Fine(us, S, R, box2, nat, bur2, n2)
<1>1. ts \in Seq(Task) /\ Limited(ts)
  BY DEF Fine, Sound
<1>2. Limited(us)
  BY <1>1, StillLimited
<1> QED
  BY <1>2 DEF Fine

\* pump: the uploads whose file is gone fail, and the one that starts is the
\* only one under way.
LEMMA PumpHolds ==
    ASSUME Typed, NEW c \in Conns, NEW gone, NEW ts, NEW nat, NEW bur, NEW n,
           Fine(ts, sessions, retired, inbox, nat, bur, n), pump(c, ts, gone)
    PROVE  Fine(tasks', sessions', retired', inbox', nat, bur, n) /\ Narrows
<1> DEFINE queued == {i \in DOMAIN ts : ts[i].conn = c /\ ts[i].status = "queued"}
           ready  == {i \in queued : ts[i].file \notin gone}
           next   == First(ready)
           marked == [i \in DOMAIN ts |->
                         IF i \in queued \ ready /\ (ready = {} \/ i < next)
                         THEN [ts[i] EXCEPT !.status = "error"]
                         ELSE IF ready # {} /\ i = next
                         THEN [ts[i] EXCEPT !.status = "uploading"] ELSE ts[i]]
           dropped == [i \in DOMAIN ts |->
                         IF i \in queued \ ready /\ (ready = {} \/ i < next)
                         THEN [ts[i] EXCEPT !.status = "error"] ELSE ts[i]]
           m == [type |-> "upload", conn |-> c, task |-> ts[next].id]
<1>0. /\ ts \in Seq(Task) /\ Sound(ts, sessions, retired, inbox, nat, bur, n)
      /\ inbox \in Seq(Command)
      /\ \A i \in DOMAIN ts : ts[i] \in Task /\ Belongs(ts[i], inbox, nat) /\ Settled(ts[i])
  <2>1. ts \in Seq(Task) /\ Sound(ts, sessions, retired, inbox, nat, bur, n)
    BY DEF Fine, Sound
  <2>2. \A i \in DOMAIN ts : ts[i] \in Task
    BY <2>1, Listed
  <2> QED
    BY <2>1, <2>2 DEF Fine, Sound
<1>1. CASE c \notin sessions \/ c \in blocked \/ Dispatched(c, ts) # {}
  <2>1. Nothing(ts)
    BY <1>1 DEF pump
  <2> QED
    BY <2>1, NothingHolds
<1>2. CASE ~(c \notin sessions \/ c \in blocked \/ Dispatched(c, ts) # {})
  <2>0. IF ready = {} THEN Nothing(marked) ELSE Send(c, m, marked)
    BY <1>2 DEF pump
  <2>1. \A i \in DOMAIN ts : dropped[i] = ts[i] \/
           (ts[i].status = "queued" /\ dropped[i] = [ts[i] EXCEPT !.status = "error"])
    OBVIOUS
  <2>2. DOMAIN dropped = DOMAIN ts /\ DOMAIN marked = DOMAIN ts
    OBVIOUS
  <2>3. ready = {} => marked = dropped
    OBVIOUS
  <2>4. ready # {} => /\ next \in DOMAIN ts /\ ts[next].conn = c /\ ts[next].status = "queued"
                      /\ marked[next] = [ts[next] EXCEPT !.status = "uploading"]
                      /\ dropped[next] = ts[next]
                      /\ \A j \in DOMAIN ts : j # next => marked[j] = dropped[j]
    <3> SUFFICES ASSUME ready # {}
                 PROVE  /\ next \in DOMAIN ts /\ ts[next].conn = c /\ ts[next].status = "queued"
                        /\ marked[next] = [ts[next] EXCEPT !.status = "uploading"]
                        /\ dropped[next] = ts[next]
                        /\ \A j \in DOMAIN ts : j # next => marked[j] = dropped[j]
      OBVIOUS
    <3>1. ready \in SUBSET Nat
      BY <1>0, Listed
    <3>2. next \in ready
      BY <3>1, FirstIsLeast
    <3> QED
      BY <3>2
  <2>5. dropped \in [DOMAIN ts -> Task]
    <3> SUFFICES ASSUME NEW i \in DOMAIN ts PROVE dropped[i] \in Task
      OBVIOUS
    <3>1. ts[i] \in Task /\ "error" \in Statuses
      BY <1>0 DEF Statuses, Terminal
    <3> HIDE DEF dropped
    <3> QED
      BY <2>1, <3>1 DEF Task
  <2>6. marked \in [DOMAIN ts -> Task]
    <3> SUFFICES ASSUME NEW i \in DOMAIN ts PROVE marked[i] \in Task
      OBVIOUS
    <3>1. ts[i] \in Task /\ "error" \in Statuses /\ "uploading" \in Statuses
      BY <1>0 DEF Statuses, Terminal
    <3>2. marked[i] = dropped[i] \/ marked[i] = [ts[i] EXCEPT !.status = "uploading"]
      OBVIOUS
    <3> HIDE DEF marked, dropped
    <3> QED
      BY <2>5, <3>1, <3>2 DEF Task
  <2> HIDE DEF marked, dropped, next, ready
  <2>7. Sound(dropped, sessions, retired, inbox, nat, bur, n)
    <3>1. \A i \in DOMAIN ts : dropped[i] = ts[i] \/ Dropped(ts[i], dropped[i])
      <4> SUFFICES ASSUME NEW i \in DOMAIN ts, dropped[i] # ts[i] PROVE Dropped(ts[i], dropped[i])
        OBVIOUS
      <4>1. ts[i] \in Task /\ ts[i].status = "queued" /\ dropped[i] = [ts[i] EXCEPT !.status = "error"]
        BY <1>0, <2>1
      <4> QED
        BY <4>1 DEF Dropped, Task
    <3> QED
      BY <1>0, <2>5, <3>1, DroppedSound
  <2>8. \A i \in DOMAIN dropped :
           /\ i \in DOMAIN ts /\ dropped[i].conn = ts[i].conn /\ dropped[i].dir = ts[i].dir
           /\ dropped[i].file = ts[i].file
           /\ dropped[i].status \notin Terminal => ts[i].status \notin Terminal
           /\ Settled(dropped[i])
    <3> SUFFICES ASSUME NEW i \in DOMAIN ts
                 PROVE  /\ dropped[i].conn = ts[i].conn /\ dropped[i].dir = ts[i].dir
                        /\ dropped[i].file = ts[i].file
                        /\ dropped[i].status \notin Terminal => ts[i].status \notin Terminal
                        /\ Settled(dropped[i])
      BY <2>2
    <3>1. CASE dropped[i] = ts[i]
      BY <1>0, <3>1
    <3>2. CASE dropped[i] = [ts[i] EXCEPT !.status = "error"]
      <4>1. ts[i] \in Task
        BY <1>0
      <4>2. /\ dropped[i].conn = ts[i].conn /\ dropped[i].dir = ts[i].dir
            /\ dropped[i].file = ts[i].file /\ dropped[i].status = "error"
        BY <3>2, <4>1 DEF Task
      <4> QED
        BY <4>2 DEF Settled, Terminal
    <3> QED
      BY <2>1, <3>1, <3>2
  <2>9. Fine(dropped, sessions, retired, inbox, nat, bur, n)
    BY <2>7, <2>8, RowsFine
  <2>10. CASE ready = {}
    <3>1. Nothing(dropped)
      BY <2>0, <2>3, <2>10
    <3> QED
      BY <2>9, <3>1, NothingHolds
  <2>11. CASE ready # {}
    <3>1. /\ next \in DOMAIN ts /\ ts[next].conn = c /\ ts[next].status = "queued"
          /\ marked[next] = [dropped[next] EXCEPT !.status = "uploading"]
          /\ dropped[next] = ts[next] /\ next \in DOMAIN dropped
          /\ \A j \in DOMAIN dropped : j # next => marked[j] = dropped[j]
      BY <2>2, <2>4, <2>11
    <3>2. \A j \in DOMAIN dropped : Under(dropped[j]) => dropped[j].conn # dropped[next].conn
      <4> SUFFICES ASSUME NEW j \in DOMAIN ts, Under(dropped[j]), dropped[j].conn = c
                   PROVE  FALSE
        BY <2>2, <3>1
      <4>1. dropped[j] = ts[j]
        <5>1. ts[j] \in Task
          BY <1>0
        <5>2. dropped[j] # [ts[j] EXCEPT !.status = "error"]
          BY <5>1 DEF Under, Terminal, Task
        <5> QED
          BY <2>1, <5>2
      <4>2. j \in Dispatched(c, ts)
        BY <4>1 DEF Dispatched, Under
      <4> QED
        BY <1>2, <4>2
    <3>3. m \in Command /\ m.type = "upload" /\ m.conn = dropped[next].conn
          /\ m.task = dropped[next].id
      <4>1. ts[next].id \in Nat
        BY <1>0, <3>1 DEF Task
      <4> QED
        BY <3>1, <4>1 DEF Command
    <3> HIDE DEF m
    <3>4. Sound(marked, sessions, retired, Append(inbox, m), nat, bur, n)
      <4>1. dropped[next].status = "queued" /\ dropped[next].conn \in sessions
        BY <1>2, <3>1
      <4>2. marked \in [DOMAIN dropped -> Task]
        BY <2>2, <2>6
      <4> QED
        BY <2>7, <3>1, <3>2, <3>3, <4>1, <4>2, DispatchedSound
    <3>5. Sound(marked, sessions, retired, inbox, nat, bur, n)
      <4>1. \A k \in DOMAIN inbox : /\ k \in Nat /\ k + 0 \in DOMAIN Append(inbox, m)
                                    /\ inbox[k] = Append(inbox, m)[k + 0]
        BY <1>0, <3>3, Longer, Listed
      <4> QED
        BY <1>0, <3>4, <4>1, ReadSound
    <3>6. \A i \in DOMAIN marked :
             /\ i \in DOMAIN dropped /\ marked[i].conn = dropped[i].conn
             /\ marked[i].dir = dropped[i].dir
             /\ marked[i].file = dropped[i].file
             /\ marked[i].status \notin Terminal => dropped[i].status \notin Terminal
             /\ Settled(marked[i])
      <4> SUFFICES ASSUME NEW i \in DOMAIN dropped
                   PROVE  /\ marked[i].conn = dropped[i].conn
                          /\ marked[i].dir = dropped[i].dir
                          /\ marked[i].file = dropped[i].file
                          /\ marked[i].status \notin Terminal => dropped[i].status \notin Terminal
                          /\ Settled(marked[i])
        BY <2>2
      <4>1. CASE i # next
        BY <2>8, <3>1, <4>1
      <4>2. CASE i = next
        <5>1. ts[next] \in Task /\ Belongs(ts[next], inbox, nat) /\ ts[next].status = "queued"
          BY <1>0, <3>1
        <5>2. /\ marked[i].conn = ts[next].conn /\ marked[i].dir = ts[next].dir
              /\ marked[i].file = ts[next].file /\ marked[i].wire = ts[next].wire
          BY <3>1, <4>2, <5>1 DEF Task
        <5>3. marked[i].wire = Unnamed
          BY <5>1, <5>2 DEF Belongs
        <5>4. ts[next].status \notin Terminal
          BY <5>1 DEF Terminal
        <5> QED
          BY <3>1, <4>2, <5>2, <5>3, <5>4 DEF Settled
      <4> QED
        BY <4>1, <4>2
    <3>7. /\ Fine(marked, sessions, retired, Append(inbox, m), nat, bur, n)
          /\ Fine(marked, sessions, retired, inbox, nat, bur, n)
      BY <2>9, <3>4, <3>5, <3>6, RowsFine
    <3>8. Send(c, m, marked)
      BY <2>0, <2>11
    <3> QED
      BY <3>7, <3>8, SendHolds
  <2> QED
    BY <2>10, <2>11
<1> QED
  BY <1>1, <1>2

\* All is fine but that row i may owe a cancel, which its handler goes on to send.
Owing(i, ts, S, R, box, nat, bur, n) ==
    /\ Sound(ts, S, R, box, nat, bur, n)
    /\ Limited(ts)
    /\ \A j \in DOMAIN ts : j # i => Settled(ts[j])

\* sendCancel: a row that can send its cancel does, or its session ends.
LEMMA CancelHolds ==
    ASSUME Typed, NEW ts, NEW nat, NEW bur, NEW n,
           NEW i \in DOMAIN ts, ts[i].status \notin Terminal \cup {"queued"},
           Owing(i, ts, sessions, retired, inbox, nat, bur, n), sendCancel(i, ts)
    PROVE  Fine(tasks', sessions', retired', inbox', nat, bur, n) /\ Narrows
<1>0. /\ ts \in Seq(Task) /\ Sound(ts, sessions, retired, inbox, nat, bur, n) /\ Limited(ts)
      /\ \A j \in DOMAIN ts : ts[j] \in Task
  <2>1. ts \in Seq(Task) /\ Sound(ts, sessions, retired, inbox, nat, bur, n) /\ Limited(ts)
    BY DEF Owing, Sound
  <2> QED
    BY <2>1, Listed
<1>1. CASE ts[i].wire = Unnamed \/ ts[i].sent
  <2>1. Nothing(ts)
    BY <1>1 DEF sendCancel
  <2>2. Settled(ts[i])
    BY <1>1 DEF Settled
  <2>3. Fine(ts, sessions, retired, inbox, nat, bur, n)
    BY <2>2 DEF Fine, Owing
  <2> QED
    BY <2>1, <2>3, NothingHolds
<1>2. CASE ~(ts[i].wire = Unnamed \/ ts[i].sent)
  <2> DEFINE m == [type |-> "cancel", dir |-> ts[i].dir, wire |-> ts[i].wire]
             us == [ts EXCEPT ![i].sent = TRUE]
  <2>1. Send(ts[i].conn, m, us)
    BY <1>2 DEF sendCancel
  <2>2. ts[i] \in Task /\ ts[i].conn \in Conns
    BY <1>0 DEF Task
  <2>3. m \in Command /\ m.type = "cancel"
    BY <2>2 DEF Command, Task
  <2>4. /\ DOMAIN us = DOMAIN ts /\ us[i] = [ts[i] EXCEPT !.sent = TRUE]
        /\ \A j \in DOMAIN ts : j # i => us[j] = ts[j]
    OBVIOUS
  <2>5. /\ us[i].id = ts[i].id /\ us[i].conn = ts[i].conn /\ us[i].dir = ts[i].dir
        /\ us[i].wire = ts[i].wire /\ us[i].file = ts[i].file /\ us[i].status = ts[i].status
        /\ us[i].sent
    BY <2>2, <2>4 DEF Task
  <2>6. us \in [DOMAIN ts -> Task]
    <3> SUFFICES ASSUME NEW j \in DOMAIN ts PROVE us[j] \in Task
      OBVIOUS
    <3>1. CASE j = i
      BY <2>2, <2>4, <3>1 DEF Task
    <3>2. CASE j # i
      BY <1>0, <2>4, <3>2
    <3> QED
      BY <3>1, <3>2
  <2> HIDE DEF m, us
  <2>7. Sound(us, sessions, retired, inbox, nat, bur, n)
    <3>1. \A j \in DOMAIN ts : us[j] = ts[j] \/ Kept(ts[j], us[j])
      BY <2>4, <2>5 DEF Kept
    <3> QED
      BY <1>0, <2>6, <3>1, KeptSound
  <2>8. Sound(us, sessions, retired, Append(inbox, m), nat, bur, n)
    BY <2>3, <2>7, CommandSound
  <2>9. Limited(us)
    <3>1. \A j \in DOMAIN us : /\ j \in DOMAIN ts /\ us[j].conn = ts[j].conn
                               /\ us[j].dir = ts[j].dir /\ us[j].file = ts[j].file
                               /\ us[j].status = ts[j].status
      BY <2>4, <2>5
    <3> QED
      BY <1>0, <3>1, StillLimited
  <2>10. \A j \in DOMAIN us : Settled(us[j])
    BY <2>4, <2>5 DEF Settled, Owing
  <2>11. /\ Fine(us, sessions, retired, Append(inbox, m), nat, bur, n)
         /\ Fine(us, sessions, retired, inbox, nat, bur, n)
    BY <2>7, <2>8, <2>9, <2>10 DEF Fine
  <2> QED
    BY <2>1, <2>2, <2>11, SendHolds
<1> QED
  BY <1>1, <1>2

\* finish, by an event of the row's own transfer, which has ended like that.
LEMMA FinishHolds ==
    ASSUME Typed, NEW ts, NEW n, NEW i \in DOMAIN ts, ts[i].status \notin Terminal,
           ts[i].wire # Unnamed,
           NEW s \in {"complete", "error"}, native[ts[i].dir][ts[i].wire].state = s,
           Owing(i, ts, sessions, retired, inbox, native, buried, n), finish(i, ts, s)
    PROVE  /\ Fine(tasks', sessions', retired', inbox', native, buried', n) /\ Narrows
           /\ pumps' \subseteq Conns /\ buried' \subseteq Conns \X Directions \X Nat
<1> DEFINE us == [ts EXCEPT ![i].status = s]
<1>0. /\ ts \in Seq(Task) /\ Sound(ts, sessions, retired, inbox, native, buried, n) /\ Limited(ts)
      /\ \A j \in DOMAIN ts : ts[j] \in Task
  <2>1. ts \in Seq(Task) /\ Sound(ts, sessions, retired, inbox, native, buried, n) /\ Limited(ts)
    BY DEF Owing, Sound
  <2> QED
    BY <2>1, Listed
<1>1. /\ ts[i] \in Task /\ ts[i].conn \in Conns /\ ts[i].dir \in Directions /\ ts[i].wire \in Nat
      /\ s \in Statuses /\ s \in Terminal
  BY <1>0 DEF Task, Statuses, Terminal
<1>2. /\ buried' = buried \cup {<<ts[i].conn, ts[i].dir, ts[i].wire>>}
      /\ pumps' = pumps \cup {ts[i].conn} /\ Nothing(us)
  BY DEF finish
<1>3. /\ DOMAIN us = DOMAIN ts /\ us[i] = [ts[i] EXCEPT !.status = s]
      /\ \A j \in DOMAIN ts : j # i => us[j] = ts[j]
  OBVIOUS
<1>4. us[i].status = s
  BY <1>1, <1>3 DEF Task
<1>5. us \in [DOMAIN ts -> Task]
  <2> SUFFICES ASSUME NEW j \in DOMAIN ts PROVE us[j] \in Task
    OBVIOUS
  <2>1. CASE j = i
    BY <1>1, <1>3, <2>1 DEF Task
  <2>2. CASE j # i
    BY <1>0, <1>3, <2>2
  <2> QED
    BY <2>1, <2>2
<1> HIDE DEF us
<1>6. Sound(us, sessions, retired, inbox, native, buried', n)
  BY <1>0, <1>2, <1>3, <1>5, FinishedSound DEF Typed
<1>7. Limited(us)
  <2>1. \A j \in DOMAIN us : us[j].status \notin Terminal => j \in DOMAIN ts /\ us[j] = ts[j]
    BY <1>1, <1>3, <1>4
  <2> QED
    BY <1>0, <2>1, StillLimited
<1>8. \A j \in DOMAIN us : Settled(us[j])
  BY <1>1, <1>3, <1>4 DEF Settled, Owing
<1>9. Fine(us, sessions, retired, inbox, native, buried', n)
  BY <1>6, <1>7, <1>8 DEF Fine
<1>10. Fine(tasks', sessions', retired', inbox', native, buried', n) /\ Narrows
  BY <1>2, <1>9, NothingHolds
<1>11. pumps' \subseteq Conns
  BY <1>1, <1>2 DEF Typed
<1>12. buried' \subseteq Conns \X Directions \X Nat
  BY <1>1, <1>2 DEF Typed
<1> QED
  BY <1>10, <1>11, <1>12

(***************************************************************************)
(* The initial states, and the actions one by one.                         *)
(***************************************************************************)
\* Nothing has been asked for.
LEMMA InitInv == Init => IInv
<1> SUFFICES ASSUME Init PROVE IInv
  OBVIOUS
<1>1. \A X : <<>> \in Seq(X) /\ DOMAIN <<>> = {}
  BY EmptySeq
<1>2. /\ tasks = <<>> /\ inbox = <<>> /\ events = <<>> /\ sessions = {} /\ retired = {}
      /\ buried = {} /\ made = 0 /\ native = [d \in Directions |-> <<>>]
      /\ rtc = [c \in Conns |-> "new"]
  BY DEF Init
<1>3. Typed
  BY <1>1, TransfersAssumption DEF Init, Typed
<1>4. native \in [Directions -> Seq(Transfer)] /\ \A d \in Directions : DOMAIN native[d] = {}
  BY <1>1, <1>2
<1>5. "upload" \in Directions
  BY DEF Directions
<1>6. /\ Numbered(tasks, inbox, native, made) /\ Placed(tasks, sessions, retired, inbox, native)
      /\ Linked(tasks, sessions, inbox, native, buried)
  BY <1>1, <1>2, <1>4, <1>5 DEF Numbered, Placed, Linked, Out
<1>7. Sound(tasks, sessions, retired, inbox, native, buried, made)
  BY <1>1, <1>2, <1>4, <1>6 DEF Sound, Rests
<1>8. Limited(tasks)
  <2>1. \A c : PendingIn(c, tasks) = {}
    BY <1>1, <1>2 DEF PendingIn
  <2>2. Cardinality({}) = 0
    BY FS_EmptySet
  <2> QED
    BY <2>1, <2>2, TransfersAssumption DEF Limited
<1>9. Fine(tasks, sessions, retired, inbox, native, buried, made)
  BY <1>1, <1>2, <1>7, <1>8 DEF Fine
<1>10. Connected
  BY <1>2 DEF Connected
<1> QED
  BY <1>1, <1>2, <1>3, <1>9, <1>10 DEF IInv

\* Fine holds on when the native program's transfers go on.
LEMMA GoesOnFine ==
    ASSUME NEW ts, NEW S, NEW R, NEW box, NEW nat, NEW bur, NEW n,
           Fine(ts, S, R, box, nat, bur, n), NEW new, GoesOn(nat, new)
    PROVE  /\ Fine(ts, S, R, box, new, bur, n)
           /\ \A m \in Message : True(m, nat) => True(m, new)
<1>1. Sound(ts, S, R, box, nat, bur, n)
  BY DEF Fine
<1>2. Sound(ts, S, R, box, new, bur, n)
  BY <1>1, GoesOnSound
<1>3. \A d \in Directions : \A k \in DOMAIN nat[d] :
         /\ k \in DOMAIN new[d] /\ new[d][k].conn = nat[d][k].conn
         /\ nat[d][k].state # "running" => new[d][k].state = nat[d][k].state
  BY DEF GoesOn
<1>4. \A m \in Message : True(m, nat) => True(m, new)
  BY <1>3, StaysTrue
<1> QED
  BY <1>2, <1>4 DEF Fine

\* The native program gives up transfers (Abandoned).
LEMMA AbandonedGoesOn ==
    ASSUME native \in [Directions -> Seq(Transfer)], NEW E
    PROVE  GoesOn(native, Abandoned(E))
<1> DEFINE new == Abandoned(E)
<1>1. ASSUME NEW d \in Directions
      PROVE  /\ new[d] \in Seq(Transfer) /\ DOMAIN new[d] = DOMAIN native[d]
             /\ \A k \in DOMAIN native[d] :
                  /\ new[d][k].conn = native[d][k].conn /\ new[d][k].task = native[d][k].task
                  /\ native[d][k].state # "running" => new[d][k].state = native[d][k].state
  <2>1. native[d] \in Seq(Transfer)
    BY <1>1
  <2>2. \A k \in DOMAIN native[d] : native[d][k] \in Transfer
    BY <2>1, Listed
  <2>3. new[d] = [k \in DOMAIN native[d] |->
            IF native[d][k].conn \in E /\ native[d][k].state = "running"
            THEN [native[d][k] EXCEPT !.state = "error"] ELSE native[d][k]]
    BY <1>1 DEF Abandoned
  <2>4. ASSUME NEW k \in DOMAIN native[d]
        PROVE  /\ new[d][k] \in Transfer
               /\ new[d][k].conn = native[d][k].conn /\ new[d][k].task = native[d][k].task
               /\ native[d][k].state # "running" => new[d][k].state = native[d][k].state
    <3>1. CASE native[d][k].conn \in E /\ native[d][k].state = "running"
      <4>1. new[d][k] = [native[d][k] EXCEPT !.state = "error"]
        BY <2>3, <2>4, <3>1
      <4>2. native[d][k] \in Transfer
        BY <2>2, <2>4
      <4> HIDE DEF new
      <4> QED
        BY <3>1, <4>1, <4>2 DEF Transfer
    <3>2. CASE ~(native[d][k].conn \in E /\ native[d][k].state = "running")
      BY <2>2, <2>3, <2>4, <3>2
    <3> QED
      BY <3>1, <3>2
  <2>5. new[d] \in [DOMAIN native[d] -> Transfer]
    BY <2>3, <2>4
  <2> HIDE DEF new
  <2>6. new[d] \in Seq(Transfer) /\ DOMAIN new[d] = DOMAIN native[d]
    BY <2>1, <2>5, Listed
  <2> QED
    BY <2>4, <2>6
<1>2. new \in [Directions -> Seq(Transfer)]
  <2>1. DOMAIN new = Directions /\ new = [d \in Directions |-> new[d]]
    BY DEF Abandoned
  <2> HIDE DEF new
  <2> QED
    BY <1>1, <2>1
<1> HIDE DEF new
<1>3. GoesOn(native, new)
  BY <1>1, <1>2 DEF GoesOn
<1> QED
  BY <1>3 DEF new

\* ConnectionState keeps the invariant.
LEMMA ConnectionStateInv ==
    ASSUME IInv, NEW c \in Conns, NEW state \in {"connecting", "connected", "down", "gone"},
           ConnectionState(c, state)
    PROVE  IInv'
<1>0. /\ Typed /\ Fine(tasks, sessions, retired, inbox, native, buried, made) /\ Connected
      /\ \A k \in DOMAIN events : events[k] \in Message /\ True(events[k], native)
      /\ native \in [Directions -> Seq(Transfer)]
  <2>1. /\ Typed /\ Fine(tasks, sessions, retired, inbox, native, buried, made) /\ Connected
        /\ \A k \in DOMAIN events : True(events[k], native)
    BY DEF IInv
  <2>2. \A k \in DOMAIN events : events[k] \in Message
    BY <2>1, Listed DEF Typed
  <2> QED
    BY <2>1, <2>2 DEF Fine, Sound
<1>1. /\ rtc' = [rtc EXCEPT ![c] = state] /\ rtc[c] # state
      /\ native' = IF state = "gone" THEN Abandoned({c}) ELSE native
      /\ buried' = buried /\ made' = made /\ pumps' = pumps /\ alive' = alive
      /\ inbox' = inbox /\ events' = events
      /\ reconcileSession(c, state = "connected", state \in {"down", "gone"})
  BY DEF ConnectionState
<1>2. faults' \in 0 .. MaxFaults
  BY <1>0, FaultBound DEF ConnectionState, Typed
<1>3. rtc' \in [Conns -> {"new", "connecting", "connected", "down", "gone"}]
  BY <1>0, <1>1 DEF Typed
<1>4. /\ rtc'[c] = state /\ \A x \in Conns : x # c => rtc'[x] = rtc[x]
  BY <1>0, <1>1 DEF Typed
<1>5. /\ Fine(tasks', sessions', retired', inbox', native, buried', made') /\ Connected'
      /\ sessions' \subseteq Conns /\ roots' \subseteq Conns /\ blocked' \subseteq Conns
      /\ retired' \subseteq Conns
  <2>1. CASE state \in {"down", "gone"} \/ (state # "connected" /\ c \in sessions)
    <3>1. endSessions({c}, tasks) /\ state # "connected"
      BY <1>1, <2>1 DEF reconcileSession
    <3>2. /\ Fine(tasks', sessions', retired', inbox, native, buried, made) /\ Narrows
      BY <1>0, <3>1, EndedHolds
    <3>3. c \notin sessions'
      BY <3>1 DEF endSessions
    <3>4. Connected'
      BY <1>0, <1>4, <3>1, <3>2, <3>3 DEF Connected, Narrows, Typed
    <3> QED
      BY <1>0, <1>1, <3>2, <3>4 DEF Narrows, Typed
  <2>2. CASE ~(state \in {"down", "gone"} \/ (state # "connected" /\ c \in sessions))
    <3>1. /\ sessions' = IF state = "connected" THEN beginSession(c) ELSE sessions
          /\ tasks' = tasks /\ roots' = roots /\ blocked' = blocked /\ retired' = retired
      BY <1>1, <2>2 DEF reconcileSession
    <3>2. CASE state = "connected"
      <4>1. sessions' = IF c \in retired THEN sessions ELSE sessions \cup {c}
        BY <3>1, <3>2 DEF beginSession
      <4>2. Fine(tasks, sessions', retired, inbox, native, buried, made)
        <5>1. c \notin retired => Sound(tasks, sessions \cup {c}, retired, inbox, native, buried, made)
          BY <1>0, BegunSound DEF Fine
        <5> QED
          BY <1>0, <4>1, <5>1 DEF Fine
      <4>3. Connected'
        BY <1>0, <1>4, <3>1, <3>2, <4>1 DEF Connected, Typed
      <4> QED
        BY <1>0, <1>1, <3>1, <4>1, <4>2, <4>3 DEF Typed
    <3>3. CASE state # "connected"
      <4>1. c \notin sessions /\ sessions' = sessions
        BY <2>2, <3>1, <3>3
      <4>2. Connected'
        BY <1>0, <1>4, <3>1, <3>3, <4>1 DEF Connected, Typed
      <4> QED
        BY <1>0, <1>1, <3>1, <4>1, <4>2 DEF Typed
    <3> QED
      BY <3>2, <3>3
  <2> QED
    BY <2>1, <2>2
<1>6. /\ Fine(tasks', sessions', retired', inbox', native', buried', made')
      /\ \A k \in DOMAIN events' : True(events'[k], native')
  <2>1. CASE state = "gone"
    <3>1. native' = Abandoned({c}) /\ GoesOn(native, Abandoned({c}))
      BY <1>0, <1>1, <2>1, AbandonedGoesOn
    <3>2. /\ Fine(tasks', sessions', retired', inbox', Abandoned({c}), buried', made')
          /\ \A m \in Message : True(m, native) => True(m, Abandoned({c}))
      BY <1>5, <3>1, GoesOnFine
    <3> QED
      BY <1>0, <1>1, <3>1, <3>2
  <2>2. CASE state # "gone"
    <3>1. native' = native
      BY <1>1, <2>2
    <3> QED
      BY <1>0, <1>1, <1>5, <3>1
  <2> QED
    BY <2>1, <2>2
<1>7. Typed'
  BY <1>0, <1>1, <1>2, <1>3, <1>5 DEF Typed
<1> QED
  BY <1>5, <1>6, <1>7 DEF IInv

\* MessagingError keeps the invariant.
LEMMA MessagingErrorInv ==
    ASSUME IInv, MessagingError
    PROVE  IInv'
<1>0. Typed /\ Fine(tasks, sessions, retired, inbox, native, buried, made)
      /\ \A k \in DOMAIN events : True(events[k], native)
  BY DEF IInv
<1>1. /\ endSessions(sessions, tasks) /\ buried' = buried /\ made' = made /\ pumps' = pumps
      /\ rtc' = rtc /\ alive' = alive /\ inbox' = inbox /\ events' = events /\ native' = native
  BY DEF MessagingError, program
<1>2. Fine(tasks', sessions', retired', inbox, native, buried, made) /\ Narrows
  BY <1>0, <1>1, EndedHolds DEF Typed
<1>3. faults' \in 0 .. MaxFaults
  BY <1>0, FaultBound DEF MessagingError
<1>4. Fine(tasks', sessions', retired', inbox', native', buried', made')
  BY <1>1, <1>2
<1>5. /\ pumps' \subseteq Conns /\ buried' \subseteq Conns \X Directions \X Nat
      /\ made' \in 0 .. MaxTasks /\ alive' \in BOOLEAN /\ events' \in Seq(Message)
  BY <1>0, <1>1 DEF Typed
<1>6. \A k \in DOMAIN events' : True(events'[k], native')
  BY <1>0, <1>1
<1> QED
  BY <1>1, <1>2, <1>3, <1>4, <1>5, <1>6, Closing

\* ProcessStopped keeps the invariant: nothing is left of the program's work.
LEMMA ProcessStoppedInv ==
    ASSUME IInv, ProcessStopped
    PROVE  IInv'
<1>0. Typed /\ Fine(tasks, sessions, retired, inbox, native, buried, made)
      /\ native \in [Directions -> Seq(Transfer)]
  BY DEF IInv, Fine, Sound
<1>1. /\ endSessions(sessions, tasks)
      /\ rtc' = [c \in Conns |-> IF rtc[c] = "new" THEN "new" ELSE "gone"]
      /\ inbox' = <<>> /\ events' = <<>> /\ alive' = TRUE
      /\ native' = Abandoned(Conns)
      /\ buried' = buried /\ made' = made /\ pumps' = pumps /\ faults' = faults
  BY DEF ProcessStopped
<1>2. Fine(tasks', sessions', retired', inbox, native, buried, made) /\ Narrows
  BY <1>0, <1>1, EndedHolds DEF Typed
<1>3. \A X : <<>> \in Seq(X) /\ DOMAIN <<>> = {}
  BY EmptySeq
<1>4. Fine(tasks', sessions', retired', <<>>, native, buried, made)
  <2>1. Sound(tasks', sessions', retired', <<>>, native, buried, made)
    <3>1. Sound(tasks', sessions', retired', inbox, native, buried, made)
      BY <1>2 DEF Fine
    <3>2. \A k \in DOMAIN <<>> : /\ k \in Nat /\ k + 0 \in DOMAIN inbox
                                 /\ <<>>[k] = inbox[k + 0]
      BY <1>3
    <3> QED
      BY <1>3, <3>1, <3>2, ReadSound
  <2> QED
    BY <1>2, <2>1 DEF Fine
<1>5. Fine(tasks', sessions', retired', <<>>, Abandoned(Conns), buried, made)
  <2>1. GoesOn(native, Abandoned(Conns))
    BY <1>0, AbandonedGoesOn
  <2> QED
    BY <1>4, <2>1, GoesOnFine
<1>6. Fine(tasks', sessions', retired', inbox', native', buried', made')
  BY <1>1, <1>5
<1>7. Typed'
  <2>1. rtc' \in [Conns -> {"new", "connecting", "connected", "down", "gone"}]
    BY <1>1
  <2>2. events' \in Seq(Message) /\ alive' \in BOOLEAN
    BY <1>1, <1>3
  <2> QED
    BY <1>0, <1>1, <1>2, <2>1, <2>2 DEF Typed, Narrows
<1>8. Connected'
  <2>1. sessions' = {}
    BY <1>1 DEF endSessions
  <2>2. \A c \in Conns : rtc'[c] # "connected"
    BY <1>1
  <2> QED
    BY <2>1, <2>2 DEF Connected
<1> QED
  BY <1>1, <1>3, <1>6, <1>7, <1>8 DEF IInv

\* DeferredPump keeps the invariant.
LEMMA DeferredPumpInv ==
    ASSUME IInv, NEW c \in Conns, NEW gone, DeferredPump(c, gone)
    PROVE  IInv'
<1>0. Typed /\ Fine(tasks, sessions, retired, inbox, native, buried, made)
      /\ \A k \in DOMAIN events : True(events[k], native)
  BY DEF IInv
<1>1. /\ pump(c, tasks, gone) /\ pumps' = pumps \ {c}
      /\ buried' = buried /\ made' = made /\ rtc' = rtc /\ alive' = alive
      /\ events' = events /\ native' = native /\ faults' = faults
  BY DEF DeferredPump
<1>2. Fine(tasks', sessions', retired', inbox', native, buried, made) /\ Narrows
  BY <1>0, <1>1, PumpHolds
<1>3. Fine(tasks', sessions', retired', inbox', native', buried', made')
  BY <1>1, <1>2
<1>4. /\ pumps' \subseteq Conns /\ buried' \subseteq Conns \X Directions \X Nat
      /\ made' \in 0 .. MaxTasks /\ alive' \in BOOLEAN /\ events' \in Seq(Message)
      /\ faults' \in 0 .. MaxFaults
  BY <1>0, <1>1 DEF Typed
<1>5. \A k \in DOMAIN events' : True(events'[k], native')
  BY <1>0, <1>1
<1> QED
  BY <1>1, <1>2, <1>3, <1>4, <1>5, Closing

\* A connected connection has a session, active or retired, so that a transfer
\* is only asked for in an active one (fileTransferReady, beginSession).
LEMMA ReadyHasSession ==
    ASSUME Connected, NEW c \in Conns, fileTransferReady(c), c \in beginSession(c)
    PROVE  c \in sessions /\ beginSession(c) = sessions
BY DEF Connected, fileTransferReady, beginSession

\* StartFileUpload keeps the invariant.
LEMMA StartFileUploadInv ==
    ASSUME IInv, NEW c \in Conns, NEW f \in Files, StartFileUpload(c, f)
    PROVE  IInv'
<1> DEFINE t == [id |-> made + 1, conn |-> c, dir |-> "upload", file |-> f,
                 status |-> "queued", wire |-> Unnamed, asked |-> FALSE, sent |-> FALSE]
<1>0. /\ Typed /\ Fine(tasks, sessions, retired, inbox, native, buried, made) /\ Connected
      /\ \A k \in DOMAIN events : True(events[k], native)
      /\ tasks \in Seq(Task) /\ Limited(tasks)
  BY DEF IInv, Fine, Sound
<1>1. /\ c \in sessions /\ made < MaxTasks /\ made' = made + 1
      /\ pump(c, Append(tasks, t), {})
      /\ ~AlreadyPending(c, f) /\ Cardinality(Pending(c)) < MaxPending
      /\ buried' = buried /\ pumps' = pumps /\ rtc' = rtc /\ alive' = alive
      /\ events' = events /\ native' = native /\ faults' = faults
  BY <1>0, ReadyHasSession DEF StartFileUpload, enqueueUpload
<1>2. made + 1 \in 0 .. MaxTasks /\ made + 1 \in Nat
  BY <1>0, <1>1, TransfersAssumption DEF Typed
<1>3. t \in Task
  BY <1>2 DEF Task, Statuses, Directions, Unnamed
<1>4. /\ t.id = made + 1 /\ t.conn = c /\ t.dir = "upload" /\ t.status = "queued"
      /\ t.wire = Unnamed /\ t.file = f /\ Settled(t)
  BY DEF Settled
<1> HIDE DEF t
<1>5. Sound(Append(tasks, t), sessions, retired, inbox, native, buried, made + 1)
  BY <1>0, <1>1, <1>3, <1>4, QueuedSound DEF Fine
<1>6. Limited(Append(tasks, t))
  <2>1. PendingIn(c, tasks) = Pending(c)
    BY DEF PendingIn, Pending
  <2>2. \A i \in PendingIn(c, tasks) : tasks[i].file # f
    BY <1>1, <2>1 DEF AlreadyPending
  <2> QED
    BY <1>0, <1>1, <1>3, <1>4, <2>1, <2>2, QueuedLimited
<1>7. \A i \in DOMAIN Append(tasks, t) : Settled(Append(tasks, t)[i])
  BY <1>0, <1>3, <1>4, Longer DEF Fine
<1>8. Fine(Append(tasks, t), sessions, retired, inbox, native, buried, made + 1)
  BY <1>5, <1>6, <1>7 DEF Fine
<1>9. Fine(tasks', sessions', retired', inbox', native, buried, made + 1) /\ Narrows
  BY <1>0, <1>1, <1>8, PumpHolds
<1>10. Fine(tasks', sessions', retired', inbox', native', buried', made')
  BY <1>1, <1>9
<1>11. /\ pumps' \subseteq Conns /\ buried' \subseteq Conns \X Directions \X Nat
       /\ made' \in 0 .. MaxTasks /\ alive' \in BOOLEAN /\ events' \in Seq(Message)
       /\ faults' \in 0 .. MaxFaults
  BY <1>0, <1>1, <1>2 DEF Typed
<1>12. \A k \in DOMAIN events' : True(events'[k], native')
  BY <1>0, <1>1
<1> QED
  BY <1>1, <1>9, <1>10, <1>11, <1>12, Closing

\* StartFileDownload keeps the invariant.
LEMMA StartFileDownloadInv ==
    ASSUME IInv, NEW c \in Conns, StartFileDownload(c)
    PROVE  IInv'
<1> DEFINE m == [type |-> "download", conn |-> c, task |-> made + 1]
<1>0. /\ Typed /\ Fine(tasks, sessions, retired, inbox, native, buried, made) /\ Connected
      /\ \A k \in DOMAIN events : True(events[k], native)
  BY DEF IInv
<1>1. /\ c \in sessions /\ made < MaxTasks /\ made' = made + 1
      /\ sessions' = sessions /\ roots' = roots \cup {c} /\ inbox' = Append(inbox, m)
      /\ tasks' = tasks /\ retired' = retired /\ blocked' = blocked
      /\ buried' = buried /\ pumps' = pumps /\ rtc' = rtc /\ alive' = alive
      /\ events' = events /\ native' = native /\ faults' = faults
  BY <1>0, ReadyHasSession DEF StartFileDownload
<1>2. made + 1 \in 0 .. MaxTasks /\ made + 1 \in Nat
  BY <1>0, <1>1, TransfersAssumption DEF Typed
<1>3. m \in Command /\ m.type = "download" /\ m.conn = c
  BY <1>2 DEF Command
<1> HIDE DEF m
<1>4. Sound(tasks, sessions, retired, Append(inbox, m), native, buried, made + 1)
  BY <1>0, <1>1, <1>3, CommandSound, MadeSound DEF Fine
<1>5. Fine(tasks', sessions', retired', inbox', native', buried', made')
  BY <1>0, <1>1, <1>4 DEF Fine
<1>6. Narrows
  BY <1>0, <1>1 DEF Narrows, Typed
<1>7. /\ pumps' \subseteq Conns /\ buried' \subseteq Conns \X Directions \X Nat
      /\ made' \in 0 .. MaxTasks /\ alive' \in BOOLEAN /\ events' \in Seq(Message)
      /\ faults' \in 0 .. MaxFaults
  BY <1>0, <1>1, <1>2 DEF Typed
<1>8. \A k \in DOMAIN events' : True(events'[k], native')
  BY <1>0, <1>1
<1> QED
  BY <1>1, <1>5, <1>6, <1>7, <1>8, Closing

\* Cancel keeps the invariant: a queued upload ends at once, another row asks
\* the native program or waits for its name.
LEMMA CancelInv ==
    ASSUME IInv, NEW i \in DOMAIN tasks, Cancel(i)
    PROVE  IInv'
<1>0. /\ Typed /\ Fine(tasks, sessions, retired, inbox, native, buried, made)
      /\ \A k \in DOMAIN events : True(events[k], native)
      /\ tasks \in Seq(Task) /\ Limited(tasks)
      /\ Sound(tasks, sessions, retired, inbox, native, buried, made)
  BY DEF IInv, Fine, Sound
<1>1. \A j \in DOMAIN tasks : tasks[j] \in Task /\ Settled(tasks[j])
  BY <1>0, Listed DEF Fine
<1>2. /\ made' = made /\ rtc' = rtc /\ alive' = alive /\ events' = events
      /\ native' = native /\ faults' = faults
      /\ tasks[i].status \notin Terminal \cup {"cancelling", "uncertain"}
  BY DEF Cancel
<1>3. tasks[i] \in Task /\ tasks[i].conn \in Conns
  BY <1>1 DEF Task
<1>4. /\ Fine(tasks', sessions', retired', inbox', native, buried', made) /\ Narrows
      /\ pumps' \subseteq Conns /\ buried' \subseteq Conns \X Directions \X Nat
  <2>1. CASE tasks[i].status = "queued"
    <3> DEFINE us == [tasks EXCEPT ![i].status = "cancelled"]
    <3>1. tasks[i].wire = Unnamed
      BY <1>0, <2>1 DEF Sound, Belongs
    <3>2. buried' = buried /\ pumps' = pumps \cup {tasks[i].conn} /\ Nothing(us)
      BY <2>1, <3>1 DEF Cancel, finish
    <3>3. /\ DOMAIN us = DOMAIN tasks /\ us[i] = [tasks[i] EXCEPT !.status = "cancelled"]
          /\ \A j \in DOMAIN tasks : j # i => us[j] = tasks[j]
      OBVIOUS
    <3>4. us[i] \in Task
      BY <1>3, <3>3 DEF Task, Statuses, Terminal
    <3>5. /\ us[i].id = tasks[i].id /\ us[i].conn = tasks[i].conn /\ us[i].dir = tasks[i].dir
          /\ us[i].wire = tasks[i].wire /\ us[i].file = tasks[i].file /\ us[i].status = "cancelled"
      BY <1>3, <3>3 DEF Task
    <3>6. us \in [DOMAIN tasks -> Task]
      <4> SUFFICES ASSUME NEW j \in DOMAIN tasks PROVE us[j] \in Task
        OBVIOUS
      <4> HIDE DEF us
      <4> QED
        BY <1>1, <3>3, <3>4
    <3> HIDE DEF us
    <3>7. Sound(us, sessions, retired, inbox, native, buried, made)
      <4>1. \A j \in DOMAIN tasks : us[j] = tasks[j] \/ Dropped(tasks[j], us[j])
        BY <2>1, <3>3, <3>5 DEF Dropped
      <4> QED
        BY <1>0, <3>6, <4>1, DroppedSound
    <3>8. \A j \in DOMAIN us :
             /\ j \in DOMAIN tasks /\ us[j].conn = tasks[j].conn /\ us[j].dir = tasks[j].dir
             /\ us[j].file = tasks[j].file
             /\ us[j].status \notin Terminal => tasks[j].status \notin Terminal
             /\ Settled(us[j])
      <4>1. Settled(us[i]) /\ us[i].status \in Terminal
        BY <3>5 DEF Settled, Terminal
      <4> QED
        BY <1>1, <3>3, <3>5, <4>1
    <3>9. Fine(us, sessions, retired, inbox, native, buried, made)
      BY <1>0, <3>7, <3>8, RowsFine
    <3>10. Fine(tasks', sessions', retired', inbox', native, buried, made) /\ Narrows
      BY <1>0, <3>2, <3>9, NothingHolds
    <3> QED
      BY <1>0, <1>3, <3>2, <3>10 DEF Typed
  <2>2. CASE tasks[i].status # "queued"
    <3> DEFINE us == [tasks EXCEPT ![i].asked = TRUE, ![i].status = "cancelling"]
    <3>2. buried' = buried /\ pumps' = pumps /\ sendCancel(i, us)
      BY <2>2 DEF Cancel
    <3>3. /\ DOMAIN us = DOMAIN tasks
          /\ us[i] = [[tasks[i] EXCEPT !.asked = TRUE] EXCEPT !.status = "cancelling"]
          /\ \A j \in DOMAIN tasks : j # i => us[j] = tasks[j]
      OBVIOUS
    <3>4. us[i] \in Task
      BY <1>3, <3>3 DEF Task, Statuses
    <3>5. /\ us[i].id = tasks[i].id /\ us[i].conn = tasks[i].conn /\ us[i].dir = tasks[i].dir
          /\ us[i].wire = tasks[i].wire /\ us[i].file = tasks[i].file /\ us[i].status = "cancelling"
      BY <1>3, <3>3 DEF Task
    <3>6. us \in [DOMAIN tasks -> Task]
      <4> SUFFICES ASSUME NEW j \in DOMAIN tasks PROVE us[j] \in Task
        OBVIOUS
      <4> HIDE DEF us
      <4> QED
        BY <1>1, <3>3, <3>4
    <3> HIDE DEF us
    <3>7. Sound(us, sessions, retired, inbox, native, buried, made)
      <4>1. Kept(tasks[i], us[i])
        BY <1>2, <2>2, <3>5 DEF Kept, Terminal
      <4> QED
        BY <1>0, <3>3, <3>6, <4>1, KeptSound
    <3>8. Limited(us)
      <4>1. tasks[i].status \notin Terminal
        BY <1>2
      <4>2. \A j \in DOMAIN us : /\ j \in DOMAIN tasks /\ us[j].conn = tasks[j].conn
                                 /\ us[j].dir = tasks[j].dir /\ us[j].file = tasks[j].file
                                 /\ us[j].status \notin Terminal => tasks[j].status \notin Terminal
        BY <3>3, <3>5, <4>1
      <4> QED
        BY <1>0, <4>2, StillLimited
    <3>9. Owing(i, us, sessions, retired, inbox, native, buried, made)
      BY <1>1, <3>3, <3>7, <3>8 DEF Owing
    <3>10. us[i].status \notin Terminal \cup {"queued"}
      BY <3>5 DEF Terminal
    <3>11. Fine(tasks', sessions', retired', inbox', native, buried, made) /\ Narrows
      BY <1>0, <3>2, <3>3, <3>9, <3>10, CancelHolds
    <3> QED
      BY <1>0, <3>2, <3>11 DEF Typed
  <2> QED
    BY <2>1, <2>2
<1>5. Fine(tasks', sessions', retired', inbox', native', buried', made')
  BY <1>2, <1>4
<1>6. /\ made' \in 0 .. MaxTasks /\ alive' \in BOOLEAN /\ events' \in Seq(Message)
      /\ faults' \in 0 .. MaxFaults
  BY <1>0, <1>2 DEF Typed
<1>7. \A k \in DOMAIN events' : True(events'[k], native')
  BY <1>0, <1>2
<1> QED
  BY <1>2, <1>4, <1>5, <1>6, <1>7, Closing

\* Rows that become uncertain keep their names and their debts
\* (cancellationTimedOut, Uncertain).
LEMMA UncertainFine ==
    ASSUME NEW ts, NEW S, NEW R, NEW box, NEW nat, NEW bur, NEW n,
           Fine(ts, S, R, box, nat, bur, n),
           NEW i \in DOMAIN ts, ts[i].status \notin Terminal \cup {"queued"}
    PROVE  Fine([ts EXCEPT ![i].status = "uncertain"], S, R, box, nat, bur, n)
<1> DEFINE us == [ts EXCEPT ![i].status = "uncertain"]
<1>0. /\ Sound(ts, S, R, box, nat, bur, n) /\ ts \in Seq(Task)
      /\ \A j \in DOMAIN ts : Settled(ts[j])
  BY DEF Fine, Sound
<1>1. \A j \in DOMAIN ts : ts[j] \in Task
  BY <1>0, Listed
<1>2. /\ DOMAIN us = DOMAIN ts /\ us[i] = [ts[i] EXCEPT !.status = "uncertain"]
      /\ \A j \in DOMAIN ts : j # i => us[j] = ts[j]
  OBVIOUS
<1>3. us[i] \in Task
  BY <1>1, <1>2 DEF Task, Statuses
<1>4. /\ us[i].id = ts[i].id /\ us[i].conn = ts[i].conn /\ us[i].dir = ts[i].dir
      /\ us[i].wire = ts[i].wire /\ us[i].file = ts[i].file /\ us[i].status = "uncertain"
      /\ us[i].asked = ts[i].asked /\ us[i].sent = ts[i].sent
  BY <1>1, <1>2 DEF Task
<1>5. us \in [DOMAIN ts -> Task]
  <2> SUFFICES ASSUME NEW j \in DOMAIN ts PROVE us[j] \in Task
    OBVIOUS
  <2> HIDE DEF us
  <2> QED
    BY <1>1, <1>2, <1>3
<1> HIDE DEF us
<1>6. Sound(us, S, R, box, nat, bur, n)
  <2>1. Kept(ts[i], us[i])
    BY <1>4 DEF Kept, Terminal
  <2> QED
    BY <1>0, <1>2, <1>5, <2>1, KeptSound
<1>7. Settled(us[i])
  BY <1>0, <1>4 DEF Settled
<1>8. \A j \in DOMAIN us :
         /\ j \in DOMAIN ts /\ us[j].conn = ts[j].conn /\ us[j].dir = ts[j].dir
         /\ us[j].file = ts[j].file
         /\ us[j].status \notin Terminal => ts[j].status \notin Terminal
         /\ Settled(us[j])
  <2>1. ts[i].status \notin Terminal
    OBVIOUS
  <2> QED
    BY <1>0, <1>2, <1>4, <1>7, <2>1
<1>9. Fine(us, S, R, box, nat, bur, n)
  BY <1>6, <1>8, RowsFine
<1> QED
  BY <1>9 DEF us

\* cancellationTimedOut keeps the invariant.
LEMMA CancellationTimedOutInv ==
    ASSUME IInv, NEW i \in DOMAIN tasks, cancellationTimedOut(i)
    PROVE  IInv'
<1>0. /\ Typed /\ Fine(tasks, sessions, retired, inbox, native, buried, made)
      /\ \A k \in DOMAIN events : True(events[k], native)
  BY DEF IInv
<1>1. /\ tasks[i].status = "cancelling"
      /\ Nothing([tasks EXCEPT ![i].status = "uncertain"])
      /\ buried' = buried /\ pumps' = pumps /\ made' = made /\ rtc' = rtc /\ alive' = alive
      /\ events' = events /\ native' = native /\ faults' = faults
  BY DEF cancellationTimedOut
<1>2. Fine([tasks EXCEPT ![i].status = "uncertain"], sessions, retired, inbox, native, buried, made)
  <2>1. tasks[i].status \notin Terminal \cup {"queued"}
    BY <1>1 DEF Terminal
  <2> QED
    BY <1>0, <2>1, UncertainFine
<1>3. Fine(tasks', sessions', retired', inbox', native, buried, made) /\ Narrows
  BY <1>0, <1>1, <1>2, NothingHolds
<1>4. Fine(tasks', sessions', retired', inbox', native', buried', made')
  BY <1>1, <1>3
<1>5. /\ pumps' \subseteq Conns /\ buried' \subseteq Conns \X Directions \X Nat
      /\ made' \in 0 .. MaxTasks /\ alive' \in BOOLEAN /\ events' \in Seq(Message)
      /\ faults' \in 0 .. MaxFaults
  BY <1>0, <1>1 DEF Typed
<1>6. \A k \in DOMAIN events' : True(events'[k], native')
  BY <1>0, <1>1
<1> QED
  BY <1>1, <1>3, <1>4, <1>5, <1>6, Closing

\* A numbering of as many entries as there are rows numbers every row.
LEMMA Onto ==
    ASSUME NEW K, IsFiniteSet(K), NEW n, n = Cardinality(K), NEW g \in [1 .. n -> K],
           \A j, k \in 1 .. n : g[j] = g[k] => j = k
    PROVE  \A i \in K : \E k \in 1 .. n : g[k] = i
<1>1. n \in Nat
  BY FS_CardinalityType
<1>2. Cardinality(1 .. n) = n
  <2>1. 1 \in Int /\ n \in Int
    BY <1>1
  <2>2. Cardinality(1 .. n) = IF 1 > n THEN 0 ELSE n - 1 + 1
    BY <2>1, FS_Interval
  <2> QED
    BY <1>1, <2>2
<1> DEFINE D == 1 .. n
<1>3. g \in [D -> K] /\ \A j, k \in D : g[j] = g[k] => j = k
  OBVIOUS
<1>4. Cardinality(D) = Cardinality(K)
  BY <1>2
<1> HIDE DEF D
<1>5. g \in Injection(D, K)
  BY <1>3, Fun_IsInj
<1>6. g \in Surjection(D, K)
  BY <1>4, <1>5, FS_Injection
<1>7. \A i \in K : \E k \in D : g[k] = i
  BY <1>6 DEF Surjection
<1> QED
  BY <1>7 DEF D

\* ClearCompleted keeps the invariant: every row that is still wanted stays.
LEMMA ClearCompletedInv ==
    ASSUME IInv, ClearCompleted
    PROVE  IInv'
<1> DEFINE kept == {i \in DOMAIN tasks : tasks[i].status \notin Terminal}
           n == Cardinality(kept)
<1>0. /\ Typed /\ Fine(tasks, sessions, retired, inbox, native, buried, made)
      /\ \A k \in DOMAIN events : True(events[k], native)
      /\ tasks \in Seq(Task) /\ Limited(tasks)
      /\ Sound(tasks, sessions, retired, inbox, native, buried, made)
      /\ \A i \in DOMAIN tasks : Settled(tasks[i])
  BY DEF IInv, Fine, Sound
<1>1. DOMAIN tasks = 1 .. Len(tasks) /\ Len(tasks) \in Nat /\ \A i \in DOMAIN tasks : tasks[i] \in Task
  BY <1>0, Listed
<1>2. IsFiniteSet(kept) /\ n \in Nat /\ IsFiniteSet(1 .. Len(tasks))
  <2>1. kept \subseteq 1 .. Len(tasks) /\ IsFiniteSet(1 .. Len(tasks))
    BY <1>1, FS_Interval
  <2> HIDE DEF kept
  <2> QED
    BY <2>1, FS_Subset, FS_CardinalityType
<1>3. PICK g \in [1 .. n -> kept] :
         /\ \A j, k \in 1 .. n : j < k => g[j] < g[k]
         /\ tasks' = [k \in 1 .. n |-> tasks[g[k]]]
  BY DEF ClearCompleted
<1>4. /\ sessions' = sessions /\ roots' = roots /\ retired' = retired /\ buried' = buried
      /\ blocked' = blocked /\ made' = made /\ pumps' = pumps /\ rtc' = rtc /\ alive' = alive
      /\ inbox' = inbox /\ events' = events /\ native' = native /\ faults' = faults
  BY DEF ClearCompleted, program
<1>5. kept \subseteq DOMAIN tasks /\ \A i \in DOMAIN tasks : tasks[i].status \notin Terminal => i \in kept
  OBVIOUS
<1>6. \A i \in kept : i \in Nat
  BY <1>1
<1> HIDE DEF kept, n
<1>7. \A j, k \in 1 .. n : g[j] = g[k] => j = k
  <2> SUFFICES ASSUME NEW j \in 1 .. n, NEW k \in 1 .. n, g[j] = g[k], j < k \/ k < j
               PROVE  FALSE
    BY <1>2
  <2>1. g[j] \in Nat /\ g[k] \in Nat
    BY <1>6
  <2> QED
    BY <1>3, <2>1
<1>8. \A i \in kept : \E k \in 1 .. n : g[k] = i
  BY <1>2, <1>7, Onto DEF n
<1> DEFINE us == [k \in 1 .. n |-> tasks[g[k]]]
<1>9. us \in Seq(Task) /\ DOMAIN us = 1 .. n /\ \A k \in DOMAIN us : us[k] = tasks[g[k]]
  <2>1. us \in [1 .. n -> Task]
    BY <1>1, <1>5
  <2> QED
    BY <1>2, <2>1, SeqDef
<1> HIDE DEF us
<1>10. g \in [DOMAIN us -> DOMAIN tasks]
  BY <1>5, <1>9
<1>11. Sound(us, sessions, retired, inbox, native, buried, made)
  <2>1. \A i \in DOMAIN tasks : tasks[i].status \notin Terminal => \E k \in DOMAIN us : g[k] = i
    BY <1>5, <1>8, <1>9
  <2>2. \A j, k \in DOMAIN us : g[j] = g[k] => j = k
    BY <1>7, <1>9
  <2>3. Sound(tasks, sessions, retired, inbox, native, buried, made)
    BY <1>0
  <2>4. us \in Seq(Task) /\ \A k \in DOMAIN us : us[k] = tasks[g[k]]
    BY <1>9
  <2>5. Culled(tasks, us, g)
    BY <1>10, <2>1, <2>2, <2>4 DEF Culled
  <2> QED
    BY <2>3, <2>5, ClearedSound
<1>12. Limited(us)
  <2> SUFFICES ASSUME NEW c \in Conns
               PROVE  /\ Cardinality(PendingIn(c, us)) <= MaxPending
                      /\ \A i, j \in PendingIn(c, us) : us[i].file = us[j].file => i = j
    BY DEF Limited
  <2> DEFINE P == PendingIn(c, us)
             Q == PendingIn(c, tasks)
             h == [k \in P |-> g[k]]
  <2>1. P \subseteq 1 .. n /\ \A k \in P : g[k] \in Q /\ us[k].file = tasks[g[k]].file
    BY <1>9, <1>10 DEF PendingIn
  <2>2. Q \subseteq 1 .. Len(tasks)
    BY <1>1 DEF PendingIn
  <2>3. /\ Cardinality(Q) <= MaxPending
        /\ \A i, j \in Q : tasks[i].file = tasks[j].file => i = j
    BY <1>0 DEF Limited
  <2> HIDE DEF P, Q
  <2>4. IsFiniteSet(Q)
    BY <1>2, <2>2, FS_Subset
  <2>5. h \in Injection(P, Q)
    <3>1. h \in [P -> Q]
      BY <2>1
    <3>2. \A j, k \in P : h[j] = h[k] => j = k
      BY <1>7, <2>1
    <3> QED
      BY <3>1, <3>2, Fun_IsInj
  <2> HIDE DEF h
  <2>6. Cardinality(P) <= MaxPending
    <3>1. IsFiniteSet(P) /\ Cardinality(P) <= Cardinality(Q)
      BY <2>4, <2>5, FS_Injection
    <3>2. Cardinality(P) \in Nat /\ Cardinality(Q) \in Nat
      BY <2>4, <3>1, FS_CardinalityType
    <3> QED
      BY <2>3, <3>1, <3>2, TransfersAssumption
  <2>7. \A i, j \in P : us[i].file = us[j].file => i = j
    BY <1>7, <2>1, <2>3
  <2> QED
    BY <2>6, <2>7 DEF P
<1>13. \A k \in DOMAIN us : Settled(us[k])
  BY <1>0, <1>9, <1>10
<1>14. Fine(us, sessions, retired, inbox, native, buried, made)
  BY <1>11, <1>12, <1>13 DEF Fine
<1>15. Fine(tasks', sessions', retired', inbox', native', buried', made')
  BY <1>3, <1>4, <1>14 DEF us
<1>16. Narrows
  BY <1>0, <1>4 DEF Narrows, Typed
<1>17. /\ pumps' \subseteq Conns /\ buried' \subseteq Conns \X Directions \X Nat
       /\ made' \in 0 .. MaxTasks /\ alive' \in BOOLEAN /\ events' \in Seq(Message)
       /\ faults' \in 0 .. MaxFaults
  BY <1>0, <1>4 DEF Typed
<1>18. \A k \in DOMAIN events' : True(events'[k], native')
  BY <1>0, <1>4
<1> QED
  BY <1>4, <1>15, <1>16, <1>17, <1>18, Closing

\* An event reaches the row of its own transfer: by the name, or because the
\* one upload under way is the only one the event can be about
\* (handleMessage).
LEMMA ApplyHolds ==
    ASSUME Typed, Fine(tasks, sessions, retired, inbox, native, buried, made),
           NEW m \in Message, True(m, native), m.conn \in sessions, ~Stale(m),
           NEW i \in Named(m) \cup Adopting(m), Apply(m, i)
    PROVE  /\ Fine(tasks', sessions', retired', inbox', native, buried', made') /\ Narrows
           /\ pumps' \subseteq Conns /\ buried' \subseteq Conns \X Directions \X Nat
           /\ made' = made
<1> DEFINE ts == [tasks EXCEPT ![i].wire = m.wire]
           unnamed == {k \in Dispatched(m.conn, tasks) : tasks[k].wire = Unnamed}
<1>0. /\ tasks \in Seq(Task) /\ Limited(tasks)
      /\ Sound(tasks, sessions, retired, inbox, native, buried, made)
      /\ Linked(tasks, sessions, inbox, native, buried)
      /\ \A j \in DOMAIN tasks : Settled(tasks[j]) /\ Belongs(tasks[j], inbox, native)
      /\ native \in [Directions -> Seq(Transfer)] /\ "upload" \in Directions
  BY DEF Fine, Sound, Directions
<1>1. /\ \A j \in DOMAIN tasks : tasks[j] \in Task /\ j \in Nat
      /\ m.wire \in Nat /\ m.conn \in Conns /\ m.dir \in Directions
      /\ m.type \in {"started", "progress", "complete", "error"}
  BY <1>0, Listed DEF Message
<1>2. /\ i \in DOMAIN tasks /\ tasks[i].conn = m.conn /\ tasks[i].dir = m.dir
      /\ tasks[i].status \notin Terminal \cup {"queued"} /\ m.wire # Unnamed
      /\ tasks[i].wire = m.wire \/ (m.dir = "upload" /\ i \in unnamed)
  <2>1. CASE i \in Named(m)
    BY <2>1 DEF Named
  <2>2. CASE i \notin Named(m)
    <3>1. m.dir = "upload" /\ m.wire # Unnamed /\ unnamed # {} /\ i = First(unnamed)
      BY <2>2 DEF Adopting
    <3>2. unnamed \in SUBSET Nat
      BY <1>1 DEF Dispatched
    <3>3. i \in unnamed
      BY <3>1, <3>2, FirstIsLeast
    <3> QED
      BY <3>1, <3>3 DEF Dispatched
  <2> QED
    BY <2>1, <2>2
<1>3. tasks[i] \in Task
  BY <1>1, <1>2
<1>4. /\ DOMAIN ts = DOMAIN tasks /\ ts[i] = [tasks[i] EXCEPT !.wire = m.wire]
      /\ \A j \in DOMAIN tasks : j # i => ts[j] = tasks[j]
  BY <1>2
<1>5. /\ ts[i].id = tasks[i].id /\ ts[i].conn = tasks[i].conn /\ ts[i].dir = tasks[i].dir
      /\ ts[i].wire = m.wire /\ ts[i].file = tasks[i].file /\ ts[i].status = tasks[i].status
      /\ ts[i].asked = tasks[i].asked /\ ts[i].sent = tasks[i].sent
  BY <1>3, <1>4 DEF Task
<1>6. ts \in [DOMAIN tasks -> Task]
  <2>1. ts[i] \in Task
    BY <1>1, <1>3, <1>4 DEF Task
  <2> SUFFICES ASSUME NEW j \in DOMAIN tasks PROVE ts[j] \in Task
    OBVIOUS
  <2> HIDE DEF ts
  <2> QED
    BY <1>1, <1>4, <2>1
<1>7. Apply(m, i) = (/\ IF m.type \in {"complete", "error"} THEN finish(i, ts, m.type)
                        ELSE /\ IF m.type = "progress" THEN Progress(i, ts) ELSE Nothing(ts)
                             /\ UNCHANGED <<buried, pumps>>
                     /\ UNCHANGED made)
  BY DEF Apply
<1> HIDE DEF ts
<1>8. Sound(ts, sessions, retired, inbox, native, buried, made)
  <2>1. CASE tasks[i].wire = m.wire
    <3>1. Kept(tasks[i], ts[i])
      BY <1>2, <1>5, <2>1 DEF Kept
    <3> QED
      BY <1>0, <1>4, <1>6, <3>1, KeptSound
  <2>2. CASE m.dir = "upload" /\ i \in unnamed
    <3>1. m.wire \in DOMAIN native["upload"] /\ native["upload"][m.wire].conn = m.conn
      BY <1>2, <2>2 DEF True
    <3>2. <<m.conn, "upload", m.wire>> \notin buried
      BY <1>2, <2>2 DEF Stale
    <3>3. PICK x \in DOMAIN tasks : RowOf(tasks[x], native["upload"][m.wire].task, m.conn, m.wire)
      BY <1>0, <3>1, <3>2 DEF Linked
    <3>4. Under(tasks[i]) /\ Under(tasks[x]) /\ tasks[x].conn = tasks[i].conn
      BY <1>2, <2>2, <3>3 DEF Under, RowOf
    <3>5. x = i
      BY <1>0, <1>2, <3>4 DEF Linked
    <3>6. native["upload"][m.wire].task = tasks[i].id
      BY <3>3, <3>5 DEF RowOf
    <3>7. native["upload"][m.wire].conn = tasks[i].conn
      BY <1>2, <3>1
    <3> QED
      <4>1. /\ Sound(tasks, sessions, retired, inbox, native, buried, made)
            /\ i \in DOMAIN tasks /\ Under(tasks[i]) /\ m.wire \in DOMAIN native["upload"]
        BY <1>0, <1>2, <3>1, <3>4
      <4>2. /\ ts[i] = [tasks[i] EXCEPT !.wire = m.wire]
            /\ \A j \in DOMAIN tasks : j # i => ts[j] = tasks[j]
        BY <1>4
      <4> QED
        BY <1>6, <3>6, <3>7, <4>1, <4>2, AdoptedSound
  <2> QED
    BY <1>2, <2>1, <2>2
<1>9. Limited(ts)
  <2>1. \A j \in DOMAIN ts : /\ j \in DOMAIN tasks /\ ts[j].conn = tasks[j].conn
                             /\ ts[j].dir = tasks[j].dir /\ ts[j].file = tasks[j].file
                             /\ ts[j].status = tasks[j].status
    BY <1>4, <1>5
  <2> QED
    BY <1>0, <2>1, StillLimited
<1>10. Owing(i, ts, sessions, retired, inbox, native, buried, made)
  <2>1. \A j \in DOMAIN ts : j # i => Settled(ts[j])
    BY <1>0, <1>4
  <2> QED
    BY <1>8, <1>9, <2>1 DEF Owing
<1>11. i \in DOMAIN ts /\ ts[i].status \notin Terminal \cup {"queued"}
  BY <1>2, <1>4, <1>5
<1>12. made' = made
  BY <1>7
<1>13. CASE m.type \in {"complete", "error"}
  <2>1. finish(i, ts, m.type)
    BY <1>7, <1>13
  <2>2. native[ts[i].dir][ts[i].wire].state = m.type
    BY <1>2, <1>5, <1>13 DEF True
  <2>3. ts[i].wire # Unnamed /\ ts[i].status \notin Terminal
    BY <1>2, <1>5
  <2> QED
    BY <1>10, <1>11, <1>12, <1>13, <2>1, <2>2, <2>3, FinishHolds
<1>14. CASE m.type \notin {"complete", "error"}
  <2>1. /\ IF m.type = "progress" THEN Progress(i, ts) ELSE Nothing(ts)
        /\ buried' = buried /\ pumps' = pumps
    BY <1>7, <1>14
  <2>2. sendCancel(i, ts) \/ (Nothing(ts) /\ Settled(ts[i]))
    <3>1. CASE m.type = "progress" /\ ts[i].asked
      BY <2>1, <3>1 DEF Progress
    <3>2. CASE m.type = "progress" /\ ~ts[i].asked
      BY <2>1, <3>2 DEF Progress, Settled
    <3>3. CASE m.type = "started"
      <4>1. m.dir = "download"
        BY <3>3 DEF True
      <4>2. tasks[i].wire = m.wire
        BY <1>2, <4>1
      <4>3. Settled(ts[i])
        BY <1>0, <1>2, <1>5, <4>2 DEF Settled
      <4> QED
        BY <2>1, <3>3, <4>3
    <3> QED
      BY <1>1, <1>14, <3>1, <3>2, <3>3
  <2>3. Fine(tasks', sessions', retired', inbox', native, buried, made) /\ Narrows
    <3>1. CASE sendCancel(i, ts)
      BY <1>10, <1>11, <3>1, CancelHolds
    <3>2. CASE Nothing(ts) /\ Settled(ts[i])
      <4>1. Fine(ts, sessions, retired, inbox, native, buried, made)
        BY <1>10, <3>2 DEF Owing, Fine
      <4> QED
        BY <3>2, <4>1, NothingHolds
    <3> QED
      BY <2>2, <3>1, <3>2
  <2> QED
    BY <1>12, <2>1, <2>3 DEF Typed
<1> QED
  BY <1>13, <1>14

\* A download that was asked for is announced, and has no row yet (NewDownload).
LEMMA NewDownloadHolds ==
    ASSUME Typed, Fine(tasks, sessions, retired, inbox, native, buried, made),
           NEW m \in Message, True(m, native), m.conn \in sessions, ~Stale(m),
           m.type = "started", m.wire # Unnamed, Named(m) = {}, NewDownload(m)
    PROVE  /\ Fine(tasks', sessions', retired', inbox', native, buried', made') /\ Narrows
           /\ pumps' = pumps /\ buried' = buried /\ made' = made
<1> DEFINE t == [id |-> native["download"][m.wire].task, conn |-> m.conn,
                 dir |-> "download", file |-> CHOOSE f \in Files : TRUE,
                 status |-> "downloading", wire |-> m.wire, asked |-> FALSE, sent |-> FALSE]
<1>0. /\ tasks \in Seq(Task) /\ Limited(tasks)
      /\ Sound(tasks, sessions, retired, inbox, native, buried, made)
      /\ native \in [Directions -> Seq(Transfer)] /\ "download" \in Directions
      /\ \A j \in DOMAIN tasks : Settled(tasks[j]) /\ Belongs(tasks[j], inbox, native)
  BY DEF Fine, Sound, Directions
<1>1. /\ Nothing(Append(tasks, t)) /\ buried' = buried /\ pumps' = pumps /\ made' = made
  BY DEF NewDownload
<1>2. /\ m.dir = "download" /\ m.wire \in DOMAIN native["download"]
      /\ native["download"][m.wire].conn = m.conn
  BY DEF True
<1>3. native["download"][m.wire].task \in Nat
  <2>1. native["download"] \in Seq(Transfer)
    BY <1>0
  <2>2. native["download"][m.wire] \in Transfer
    BY <1>2, <2>1, Listed
  <2> QED
    BY <2>2 DEF Transfer
<1>4. t \in Task
  <2>1. (CHOOSE f \in Files : TRUE) \in Files
    BY TransfersAssumption
  <2>2. m.conn \in Conns /\ m.wire \in Nat
    BY DEF Message
  <2> QED
    BY <1>0, <1>3, <2>1, <2>2 DEF Task, Statuses
<1>5. /\ t.dir = "download" /\ t.status = "downloading" /\ t.conn = m.conn /\ t.wire = m.wire
      /\ t.id = native["download"][m.wire].task /\ ~t.asked
  OBVIOUS
<1> HIDE DEF t
<1>6. \A i \in DOMAIN tasks :
         tasks[i].dir = "download" /\ tasks[i].conn = t.conn /\ tasks[i].status \notin Terminal =>
            tasks[i].wire # t.wire
  <2> SUFFICES ASSUME NEW i \in DOMAIN tasks, tasks[i].dir = "download",
                      tasks[i].conn = m.conn, tasks[i].status \notin Terminal,
                      tasks[i].wire = m.wire
               PROVE  FALSE
    BY <1>5
  <2>1. tasks[i].status # "queued"
    BY <1>0 DEF Belongs
  <2>2. i \in Named(m)
    BY <1>2, <2>1 DEF Named
  <2> QED
    BY <2>2
<1>7. <<t.conn, "download", t.wire>> \notin buried
  BY <1>2, <1>5 DEF Stale
<1>8. Sound(Append(tasks, t), sessions, retired, inbox, native, buried, made)
  BY <1>0, <1>2, <1>4, <1>5, <1>6, <1>7, AnnouncedSound
<1>9. /\ DOMAIN Append(tasks, t) = DOMAIN tasks \cup {Len(tasks) + 1}
      /\ Append(tasks, t)[Len(tasks) + 1] = t
      /\ \A i \in DOMAIN tasks : Append(tasks, t)[i] = tasks[i]
  BY <1>0, <1>4, Longer
<1>10. Limited(Append(tasks, t))
  BY <1>0, <1>5, <1>9, StillLimited
<1>11. \A i \in DOMAIN Append(tasks, t) : Settled(Append(tasks, t)[i])
  BY <1>0, <1>5, <1>9 DEF Settled
<1>12. Fine(Append(tasks, t), sessions, retired, inbox, native, buried, made)
  BY <1>8, <1>10, <1>11 DEF Fine
<1>13. Fine(tasks', sessions', retired', inbox', native, buried, made) /\ Narrows
  BY <1>1, <1>12, NothingHolds
<1> QED
  BY <1>1, <1>13

\* An upload may have ended and nobody knows which: the row keeps its place
\* (Uncertain).
LEMMA UncertainHolds ==
    ASSUME Typed, Fine(tasks, sessions, retired, inbox, native, buried, made),
           NEW m \in Message, Uncertain(m)
    PROVE  /\ Fine(tasks', sessions', retired', inbox', native, buried', made') /\ Narrows
           /\ pumps' = pumps /\ buried' = buried /\ made' = made
<1> DEFINE hit == Dispatched(m.conn, tasks)
<1>1. /\ sessions' = sessions /\ roots' = roots /\ retired' = retired /\ buried' = buried
      /\ made' = made /\ pumps' = pumps /\ inbox' = inbox
  BY DEF Uncertain
<1>2. Fine(tasks', sessions, retired, inbox, native, buried, made) /\ blocked' \subseteq Conns
  <2>1. CASE m.type \in {"complete", "error"} /\ hit # {}
    <3>1. /\ tasks' = [tasks EXCEPT ![First(hit)].status = "uncertain"]
          /\ blocked' = blocked \cup {m.conn} /\ m.conn \in Conns
      BY <2>1 DEF Uncertain, Message
    <3>2. hit \in SUBSET Nat
      <4>1. tasks \in Seq(Task)
        BY DEF Fine, Sound
      <4> QED
        BY <4>1, Listed DEF Dispatched
    <3>3. First(hit) \in hit
      BY <2>1, <3>2, FirstIsLeast
    <3>4. First(hit) \in DOMAIN tasks /\ tasks[First(hit)].status \notin Terminal \cup {"queued"}
      BY <3>3 DEF Dispatched
    <3>5. Fine(tasks', sessions, retired, inbox, native, buried, made)
      BY <3>1, <3>4, UncertainFine
    <3> QED
      BY <3>1, <3>5 DEF Typed
  <2>2. CASE ~(m.type \in {"complete", "error"} /\ hit # {})
    <3>1. tasks' = tasks /\ blocked' = blocked
      BY <2>2 DEF Uncertain
    <3> QED
      BY <3>1 DEF Typed
  <2> QED
    BY <2>1, <2>2
<1>3. Narrows
  BY <1>1, <1>2 DEF Narrows, Typed
<1> QED
  BY <1>1, <1>2, <1>3

\* HandleMessage keeps the invariant.
LEMMA HandleMessageInv ==
    ASSUME IInv, HandleMessage
    PROVE  IInv'
<1> DEFINE m == Head(events)
           target == Named(m) \cup Adopting(m)
<1>0. /\ Typed /\ Fine(tasks, sessions, retired, inbox, native, buried, made)
      /\ \A k \in DOMAIN events : True(events[k], native)
      /\ events \in Seq(Message)
  BY DEF IInv, Typed
<1>1. /\ events # <<>> /\ events' = Tail(events)
      /\ rtc' = rtc /\ alive' = alive /\ native' = native /\ faults' = faults
  BY DEF HandleMessage
<1>2. /\ Tail(events) \in Seq(Message) /\ m \in Message /\ m = events[1] /\ 1 \in DOMAIN events
      /\ \A k \in DOMAIN Tail(events) : k + 1 \in DOMAIN events /\ Tail(events)[k] = events[k + 1]
  BY <1>0, <1>1, Shorter
<1>3. True(m, native)
  BY <1>0, <1>2
<1>4. IF m.conn \notin sessions \/ Stale(m) THEN UNCHANGED <<queue, pumps, inbox>>
      ELSE IF m.dir = "upload" /\ m.wire = Unnamed THEN Uncertain(m)
      ELSE IF target # {} THEN Apply(m, First(target))
      ELSE IF m.type = "started" /\ m.wire # Unnamed /\ m.conn \in roots
      THEN NewDownload(m)
      ELSE UNCHANGED <<queue, pumps, inbox>>
  BY DEF HandleMessage
<1>5. target \in SUBSET Nat
  <2>1. DOMAIN tasks \subseteq Nat
    <3>1. tasks \in Seq(Task)
      BY <1>0 DEF Fine, Sound
    <3> QED
      BY <3>1, Listed
  <2>2. Named(m) \subseteq Nat
    BY <2>1 DEF Named
  <2>3. Adopting(m) \subseteq Nat
    <3> DEFINE unnamed == {k \in Dispatched(m.conn, tasks) : tasks[k].wire = Unnamed}
    <3>1. unnamed \in SUBSET Nat
      BY <2>1 DEF Dispatched
    <3>2. unnamed # {} => First(unnamed) \in Nat
      BY <3>1, FirstIsLeast
    <3> QED
      BY <3>2 DEF Adopting
  <2> QED
    BY <2>2, <2>3
<1>6. /\ Fine(tasks', sessions', retired', inbox', native, buried', made') /\ Narrows
      /\ pumps' \subseteq Conns /\ buried' \subseteq Conns \X Directions \X Nat
      /\ made' = made
  <2>1. CASE UNCHANGED <<queue, pumps, inbox>>
    <3>1. /\ tasks' = tasks /\ sessions' = sessions /\ roots' = roots /\ retired' = retired
          /\ buried' = buried /\ blocked' = blocked /\ made' = made /\ pumps' = pumps
          /\ inbox' = inbox
      BY <2>1 DEF queue
    <3> QED
      BY <1>0, <3>1 DEF Narrows, Typed
  <2>2. CASE Uncertain(m)
    <3>1. /\ Fine(tasks', sessions', retired', inbox', native, buried', made') /\ Narrows
          /\ pumps' = pumps /\ buried' = buried /\ made' = made
      BY <1>0, <1>2, <2>2, UncertainHolds
    <3> QED
      BY <1>0, <3>1 DEF Typed
  <2>3. CASE m.conn \in sessions /\ ~Stale(m) /\ target # {} /\ Apply(m, First(target))
    <3>1. First(target) \in target
      BY <1>5, <2>3, FirstIsLeast
    <3> HIDE DEF m
    <3> QED
      BY <1>0, <1>2, <1>3, <2>3, <3>1, ApplyHolds
  <2>4. CASE /\ m.conn \in sessions /\ ~Stale(m) /\ target = {}
             /\ m.type = "started" /\ m.wire # Unnamed /\ NewDownload(m)
    <3>1. Named(m) = {}
      BY <2>4
    <3>2. /\ Fine(tasks', sessions', retired', inbox', native, buried', made') /\ Narrows
          /\ pumps' = pumps /\ buried' = buried /\ made' = made
      BY <1>0, <1>2, <1>3, <2>4, <3>1, NewDownloadHolds
    <3> QED
      BY <1>0, <3>2 DEF Typed
  <2> HIDE DEF m, target
  <2> QED
    BY <1>4, <2>1, <2>2, <2>3, <2>4
<1>7. Fine(tasks', sessions', retired', inbox', native', buried', made')
  BY <1>1, <1>6
<1>8. /\ made' \in 0 .. MaxTasks /\ alive' \in BOOLEAN /\ events' \in Seq(Message)
      /\ faults' \in 0 .. MaxFaults
  BY <1>0, <1>1, <1>2, <1>6 DEF Typed
<1>9. \A k \in DOMAIN events' : True(events'[k], native')
  BY <1>0, <1>1, <1>2
<1> QED
  BY <1>1, <1>6, <1>7, <1>8, <1>9, Closing

(***************************************************************************)
(* The steps of the native program.                                        *)
(***************************************************************************)
\* One transfer of the native program goes on (Takes, Tells, Ends).
LEMMA OneGoesOn ==
    ASSUME NEW nat \in [Directions -> Seq(Transfer)], NEW d \in Directions,
           NEW k \in DOMAIN nat[d], NEW t \in Transfer,
           t.conn = nat[d][k].conn, t.task = nat[d][k].task,
           nat[d][k].state # "running" => t.state = nat[d][k].state
    PROVE  /\ GoesOn(nat, [nat EXCEPT ![d] = [nat[d] EXCEPT ![k] = t]])
           /\ [nat EXCEPT ![d] = [nat[d] EXCEPT ![k] = t]][d][k] = t
<1> DEFINE s == [nat[d] EXCEPT ![k] = t]
           new == [nat EXCEPT ![d] = s]
<1>1. nat[d] \in Seq(Transfer)
  OBVIOUS
<1>2. \A l \in DOMAIN nat[d] : nat[d][l] \in Transfer
  BY <1>1, Listed
<1>3. DOMAIN s = DOMAIN nat[d] /\ s[k] = t /\ \A l \in DOMAIN nat[d] : l # k => s[l] = nat[d][l]
  OBVIOUS
<1>4. s \in [DOMAIN nat[d] -> Transfer]
  BY <1>2
<1> HIDE DEF s
<1>5. s \in Seq(Transfer)
  BY <1>1, <1>4, Listed
<1>6. new \in [Directions -> Seq(Transfer)] /\ new[d] = s
      /\ \A e \in Directions : e # d => new[e] = nat[e]
  BY <1>5
<1> HIDE DEF new
<1>7. \A e \in Directions : \A l \in DOMAIN nat[e] :
         /\ new[e][l].conn = nat[e][l].conn /\ new[e][l].task = nat[e][l].task
         /\ nat[e][l].state # "running" => new[e][l].state = nat[e][l].state
  BY <1>3, <1>6
<1>8. \A e \in Directions : DOMAIN new[e] = DOMAIN nat[e]
  BY <1>3, <1>6
<1>9. GoesOn(nat, new)
  BY <1>6, <1>7, <1>8 DEF GoesOn
<1> QED
  BY <1>3, <1>6, <1>9 DEF new, s

\* What an event of the native program says (Event).
LEMMA EventSays ==
    ASSUME tasks \in Seq(Task), native \in [Directions -> Seq(Transfer)],
           NEW d \in Directions, NEW n \in DOMAIN native[d], NEW named \in BOOLEAN,
           NEW type \in {"started", "progress", "complete", "error"}
    PROVE  LET m == Event(type, d, n, named)
           IN  /\ m \in Message
               /\ m.type = type /\ m.conn = native[d][n].conn /\ m.dir = d
               /\ m.wire \in {n, Unnamed}
<1>1. n \in Nat /\ native[d][n].conn \in Conns
  <2>1. native[d] \in Seq(Transfer)
    OBVIOUS
  <2>2. native[d][n] \in Transfer /\ n \in Nat
    BY <2>1, Listed
  <2> QED
    BY <2>2 DEF Transfer
<1>2. NameOf(d, n) \in {FileName[f] : f \in Files}
  <2>1. (CHOOSE f \in Files : TRUE) \in Files
    BY TransfersAssumption
  <2>2. ASSUME NEW x, \E i \in DOMAIN tasks : tasks[i].id = x
        PROVE  tasks[CHOOSE i \in DOMAIN tasks : tasks[i].id = x].file \in Files
    <3>1. (CHOOSE i \in DOMAIN tasks : tasks[i].id = x) \in DOMAIN tasks
      BY <2>2
    <3>2. tasks[CHOOSE i \in DOMAIN tasks : tasks[i].id = x] \in Task
      BY <3>1, Listed
    <3> QED
      BY <3>2 DEF Task
  <2> QED
    BY <2>1, <2>2 DEF NameOf
<1>3. (IF named THEN n ELSE Unnamed) \in Nat /\ (IF named THEN n ELSE Unnamed) \in {n, Unnamed}
  BY <1>1 DEF Unnamed
<1> DEFINE w == IF named THEN n ELSE Unnamed
           m == [type |-> type, conn |-> native[d][n].conn, dir |-> d, wire |-> w,
                 name |-> NameOf(d, n)]
<1>4. Event(type, d, n, named) = m
  BY DEF Event
<1>5. w \in Nat /\ w \in {n, Unnamed}
  BY <1>3
<1> HIDE DEF w
<1>6. m \in Message /\ m.type = type /\ m.conn = native[d][n].conn /\ m.dir = d
      /\ m.wire \in {n, Unnamed}
  BY <1>1, <1>2, <1>5 DEF Message
<1> HIDE DEF m
<1> QED
  BY <1>4, <1>6

\* What a step of the native program that reads no command owes.
LEMMA NativeClosing ==
    ASSUME IInv, NEW m \in Message, UNCHANGED <<queue, pumps, rtc, alive, inbox>>,
           native' = native \/ GoesOn(native, native'), events' = Append(events, m),
           True(m, native'), faults' \in 0 .. MaxFaults
    PROVE  IInv'
<1>0. /\ Typed /\ Fine(tasks, sessions, retired, inbox, native, buried, made)
      /\ \A k \in DOMAIN events : events[k] \in Message /\ True(events[k], native)
      /\ events \in Seq(Message)
  <2>1. events \in Seq(Message)
    BY DEF IInv, Typed
  <2> QED
    BY <2>1, Listed DEF IInv
<1>1. /\ tasks' = tasks /\ sessions' = sessions /\ roots' = roots /\ retired' = retired
      /\ buried' = buried /\ blocked' = blocked /\ made' = made /\ pumps' = pumps
      /\ inbox' = inbox /\ rtc' = rtc /\ alive' = alive
  BY DEF queue
<1>2. /\ Fine(tasks, sessions, retired, inbox, native', buried, made)
      /\ \A x \in Message : True(x, native) => True(x, native')
  <2>1. CASE native' = native
    BY <1>0, <2>1
  <2>2. CASE GoesOn(native, native')
    BY <1>0, <2>2, GoesOnFine
  <2> QED
    BY <2>1, <2>2
<1>3. Fine(tasks', sessions', retired', inbox', native', buried', made')
  BY <1>1, <1>2
<1>4. Narrows
  BY <1>0, <1>1 DEF Narrows, Typed
<1>5. events' \in Seq(Message) /\ \A k \in DOMAIN events' : True(events'[k], native')
  BY <1>0, <1>2, Longer
<1>6. /\ pumps' \subseteq Conns /\ buried' \subseteq Conns \X Directions \X Nat
      /\ made' \in 0 .. MaxTasks /\ alive' \in BOOLEAN
  BY <1>0, <1>1 DEF Typed
<1> QED
  BY <1>1, <1>3, <1>4, <1>5, <1>6, Closing

\* Tells keeps the invariant.
LEMMA TellsInv ==
    ASSUME IInv, NEW d \in Directions, NEW n \in DOMAIN native[d], Tells(d, n)
    PROVE  IInv'
<1> DEFINE t == [native[d][n] EXCEPT !.told = TRUE]
           m == Event("progress", d, n, TRUE)
<1>0. Typed /\ tasks \in Seq(Task) /\ native \in [Directions -> Seq(Transfer)]
  BY DEF IInv, Fine, Sound
<1>1. /\ native' = [native EXCEPT ![d] = [native[d] EXCEPT ![n] = t]]
      /\ events' = Append(events, m)
      /\ UNCHANGED <<queue, pumps, rtc, alive, inbox>> /\ faults' = faults
  BY DEF Tells
<1>2. native[d][n] \in Transfer
  <2>1. native[d] \in Seq(Transfer)
    BY <1>0
  <2> QED
    BY <2>1, Listed
<1>3. /\ t \in Transfer /\ t.conn = native[d][n].conn /\ t.task = native[d][n].task
      /\ t.state = native[d][n].state
  BY <1>2 DEF Transfer
<1> HIDE DEF t
<1>4. GoesOn(native, native') /\ native'[d][n] = t
  BY <1>0, <1>1, <1>3, OneGoesOn
<1>5. m \in Message /\ m.type = "progress" /\ m.conn = native[d][n].conn /\ m.dir = d
      /\ m.wire \in {n, Unnamed}
  <2> DEFINE named == TRUE
  <2>1. named \in BOOLEAN /\ m = Event("progress", d, n, named)
    OBVIOUS
  <2> HIDE DEF m, named
  <2> QED
    BY <1>0, <2>1, EventSays
<1> HIDE DEF m
<1>6. True(m, native')
  BY <1>3, <1>4, <1>5 DEF True, GoesOn
<1>7. faults' \in 0 .. MaxFaults
  BY <1>0, <1>1 DEF Typed
<1> QED
  BY <1>1, <1>4, <1>5, <1>6, <1>7, NativeClosing

\* Ends keeps the invariant: the event comes after the end.
LEMMA EndsInv ==
    ASSUME IInv, NEW d \in Directions, NEW n \in DOMAIN native[d],
           NEW state \in {"complete", "error"}, NEW named \in BOOLEAN, Ends(d, n, state, named)
    PROVE  IInv'
<1> DEFINE t == [native[d][n] EXCEPT !.state = state]
           m == Event(state, d, n, named)
<1>0. Typed /\ tasks \in Seq(Task) /\ native \in [Directions -> Seq(Transfer)]
  BY DEF IInv, Fine, Sound
<1>1. /\ native' = [native EXCEPT ![d] = [native[d] EXCEPT ![n] = t]]
      /\ events' = Append(events, m) /\ native[d][n].state = "running"
      /\ UNCHANGED <<queue, pumps, rtc, alive, inbox>>
  BY DEF Ends
<1>2. native[d][n] \in Transfer
  <2>1. native[d] \in Seq(Transfer)
    BY <1>0
  <2> QED
    BY <2>1, Listed
<1>3. /\ t \in Transfer /\ t.conn = native[d][n].conn /\ t.task = native[d][n].task
      /\ t.state = state
  BY <1>2 DEF Transfer
<1> HIDE DEF t
<1>4. GoesOn(native, native') /\ native'[d][n] = t
  BY <1>0, <1>1, <1>3, OneGoesOn
<1>5. m \in Message /\ m.type = state /\ m.conn = native[d][n].conn /\ m.dir = d
      /\ m.wire \in {n, Unnamed}
  BY <1>0, EventSays
<1> HIDE DEF m
<1>6. True(m, native')
  BY <1>3, <1>4, <1>5 DEF True, GoesOn
<1>7. faults' \in 0 .. MaxFaults
  <2>1. faults' = faults \/ Fault
    BY DEF Ends
  <2> QED
    BY <1>0, <2>1, FaultBound DEF Typed
<1> QED
  BY <1>1, <1>4, <1>5, <1>6, <1>7, NativeClosing

\* Repeats keeps the invariant.
LEMMA RepeatsInv ==
    ASSUME IInv, NEW d \in Directions, NEW n \in DOMAIN native[d],
           NEW type \in {"started", "progress", "complete", "error"}, Repeats(d, n, type)
    PROVE  IInv'
<1> DEFINE m == Event(type, d, n, TRUE)
<1>0. Typed /\ tasks \in Seq(Task) /\ native \in [Directions -> Seq(Transfer)]
  BY DEF IInv, Fine, Sound
<1>1. /\ native' = native /\ events' = Append(events, m) /\ Fault
      /\ type \in {"progress", native[d][n].state}
                  \cup (IF d = "download" THEN {"started"} ELSE {})
      /\ UNCHANGED <<queue, pumps, rtc, alive, inbox>>
  BY DEF Repeats
<1>2. native[d][n].state \in {"running", "complete", "error"}
  <2>1. native[d] \in Seq(Transfer)
    BY <1>0
  <2>2. native[d][n] \in Transfer
    BY <2>1, Listed
  <2> QED
    BY <2>2 DEF Transfer
<1>3. m \in Message /\ m.type = type /\ m.conn = native[d][n].conn /\ m.dir = d
      /\ m.wire \in {n, Unnamed}
  <2> DEFINE named == TRUE
  <2>1. named \in BOOLEAN /\ m = Event(type, d, n, named)
    OBVIOUS
  <2> HIDE DEF m, named
  <2> QED
    BY <1>0, <2>1, EventSays
<1> HIDE DEF m
<1>4. type \in {"complete", "error"} => native[d][n].state = type
  BY <1>1
<1>5. type = "started" => d = "download"
  BY <1>1, <1>2
<1>6. True(m, native')
  BY <1>1, <1>3, <1>4, <1>5 DEF True
<1>7. faults' \in 0 .. MaxFaults
  BY <1>0, <1>1, FaultBound
<1> QED
  BY <1>1, <1>3, <1>6, <1>7, NativeClosing

\* Dies, and a step in which nothing happens, keep the invariant.
LEMMA DiesInv ==
    ASSUME IInv, Dies \/ UNCHANGED vars
    PROVE  IInv'
<1>0. /\ Typed /\ Fine(tasks, sessions, retired, inbox, native, buried, made)
      /\ \A k \in DOMAIN events : True(events[k], native)
  BY DEF IInv
<1>1. /\ tasks' = tasks /\ sessions' = sessions /\ roots' = roots /\ retired' = retired
      /\ buried' = buried /\ blocked' = blocked /\ made' = made /\ pumps' = pumps
      /\ inbox' = inbox /\ rtc' = rtc /\ events' = events /\ native' = native
      /\ alive' = FALSE \/ alive' = alive
  BY DEF Dies, queue, vars
<1>2. faults' \in 0 .. MaxFaults
  <2>1. faults' = faults \/ Fault
    BY DEF Dies, vars
  <2> QED
    BY <1>0, <2>1, FaultBound DEF Typed
<1>3. Fine(tasks', sessions', retired', inbox', native', buried', made')
  BY <1>0, <1>1
<1>4. Narrows
  BY <1>0, <1>1 DEF Narrows, Typed
<1>5. alive' \in BOOLEAN
  BY <1>0, <1>1 DEF Typed
<1>6. /\ pumps' \subseteq Conns /\ buried' \subseteq Conns \X Directions \X Nat
      /\ made' \in 0 .. MaxTasks /\ events' \in Seq(Message)
  BY <1>0, <1>1 DEF Typed
<1>7. \A k \in DOMAIN events' : True(events'[k], native')
  BY <1>0, <1>1
<1> QED
  BY <1>1, <1>2, <1>3, <1>4, <1>5, <1>6, <1>7, Closing

\* Takes keeps the invariant: the command that is read becomes a transfer, or
\* finds its connection gone.
LEMMA TakesInv ==
    ASSUME IInv, Takes
    PROVE  IInv'
<1> DEFINE m == Head(inbox)
           t == [conn |-> m.conn, task |-> m.task, state |-> "running",
                 told |-> m.type = "download", asked |-> FALSE]
           e == [type |-> "started", conn |-> m.conn, dir |-> "download",
                 wire |-> Len(native["download"]) + 1,
                 name |-> FileName[CHOOSE f \in Files : TRUE]]
<1>0. /\ Typed /\ Fine(tasks, sessions, retired, inbox, native, buried, made)
      /\ Sound(tasks, sessions, retired, inbox, native, buried, made)
      /\ events \in Seq(Message) /\ \A k \in DOMAIN events : True(events[k], native)
      /\ inbox \in Seq(Command) /\ native \in [Directions -> Seq(Transfer)]
      /\ "upload" \in Directions /\ "download" \in Directions
  BY DEF IInv, Typed, Fine, Sound, Directions
<1>1. /\ inbox # <<>> /\ inbox' = Tail(inbox)
      /\ CASE m.type # "cancel" /\ rtc[m.conn] = "gone" -> UNCHANGED <<native, events>>
           [] m.type = "upload" /\ rtc[m.conn] # "gone" ->
                native' = [native EXCEPT !["upload"] = Append(@, t)] /\ events' = events
           [] m.type = "download" /\ rtc[m.conn] # "gone" ->
                /\ native' = [native EXCEPT !["download"] = Append(@, t)]
                /\ events' = Append(events, e)
           [] m.type = "cancel" ->
                native' = [native EXCEPT ![m.dir][m.wire].asked = TRUE] /\ events' = events
      /\ tasks' = tasks /\ sessions' = sessions /\ roots' = roots /\ retired' = retired
      /\ buried' = buried /\ blocked' = blocked /\ made' = made /\ pumps' = pumps
      /\ rtc' = rtc /\ alive' = alive /\ faults' = faults
  BY DEF Takes, queue
<1>2. /\ m \in Command /\ Tail(inbox) \in Seq(Command)
      /\ \A k \in DOMAIN Tail(inbox) : /\ k \in Nat /\ k + 1 \in DOMAIN inbox
                                       /\ Tail(inbox)[k] = inbox[k + 1]
  BY <1>0, <1>1, Shorter
<1>3. \A k \in DOMAIN events : events[k] \in Message
  BY <1>0, Listed
<1>4. Fine(tasks, sessions, retired, Tail(inbox), native, buried, made)
  <2>1. Sound(tasks, sessions, retired, Tail(inbox), native, buried, made)
    BY <1>0, <1>2, ReadSound
  <2> QED
    BY <1>0, <2>1 DEF Fine
<1>5. m.type # "cancel" => /\ t \in Transfer /\ t.conn = m.conn /\ t.task = m.task
                           /\ t.state = "running" /\ m.conn \in Conns
  <2> SUFFICES ASSUME m.type # "cancel"
               PROVE  /\ t \in Transfer /\ t.conn = m.conn /\ t.task = m.task
                      /\ t.state = "running" /\ m.conn \in Conns
    OBVIOUS
  <2>1. m.conn \in Conns /\ m.task \in Nat
    BY <1>2 DEF Command
  <2>2. (m.type = "download") \in BOOLEAN
    OBVIOUS
  <2> QED
    BY <2>1, <2>2 DEF Transfer
<1>6. /\ Fine(tasks, sessions, retired, Tail(inbox), native', buried, made)
      /\ events' \in Seq(Message) /\ \A k \in DOMAIN events' : True(events'[k], native')
  <2>1. CASE UNCHANGED <<native, events>>
    BY <1>0, <1>4, <2>1
  <2>2. CASE m.type = "upload" /\ native' = [native EXCEPT !["upload"] = Append(@, t)]
             /\ events' = events
    <3> HIDE DEF t
    <3>1. native' = [native EXCEPT !["upload"] = Append(native["upload"], t)]
      BY <2>2
    <3>2. /\ Sound(tasks, sessions, retired, Tail(inbox), native', buried, made)
          /\ \A d \in Directions : \A k \in DOMAIN native[d] :
                k \in DOMAIN native'[d] /\ native'[d][k] = native[d][k]
      <4> DEFINE way == "upload"
      <4>1. /\ Sound(tasks, sessions, retired, inbox, native, buried, made)
            /\ inbox # <<>> /\ Head(inbox).type # "cancel" /\ way \in Directions
            /\ way = Head(inbox).type
        BY <1>0, <1>1, <2>2
      <4>2. /\ t \in Transfer /\ t.conn = Head(inbox).conn /\ t.task = Head(inbox).task
            /\ t.state = "running"
        BY <1>5, <2>2
      <4>3. native' = [native EXCEPT ![way] = Append(native[way], t)]
        BY <3>1
      <4>5. Starts(inbox, native, way, t, native')
        BY <4>1, <4>2, <4>3 DEF Starts
      <4> HIDE DEF m, way
      <4> QED
        BY <4>1, <4>5, StartedSound
    <3>3. \A x \in Message : True(x, native) => True(x, native')
      BY <3>2, StaysTrue
    <3>4. Fine(tasks, sessions, retired, Tail(inbox), native', buried, made)
      BY <1>4, <3>2 DEF Fine
    <3> QED
      BY <1>0, <1>3, <2>2, <3>3, <3>4
  <2>3. CASE m.type = "download" /\ native' = [native EXCEPT !["download"] = Append(@, t)]
             /\ events' = Append(events, e)
    <3>0. /\ e.type = "started" /\ e.conn = m.conn /\ e.dir = "download"
          /\ e.wire = Len(native["download"]) + 1
      OBVIOUS
    <3>1. native' = [native EXCEPT !["download"] = Append(native["download"], t)]
      BY <2>3
    <3> HIDE DEF t
    <3>2. /\ Sound(tasks, sessions, retired, Tail(inbox), native', buried, made)
          /\ \A d \in Directions : \A k \in DOMAIN native[d] :
                k \in DOMAIN native'[d] /\ native'[d][k] = native[d][k]
          /\ e.wire \in DOMAIN native'["download"] /\ native'["download"][e.wire] = t
          /\ e.wire \in Nat
      <4> DEFINE way == "download"
      <4>1. /\ Sound(tasks, sessions, retired, inbox, native, buried, made)
            /\ inbox # <<>> /\ Head(inbox).type # "cancel" /\ way \in Directions
            /\ way = Head(inbox).type
        BY <1>0, <1>1, <2>3
      <4>2. /\ t \in Transfer /\ t.conn = Head(inbox).conn /\ t.task = Head(inbox).task
            /\ t.state = "running"
        BY <1>5, <2>3
      <4>3. native' = [native EXCEPT ![way] = Append(native[way], t)]
        BY <3>1
      <4>4. "download" = way
        OBVIOUS
      <4>5. Starts(inbox, native, way, t, native')
        BY <4>1, <4>2, <4>3 DEF Starts
      <4> HIDE DEF m, e, way
      <4>6. /\ Sound(tasks, sessions, retired, Tail(inbox), native', buried, made)
            /\ \A d \in Directions : \A k \in DOMAIN native[d] :
                  k \in DOMAIN native'[d] /\ native'[d][k] = native[d][k]
            /\ Len(native[way]) + 1 \in DOMAIN native'[way]
            /\ native'[way][Len(native[way]) + 1] = t
            /\ Len(native[way]) + 1 \in Nat
        BY <4>1, <4>5, StartedSound
      <4> QED
        BY <3>0, <4>4, <4>6
    <3>3. \A x \in Message : True(x, native) => True(x, native')
      BY <3>2, StaysTrue
    <3>4. Fine(tasks, sessions, retired, Tail(inbox), native', buried, made)
      BY <1>4, <3>2 DEF Fine
    <3>5. e \in Message
      <4>1. FileName[CHOOSE f \in Files : TRUE] \in {FileName[f] : f \in Files}
        <5>1. (CHOOSE f \in Files : TRUE) \in Files
          BY TransfersAssumption
        <5> QED
          BY <5>1
      <4> QED
        BY <1>0, <1>5, <2>3, <3>0, <3>2, <4>1 DEF Message
    <3> HIDE DEF e
    <3>6. True(e, native')
      <4>1. native'["download"][e.wire].conn = e.conn
        BY <1>5, <2>3, <3>0, <3>2
      <4> QED
        BY <3>0, <3>2, <4>1 DEF True
    <3>7. events' \in Seq(Message) /\ \A k \in DOMAIN events' : True(events'[k], native')
      <4>1. events' = Append(events, e)
        BY <2>3
      <4>2. \A k \in DOMAIN events : True(events[k], native')
        BY <1>0, <1>3, <3>3
      <4>3. /\ Append(events, e) \in Seq(Message)
            /\ DOMAIN Append(events, e) = DOMAIN events \cup {Len(events) + 1}
            /\ Append(events, e)[Len(events) + 1] = e
            /\ \A k \in DOMAIN events : Append(events, e)[k] = events[k]
        BY <1>0, <3>5, Longer
      <4> QED
        BY <3>6, <4>1, <4>2, <4>3
    <3> QED
      BY <3>4, <3>7
  <2>4. CASE m.type = "cancel" /\ native' = [native EXCEPT ![m.dir][m.wire].asked = TRUE]
             /\ events' = events
    <3>1. m.dir \in Directions
      BY <1>2, <2>4 DEF Command
    <3>2. CASE m.wire \in DOMAIN native[m.dir]
      <4> DEFINE u == [native[m.dir][m.wire] EXCEPT !.asked = TRUE]
      <4>1. native' = [native EXCEPT ![m.dir] = [native[m.dir] EXCEPT ![m.wire] = u]]
        BY <2>4
      <4>2. native[m.dir][m.wire] \in Transfer
        <5>1. native[m.dir] \in Seq(Transfer)
          BY <1>0, <3>1
        <5> QED
          BY <3>2, <5>1, Listed
      <4>3. /\ u \in Transfer /\ u.conn = native[m.dir][m.wire].conn
            /\ u.task = native[m.dir][m.wire].task /\ u.state = native[m.dir][m.wire].state
        BY <4>2 DEF Transfer
      <4> HIDE DEF u, m
      <4>4. GoesOn(native, native')
        BY <1>0, <3>1, <3>2, <4>1, <4>3, OneGoesOn
      <4>5. /\ Fine(tasks, sessions, retired, Tail(inbox), native', buried, made)
            /\ \A x \in Message : True(x, native) => True(x, native')
        BY <1>4, <4>4, GoesOnFine
      <4> QED
        BY <1>0, <1>3, <2>4, <4>5
    <3>3. CASE m.wire \notin DOMAIN native[m.dir]
      <4>1. [native[m.dir] EXCEPT ![m.wire] = [@ EXCEPT !.asked = TRUE]] = native[m.dir]
        <5>1. native[m.dir] \in Seq(Transfer)
          BY <1>0, <3>1
        <5>2. native[m.dir] \in [DOMAIN native[m.dir] -> Transfer]
          BY <5>1, Listed, LenProperties
        <5> QED
          BY <3>3, <5>2
      <4>2. native' = native
        BY <1>0, <2>4, <3>1, <4>1
      <4> QED
        BY <1>0, <1>4, <2>4, <4>2
    <3> QED
      BY <3>2, <3>3
  <2>5. m.type \in {"upload", "download", "cancel"}
    BY <1>2 DEF Command
  <2> HIDE DEF m, t, e
  <2> QED
    BY <1>1, <2>1, <2>2, <2>3, <2>4, <2>5
<1>7. Fine(tasks', sessions', retired', inbox', native', buried', made')
  BY <1>1, <1>6
<1>8. Narrows
  BY <1>0, <1>1 DEF Narrows, Typed
<1>9. /\ pumps' \subseteq Conns /\ buried' \subseteq Conns \X Directions \X Nat
      /\ made' \in 0 .. MaxTasks /\ alive' \in BOOLEAN /\ faults' \in 0 .. MaxFaults
  BY <1>0, <1>1 DEF Typed
<1> HIDE DEF m, t, e
<1> QED
  BY <1>1, <1>6, <1>7, <1>8, <1>9, Closing

(***************************************************************************)
(* The theorems.                                                           *)
(***************************************************************************)
\* Every step keeps the invariant.
LEMMA StepInv == IInv /\ [Next]_vars => IInv'
<1> SUFFICES ASSUME IInv, [Next]_vars PROVE IInv'
  OBVIOUS
<1>1. ASSUME NEW c \in Conns, NEW f \in Files, StartFileUpload(c, f) PROVE IInv'
  BY <1>1, StartFileUploadInv
<1>2. ASSUME NEW c \in Conns, StartFileDownload(c) PROVE IInv'
  BY <1>2, StartFileDownloadInv
<1>3. ASSUME NEW i \in DOMAIN tasks, Cancel(i) PROVE IInv'
  BY <1>3, CancelInv
<1>4. CASE ClearCompleted
  BY <1>4, ClearCompletedInv
<1>5. ASSUME NEW c \in Conns, NEW gone \in SUBSET Files, DeferredPump(c, gone) PROVE IInv'
  BY <1>5, DeferredPumpInv
<1>6. ASSUME NEW i \in DOMAIN tasks, cancellationTimedOut(i) PROVE IInv'
  BY <1>6, CancellationTimedOutInv
<1>7. CASE HandleMessage
  BY <1>7, HandleMessageInv
<1>8. ASSUME NEW c \in Conns, NEW s \in {"connecting", "connected", "down", "gone"},
             ConnectionState(c, s)
      PROVE  IInv'
  BY <1>8, ConnectionStateInv
<1>9. CASE MessagingError
  BY <1>9, MessagingErrorInv
<1>10. CASE ProcessStopped
  BY <1>10, ProcessStoppedInv
<1>11. CASE Takes
  BY <1>11, TakesInv
<1>12. CASE Dies \/ UNCHANGED vars
  BY <1>12, DiesInv
<1>13. ASSUME NEW d \in Directions, NEW n \in DOMAIN native[d], Tells(d, n) PROVE IInv'
  BY <1>13, TellsInv
<1>14. ASSUME NEW d \in Directions, NEW n \in DOMAIN native[d],
              NEW state \in {"complete", "error"}, NEW named \in BOOLEAN,
              Ends(d, n, state, named)
       PROVE  IInv'
  BY <1>14, EndsInv
<1>15. ASSUME NEW d \in Directions, NEW n \in DOMAIN native[d],
              NEW type \in {"started", "progress", "complete", "error"}, Repeats(d, n, type)
       PROVE  IInv'
  BY <1>15, RepeatsInv
<1>16. CASE User
  BY <1>1, <1>2, <1>3, <1>4, <1>16 DEF User
<1>17. CASE Loop
  BY <1>5, <1>6, <1>7, <1>17 DEF Loop
<1>18. CASE Connection
  BY <1>8, <1>9, <1>10, <1>18 DEF Connection
<1>19. CASE Native
  BY <1>11, <1>12, <1>13, <1>14, <1>15, <1>19 DEF Native
<1> QED
  BY <1>12, <1>16, <1>17, <1>18, <1>19 DEF Next

\* The invariant holds in every run.
LEMMA InvHolds == Spec => []IInv
<1> QED
  BY InitInv, StepInv, PTL DEF Spec

\* The types of the queue; in particular no connection has more uploads
\* pending than MaxPending, and none has a path pending twice (enqueueUpload).
THEOREM TransfersTypeCorrect == Spec => []TypeOK
<1>1. IInv => TypeOK
  <2> SUFFICES ASSUME IInv PROVE TypeOK
    OBVIOUS
  <2>1. Typed /\ Fine(tasks, sessions, retired, inbox, native, buried, made)
    BY DEF IInv
  <2>2. tasks \in Seq(Task) /\ native \in [Directions -> Seq(Transfer)] /\ Limited(tasks)
    BY <2>1 DEF Fine, Sound
  <2>3. \A c : Pending(c) = PendingIn(c, tasks)
    BY DEF Pending, PendingIn
  <2>4. /\ \A c \in Conns : Cardinality(Pending(c)) <= MaxPending
        /\ \A c \in Conns : \A i, j \in Pending(c) : tasks[i].file = tasks[j].file => i = j
    BY <2>2, <2>3 DEF Limited
  <2> QED
    BY <2>1, <2>2, <2>4 DEF TypeOK, Typed
<1> QED
  BY <1>1, InvHolds, PTL

\* Two sets with at most one member between them.
LEMMA AtMostOne ==
    ASSUME NEW A, NEW B, \A x, y \in A : x = y, \A x, y \in B : x = y, A = {} \/ B = {}
    PROVE  Cardinality(A) + Cardinality(B) <= 1
<1>1. Cardinality({}) = 0 /\ \A x : Cardinality({x}) = 1
  BY FS_EmptySet, FS_Singleton
<1>2. A = {} \/ \E x \in A : A = {x}
  OBVIOUS
<1>3. B = {} \/ \E x \in B : B = {x}
  OBVIOUS
<1>4. Cardinality(A) \in {0, 1} /\ (A = {} => Cardinality(A) = 0)
  BY <1>1, <1>2
<1>5. Cardinality(B) \in {0, 1} /\ (B = {} => Cardinality(B) = 0)
  BY <1>1, <1>3
<1> QED
  BY <1>4, <1>5

\* The native program never has two unfinished uploads of a live connection,
\* counting those it has yet to read (pump: one dispatched row at a time).
THEOREM UploadsOneByOne == Spec => []OneUploadAtATime
<1>1. IInv => OneUploadAtATime
  <2> SUFFICES ASSUME IInv, NEW c \in sessions
               PROVE  Cardinality({n \in DOMAIN native["upload"] :
                          native["upload"][n].conn = c /\ native["upload"][n].state = "running"})
                      + Cardinality({k \in DOMAIN inbox :
                          inbox[k].type = "upload" /\ inbox[k].conn = c}) <= 1
    BY DEF OneUploadAtATime
  <2> DEFINE A == {n \in DOMAIN native["upload"] :
                      native["upload"][n].conn = c /\ native["upload"][n].state = "running"}
             B == {k \in DOMAIN inbox : inbox[k].type = "upload" /\ inbox[k].conn = c}
  <2>1. /\ Numbered(tasks, inbox, native, made) /\ Linked(tasks, sessions, inbox, native, buried)
        /\ Rests(buried, native) /\ native["upload"] \in Seq(Transfer) /\ c \in Conns
        /\ "upload" \in Directions
    BY DEF IInv, Typed, Fine, Sound, Directions
  <2>2. \A n \in A : \E i \in DOMAIN tasks : RowOf(tasks[i], native["upload"][n].task, c, n)
    <3> SUFFICES ASSUME NEW n \in A
                 PROVE  \E i \in DOMAIN tasks : RowOf(tasks[i], native["upload"][n].task, c, n)
      OBVIOUS
    <3>1. n \in Nat
      BY <2>1, Listed
    <3>2. <<c, "upload", n>> \notin buried
      BY <2>1, <3>1 DEF Rests
    <3> QED
      BY <2>1, <3>2 DEF Linked
  <2>3. \A k \in B : \E i \in DOMAIN tasks : RowOf(tasks[i], inbox[k].task, c, Unnamed)
    BY <2>1 DEF Linked
  <2>4. \A i, j \in DOMAIN tasks : \A x, y, v, w :
           RowOf(tasks[i], x, c, v) /\ RowOf(tasks[j], y, c, w) => x = y
    BY <2>1 DEF Linked, RowOf
  <2>5. \A x, y \in A : x = y
    BY <2>1, <2>2, <2>4 DEF Numbered
  <2>6. \A x, y \in B : x = y
    BY <2>1, <2>3, <2>4 DEF Numbered
  <2>7. A = {} \/ B = {}
    <3> SUFFICES ASSUME NEW n \in A, NEW k \in B PROVE FALSE
      OBVIOUS
    <3>1. inbox[k].task = native["upload"][n].task
      BY <2>2, <2>3, <2>4
    <3> QED
      BY <2>1, <3>1 DEF Numbered
  <2> HIDE DEF A, B
  <2>8. Cardinality(A) + Cardinality(B) <= 1
    BY <2>5, <2>6, <2>7, AtMostOne
  <2> QED
    BY <2>8 DEF A, B
<1> QED
  BY <1>1, InvHolds, PTL

\* A row tells of the transfer it was made for, from the name it adopts to the
\* end of its session, which is for good (handleMessage, endSession, cancel).
THEOREM TasksTruthful == Spec => []TasksSound
<1>1. IInv => TasksSound
  <2> SUFFICES ASSUME IInv PROVE TasksSound
    OBVIOUS
  <2>1. /\ Numbered(tasks, inbox, native, made) /\ Connected
        /\ Placed(tasks, sessions, retired, inbox, native)
        /\ tasks \in Seq(Task)
        /\ \A i \in DOMAIN tasks : Belongs(tasks[i], inbox, native) /\ Settled(tasks[i])
    BY DEF IInv, Fine, Sound
  <2>2. ASSUME NEW i \in DOMAIN tasks
        PROVE  LET t == tasks[i]
               IN  /\ t.wire # Unnamed =>
                         /\ t.wire \in DOMAIN native[t.dir]
                         /\ native[t.dir][t.wire].conn = t.conn
                         /\ native[t.dir][t.wire].task = t.id
                         /\ t.status \in {"complete", "error"} =>
                               native[t.dir][t.wire].state = t.status
                   /\ t.status = "complete" => t.wire # Unnamed
                   /\ t.status = "cancelled" =>
                         \A n \in DOMAIN native["upload"] : native["upload"][n].task # t.id
    <3>1. Belongs(tasks[i], inbox, native)
      BY <2>1
    <3> QED
      BY <3>1 DEF Belongs, Out
  <2>3. ASSUME NEW i \in DOMAIN tasks, NEW j \in DOMAIN tasks, i # j,
               tasks[i].dir = tasks[j].dir, tasks[i].wire = tasks[j].wire,
               tasks[i].wire # Unnamed
        PROVE  FALSE
    <3>1. tasks[i].dir \in {"upload", "download"}
      <4>1. tasks[i] \in Task
        BY <2>1, Listed
      <4> QED
        BY <4>1 DEF Task, Directions
    <3>2. CASE tasks[i].dir = "download"
      BY <2>1, <2>3, <3>2 DEF Numbered
    <3>3. CASE tasks[i].dir = "upload"
      <4>1. tasks[i].id = tasks[j].id
        BY <2>1, <2>3 DEF Belongs
      <4> QED
        BY <2>1, <2>3, <3>3, <4>1 DEF Numbered
    <3> QED
      BY <3>1, <3>2, <3>3
  <2>4. ResultsBelong
    BY <2>2, <2>3 DEF ResultsBelong
  <2>5. EndedForGood
    BY <2>1 DEF EndedForGood, Placed, Connected
  <2>6. CancelFollowsName
    BY <2>1 DEF CancelFollowsName, Settled
  <2> QED
    BY <2>4, <2>5, <2>6 DEF TasksSound
<1> QED
  BY <1>1, InvHolds, PTL

=============================================================================
