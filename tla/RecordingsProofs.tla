-------------------------- MODULE RecordingsProofs --------------------------
(***************************************************************************)
(* Proofs about Recordings, for any number of captures, attempts and       *)
(* faults: the types, and that the store tells the truth.                  *)
(*                                                                         *)
(* StoreSound is not inductive.  That a row names a stored file rests on   *)
(* the file being there from the rename on for as long as the row exists;  *)
(* that an acknowledged upload is recorded rests on no request of that     *)
(* capture being able to mark the row failed any more, hence on where a    *)
(* capture may be once it is acknowledged.  Good says both of one capture; *)
(* Recorder, that the path the encoder leaves is one still being captured. *)
(***************************************************************************)
EXTENDS Recordings, TLAPS

PCs == Requests \cup Over \cup {"none", "capturing"}
Statuses == {"none", "recording", "completed", "failed", "deleted"}

Job == [pc : PCs, attempt : 0 .. MaxAttempts - 1, kind : {"artifact", "thumbnail"},
        file : 0 .. MaxCaptures, ok : BOOLEAN]
Row == [status : Statuses, path : BOOLEAN, thumb : 0 .. MaxCaptures]

\* One capture: its upload j, its row r, and whether its file is stored.
Good(j, r, stored) ==
    /\ j.pc \in {"none", "capturing", "index"} =>
          ~j.ok /\ r.status = "none" /\ j.kind = "artifact"
    /\ j.kind = "thumbnail" => j.ok /\ j.pc \in {"sent", "ok", "error", "backoff", "ended"}
    /\ j.ok /\ j.pc \notin Over => j.kind = "thumbnail"
    /\ j.ok \/ j.pc = "ok" => r.status \in {"completed", "deleted"}
    /\ j.pc = "backoff" => j.attempt + 1 < MaxAttempts
    /\ r.path => r.status \notin {"none", "deleted"} /\ stored
    /\ j.pc = "renamed" /\ r.status \notin {"none", "deleted"} => stored

CapturesGood == \A c \in Captures : Good(jobs[c], rows[c], c \in files)

\* What the encoder leaves behind is the output of the capture in progress.
Recorder ==
    /\ encoder.state # "stopped" /\ output # 0 => jobs[output].pc = "capturing"
    /\ encoder.state = "recording" => encoder.file # 0

IInv == TypeOK /\ Recorder /\ CapturesGood

----------------------------------------------------------------------------
(***************************************************************************)
(* Records.                                                                *)
(***************************************************************************)

\* The types in one place.
LEMMA Types ==
    TypeOK <=> /\ recording \in BOOLEAN /\ captured \in BOOLEAN
               /\ output \in 0 .. MaxCaptures /\ poster \in 0 .. MaxCaptures
               /\ encoder \in [state : {"stopped", "recording", "finalizing"},
                               file : 0 .. MaxCaptures]
               /\ temps \subseteq Captures /\ posters \subseteq Captures
               /\ files \subseteq Captures
               /\ jobs \in [Captures -> Job] /\ rows \in [Captures -> Row]
               /\ faults \in 0 .. MaxFaults
  BY DEF TypeOK, Job, Row, PCs, Statuses

\* An upload moves on.
LEMMA ToStep ==
    ASSUME jobs \in [Captures -> Job], NEW c \in Captures, NEW p \in PCs, to(c, p)
    PROVE  /\ jobs' \in [Captures -> Job]
           /\ \A d \in Captures : d # c => jobs'[d] = jobs[d]
           /\ jobs'[c].pc = p /\ jobs'[c].attempt = jobs[c].attempt
           /\ jobs'[c].kind = jobs[c].kind /\ jobs'[c].file = jobs[c].file
           /\ jobs'[c].ok = jobs[c].ok
  <1> DEFINE j == [jobs[c] EXCEPT !.pc = p]
  <1>1. jobs' = [jobs EXCEPT ![c] = j]
    BY DEF to
  <1>2. jobs[c] \in Job
    OBVIOUS
  <1>3. /\ j \in Job /\ j.pc = p /\ j.attempt = jobs[c].attempt /\ j.kind = jobs[c].kind
        /\ j.file = jobs[c].file /\ j.ok = jobs[c].ok
    BY <1>2 DEF Job
  <1> HIDE DEF j
  <1> QED BY <1>1, <1>3

\* The status of a row changes.
LEMMA StatusStep ==
    ASSUME rows \in [Captures -> Row], NEW c \in Captures, NEW s \in Statuses,
           rows' = [rows EXCEPT ![c].status = s]
    PROVE  /\ rows' \in [Captures -> Row]
           /\ \A d \in Captures : d # c => rows'[d] = rows[d]
           /\ rows'[c].status = s /\ rows'[c].path = rows[c].path
           /\ rows'[c].thumb = rows[c].thumb
  <1> DEFINE r == [rows[c] EXCEPT !.status = s]
  <1>1. rows' = [rows EXCEPT ![c] = r]
    OBVIOUS
  <1>2. rows[c] \in Row
    OBVIOUS
  <1>3. r \in Row /\ r.status = s /\ r.path = rows[c].path /\ r.thumb = rows[c].thumb
    BY <1>2 DEF Row
  <1> HIDE DEF r
  <1> QED BY <1>1, <1>3

\* A step of capture c that the recorder takes no part in.
LEMMA JobInv ==
    ASSUME IInv, NEW c \in Captures,
           jobs[c].pc = "capturing" => jobs'[c].pc = "capturing",
           jobs' \in [Captures -> Job], \A d \in Captures : d # c => jobs'[d] = jobs[d],
           rows' \in [Captures -> Row], \A d \in Captures : d # c => rows'[d] = rows[d],
           files' \subseteq Captures,
           \A d \in Captures : d # c => (d \in files' <=> d \in files),
           Good(jobs'[c], rows'[c], c \in files'),
           UNCHANGED <<recording, output, captured, encoder>>,
           poster' \in {0, poster}, temps' \subseteq temps, posters' \subseteq posters,
           faults' \in 0 .. MaxFaults
    PROVE  IInv'
  <1>0. TypeOK
    BY DEF IInv
  <1>1. TypeOK'
    <2>1. 0 \in 0 .. MaxCaptures
      BY RecordingsAssumption
    <2>2. /\ recording' \in BOOLEAN /\ captured' \in BOOLEAN
          /\ output' \in 0 .. MaxCaptures /\ poster' \in 0 .. MaxCaptures
          /\ encoder' \in [state : {"stopped", "recording", "finalizing"},
                           file : 0 .. MaxCaptures]
          /\ temps' \subseteq Captures /\ posters' \subseteq Captures
      BY <1>0, <2>1, Types
    <2> QED BY <2>2 DEF TypeOK, Job, Row, PCs, Statuses
  <1>2. Recorder'
    <2>1. output \in 0 .. MaxCaptures
      BY <1>0 DEF TypeOK
    <2>2. output # 0 => output \in Captures
      BY <2>1, RecordingsAssumption DEF Captures
    <2> QED BY <2>2 DEF IInv, Recorder
  <1>3. ASSUME NEW d \in Captures PROVE Good(jobs'[d], rows'[d], d \in files')
    <2>1. CASE d = c
      BY <2>1
    <2>2. CASE d # c
      <3>1. Good(jobs[d], rows[d], d \in files)
        BY DEF IInv, CapturesGood
      <3> QED BY <2>2, <3>1 DEF Good
    <2> QED BY <2>1, <2>2
  <1>4. CapturesGood'
    BY <1>3 DEF CapturesGood
  <1> QED BY <1>1, <1>2, <1>4 DEF IInv

\* What every step knows of capture c.
LEMMA CaptureFacts ==
    ASSUME IInv, NEW c \in Captures
    PROVE  /\ TypeOK /\ jobs \in [Captures -> Job] /\ rows \in [Captures -> Row]
           /\ files \subseteq Captures /\ faults \in 0 .. MaxFaults
           /\ jobs[c] \in Job /\ rows[c] \in Row /\ Good(jobs[c], rows[c], c \in files)
           /\ jobs[c].pc \in PCs /\ jobs[c].attempt \in 0 .. MaxAttempts - 1
           /\ jobs[c].kind \in {"artifact", "thumbnail"} /\ jobs[c].file \in 0 .. MaxCaptures
           /\ jobs[c].ok \in BOOLEAN /\ rows[c].status \in Statuses /\ rows[c].path \in BOOLEAN
  <1>1. /\ TypeOK /\ jobs \in [Captures -> Job] /\ rows \in [Captures -> Row]
        /\ files \subseteq Captures /\ faults \in 0 .. MaxFaults
        /\ Good(jobs[c], rows[c], c \in files)
    BY Types DEF IInv, CapturesGood
  <1>2. jobs[c] \in Job /\ rows[c] \in Row
    BY <1>1
  <1>3. /\ jobs[c].pc \in PCs /\ jobs[c].attempt \in 0 .. MaxAttempts - 1
        /\ jobs[c].kind \in {"artifact", "thumbnail"} /\ jobs[c].file \in 0 .. MaxCaptures
        /\ jobs[c].ok \in BOOLEAN
    BY <1>2 DEF Job
  <1>4. rows[c].status \in Statuses /\ rows[c].path \in BOOLEAN
    BY <1>2 DEF Row
  <1> QED BY <1>1, <1>2, <1>3, <1>4

\* An upload that moves on while the store stays as it is.
LEMMA MoveInv ==
    ASSUME IInv, NEW c \in Captures, jobs[c].pc # "capturing", NEW p \in PCs, to(c, p),
           UNCHANGED <<server, faults>>, UNCHANGED <<recording, output, captured, encoder>>,
           poster' \in {0, poster}, temps' \subseteq temps, posters' \subseteq posters,
           p \notin {"none", "capturing", "index", "renamed", "ok"},
           jobs[c].kind = "thumbnail" => p \in {"sent", "error", "backoff", "ended"},
           jobs[c].ok /\ p \notin Over => jobs[c].kind = "thumbnail",
           p = "backoff" => jobs[c].attempt + 1 < MaxAttempts
    PROVE  IInv'
  <1>1. /\ jobs \in [Captures -> Job] /\ rows \in [Captures -> Row]
        /\ files \subseteq Captures /\ faults \in 0 .. MaxFaults
        /\ Good(jobs[c], rows[c], c \in files)
    BY CaptureFacts
  <1>2. /\ jobs' \in [Captures -> Job]
        /\ \A d \in Captures : d # c => jobs'[d] = jobs[d]
        /\ jobs'[c].pc = p /\ jobs'[c].attempt = jobs[c].attempt
        /\ jobs'[c].kind = jobs[c].kind /\ jobs'[c].ok = jobs[c].ok
    BY <1>1, ToStep
  <1>3. rows' = rows /\ files' = files /\ faults' = faults
    BY DEF server
  <1>4. Good(jobs'[c], rows'[c], c \in files')
    BY <1>1, <1>2, <1>3 DEF Good
  <1> QED BY <1>1, <1>2, <1>3, <1>4, JobInv

----------------------------------------------------------------------------
(***************************************************************************)
(* The upload, one lemma per action.                                       *)
(***************************************************************************)

\* The row is made while the capture has none.
LEMMA ServeCreateInv ==
    ASSUME IInv, NEW c \in Captures, ServeCreate(c)
    PROVE  IInv'
  <1>0. /\ jobs \in [Captures -> Job] /\ rows \in [Captures -> Row]
        /\ files \subseteq Captures /\ faults \in 0 .. MaxFaults
        /\ Good(jobs[c], rows[c], c \in files)
    BY CaptureFacts
  <1>1. /\ jobs[c].pc = "index" /\ to(c, "indexed")
        /\ rows' = [rows EXCEPT ![c].status = "recording"]
        /\ UNCHANGED <<recording, output, poster, captured, encoder, temps, posters>>
        /\ files' = files /\ faults' = faults
    BY DEF ServeCreate, client
  <1>2. "indexed" \in PCs /\ "recording" \in Statuses
    BY DEF PCs, Requests, Statuses
  <1>3. /\ jobs' \in [Captures -> Job]
        /\ \A d \in Captures : d # c => jobs'[d] = jobs[d]
        /\ jobs'[c].pc = "indexed" /\ jobs'[c].kind = jobs[c].kind /\ jobs'[c].ok = jobs[c].ok
    BY <1>0, <1>1, <1>2, ToStep
  <1>4. /\ rows' \in [Captures -> Row]
        /\ \A d \in Captures : d # c => rows'[d] = rows[d]
        /\ rows'[c].status = "recording" /\ rows'[c].path = rows[c].path
    BY <1>0, <1>1, <1>2, StatusStep
  <1>5. Good(jobs'[c], rows'[c], c \in files')
    BY <1>0, <1>1, <1>3, <1>4 DEF Good
  <1> QED BY <1>0, <1>1, <1>3, <1>4, <1>5, JobInv

\* The answer to it, or none.
LEMMA IndexAnswerInv ==
    ASSUME IInv, NEW c \in Captures, IndexAnswer(c)
    PROVE  IInv'
  <1>0. Good(jobs[c], rows[c], c \in files) /\ "sent" \in PCs /\ "ended" \in PCs
    BY CaptureFacts DEF PCs, Requests, Over
  <1>1. /\ jobs[c].pc \in {"index", "indexed"} /\ (to(c, "sent") \/ to(c, "ended"))
        /\ UNCHANGED <<recording, output, poster, captured, encoder, temps, posters>>
        /\ UNCHANGED <<server, faults>>
    BY DEF IndexAnswer, client, server
  <1>2. (~jobs[c].ok /\ jobs[c].kind # "thumbnail") \/ jobs[c].pc = "indexed"
    BY <1>0, <1>1 DEF Good
  <1>3. ~(jobs[c].kind = "thumbnail") /\ ~jobs[c].ok
    BY <1>0, <1>1, <1>2 DEF Good, Over
  <1> QED BY <1>0, <1>1, <1>3, MoveInv

\* The acknowledged upload: the row says completed, or is gone.
LEMMA ArtifactDoneInv ==
    ASSUME IInv, NEW c \in Captures, ArtifactDone(c)
    PROVE  IInv'
  <1>0. /\ TypeOK /\ jobs \in [Captures -> Job] /\ rows \in [Captures -> Row]
        /\ files \subseteq Captures /\ faults \in 0 .. MaxFaults /\ jobs[c] \in Job
        /\ Good(jobs[c], rows[c], c \in files)
    BY CaptureFacts
  <1> DEFINE a == [jobs[c] EXCEPT !.pc = "sent", !.kind = "thumbnail", !.file = poster,
                                  !.attempt = 0, !.ok = TRUE]
             b == [jobs[c] EXCEPT !.pc = "ended", !.ok = TRUE]
             j == IF poster \in posters THEN a ELSE b
  <1>1. /\ jobs[c].pc = "ok" /\ jobs[c].kind = "artifact"
        /\ temps' = temps \ {c} /\ poster' = 0 /\ jobs' = [jobs EXCEPT ![c] = j]
        /\ UNCHANGED <<recording, output, captured, encoder, posters>>
        /\ rows' = rows /\ files' = files /\ faults' = faults
    BY DEF ArtifactDone, uploadThumbnail, server
  <1>2. poster \in 0 .. MaxCaptures /\ 0 \in 0 .. MaxAttempts - 1
    BY <1>0, RecordingsAssumption DEF TypeOK
  <1>3. a \in Job /\ a.pc = "sent" /\ a.kind = "thumbnail" /\ a.ok = TRUE
    BY <1>0, <1>2 DEF Job, PCs, Requests
  <1>4. b \in Job /\ b.pc = "ended" /\ b.kind = jobs[c].kind /\ b.ok = TRUE
    BY <1>0 DEF Job, PCs, Over
  <1> HIDE DEF a, b
  <1>5. /\ j \in Job /\ j.ok = TRUE
        /\ (j.pc = "sent" /\ j.kind = "thumbnail") \/ (j.pc = "ended" /\ j.kind = "artifact")
    BY <1>1, <1>3, <1>4
  <1> HIDE DEF j
  <1>6. /\ jobs' \in [Captures -> Job] /\ jobs'[c] = j
        /\ \A d \in Captures : d # c => jobs'[d] = jobs[d]
    BY <1>0, <1>1, <1>5
  <1>7. Good(jobs'[c], rows'[c], c \in files')
    BY <1>0, <1>1, <1>5, <1>6 DEF Good, Over
  <1> QED BY <1>0, <1>1, <1>6, <1>7, JobInv

\* A failed attempt: the next one, or markFailed.
LEMMA ArtifactFailedInv ==
    ASSUME IInv, NEW c \in Captures, ArtifactFailed(c)
    PROVE  IInv'
  <1>0. Good(jobs[c], rows[c], c \in files) /\ "backoff" \in PCs /\ "patch" \in PCs
    BY CaptureFacts DEF PCs, Requests
  <1>1. jobs[c].pc = "error" /\ jobs[c].kind = "artifact" /\ ~jobs[c].ok
    BY <1>0 DEF ArtifactFailed, Good, Over
  <1>2. CASE retry(c) /\ UNCHANGED <<client, server, faults>>
    BY <1>0, <1>1, <1>2, MoveInv DEF retry, client
  <1>3. CASE lastAttempt(c) /\ markFailed(c)
    BY <1>0, <1>1, <1>3, MoveInv DEF markFailed
  <1> QED BY <1>2, <1>3 DEF ArtifactFailed

\* The preview's attempts and its end.
LEMMA ThumbnailDoneInv ==
    ASSUME IInv, NEW c \in Captures, ThumbnailDone(c)
    PROVE  IInv'
  <1>0. "backoff" \in PCs /\ "ended" \in PCs
    BY DEF PCs, Requests, Over
  <1>1. /\ jobs[c].kind = "thumbnail" /\ jobs[c].pc \in {"ok", "error"}
        /\ UNCHANGED <<recording, output, poster, captured, encoder, temps>>
        /\ UNCHANGED <<server, faults>>
    BY DEF ThumbnailDone, server
  <1>2. CASE retry(c) /\ UNCHANGED posters
    BY <1>0, <1>1, <1>2, MoveInv DEF retry
  <1>3. CASE to(c, "ended") /\ posters' = posters \ {jobs[c].file}
    BY <1>0, <1>1, <1>3, MoveInv
  <1> QED BY <1>2, <1>3 DEF ThumbnailDone

\* The next attempt is within the bound.
LEMMA BackoffInv ==
    ASSUME IInv, NEW c \in Captures, Backoff(c)
    PROVE  IInv'
  <1> DEFINE there == IF jobs[c].kind = "artifact" THEN c \in temps ELSE jobs[c].file \in posters
             j == [jobs[c] EXCEPT !.attempt = IF there THEN jobs[c].attempt + 1
                                                       ELSE MaxAttempts - 1,
                                  !.pc = IF there THEN "sent" ELSE "error"]
  <1>0. /\ TypeOK /\ jobs \in [Captures -> Job] /\ rows \in [Captures -> Row]
        /\ files \subseteq Captures /\ faults \in 0 .. MaxFaults /\ jobs[c] \in Job
        /\ Good(jobs[c], rows[c], c \in files) /\ jobs[c].attempt \in 0 .. MaxAttempts - 1
        /\ jobs[c].kind \in {"artifact", "thumbnail"}
    BY CaptureFacts
  <1>1. /\ jobs[c].pc = "backoff" /\ UNCHANGED client
        /\ rows' = rows /\ files' = files /\ faults' = faults
    BY DEF Backoff, server
  <1>2. jobs' = [jobs EXCEPT ![c] = j]
    BY <1>0 DEF Backoff
  <1>3. jobs[c].attempt + 1 \in 0 .. MaxAttempts - 1 /\ MaxAttempts - 1 \in 0 .. MaxAttempts - 1
    BY <1>0, <1>1, RecordingsAssumption DEF Good
  <1>4. /\ j \in Job /\ j.pc \in {"sent", "error"} /\ j.kind = jobs[c].kind /\ j.ok = jobs[c].ok
    BY <1>0, <1>3 DEF Job, PCs, Requests
  <1> HIDE DEF j
  <1>5. /\ jobs' \in [Captures -> Job] /\ jobs'[c] = j
        /\ \A d \in Captures : d # c => jobs'[d] = jobs[d]
    BY <1>0, <1>2, <1>4
  <1>6. Good(jobs'[c], rows'[c], c \in files')
    BY <1>0, <1>1, <1>4, <1>5 DEF Good, Over
  <1> QED BY <1>0, <1>1, <1>5, <1>6, JobInv DEF client

\* A request that fails leaves the store as it is.
LEMMA RequestFailsInv ==
    ASSUME IInv, NEW c \in Captures, RequestFails(c)
    PROVE  IInv'
  <1>0. Good(jobs[c], rows[c], c \in files) /\ "error" \in PCs
    BY CaptureFacts DEF PCs, Requests
  <1>1. /\ jobs[c].pc \in {"sent", "checked", "renamed", "attached", "ok"} /\ to(c, "error")
        /\ UNCHANGED <<recording, output, poster, captured, encoder, temps, posters>>
        /\ UNCHANGED <<server, faults>>
    BY DEF RequestFails, client, server
  <1>2. jobs[c].ok => jobs[c].kind = "thumbnail"
    BY <1>0, <1>1 DEF Good, Over
  <1> QED BY <1>0, <1>1, <1>2, MoveInv

\* markFailed's PATCH never reaches the row of an acknowledged upload.
LEMMA ServePatchInv ==
    ASSUME IInv, NEW c \in Captures, ServePatch(c)
    PROVE  IInv'
  <1>0. /\ jobs \in [Captures -> Job] /\ rows \in [Captures -> Row]
        /\ files \subseteq Captures /\ faults \in 0 .. MaxFaults
        /\ Good(jobs[c], rows[c], c \in files) /\ rows[c].status \in Statuses
    BY CaptureFacts
  <1>1. /\ jobs[c].pc = "patch" /\ to(c, "ended")
        /\ UNCHANGED <<recording, output, poster, captured, encoder, temps, posters>>
        /\ files' = files /\ faults' = faults
    BY DEF ServePatch, client
  <1>2. "ended" \in PCs /\ "failed" \in Statuses
    BY DEF PCs, Over, Statuses
  <1>3. ~jobs[c].ok /\ jobs[c].kind # "thumbnail"
    BY <1>0, <1>1 DEF Good, Over
  <1>4. CASE UNCHANGED rows
    BY <1>1, <1>2, <1>3, <1>4, MoveInv DEF server
  <1>5. CASE rows' = [rows EXCEPT ![c].status = IF exists(c) THEN "failed" ELSE rows[c].status]
    <2> DEFINE s == IF exists(c) THEN "failed" ELSE rows[c].status
    <2>1. /\ jobs' \in [Captures -> Job]
          /\ \A d \in Captures : d # c => jobs'[d] = jobs[d]
          /\ jobs'[c].pc = "ended" /\ jobs'[c].kind = jobs[c].kind /\ jobs'[c].ok = jobs[c].ok
      BY <1>0, <1>1, <1>2, ToStep
    <2>2. s \in Statuses /\ (s \in {"none", "deleted"} <=> rows[c].status \in {"none", "deleted"})
      BY <1>0, <1>2 DEF exists
    <2>3. rows' = [rows EXCEPT ![c].status = s]
      BY <1>5
    <2> HIDE DEF s
    <2>4. /\ rows' \in [Captures -> Row]
          /\ \A d \in Captures : d # c => rows'[d] = rows[d]
          /\ rows'[c].status = s /\ rows'[c].path = rows[c].path
      BY <1>0, <2>2, <2>3, StatusStep
    <2>5. Good(jobs'[c], rows'[c], c \in files')
      BY <1>0, <1>1, <1>3, <2>1, <2>2, <2>4 DEF Good
    <2> QED BY <1>0, <1>1, <2>1, <2>4, <2>5, JobInv
  <1> QED BY <1>4, <1>5 DEF ServePatch

\* The row is looked up.
LEMMA UploadCheckedInv ==
    ASSUME IInv, NEW c \in Captures, UploadChecked(c)
    PROVE  IInv'
  <1>0. Good(jobs[c], rows[c], c \in files) /\ "checked" \in PCs /\ "error" \in PCs
    BY CaptureFacts DEF PCs, Requests
  <1>1. /\ jobs[c].pc = "sent" /\ jobs[c].kind = "artifact"
        /\ to(c, "checked") \/ to(c, "error")
        /\ UNCHANGED <<recording, output, poster, captured, encoder, temps, posters>>
        /\ UNCHANGED <<server, faults>>
    BY DEF UploadChecked, client, server
  <1>2. ~jobs[c].ok
    BY <1>0, <1>1 DEF Good, Over
  <1> QED BY <1>0, <1>1, <1>2, MoveInv

\* The file gets its name.
LEMMA UploadRenamedInv ==
    ASSUME IInv, NEW c \in Captures, UploadRenamed(c)
    PROVE  IInv'
  <1>0. /\ jobs \in [Captures -> Job] /\ rows \in [Captures -> Row]
        /\ files \subseteq Captures /\ faults \in 0 .. MaxFaults
        /\ Good(jobs[c], rows[c], c \in files)
    BY CaptureFacts
  <1>1. /\ jobs[c].pc = "checked" /\ to(c, "renamed") /\ files' = files \cup {c}
        /\ UNCHANGED <<recording, output, poster, captured, encoder, temps, posters>>
        /\ rows' = rows /\ faults' = faults
    BY DEF UploadRenamed, client
  <1>2. "renamed" \in PCs
    BY DEF PCs, Requests
  <1>3. /\ jobs' \in [Captures -> Job]
        /\ \A d \in Captures : d # c => jobs'[d] = jobs[d]
        /\ jobs'[c].pc = "renamed" /\ jobs'[c].kind = jobs[c].kind /\ jobs'[c].ok = jobs[c].ok
    BY <1>0, <1>1, <1>2, ToStep
  <1>4. Good(jobs'[c], rows'[c], c \in files')
    BY <1>0, <1>1, <1>3 DEF Good, Over
  <1> QED BY <1>0, <1>1, <1>3, <1>4, JobInv

\* The row names the file, which is there.
LEMMA AttachInv ==
    ASSUME IInv, NEW c \in Captures, Attach(c)
    PROVE  IInv'
  <1> DEFINE p == IF exists(c) THEN "attached" ELSE "error"
             r == [rows[c] EXCEPT !.path = exists(c)]
  <1>0. /\ jobs \in [Captures -> Job] /\ rows \in [Captures -> Row] /\ rows[c] \in Row
        /\ files \subseteq Captures /\ faults \in 0 .. MaxFaults
        /\ Good(jobs[c], rows[c], c \in files)
    BY CaptureFacts
  <1>1. /\ jobs[c].pc = "renamed" /\ to(c, p) /\ rows' = [rows EXCEPT ![c] = r]
        /\ UNCHANGED <<recording, output, poster, captured, encoder, temps, posters>>
        /\ files' = files /\ faults' = faults
    BY DEF Attach, client
  <1>2. p \in PCs /\ p \in {"attached", "error"}
    BY DEF PCs, Requests
  <1>3. r \in Row /\ r.status = rows[c].status /\ r.path = exists(c)
    <2>1. exists(c) \in BOOLEAN
      BY DEF exists
    <2> QED BY <1>0, <2>1 DEF Row
  <1> HIDE DEF p, r
  <1>4. /\ jobs' \in [Captures -> Job]
        /\ \A d \in Captures : d # c => jobs'[d] = jobs[d]
        /\ jobs'[c].pc = p /\ jobs'[c].kind = jobs[c].kind /\ jobs'[c].ok = jobs[c].ok
    BY <1>0, <1>1, <1>2, ToStep
  <1>5. /\ rows' \in [Captures -> Row] /\ rows'[c] = r
        /\ \A d \in Captures : d # c => rows'[d] = rows[d]
    BY <1>0, <1>1, <1>3
  <1>6. r.path => r.status \notin {"none", "deleted"} /\ c \in files
    BY <1>0, <1>1, <1>3 DEF Good, exists
  <1>7. Good(jobs'[c], rows'[c], c \in files')
    BY <1>0, <1>1, <1>2, <1>3, <1>4, <1>5, <1>6 DEF Good, Over
  <1> QED BY <1>0, <1>1, <1>4, <1>5, <1>7, JobInv

\* The status follows in an update of its own, whatever the row said.
LEMMA CompleteInv ==
    ASSUME IInv, NEW c \in Captures, Complete(c)
    PROVE  IInv'
  <1>0. /\ jobs \in [Captures -> Job] /\ rows \in [Captures -> Row]
        /\ files \subseteq Captures /\ faults \in 0 .. MaxFaults
        /\ Good(jobs[c], rows[c], c \in files)
        /\ "ok" \in PCs /\ "error" \in PCs /\ "completed" \in Statuses
    BY CaptureFacts DEF PCs, Requests, Statuses
  <1>1. /\ jobs[c].pc = "attached"
        /\ UNCHANGED <<recording, output, poster, captured, encoder, temps, posters>>
        /\ files' = files /\ faults' = faults
    BY DEF Complete, client
  <1>2. ~jobs[c].ok /\ jobs[c].kind # "thumbnail"
    BY <1>0, <1>1 DEF Good, Over
  <1>3. CASE exists(c)
    <2>1. rows' = [rows EXCEPT ![c].status = "completed"] /\ to(c, "ok")
      BY <1>3 DEF Complete, completed
    <2>2. /\ jobs' \in [Captures -> Job]
          /\ \A d \in Captures : d # c => jobs'[d] = jobs[d]
          /\ jobs'[c].pc = "ok" /\ jobs'[c].kind = jobs[c].kind /\ jobs'[c].ok = jobs[c].ok
      BY <1>0, <2>1, ToStep
    <2>3. /\ rows' \in [Captures -> Row]
          /\ \A d \in Captures : d # c => rows'[d] = rows[d]
          /\ rows'[c].status = "completed" /\ rows'[c].path = rows[c].path
      BY <1>0, <2>1, StatusStep
    <2>4. Good(jobs'[c], rows'[c], c \in files')
      BY <1>0, <1>1, <1>2, <2>2, <2>3 DEF Good
    <2> QED BY <1>0, <1>1, <2>2, <2>3, <2>4, JobInv
  <1>4. CASE ~exists(c)
    <2>1. to(c, "error") /\ UNCHANGED rows
      BY <1>4 DEF Complete
    <2> QED BY <1>0, <1>1, <1>2, <2>1, MoveInv DEF server
  <1> QED BY <1>3, <1>4

\* The preview is recorded in its column.
LEMMA UploadThumbnailInv ==
    ASSUME IInv, NEW c \in Captures, UploadThumbnail(c)
    PROVE  IInv'
  <1> DEFINE r == [rows[c] EXCEPT !.thumb = jobs[c].file]
  <1>0. /\ jobs \in [Captures -> Job] /\ rows \in [Captures -> Row] /\ rows[c] \in Row
        /\ files \subseteq Captures /\ faults \in 0 .. MaxFaults
        /\ Good(jobs[c], rows[c], c \in files) /\ jobs[c].file \in 0 .. MaxCaptures
        /\ "ok" \in PCs /\ "error" \in PCs
    BY CaptureFacts DEF PCs, Requests
  <1>1. /\ jobs[c].pc = "sent" /\ jobs[c].kind = "thumbnail"
        /\ UNCHANGED <<recording, output, poster, captured, encoder, temps, posters>>
        /\ files' = files /\ faults' = faults
    BY DEF UploadThumbnail, client
  <1>2. CASE exists(c)
    <2>1. PICK p \in {"ok", "error"} : to(c, p)
      BY <1>2 DEF UploadThumbnail
    <2>2. rows' = [rows EXCEPT ![c] = r]
      BY <1>2 DEF UploadThumbnail
    <2>3. r \in Row /\ r.status = rows[c].status /\ r.path = rows[c].path
      BY <1>0 DEF Row
    <2> HIDE DEF r
    <2>4. /\ jobs' \in [Captures -> Job]
          /\ \A d \in Captures : d # c => jobs'[d] = jobs[d]
          /\ jobs'[c].pc = p /\ jobs'[c].kind = jobs[c].kind /\ jobs'[c].ok = jobs[c].ok
      BY <1>0, <2>1, ToStep
    <2>5. /\ rows' \in [Captures -> Row] /\ rows'[c] = r
          /\ \A d \in Captures : d # c => rows'[d] = rows[d]
      BY <1>0, <2>2, <2>3
    <2>6. Good(jobs'[c], rows'[c], c \in files')
      BY <1>0, <1>1, <2>1, <2>3, <2>4, <2>5 DEF Good
    <2> QED BY <1>0, <1>1, <2>4, <2>5, <2>6, JobInv
  <1>3. CASE ~exists(c)
    <2>1. to(c, "error") /\ UNCHANGED rows
      BY <1>3 DEF UploadThumbnail
    <2> QED BY <1>0, <1>1, <2>1, MoveInv DEF server
  <1> QED BY <1>2, <1>3

----------------------------------------------------------------------------
(***************************************************************************)
(* The store.                                                              *)
(***************************************************************************)

\* The row goes, and with it the claim that there is a file.
LEMMA DeleteInv ==
    ASSUME IInv, NEW c \in Captures, Delete(c)
    PROVE  IInv'
  <1> DEFINE r == [NoRow EXCEPT !.status = "deleted"]
  <1>0. /\ jobs \in [Captures -> Job] /\ rows \in [Captures -> Row]
        /\ files \subseteq Captures /\ faults \in 0 .. MaxFaults
        /\ Good(jobs[c], rows[c], c \in files)
    BY CaptureFacts
  <1>1. /\ exists(c) /\ rows' = [rows EXCEPT ![c] = r] /\ jobs' = jobs
        /\ UNCHANGED <<recording, output, poster, captured, encoder, temps, posters>>
    BY DEF Delete, client
  <1>2. files' \subseteq files /\ (\A d \in Captures : d # c => (d \in files' <=> d \in files))
    BY DEF Delete
  <1>3. faults' \in 0 .. MaxFaults
    BY <1>0, RecordingsAssumption DEF Delete, Fault
  <1>4. r \in Row /\ r.status = "deleted" /\ r.path = FALSE
    <2>1. NoRow \in Row /\ NoRow.path = FALSE
      BY RecordingsAssumption DEF NoRow, Row, Statuses
    <2> QED BY <2>1 DEF Row, Statuses
  <1> HIDE DEF r
  <1>5. /\ rows' \in [Captures -> Row] /\ rows'[c] = r
        /\ \A d \in Captures : d # c => rows'[d] = rows[d]
    BY <1>0, <1>1, <1>4
  <1>6. Good(jobs'[c], rows'[c], c \in files')
    BY <1>0, <1>1, <1>4, <1>5 DEF Good, exists
  <1>7. files' \subseteq Captures
    BY <1>0, <1>2
  <1> QED BY <1>0, <1>1, <1>2, <1>3, <1>5, <1>6, <1>7, JobInv

\* Only a row that still says recording is swept.
LEMMA SweepStaleInv ==
    ASSUME IInv, NEW c \in Captures, SweepStale(c)
    PROVE  IInv'
  <1>0. /\ jobs \in [Captures -> Job] /\ rows \in [Captures -> Row]
        /\ files \subseteq Captures /\ faults \in 0 .. MaxFaults
        /\ Good(jobs[c], rows[c], c \in files) /\ "failed" \in Statuses
    BY CaptureFacts DEF Statuses
  <1>1. /\ rows[c].status = "recording" /\ rows' = [rows EXCEPT ![c].status = "failed"]
        /\ jobs' = jobs /\ files' = files /\ faults' = faults
        /\ UNCHANGED <<recording, output, poster, captured, encoder, temps, posters>>
    BY DEF SweepStale, stale, client
  <1>2. /\ rows' \in [Captures -> Row]
        /\ \A d \in Captures : d # c => rows'[d] = rows[d]
        /\ rows'[c].status = "failed" /\ rows'[c].path = rows[c].path
    BY <1>0, <1>1, StatusStep
  <1>3. Good(jobs'[c], rows'[c], c \in files')
    BY <1>0, <1>1, <1>2 DEF Good
  <1> QED BY <1>0, <1>1, <1>2, <1>3, JobInv

\* Only a file without a row is reclaimed.
LEMMA ReapInv ==
    ASSUME IInv, NEW c \in Captures, Reap(c)
    PROVE  IInv'
  <1>0. /\ jobs \in [Captures -> Job] /\ rows \in [Captures -> Row]
        /\ files \subseteq Captures /\ faults \in 0 .. MaxFaults
        /\ Good(jobs[c], rows[c], c \in files)
    BY CaptureFacts
  <1>1. /\ rows[c].status \in {"none", "deleted"} /\ files' = files \ {c}
        /\ jobs' = jobs /\ rows' = rows /\ faults' = faults
        /\ UNCHANGED <<recording, output, poster, captured, encoder, temps, posters>>
    BY DEF Reap, orphan, exists, client
  <1>2. Good(jobs'[c], rows'[c], c \in files')
    BY <1>0, <1>1 DEF Good
  <1> QED BY <1>0, <1>1, <1>2, JobInv

----------------------------------------------------------------------------
(***************************************************************************)
(* The recorder.                                                           *)
(***************************************************************************)

\* A step that leaves the store alone, given what it does to every capture.
LEMMA RecorderInv ==
    ASSUME IInv, recording' \in BOOLEAN, captured' \in BOOLEAN,
           output' \in 0 .. MaxCaptures, poster' \in 0 .. MaxCaptures,
           encoder' \in [state : {"stopped", "recording", "finalizing"}, file : 0 .. MaxCaptures],
           temps' \subseteq Captures, posters' \subseteq Captures,
           jobs' \in [Captures -> Job], rows' = rows, files' = files, faults' \in 0 .. MaxFaults,
           Recorder', \A c \in Captures : Good(jobs'[c], rows[c], c \in files)
    PROVE  IInv'
  <1>1. files \subseteq Captures /\ rows \in [Captures -> Row]
    BY Types DEF IInv
  <1>2. TypeOK'
    BY <1>1 DEF TypeOK, Job, Row, PCs, Statuses
  <1>3. CapturesGood'
    BY DEF CapturesGood
  <1> QED BY <1>2, <1>3 DEF IInv

\* What the recorder's own steps know.
LEMMA RecorderFacts ==
    ASSUME IInv
    PROVE  /\ recording \in BOOLEAN /\ captured \in BOOLEAN
           /\ output \in 0 .. MaxCaptures /\ poster \in 0 .. MaxCaptures
           /\ encoder \in [state : {"stopped", "recording", "finalizing"}, file : 0 .. MaxCaptures]
           /\ temps \subseteq Captures /\ posters \subseteq Captures
           /\ jobs \in [Captures -> Job] /\ faults \in 0 .. MaxFaults
           /\ Recorder /\ \A c \in Captures : Good(jobs[c], rows[c], c \in files)
           /\ 0 \in 0 .. MaxCaptures /\ Captures \subseteq 0 .. MaxCaptures
           /\ \A n \in 0 .. MaxCaptures : n # 0 => n \in Captures
           /\ 0 \notin Captures /\ Stopped.state = "stopped"
           /\ Stopped \in [state : {"stopped", "recording", "finalizing"}, file : 0 .. MaxCaptures]
  <1>1. /\ 0 \in 0 .. MaxCaptures /\ Captures \subseteq 0 .. MaxCaptures
        /\ \A n \in 0 .. MaxCaptures : n # 0 => n \in Captures
        /\ 0 \notin Captures
    BY RecordingsAssumption DEF Captures
  <1>2. /\ Stopped.state = "stopped"
        /\ Stopped \in [state : {"stopped", "recording", "finalizing"}, file : 0 .. MaxCaptures]
    BY <1>1 DEF Stopped
  <1> QED BY <1>1, <1>2, Types DEF IInv, CapturesGood

\* A new capture; the one whose path it takes is left.
LEMMA StartRecordingInv ==
    ASSUME IInv, NEW c \in Captures, StartRecording(c)
    PROVE  IInv'
  <1> DEFINE gone(d) == [jobs[d] EXCEPT !.pc = "left"]
             left == [d \in Captures |-> IF d = output /\ jobs[d].pc = "capturing"
                                         THEN gone(d) ELSE jobs[d]]
             now(q) == [jobs[c] EXCEPT !.pc = q]
  <1>0. /\ jobs \in [Captures -> Job] /\ faults \in 0 .. MaxFaults
        /\ encoder \in [state : {"stopped", "recording", "finalizing"}, file : 0 .. MaxCaptures]
        /\ temps \subseteq Captures /\ posters \subseteq Captures /\ Recorder
        /\ (\A d \in Captures : Good(jobs[d], rows[d], d \in files))
        /\ Captures \subseteq 0 .. MaxCaptures /\ c # 0 /\ Stopped.state = "stopped"
    BY RecorderFacts
  <1>1. /\ jobs[c].pc = "none" /\ recording' = TRUE /\ output' = c /\ poster' = c
        /\ captured' = FALSE /\ temps' = temps /\ posters' = posters
        /\ rows' = rows /\ files' = files
    BY DEF StartRecording, server
  <1>2. \/ /\ encoder' = IF encoder = Stopped THEN [state |-> "recording", file |-> c] ELSE encoder
           /\ jobs' = [left EXCEPT ![c].pc = "capturing"] /\ faults' = faults
        \/ /\ encoder = Stopped /\ Fault /\ encoder' = encoder
           /\ jobs' = [left EXCEPT ![c].pc = "ended"]
    BY DEF StartRecording
  <1>3. \A d \in Captures : /\ gone(d) \in Job /\ gone(d).pc = "left"
                            /\ gone(d).kind = jobs[d].kind /\ gone(d).ok = jobs[d].ok
    <2> TAKE d \in Captures
    <2>1. jobs[d] \in Job
      BY <1>0
    <2> QED BY <2>1 DEF Job, PCs, Over
  <1>4. \A q \in {"capturing", "ended"} :
           now(q) \in Job /\ now(q).pc = q /\ now(q).kind = jobs[c].kind /\ now(q).ok = jobs[c].ok
    <2>1. jobs[c] \in Job
      BY <1>0
    <2> QED BY <2>1 DEF Job, PCs, Over
  <1>5. left[c] = jobs[c]
    BY <1>1
  <1>6. PICK q \in {"capturing", "ended"} :
           /\ jobs' = [left EXCEPT ![c] = now(q)]
           /\ q = "ended" => encoder' = Stopped
    BY <1>2, <1>5
  <1>7. \A d \in Captures : d # c =>
           jobs'[d] = IF d = output /\ jobs[d].pc = "capturing" THEN gone(d) ELSE jobs[d]
    BY <1>6
  <1>8. jobs'[c] = now(q)
    BY <1>6
  <1>9. jobs' = [d \in Captures |-> jobs'[d]]
    BY <1>6
  <1>10. encoder' \in [state : {"stopped", "recording", "finalizing"}, file : 0 .. MaxCaptures]
    BY <1>0, <1>2
  <1>11. encoder'.state = "recording" => encoder'.file # 0
    BY <1>0, <1>2 DEF Recorder
  <1>12. faults' \in 0 .. MaxFaults
    BY <1>0, <1>2, RecordingsAssumption DEF Fault
  <1> HIDE DEF gone, now, left
  <1>13. jobs' \in [Captures -> Job]
    <2>1. \A d \in Captures : jobs'[d] \in Job
      BY <1>0, <1>3, <1>4, <1>7, <1>8
    <2> QED BY <1>9, <2>1
  <1>14. Recorder'
    BY <1>0, <1>1, <1>4, <1>6, <1>8, <1>11 DEF Recorder
  <1>15. ASSUME NEW d \in Captures PROVE Good(jobs'[d], rows[d], d \in files)
    <2>0. Good(jobs[d], rows[d], d \in files)
      BY <1>0
    <2>1. CASE d = c
      BY <1>1, <1>4, <1>8, <2>0, <2>1 DEF Good, Over
    <2>2. CASE d # c /\ d = output /\ jobs[d].pc = "capturing"
      BY <1>3, <1>7, <2>0, <2>2 DEF Good, Over
    <2>3. CASE d # c /\ ~(d = output /\ jobs[d].pc = "capturing")
      BY <1>7, <2>0, <2>3
    <2> QED BY <2>1, <2>2, <2>3
  <1> QED BY <1>0, <1>1, <1>10, <1>12, <1>13, <1>14, <1>15, RecorderInv

\* The encoder finalises.
LEMMA StopRecordingInv ==
    ASSUME IInv, StopRecording
    PROVE  IInv'
  <1>1. /\ recording' = FALSE
        /\ encoder' = IF encoder.state = "recording" THEN [encoder EXCEPT !.state = "finalizing"]
                      ELSE encoder
        /\ UNCHANGED <<output, poster, captured, temps, posters, jobs, faults>>
        /\ rows' = rows /\ files' = files
    BY DEF StopRecording, server
  <1>2. /\ encoder' \in [state : {"stopped", "recording", "finalizing"}, file : 0 .. MaxCaptures]
        /\ encoder'.state # "stopped" => encoder.state # "stopped"
        /\ encoder'.state # "recording"
    BY <1>1, RecorderFacts
  <1>3. Recorder'
    BY <1>1, <1>2, RecorderFacts DEF Recorder
  <1> QED BY <1>1, <1>2, <1>3, RecorderFacts, RecorderInv

\* A frame and the poster.
LEMMA FrameTickInv ==
    ASSUME IInv, FrameTick
    PROVE  IInv'
  <1>1. /\ UNCHANGED <<recording, output, poster, encoder, jobs, faults>>
        /\ rows' = rows /\ files' = files
        /\ temps' = IF encoder.state = "recording" THEN temps \cup {encoder.file} ELSE temps
        /\ IF captured \/ poster = 0 THEN UNCHANGED <<captured, posters>>
           ELSE captured' = TRUE /\ posters' = posters \cup {poster}
    BY DEF FrameTick, server
  <1>2. encoder.state = "recording" => encoder.file \in Captures
    BY RecorderFacts DEF Recorder
  <1>3. temps' \subseteq Captures /\ posters' \subseteq Captures /\ captured' \in BOOLEAN
    BY <1>1, <1>2, RecorderFacts
  <1>4. Recorder'
    BY <1>1, RecorderFacts DEF Recorder
  <1> QED BY <1>1, <1>3, <1>4, RecorderFacts, RecorderInv

\* The capture in progress is uploaded, or ends without data.
LEMMA RecorderStoppedInv ==
    ASSUME IInv, encoder.state # "stopped", RecorderStopped, faults' \in 0 .. MaxFaults
    PROVE  IInv'
  <1>0. /\ output \in Captures /\ jobs[output].pc = "capturing" /\ jobs \in [Captures -> Job]
        /\ Good(jobs[output], rows[output], output \in files)
        /\ "index" \in PCs /\ "ended" \in PCs
    BY RecorderFacts DEF RecorderStopped, Recorder, PCs, Requests, Over
  <1>1. /\ encoder' = Stopped /\ output' = 0 /\ UNCHANGED <<recording, captured, temps>>
        /\ rows' = rows /\ files' = files
    BY DEF RecorderStopped, server
  <1>2. PICK p \in {"index", "ended"} : to(output, p)
    BY DEF RecorderStopped, uploadRecording
  <1>3. poster' \in 0 .. MaxCaptures /\ posters' \subseteq Captures
    BY RecorderFacts DEF RecorderStopped, uploadRecording
  <1>4. /\ jobs' \in [Captures -> Job]
        /\ \A d \in Captures : d # output => jobs'[d] = jobs[d]
        /\ jobs'[output].pc = p /\ jobs'[output].kind = jobs[output].kind
        /\ jobs'[output].ok = jobs[output].ok
    BY <1>0, <1>2, ToStep
  <1>5. Good(jobs'[output], rows[output], output \in files)
    BY <1>0, <1>2, <1>4 DEF Good, Over
  <1>6. \A c \in Captures : Good(jobs'[c], rows[c], c \in files)
    BY <1>4, <1>5, RecorderFacts
  <1>7. Recorder'
    BY <1>1, RecorderFacts DEF Recorder
  <1> QED BY <1>1, <1>3, <1>4, <1>6, <1>7, RecorderFacts, RecorderInv

\* The program ends; what was acknowledged stays acknowledged.
LEMMA AppQuitsInv ==
    ASSUME IInv, AppQuits
    PROVE  IInv'
  <1> DEFINE quit(c) == [NewJob EXCEPT !.pc = "left", !.ok = jobs[c].ok]
  <1>1. /\ recording' = FALSE /\ output' = 0 /\ poster' = 0 /\ captured' = FALSE
        /\ encoder' = Stopped /\ temps' = temps /\ posters' = posters
        /\ rows' = rows /\ files' = files /\ Fault
    BY DEF AppQuits, server
  <1>2. jobs' = [c \in Captures |-> IF jobs[c].pc \in {"none"} \cup Over THEN jobs[c] ELSE quit(c)]
    BY DEF AppQuits
  <1>3. faults' \in 0 .. MaxFaults
    BY <1>1, RecorderFacts, RecordingsAssumption DEF Fault
  <1>4. ASSUME NEW c \in Captures
        PROVE  /\ quit(c) \in Job /\ quit(c).pc = "left" /\ quit(c).kind = "artifact"
               /\ quit(c).ok = jobs[c].ok
    <2>1. jobs[c].ok \in BOOLEAN
      BY CaptureFacts
    <2>2. NewJob \in Job /\ NewJob.kind = "artifact"
      BY RecordingsAssumption DEF NewJob, Job, PCs
    <2> QED BY <2>1, <2>2 DEF Job, PCs, Over
  <1> HIDE DEF quit
  <1>5. jobs' \in [Captures -> Job]
    BY <1>2, <1>4, RecorderFacts
  <1>6. ASSUME NEW c \in Captures PROVE Good(jobs'[c], rows[c], c \in files)
    <2>0. Good(jobs[c], rows[c], c \in files)
      BY RecorderFacts
    <2>1. CASE jobs[c].pc \in {"none"} \cup Over
      BY <1>2, <2>0, <2>1
    <2>2. CASE jobs[c].pc \notin {"none"} \cup Over
      BY <1>2, <1>4, <2>0, <2>2 DEF Good, Over
    <2> QED BY <2>1, <2>2
  <1>7. Recorder'
    BY <1>1, RecorderFacts DEF Recorder
  <1> QED BY <1>1, <1>3, <1>5, <1>6, <1>7, RecorderFacts, RecorderInv

----------------------------------------------------------------------------
(***************************************************************************)
(* The theorems.                                                           *)
(***************************************************************************)

\* Nothing is captured, uploaded or stored.
LEMMA InitInv == Init => IInv
  <1> SUFFICES ASSUME Init PROVE IInv
    OBVIOUS
  <1>1. /\ NewJob \in Job /\ NewJob.pc = "none" /\ NewJob.kind = "artifact" /\ NewJob.ok = FALSE
    BY RecordingsAssumption DEF NewJob, Job, PCs
  <1>2. NoRow \in Row /\ NoRow.status = "none" /\ NoRow.path = FALSE
    BY RecordingsAssumption DEF NoRow, Row, Statuses
  <1>3. /\ 0 \in 0 .. MaxCaptures /\ 0 \in 0 .. MaxFaults /\ Stopped.state = "stopped"
        /\ Stopped \in [state : {"stopped", "recording", "finalizing"}, file : 0 .. MaxCaptures]
    BY RecordingsAssumption DEF Stopped
  <1>4. TypeOK
    BY <1>1, <1>2, <1>3, Types DEF Init
  <1>5. Recorder
    BY <1>3 DEF Init, Recorder
  <1>6. CapturesGood
    BY <1>1, <1>2 DEF Init, CapturesGood, Good
  <1> QED BY <1>4, <1>5, <1>6 DEF IInv

\* Every step keeps the invariant.
LEMMA NextInv == IInv /\ [Next]_vars => IInv'
  <1> SUFFICES ASSUME IInv, [Next]_vars PROVE IInv'
    OBVIOUS
  <1>1. ASSUME NEW c \in Captures, JobStep(c) PROVE IInv'
    BY <1>1, ServeCreateInv, IndexAnswerInv, ArtifactDoneInv, ArtifactFailedInv,
       ThumbnailDoneInv, BackoffInv, RequestFailsInv, ServePatchInv, UploadCheckedInv,
       UploadRenamedInv, AttachInv, CompleteInv, UploadThumbnailInv DEF JobStep
  <1>2. ASSUME NEW c \in Captures, StartRecording(c) PROVE IInv'
    BY <1>2, StartRecordingInv
  <1>3. ASSUME NEW c \in Captures, Delete(c) PROVE IInv'
    BY <1>3, DeleteInv
  <1>4. ASSUME NEW c \in Captures, SweepStale(c) PROVE IInv'
    BY <1>4, SweepStaleInv
  <1>5. ASSUME NEW c \in Captures, Reap(c) PROVE IInv'
    BY <1>5, ReapInv
  <1>6. CASE StopRecording
    BY <1>6, StopRecordingInv
  <1>7. CASE FrameTick
    BY <1>7, FrameTickInv
  <1>8. CASE Finalized
    BY <1>8, RecorderStoppedInv, RecorderFacts DEF Finalized
  <1>9. CASE EncoderFails
    <2>1. faults' \in 0 .. MaxFaults
      BY <1>9, RecorderFacts, RecordingsAssumption DEF EncoderFails, Fault
    <2> QED BY <1>9, <2>1, RecorderStoppedInv DEF EncoderFails
  <1>10. CASE AppQuits
    BY <1>10, AppQuitsInv
  <1>11. CASE UNCHANGED vars
    BY <1>11 DEF vars, IInv, TypeOK, Recorder, CapturesGood
  <1> QED
    BY <1>1, <1>2, <1>3, <1>4, <1>5, <1>6, <1>7, <1>8, <1>9, <1>10, <1>11 DEF Next

\* The invariant holds throughout.
LEMMA Invariant == Spec => []IInv
  BY InitInv, NextInv, PTL DEF Spec

\* The types: in particular postFileWithRetry never exceeds kMaxUploadAttempts.
THEOREM RecordingsTypeCorrect == Spec => []TypeOK
  <1>1. IInv => TypeOK
    BY DEF IInv
  <1> QED BY <1>1, Invariant, PTL

\* UploadArtifact, AttachArtifact, Delete and the lifecycle pass: a row that names
\* an artifact has it, and an upload the client was told is finished is recorded as
\* completed unless its row was deleted, whatever sweeps, retries, deletions and
\* quits of the program came between.
THEOREM StoreTruthful == Spec => []StoreSound
  <1>1. IInv => StoreSound
    BY DEF IInv, CapturesGood, Good, StoreSound, ArtifactsThere, UploadsComplete
  <1> QED BY <1>1, Invariant, PTL
=============================================================================
