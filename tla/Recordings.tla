----------------------------- MODULE Recordings -----------------------------
(***************************************************************************)
(* Session recordings: the desktop client's DeviceRecorder, which encodes  *)
(* a capture, makes an index row for it and uploads the bytes and a        *)
(* preview with retries, composed with the server's recording store and    *)
(* its lifecycle pass.                                                     *)
(*                                                                         *)
(* The members m_outputPath and m_posterPath belong to the recorder, not   *)
(* to a capture, and a new capture may start while the encoder finalises   *)
(* the last one or while that one is uploaded.  Answers get lost, rows are *)
(* deleted by another client, and the program may end at any point.        *)
(***************************************************************************)
EXTENDS Naturals

CONSTANTS
    MaxCaptures,  \* bound: captures in a run; a capture also names its row and files
    MaxAttempts,  \* kMaxUploadAttempts
    MaxFaults     \* bound: encoder errors, failing calls of the server, quits

ASSUME RecordingsAssumption ==
    MaxCaptures \in Nat \ {0} /\ MaxAttempts \in Nat \ {0} /\ MaxFaults \in Nat

Captures == 1 .. MaxCaptures

VARIABLES
    recording,  \* m_recording
    output,     \* m_outputPath: a capture, or 0 if empty
    poster,     \* m_posterPath: a capture, or 0 if empty
    captured,   \* m_posterCaptured
    encoder,    \* the state of m_recorder and the capture it writes
    temps,      \* captures with data in the temporary directory
    posters,    \* captures with a poster there
    jobs,       \* what becomes of each capture
    rows,       \* session_recordings
    files,      \* artifacts in the server's store
    faults      \* faults so far

client == <<recording, output, poster, captured, encoder, temps, posters>>
server == <<rows, files>>
vars == <<recording, output, poster, captured, encoder, temps, posters, jobs, rows, files, faults>>

\* Where a capture is: with the recorder, in one of the requests, or done with.
Requests == {"index", "indexed", "sent", "checked", "renamed", "attached", "ok", "error", "backoff", "patch"}
Over == {"ended", "left"}

\* One type invariant: the attempts of an upload are bounded.
TypeOK ==
    /\ recording \in BOOLEAN /\ captured \in BOOLEAN
    /\ output \in 0 .. MaxCaptures /\ poster \in 0 .. MaxCaptures
    /\ encoder \in [state : {"stopped", "recording", "finalizing"}, file : 0 .. MaxCaptures]
    /\ temps \subseteq Captures /\ posters \subseteq Captures /\ files \subseteq Captures
    /\ jobs \in [Captures -> [pc : Requests \cup Over \cup {"none", "capturing"}, attempt : 0 .. MaxAttempts - 1,
                              kind : {"artifact", "thumbnail"}, file : 0 .. MaxCaptures,
                              ok : BOOLEAN]]
    /\ rows \in [Captures -> [status : {"none", "recording", "completed", "failed", "deleted"},
                              path : BOOLEAN, thumb : 0 .. MaxCaptures]]
    /\ faults \in 0 .. MaxFaults

NewJob == [pc |-> "none", attempt |-> 0, kind |-> "artifact", file |-> 0, ok |-> FALSE]
NoRow == [status |-> "none", path |-> FALSE, thumb |-> 0]
Stopped == [state |-> "stopped", file |-> 0]

Init ==
    /\ recording = FALSE /\ output = 0 /\ poster = 0 /\ captured = FALSE
    /\ encoder = Stopped /\ temps = {} /\ posters = {}
    /\ jobs = [c \in Captures |-> NewJob] /\ rows = [c \in Captures |-> NoRow]
    /\ files = {} /\ faults = 0

Fault == faults < MaxFaults /\ faults' = faults + 1
exists(c) == rows[c].status \notin {"none", "deleted"}
to(c, pc) == jobs' = [jobs EXCEPT ![c].pc = pc]

(***************************************************************************)
(* The recorder.                                                           *)
(***************************************************************************)
\* startRecording: only m_recording is looked at.  The paths of a capture
\* that is not uploaded yet are overwritten.  Qt ignores record() until the
\* encoder has stopped; if it cannot start it reports an error.
StartRecording(c) ==
    LET left == [d \in Captures |-> IF d = output /\ jobs[d].pc = "capturing"
                                    THEN [jobs[d] EXCEPT !.pc = "left"] ELSE jobs[d]]
    IN  /\ ~recording /\ jobs[c].pc = "none" /\ \A d \in 1 .. c - 1 : jobs[d].pc # "none"
        /\ recording' = TRUE /\ output' = c /\ poster' = c /\ captured' = FALSE
        /\ \/ /\ encoder' = IF encoder = Stopped THEN [state |-> "recording", file |-> c] ELSE encoder
              /\ jobs' = [left EXCEPT ![c].pc = "capturing"] /\ UNCHANGED faults
           \/ /\ encoder = Stopped /\ Fault /\ UNCHANGED encoder
              /\ jobs' = [left EXCEPT ![c].pc = "ended"]
        /\ UNCHANGED <<temps, posters, server>>

\* Finalisation goes on after stop() has returned.
StopRecording ==
    /\ recording /\ recording' = FALSE
    /\ encoder' = IF encoder.state = "recording" THEN [encoder EXCEPT !.state = "finalizing"] ELSE encoder
    /\ UNCHANGED <<output, poster, captured, temps, posters, jobs, server, faults>>

\* onFrameTick, capturePoster: a frame of the remote screen is encoded, and
\* the first one is saved as the poster.
FrameTick ==
    /\ recording
    /\ temps' = IF encoder.state = "recording" THEN temps \cup {encoder.file} ELSE temps
    /\ IF captured \/ poster = 0 THEN UNCHANGED <<captured, posters>>
       ELSE captured' = TRUE /\ posters' = posters \cup {poster}
    /\ <<temps, captured>>' # <<temps, captured>>
    /\ UNCHANGED <<recording, output, poster, encoder, jobs, server, faults>>

\* uploadRecording: without data the upload ends here and the poster goes.
uploadRecording(c) ==
    IF c \in temps
    THEN to(c, "index") /\ UNCHANGED <<poster, posters>>
    ELSE to(c, "ended") /\ poster' = 0 /\ posters' = posters \ {poster}

\* onRecorderStateChanged: whatever path the recorder holds now is uploaded.
RecorderStopped ==
    /\ output # 0 /\ uploadRecording(output)
    /\ encoder' = Stopped /\ output' = 0
    /\ UNCHANGED <<recording, captured, temps, server>>

Finalized == encoder.state = "finalizing" /\ RecorderStopped /\ UNCHANGED faults

\* The encoder gives up: onRecorderError reports it, and m_recording stays.
EncoderFails == encoder.state = "recording" /\ RecorderStopped /\ Fault

(***************************************************************************)
(* The upload.                                                             *)
(***************************************************************************)
\* createIndexRowThenUpload: POST /v1/me/recordings.
ServeCreate(c) ==
    /\ jobs[c].pc = "index" /\ to(c, "indexed")
    /\ rows' = [rows EXCEPT ![c].status = "recording"]
    /\ UNCHANGED <<client, files, faults>>

\* Its answer; when the request or the answer is lost the upload ends, and
\* the capture and the poster stay on the disk.
IndexAnswer(c) ==
    /\ \/ jobs[c].pc = "indexed" /\ to(c, "sent")
       \/ jobs[c].pc \in {"index", "indexed"} /\ to(c, "ended")
    /\ UNCHANGED <<client, server, faults>>

\* postFileWithRetry: an attempt is left after this one.  A status of 4xx is an
\* error of QNetworkReply too, so it is retried like any other.
retry(c) == jobs[c].attempt + 1 < MaxAttempts /\ to(c, "backoff")

lastAttempt(c) == jobs[c].attempt + 1 = MaxAttempts

\* uploadThumbnail: the poster the recorder names now goes to this row.
uploadThumbnail(c) ==
    /\ poster' = 0
    /\ jobs' = [jobs EXCEPT ![c] =
           IF poster \in posters
           THEN [@ EXCEPT !.pc = "sent", !.kind = "thumbnail", !.file = poster, !.attempt = 0, !.ok = TRUE]
           ELSE [@ EXCEPT !.pc = "ended", !.ok = TRUE]]

\* uploadBytes: the bytes are on the server, and the temporary file goes.
ArtifactDone(c) ==
    /\ jobs[c].pc = "ok" /\ jobs[c].kind = "artifact"
    /\ temps' = temps \ {c} /\ uploadThumbnail(c)
    /\ UNCHANGED <<recording, output, captured, encoder, posters, server, faults>>

\* markFailed: the capture goes, and so does the poster the recorder names now.
markFailed(c) ==
    /\ temps' = temps \ {c} /\ poster' = 0 /\ posters' = posters \ {poster} /\ to(c, "patch")
    /\ UNCHANGED <<recording, output, captured, encoder, server, faults>>

ArtifactFailed(c) ==
    /\ jobs[c].pc = "error" /\ jobs[c].kind = "artifact"
    /\ \/ retry(c) /\ UNCHANGED <<client, server, faults>>
       \/ lastAttempt(c) /\ markFailed(c)

\* The preview is best effort: its file goes either way.
ThumbnailDone(c) ==
    /\ jobs[c].kind = "thumbnail"
    /\ \/ jobs[c].pc = "error" /\ retry(c) /\ UNCHANGED posters
       \/ /\ jobs[c].pc = "ok" \/ (jobs[c].pc = "error" /\ lastAttempt(c))
          /\ to(c, "ended") /\ posters' = posters \ {jobs[c].file}
    /\ UNCHANGED <<recording, output, poster, captured, encoder, temps, server, faults>>

\* Mutant: the next attempt has the number of the last.
BackoffSame(c) == jobs[c].pc = "backoff" /\ to(c, "sent") /\ UNCHANGED <<client, server, faults>>

\* The backoff is over; a file that is gone makes the upload fail.
Backoff(c) ==
    LET there == IF jobs[c].kind = "artifact" THEN c \in temps ELSE jobs[c].file \in posters
    IN  /\ jobs[c].pc = "backoff"
        /\ jobs' = [jobs EXCEPT ![c].attempt = IF there THEN @ + 1 ELSE MaxAttempts - 1,
                                ![c].pc = IF there THEN "sent" ELSE "error"]
        /\ UNCHANGED <<client, server, faults>>

\* The request or its answer is lost, or the server rejects it; its handler
\* ends at its next use of the request's context.
RequestFails(c) ==
    /\ jobs[c].pc \in {"sent", "checked", "renamed", "attached", "ok"}
    /\ jobs[c].kind = "thumbnail" => jobs[c].pc = "sent"
    /\ jobs[c].pc = "ok" => jobs[c].kind = "artifact"
    /\ to(c, "error") /\ UNCHANGED <<client, server, faults>>

\* PATCH of markFailed, whose failure is only logged.
ServePatch(c) ==
    /\ jobs[c].pc = "patch" /\ to(c, "ended")
    /\ \/ rows' = [rows EXCEPT ![c].status = IF exists(c) THEN "failed" ELSE @]
       \/ UNCHANGED rows
    /\ UNCHANGED <<client, files, faults>>

\* The program ends; nothing resumes an upload, and the files stay.
AppQuits ==
    /\ Fault /\ recording' = FALSE /\ output' = 0 /\ poster' = 0 /\ captured' = FALSE /\ encoder' = Stopped
    /\ jobs' = [c \in Captures |-> IF jobs[c].pc \in {"none"} \cup Over THEN jobs[c]
                                   ELSE [NewJob EXCEPT !.pc = "left", !.ok = jobs[c].ok]]
    /\ UNCHANGED <<temps, posters, server>>

(***************************************************************************)
(* The server.                                                             *)
(***************************************************************************)
\* UploadArtifact: the row is looked up before any byte is taken.
UploadChecked(c) ==
    /\ jobs[c].pc = "sent" /\ jobs[c].kind = "artifact"
    /\ to(c, IF exists(c) THEN "checked" ELSE "error")
    /\ UNCHANGED <<client, server, faults>>

\* Mutant: the index is updated before the file has its name.
AttachFirst(c) ==
    /\ jobs[c].pc = "checked" /\ to(c, IF exists(c) THEN "attached" ELSE "error")
    /\ rows' = [rows EXCEPT ![c].path = exists(c)] /\ UNCHANGED <<client, files, faults>>

\* The temporary file gets the artifact's name.
UploadRenamed(c) ==
    /\ jobs[c].pc = "checked" /\ to(c, "renamed") /\ files' = files \cup {c}
    /\ UNCHANGED <<client, rows, faults>>

\* AttachArtifact: the path, if the row is still there.
Attach(c) ==
    /\ jobs[c].pc = "renamed" /\ to(c, IF exists(c) THEN "attached" ELSE "error")
    /\ rows' = [rows EXCEPT ![c].path = exists(c)]
    /\ UNCHANGED <<client, files, faults>>

\* Whatever the row said, the bytes are there.
completed(c) == "completed"

\* AttachArtifact: the status, in an update of its own.
Complete(c) ==
    /\ jobs[c].pc = "attached"
    /\ IF exists(c) THEN rows' = [rows EXCEPT ![c].status = completed(c)] /\ to(c, "ok")
       ELSE to(c, "error") /\ UNCHANGED rows
    /\ UNCHANGED <<client, files, faults>>

\* UploadThumbnail, AttachThumbnail: the stored name is derived from the row.
UploadThumbnail(c) ==
    /\ jobs[c].pc = "sent" /\ jobs[c].kind = "thumbnail"
    /\ IF exists(c) THEN rows' = [rows EXCEPT ![c].thumb = jobs[c].file] /\ (to(c, "ok") \/ to(c, "error"))
       ELSE to(c, "error") /\ UNCHANGED rows
    /\ UNCHANGED <<client, files, faults>>

\* Delete, from another client: the row, then the file it named.  The file
\* stays if it cannot be unlinked, or was attached after the row was read.
Delete(c) ==
    /\ exists(c) /\ rows' = [rows EXCEPT ![c] = [NoRow EXCEPT !.status = "deleted"]]
    /\ \/ files' = (IF rows[c].path THEN files \ {c} ELSE files) /\ UNCHANGED faults
       \/ rows[c].path /\ Fault /\ UNCHANGED files
    /\ UNCHANGED <<client, jobs>>

\* An upload has no time limit, so a row may be stale while it goes on.
stale(c) == rows[c].status = "recording"

\* SweepStaleRecordings.
SweepStale(c) ==
    /\ stale(c) /\ rows' = [rows EXCEPT ![c].status = "failed"]
    /\ UNCHANGED <<client, jobs, files, faults>>

\* Mutant: files are reclaimed through the rows that name them.
OrphanByRow(c) == c \in files /\ rows[c].path /\ ~exists(c)

\* RecordFileID, Exists: a file old enough whose row is gone.
orphan(c) == c \in files /\ ~exists(c)

\* ReapOrphanFiles.
Reap(c) ==
    /\ orphan(c) /\ files' = files \ {c}
    /\ UNCHANGED <<client, jobs, rows, faults>>

(***************************************************************************)
(* The system.                                                             *)
(***************************************************************************)
\* The client's and the server's part in an upload.
JobStep(c) ==
    \/ ServeCreate(c) \/ IndexAnswer(c) \/ ArtifactDone(c) \/ ArtifactFailed(c) \/ ThumbnailDone(c)
    \/ Backoff(c) \/ RequestFails(c) \/ ServePatch(c) \/ UploadChecked(c) \/ UploadRenamed(c)
    \/ Attach(c) \/ Complete(c) \/ UploadThumbnail(c)

Next ==
    \/ \E c \in Captures : StartRecording(c) \/ JobStep(c) \/ Delete(c) \/ SweepStale(c) \/ Reap(c)
    \/ StopRecording \/ FrameTick \/ Finalized \/ EncoderFails \/ AppQuits

Spec == Init /\ [][Next]_vars

\* The encoder finalises, a request is answered or given up, and the lifecycle
\* pass runs on its ticker.
FairSpec ==
    /\ Spec /\ WF_vars(Finalized)
    /\ \A c \in Captures : WF_vars(JobStep(c)) /\ WF_vars(SweepStale(c)) /\ WF_vars(Reap(c))

(***************************************************************************)
(* Properties.                                                             *)
(***************************************************************************)
\* A row that names an artifact has it: what a download opens is in the store,
\* whatever deletions, sweeps and repeated uploads came between
\* (UploadArtifact, AttachArtifact, Delete, ReapOrphanFiles).
ArtifactsThere == \A c \in Captures : rows[c].path => c \in files

\* After the client has reported an upload as finished and dropped its copy,
\* the row says so, or was deleted since, even if the row was swept as stale
\* or marked failed while the bytes were on their way (uploadBytes,
\* AttachArtifact, SweepStaleRecordings).
UploadsComplete ==
    \A c \in Captures : jobs[c].ok => rows[c].status \in {"completed", "deleted"}

\* The store tells the truth: a row that names an artifact has it, and an
\* upload that was acknowledged is recorded.
StoreSound == ArtifactsThere /\ UploadsComplete

\* A capture that was stopped ends as an upload or a reported failure, unless
\* the program ends or a new capture takes the recorder's path before the
\* encoder has finalised (stopRecording, onRecorderStateChanged,
\* postFileWithRetry).
CapturesEnd ==
    \A c \in Captures :
        (jobs[c].pc \in Requests \/ (jobs[c].pc = "capturing" /\ ~recording)) ~> (jobs[c].pc \in Over)

\* No row claims for ever that a capture is still in progress, whatever
\* became of its client (SweepStaleRecordings).
RowsSettle == \A c \in Captures : (rows[c].status = "recording") ~> (rows[c].status # "recording")

\* An artifact whose row was deleted while it was stored, or could not be
\* unlinked, is reclaimed (Delete, UploadArtifact, ReapOrphanFiles).
OrphansReclaimed == \A c \in Captures : (c \in files /\ ~exists(c)) ~> (c \notin files)

\* The store settles: rows and files that nobody finishes are cleaned up.
StoreSettles == RowsSettle /\ OrphansReclaimed
=============================================================================
