-------------------------- MODULE WorkspaceExports --------------------------
(***************************************************************************)
(* Workspace and organization exports (apps/worker/src/workspace-exports.ts) *)
(* over export_jobs and the S3 bucket.  One run of the job claims a batch,   *)
(* builds, uploads and completes each export, then sweeps the artifacts of   *)
(* expired and dead exports.  The object key of an export is the same for    *)
(* every attempt; each attempt builds different bytes (the archive carries   *)
(* its generation time), so the attempt's claim token names its bytes and    *)
(* their checksum.                                                           *)
(***************************************************************************)
EXTENDS WorkTable, FiniteSets

CONSTANTS Workers, BatchSize, NoCandidate

Candidate == [id : Rows, token : Nat]
Artifact == [id : Rows, status : {"completed", "dead"}]

ASSUME ExportConstants == /\ BatchSize \in Nat \ {0}
                          /\ NoCandidate \notin Candidate \cup Artifact

VARIABLES
    phase, batch, cur,  \* the worker's place in the job, unstarted and current work
    object,             \* bytes stored under the export's key; NoToken when none
    checksum,           \* checksum_sha256 of the completed row; NoToken before
    expired,            \* expires_at <= now()
    cleaned,            \* last_error starts with '[artifact-cleaned]'
    notified            \* times the recipients of a scheduled report were notified

workerVars == <<phase, batch, cur>>
jobVars == <<checksum, expired, cleaned, notified>>
vars == <<rows, workerVars, object, jobVars>>

Phases == {"idle", "export", "put", "complete", "release",
           "select", "sweep", "delete", "verify", "markCleaned", "cleanupFailed"}

\* Every variable has its type.
TypeOK ==
    /\ rows \in [Rows -> RowType]
    /\ phase \in [Workers -> Phases]
    /\ batch \in [Workers -> SUBSET (Candidate \cup Artifact)]
    /\ cur \in [Workers -> Candidate \cup Artifact \cup {NoCandidate}]
    /\ object \in [Rows -> Nat] /\ checksum \in [Rows -> Nat]
    /\ expired \in [Rows -> BOOLEAN] /\ cleaned \in [Rows -> BOOLEAN]
    /\ notified \in [Rows -> Nat]

Init ==
    /\ TableInit
    /\ phase = [w \in Workers |-> "idle"]
    /\ batch = [w \in Workers |-> {}]
    /\ cur = [w \in Workers |-> NoCandidate]
    /\ object = [r \in Rows |-> NoToken] /\ checksum = [r \in Rows |-> NoToken]
    /\ expired = [r \in Rows |-> FALSE] /\ cleaned = [r \in Rows |-> FALSE]
    /\ notified = [r \in Rows |-> 0]

-----------------------------------------------------------------------------
\* request / enqueueScheduledReports: the idempotency key creates one row.
Request(r) ==
    /\ Insert(r)
    /\ UNCHANGED <<workerVars, object, jobVars>>

\* retry_dead_letter also clears last_error, the cleanup marker with it.
RetryDead(r) ==
    /\ RetryDeadLetter(r)
    /\ cleaned' = [cleaned EXCEPT ![r] = FALSE]
    /\ UNCHANGED <<workerVars, object, checksum, expired, notified>>

TimePasses(r) ==
    /\ ClaimTimesOut(r) \/ BackoffElapses(r)
    /\ UNCHANGED <<workerVars, object, jobVars>>

RetentionEnds(r) ==
    /\ rows[r].status = "completed" /\ ~ expired[r]
    /\ expired' = [expired EXCEPT ![r] = TRUE]
    /\ UNCHANGED <<rows, workerVars, object, checksum, cleaned, notified>>

-----------------------------------------------------------------------------
Goto(w, p) == phase' = [phase EXCEPT ![w] = p] /\ UNCHANGED <<batch, cur>>

\* Take the next element of the batch, or leave the loop.
Take(w, c, p) ==
    /\ cur' = [cur EXCEPT ![w] = c]
    /\ batch' = [batch EXCEPT ![w] = @ \ {c}]
    /\ phase' = [phase EXCEPT ![w] = p]

Back(w, loop) ==
    /\ cur' = [cur EXCEPT ![w] = NoCandidate]
    /\ phase' = [phase EXCEPT ![w] = loop]
    /\ UNCHANGED batch

\* claimWorkspaceExportBatch; the batch may be empty, the sweep follows anyway.
ClaimWorkspaceExportBatch(w) ==
    /\ phase[w] = "idle"
    /\ \E S \in SUBSET Rows :
          /\ Cardinality(S) =< BatchSize
          /\ ClaimBatch(S)
          /\ batch' = [batch EXCEPT ![w] =
                {[id |-> r, token |-> Claimed(rows[r]).token] : r \in S}]
          /\ cleaned' = [r \in Rows |-> cleaned[r] /\ r \notin S]
    /\ phase' = [phase EXCEPT ![w] = "export"]
    /\ UNCHANGED <<cur, object, checksum, expired, notified>>

\* buildArchive, createWorkspacePortabilityZip, ...: one repeatable-read
\* snapshot, or an error.
BuildArchive(w) ==
    /\ phase[w] = "export"
    /\ \E c \in batch[w], p \in {"put", "release"} : Take(w, c, p)
    /\ UNCHANGED <<rows, object, jobVars>>

\* Mutant: the error of the upload is swallowed.
PutObjectUnchecked(w) ==
    /\ phase[w] = "put"
    /\ \/ object' = [object EXCEPT ![cur[w].id] = cur[w].token]
       \/ UNCHANGED object
    /\ Goto(w, "complete")
    /\ UNCHANGED <<rows, jobVars>>

\* storage.putObject: stored; stored with the answer lost; not stored.
PutObject(w) ==
    /\ phase[w] = "put"
    /\ \/ /\ object' = [object EXCEPT ![cur[w].id] = cur[w].token]
          /\ Goto(w, "complete") \/ Goto(w, "release")
       \/ UNCHANGED object /\ Goto(w, "release")
    /\ UNCHANGED <<rows, jobVars>>

\* Mutant: the completion does not look at the number of rows it updated.
MarkCompletedUnchecked(w) ==
    LET c == cur[w]
    IN  /\ phase[w] = "complete"
        /\ rows' = [rows EXCEPT ![c.id] = Fenced(@, c.token, Finished(@, "completed"))]
        /\ checksum' = [checksum EXCEPT ![c.id] = IF Owns(rows[c.id], c.token) THEN c.token ELSE @]
        /\ notified' = [notified EXCEPT ![c.id] = @ + 1]
        /\ Back(w, "export")
        /\ UNCHANGED <<object, expired, cleaned>>

\* markCompleted: one transaction completes the row, which must still carry the
\* worker's claim, and notifies the recipients of a scheduled report; a lost
\* claim, or a failed transaction, goes to the catch.
MarkCompleted(w) ==
    LET c == cur[w]
    IN  /\ phase[w] = "complete"
        /\ \/ /\ Owns(rows[c.id], c.token)
              /\ rows' = [rows EXCEPT ![c.id] = Finished(@, "completed")]
              /\ checksum' = [checksum EXCEPT ![c.id] = c.token]
              /\ notified' = [notified EXCEPT ![c.id] = @ + 1]
              /\ Back(w, "export")
           \/ /\ Goto(w, "release")
              /\ UNCHANGED <<rows, checksum, notified>>
        /\ UNCHANGED <<object, expired, cleaned>>

ReleaseFailed(w) ==
    /\ phase[w] = "release"
    /\ rows' = [rows EXCEPT ![cur[w].id] = Fenced(@, cur[w].token, Released(@))]
    /\ Back(w, "export")
    /\ UNCHANGED <<object, jobVars>>

-----------------------------------------------------------------------------
\* Mutant: the sweep forgets that only expired exports may go.
SweepableUnexpired(r) ==
    rows[r].status \in {"completed", "dead"} /\ ~ cleaned[r]

\* The rows cleanupExpiredExports selects.
Sweepable(r) ==
    /\ \/ rows[r].status = "dead"
       \/ rows[r].status = "completed" /\ expired[r]
    /\ ~ cleaned[r]

\* The SELECT takes no lock; the job ends when nothing is selected.
SelectExpired(w) ==
    /\ phase[w] = "export" /\ batch[w] = {}
    /\ batch' = [batch EXCEPT ![w] =
          {[id |-> r, status |-> rows[r].status] : r \in {q \in Rows : Sweepable(q)}}]
    /\ phase' = [phase EXCEPT ![w] = IF batch'[w] = {} THEN "idle" ELSE "sweep"]
    /\ UNCHANGED <<rows, cur, object, jobVars>>

NextArtifact(w) ==
    /\ phase[w] = "sweep"
    /\ \E c \in batch[w] : Take(w, c, "delete")
    /\ UNCHANGED <<rows, object, jobVars>>

DeleteObject(w) ==
    /\ phase[w] = "delete"
    /\ \/ /\ object' = [object EXCEPT ![cur[w].id] = NoToken]
          /\ Goto(w, "verify") \/ Goto(w, "cleanupFailed")
       \/ UNCHANGED object /\ Goto(w, "cleanupFailed")
    /\ UNCHANGED <<rows, jobVars>>

\* objectExists, whose own request may fail.
VerifyAbsent(w) ==
    /\ phase[w] = "verify"
    /\ \E p \in {IF object[cur[w].id] = NoToken THEN "markCleaned" ELSE "cleanupFailed",
                 "cleanupFailed"} : Goto(w, p)
    /\ UNCHANGED <<rows, object, jobVars>>

\* Where the sweep goes after an artifact.
SweepOn(w) == Back(w, IF batch[w] = {} THEN "idle" ELSE "sweep")

\* The update, or only its answer, may get lost.
MarkCleaned(w) ==
    /\ phase[w] = "markCleaned"
    /\ \/ /\ cleaned' = [cleaned EXCEPT ![cur[w].id] =
                            @ \/ rows[cur[w].id].status = cur[w].status]
          /\ SweepOn(w) \/ Goto(w, "cleanupFailed")
       \/ UNCHANGED cleaned /\ Goto(w, "cleanupFailed")
    /\ UNCHANGED <<rows, object, checksum, expired, notified>>

\* The catch overwrites last_error, and with it a marker another sweep set.
CleanupFailed(w) ==
    /\ phase[w] = "cleanupFailed"
    /\ cleaned' = [cleaned EXCEPT ![cur[w].id] =
                     @ /\ rows[cur[w].id].status \notin {"completed", "dead"}]
    /\ SweepOn(w)
    /\ UNCHANGED <<rows, object, checksum, expired, notified>>

\* The process dies, or a database error escapes the job.
Crash(w) ==
    /\ phase[w] # "idle"
    /\ phase' = [phase EXCEPT ![w] = "idle"]
    /\ batch' = [batch EXCEPT ![w] = {}]
    /\ cur' = [cur EXCEPT ![w] = NoCandidate]
    /\ UNCHANGED <<rows, object, jobVars>>

Next ==
    \/ \E r \in Rows : Request(r) \/ RetryDead(r) \/ TimePasses(r) \/ RetentionEnds(r)
    \/ \E w \in Workers :
          \/ ClaimWorkspaceExportBatch(w) \/ BuildArchive(w) \/ PutObject(w)
          \/ MarkCompleted(w) \/ ReleaseFailed(w)
          \/ SelectExpired(w) \/ NextArtifact(w) \/ DeleteObject(w)
          \/ VerifyAbsent(w) \/ MarkCleaned(w) \/ CleanupFailed(w) \/ Crash(w)

Spec == Init /\ [][Next]_vars

-----------------------------------------------------------------------------
Downloadable(r) == rows[r].status = "completed" /\ ~ expired[r]
Retried(r) == rows[r].maxAttempts > MaxAttempts

\* The worker's and the sweep's statements keep to the table's promise.
ImplementsWorkTable == TableSpec

\* The recipients of a scheduled report are notified in the transaction that
\* completes its export: once, and only if the export completed, however many
\* workers got as far as completing it (ADR 0027).
NotifiedOnceCompleted ==
    \A r \in Rows : notified[r] = IF rows[r].status = "completed" THEN 1 ELSE 0

\* An export that completed on its first attempt, whose claim nobody ever took
\* over, can be downloaded until it expires and has the recorded checksum.
FirstAttemptIntact ==
    \A r \in Rows : Downloadable(r) /\ rows[r].attempts = 1 =>
        object[r] = checksum[r] /\ object[r] # NoToken

\* Unless an administrator retried it, a completed export keeps an artifact
\* until it expires: no sweep, however late, deletes it.
UnretriedKeepsArtifact ==
    \A r \in Rows : Downloadable(r) /\ ~ Retried(r) => object[r] # NoToken

\* The state stays well formed; completed exports have notified once and, unless
\* retried, keep their artifact.
ExportsInv == TypeOK /\ NotifiedOnceCompleted /\ UnretriedKeepsArtifact
=============================================================================
