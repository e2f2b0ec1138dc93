----------------------------- MODULE Attachments -----------------------------
(***************************************************************************)
(* Attachments: upload, scan, preview and deletion by the API              *)
(* (apps/api/src/attachment.service.ts over repositories/attachments.ts)   *)
(* and the worker that removes orphans                                     *)
(* (apps/worker/src/attachment-cleanup.ts).                                *)
(*                                                                         *)
(* A request of the API is one database transaction, which commits at its  *)
(* end; what it does to the object store happens at once and stays when    *)
(* the transaction is rolled back.  The worker claims orphans, deletes     *)
(* their objects and then their rows.  Its claim is fenced by the time of  *)
(* the claim, which the database keeps in microseconds and the worker in   *)
(* milliseconds: the fence holds only for a claim at a whole millisecond   *)
(* (exact).  A claim is named by the number of the attempt.                *)
(***************************************************************************)
EXTENDS Naturals, FiniteSets

CONSTANTS
    Attachment,
    Request,        \* requests of the API in progress at once
    Deleting,       \* the requests that may be deletions (two never overlap)
    MaxAttempts,    \* ATTACHMENT_CLEANUP_MAX_ATTEMPTS
    NoJob

ASSUME AttachmentConstants == MaxAttempts \in Nat \ {0} /\ Deleting \subseteq Request

Attempt == 1..MaxAttempts

VARIABLES
    row,        \* row[a]: the row of the attachment
    object,     \* object[a]: the uploaded object exists
    linked,     \* linked[a]: the presigned upload URL is still valid
    target,     \* target[a]: its task or project is not deleted
    request,    \* request[r]: a request in progress
    worker,     \* worker[a][n]: the job that made the n-th claim of a
    aborted,    \* attachments of which a request deleted the object and failed
    late        \* attachments found clean after a claim, or with no object left

attachmentVars == <<row, object, linked, target, request, worker, aborted, late>>
store == <<object, linked>>
history == <<aborted, late>>

Verdict == {"clean", "infected", "failed"}
ScanStatus == {"pending", "clean", "failed", "infected"}

RequestType ==
    [kind : {"complete", "delete"}, id : Attachment, scan : ScanStatus,
     at : {"scan", "record", "object", "commit"},
     wrote : BOOLEAN, dropped : BOOLEAN]

ASSUME NoJobAssumption == NoJob \notin RequestType

NoRow == [state |-> "none", scan |-> "pending", deleted |-> FALSE, old |-> FALSE,
          attempts |-> 0, claim |-> "none", exact |-> FALSE]

Live(a) == row[a].state = "present" /\ ~row[a].deleted
Present(a) == row[a].state = "present"

(* A request that has written the row keeps it locked until it ends.       *)
RowFree(a) == \A r \in Request : request[r] # NoJob => ~(request[r].id = a /\ request[r].wrote)

AttachmentsInit ==
    /\ row = [a \in Attachment |-> NoRow]
    /\ object = [a \in Attachment |-> FALSE] /\ linked = object
    /\ target = [a \in Attachment |-> TRUE]
    /\ request = [r \in Request |-> NoJob]
    /\ worker = [a \in Attachment |-> [n \in Attempt |-> "none"]]
    /\ aborted = {} /\ late = {}

-----------------------------------------------------------------------------
(* createUpload: a row and a URL for the client to upload to, ...          *)
CreateUpload(a) ==
    /\ row[a] = NoRow
    /\ row' = [row EXCEPT ![a].state = "present"]
    /\ linked' = [linked EXCEPT ![a] = TRUE]
    /\ UNCHANGED <<object, target, request, worker, history>>

(* ... which the client may do while the URL is valid.                     *)
Upload(a) ==
    /\ linked[a] /\ ~object[a]
    /\ object' = [object EXCEPT ![a] = TRUE]
    /\ UNCHANGED <<row, linked, target, request, worker, history>>

DeleteTarget(a) ==
    /\ target[a]
    /\ target' = [target EXCEPT ![a] = FALSE]
    /\ UNCHANGED <<row, store, request, worker, history>>

(* The retention of a row passes; the URL lapses long before.              *)
Age(a) ==
    /\ Present(a) /\ ~row[a].old
    /\ row' = [row EXCEPT ![a].old = TRUE]
    /\ linked' = [linked EXCEPT ![a] = FALSE]
    /\ UNCHANGED <<object, target, request, worker, history>>

-----------------------------------------------------------------------------
Start(r, job) == request[r] = NoJob /\ request' = [request EXCEPT ![r] = job]

(* completeUpload reads the row without a lock and inspects the object; a  *)
(* row that was scanned already is left alone.                             *)
BeginCompleteUpload(r, a) ==
    /\ Live(a) /\ row[a].scan = "pending" /\ object[a]
    /\ Start(r, [kind |-> "complete", id |-> a, at |-> "scan", scan |-> "pending",
                 wrote |-> FALSE, dropped |-> FALSE])
    /\ UNCHANGED <<row, store, target, worker, history>>

At(r, kind, place) == request[r] # NoJob /\ request[r].kind = kind /\ request[r].at = place

(* An object with another size, type or signature than announced has       *)
(* failed and is deleted; the scanner judges the others.  A failed read or *)
(* an unavailable scanner fail them too, and leave the object.  The client *)
(* may have replaced the object since another request scanned it.          *)
Scan(r, verdict) ==
    /\ At(r, "complete", "scan")
    /\ \E mismatch \in BOOLEAN :
        /\ mismatch => verdict = "failed"
        /\ verdict \in {"clean", "infected"} => object[request[r].id]
        /\ object' = [object EXCEPT ![request[r].id] = @ /\ ~mismatch]
        /\ request' = [request EXCEPT ![r].at = "record", ![r].scan = verdict,
                                     ![r].dropped = mismatch]
    /\ UNCHANGED <<row, linked, target, worker, history>>

(* setScanResult, on a row that is not deleted.  The preview of a clean    *)
(* object, made next, changes nothing else when it fails.                  *)
RecordScan(r) ==
    /\ At(r, "complete", "record")
    /\ Live(request[r].id) /\ RowFree(request[r].id)
    /\ request' = [request EXCEPT ![r].wrote = TRUE,
        ![r].at = IF request[r].scan = "infected" THEN "object" ELSE "commit"]
    /\ UNCHANGED <<row, store, target, worker, history>>

(* delete marks the row, ...                                               *)
BeginDeleteAttachment(r, a) ==
    /\ r \in Deleting /\ Live(a) /\ RowFree(a)
    /\ Start(r, [kind |-> "delete", id |-> a, at |-> "object", scan |-> "pending",
                 wrote |-> TRUE, dropped |-> FALSE])
    /\ UNCHANGED <<row, store, target, worker, history>>

(* ... and then deletes the object and its preview; completeUpload does so *)
(* when the object is infected.                                            *)
DeleteObject(r) ==
    /\ request[r] # NoJob /\ request[r].at = "object"
    /\ object' = [object EXCEPT ![request[r].id] = FALSE]
    /\ request' = [request EXCEPT ![r].at = "commit", ![r].dropped = TRUE]
    /\ UNCHANGED <<row, linked, target, worker, history>>

EndRequest(r) == request' = [request EXCEPT ![r] = NoJob]

(* The end of a request: its writes appear, and updated_at is new.         *)
Commit(r) ==
    LET a == request[r].id
        new == IF request[r].kind = "delete" THEN [row[a] EXCEPT !.deleted = TRUE]
               ELSE [row[a] EXCEPT !.scan = request[r].scan]
    IN  /\ request[r] # NoJob /\ request[r].at = "commit"
        /\ row' = [row EXCEPT ![a] = [new EXCEPT !.old = FALSE]]
        /\ late' = IF request[r].scan = "clean" /\ (row[a].attempts > 0 \/ ~object[a])
                   THEN late \cup {a} ELSE late
        /\ EndRequest(r)
        /\ UNCHANGED <<store, target, worker, aborted>>

(* An error of the store or the database, a row that is gone or a crash:   *)
(* the transaction is rolled back.                                         *)
RollBack(r) ==
    /\ request[r] # NoJob
    /\ aborted' = IF request[r].dropped THEN aborted \cup {request[r].id} ELSE aborted
    /\ EndRequest(r)
    /\ UNCHANGED <<row, store, target, worker, late>>

-----------------------------------------------------------------------------
\* Mutant: any old row counts as an orphan.
OrphanIgnoringScan(a) == row[a].old \/ ~target[a]

(* What the worker looks for: rows deleted long ago, uploads that never    *)
(* became clean, and rows whose task or project was deleted.               *)
Orphan(a) ==
    \/ row[a].deleted /\ row[a].old
    \/ row[a].scan # "clean" /\ row[a].old
    \/ ~target[a]

\* Mutant: a claim that timed out is not taken over.
ClaimableWhenFree(a) ==
    /\ row[a].attempts < MaxAttempts
    /\ row[a].claim = "none"

Claimable(a) ==
    /\ row[a].attempts < MaxAttempts
    /\ row[a].claim # "held"

(* claimAttachmentCleanupBatch, for update skip locked.                    *)
Claim(a) ==
    /\ Present(a) /\ RowFree(a) /\ Orphan(a) /\ Claimable(a)
    /\ \E exact \in BOOLEAN :
        row' = [row EXCEPT ![a].attempts = @ + 1, ![a].claim = "held", ![a].exact = exact]
    /\ worker' = [worker EXCEPT ![a][row[a].attempts + 1] = "delete"]
    /\ UNCHANGED <<store, target, request, history>>

ClaimTimesOut(a) ==
    /\ Present(a) /\ row[a].claim = "held"
    /\ row' = [row EXCEPT ![a].claim = "stale"]
    /\ UNCHANGED <<store, target, request, worker, history>>

(* deleteReference, of the object and of its preview; an error of the      *)
(* store, before or after the object is deleted, leads to the release.     *)
DeleteReferences(a, n) ==
    /\ worker[a][n] = "delete"
    /\ \E gone \in BOOLEAN, next \in {"finish", "release"} :
        /\ next = "finish" => gone
        /\ object' = [object EXCEPT ![a] = @ /\ ~gone]
        /\ worker' = [worker EXCEPT ![a][n] = next]
    /\ UNCHANGED <<row, linked, target, request, history>>

\* Mutant: the row is deleted by its id alone.
HoldsAlways(a, n) == Present(a)

(* where cleanup_claimed_at = $2: the claim is the worker's own, and the   *)
(* worker's copy of its time is the whole time.                            *)
Holds(a, n) == Present(a) /\ row[a].claim # "none" /\ row[a].attempts = n /\ row[a].exact

(* finishCandidate and releaseCandidate wait for the row's lock; they end  *)
(* the candidate's turn whether or not they found the row.  An error of    *)
(* the first, or a lost answer, leads to the second.                       *)
Finish(a, n) ==
    /\ worker[a][n] = "finish"
    /\ \E next \in {"none", "release"} :
        /\ \/ /\ RowFree(a)
              /\ row' = IF Holds(a, n) THEN [row EXCEPT ![a] = [NoRow EXCEPT !.state = "purged"]]
                        ELSE row
           \/ next = "release" /\ UNCHANGED row
        /\ worker' = [worker EXCEPT ![a][n] = next]
    /\ UNCHANGED <<store, target, request, history>>

Release(a, n) ==
    /\ worker[a][n] = "release" /\ RowFree(a)
    /\ row' = IF Holds(a, n) THEN [row EXCEPT ![a].claim = "none", ![a].exact = FALSE] ELSE row
    /\ worker' = [worker EXCEPT ![a][n] = "none"]
    /\ UNCHANGED <<store, target, request, history>>

Crash(a, n) ==
    /\ worker[a][n] # "none"
    /\ worker' = [worker EXCEPT ![a][n] = "none"]
    /\ UNCHANGED <<row, store, target, request, history>>

RequestStep(r) ==
    \/ \E verdict \in Verdict : Scan(r, verdict)
    \/ RecordScan(r) \/ DeleteObject(r) \/ Commit(r) \/ RollBack(r)

WorkerStep(a, n) == DeleteReferences(a, n) \/ Finish(a, n) \/ Release(a, n)

AttachmentsNext ==
    \/ \E a \in Attachment :
        \/ CreateUpload(a) \/ Upload(a) \/ DeleteTarget(a) \/ Age(a) \/ ClaimTimesOut(a)
        \/ \E r \in Request : BeginCompleteUpload(r, a) \/ BeginDeleteAttachment(r, a)
        \/ Claim(a) \/ \E n \in Attempt : WorkerStep(a, n) \/ Crash(a, n)
    \/ \E r \in Request : RequestStep(r)

AttachmentsSpec == AttachmentsInit /\ [][AttachmentsNext]_attachmentVars

(* Time passes, requests end, a job that has started goes on, and the      *)
(* scheduler starts jobs again and again.  Two requests may start for ever *)
(* between two claims, but the claim skips locked rows only for a time.    *)
Fairness ==
    /\ \A a \in Attachment : WF_attachmentVars(Age(a)) /\ WF_attachmentVars(ClaimTimesOut(a))
    /\ \A r \in Request : WF_attachmentVars(RequestStep(r))
    /\ \A a \in Attachment, n \in Attempt : WF_attachmentVars(WorkerStep(a, n))
    /\ \A a \in Attachment : SF_attachmentVars(Claim(a))

FairSpec == AttachmentsSpec /\ Fairness

-----------------------------------------------------------------------------
(* Every variable has its type.                                            *)
AttachmentsTypeOK ==
    /\ row \in [Attachment -> [state : {"none", "present", "purged"}, scan : ScanStatus,
                               deleted : BOOLEAN, old : BOOLEAN,
                               attempts : 0..MaxAttempts, claim : {"none", "held", "stale"},
                               exact : BOOLEAN]]
    /\ {object, linked, target} \subseteq [Attachment -> BOOLEAN]
    /\ request \in [Request -> RequestType \cup {NoJob}]
    /\ worker \in [Attachment -> [Attempt -> {"none", "delete", "finish", "release"}]]
    /\ aborted \subseteq Attachment /\ late \subseteq Attachment

Dropping(a) == \E r \in Request : request[r] # NoJob /\ request[r].id = a /\ request[r].dropped

(* What users are offered for download is there: the object of a clean     *)
(* attachment of a task or project that exists is missing only while a     *)
(* request that deleted it is being committed, after such a request was    *)
(* rolled back, or when the verdict came late: completeUpload looks again  *)
(* neither at the object nor at a claim of the cleanup.                    *)
CleanHasObject ==
    \A a \in Attachment :
        Live(a) /\ row[a].scan = "clean" /\ target[a] /\ ~object[a] =>
            Dropping(a) \/ a \in aborted \/ a \in late

(* The state stays well formed and clean attachments can be downloaded.    *)
AttachmentsInv == AttachmentsTypeOK /\ CleanHasObject

(* Only orphans are removed for good, and by the last to claim them: a row *)
(* whose claim was taken over is left to the new owner, and a clean row    *)
(* with a task or project goes only when the verdict came after the claim. *)
PurgesOrphans ==
    [][\A a \in Attachment :
        Present(a) /\ row'[a].state = "purged" =>
            /\ Live(a) /\ row[a].scan = "clean" /\ target[a] => a \in late
            /\ worker[a][row[a].attempts] # worker'[a][row[a].attempts]]_attachmentVars

(* Every orphan is removed in the end or its attempts run out, over        *)
(* crashes, failures of the store and claims that cannot be given back     *)
(* because their time is not a whole number of milliseconds.               *)
CleanupEnds ==
    \A a \in Attachment :
        (Present(a) /\ (row[a].deleted \/ ~target[a]))
            ~> (row[a].state = "purged" \/ row[a].attempts = MaxAttempts)
=============================================================================
