------------------------- MODULE NotificationEmail -------------------------
(***************************************************************************)
(* The notification email processor of the worker                          *)
(* (apps/worker/src/notification-email.ts) over notification_email_outbox. *)
(* Every worker process runs deliverNotificationEmails: claim a batch in one *)
(* transaction, then for each candidate load the recipient, send, record.   *)
(* A worker may stop anywhere, or be slower than the claim timeout, and the *)
(* email provider may accept a message whose answer never arrives.          *)
(***************************************************************************)
EXTENDS WorkTable, FiniteSets

CONSTANTS Workers, BatchSize, NoCandidate

Candidate == [id : Rows, token : Nat]

ASSUME EmailConstants == /\ BatchSize \in Nat \ {0}
                         /\ NoCandidate \notin Candidate

VARIABLES
    phase,        \* where each worker process is in the job
    batch,        \* the candidates it has claimed and not started
    cur,          \* the candidate of the current turn of the loop
    reachable,    \* recipient: active member with email notifications enabled
    acceptedKeys, \* Idempotency-Keys the provider has accepted
    deliveries    \* emails the provider has really sent, per outbox row

workerVars == <<phase, batch, cur>>
mailVars == <<acceptedKeys, deliveries>>
vars == <<rows, workerVars, reachable, mailVars>>

Phases == {"idle", "loop", "skip", "send", "markSent", "release"}

\* Every variable has its type.
TypeOK ==
    /\ rows \in [Rows -> RowType]
    /\ phase \in [Workers -> Phases]
    /\ batch \in [Workers -> SUBSET Candidate]
    /\ cur \in [Workers -> Candidate \cup {NoCandidate}]
    /\ reachable \in [Rows -> BOOLEAN]
    /\ deliveries \in [Rows -> Nat]

Init ==
    /\ TableInit
    /\ phase = [w \in Workers |-> "idle"]
    /\ batch = [w \in Workers |-> {}]
    /\ cur = [w \in Workers |-> NoCandidate]
    /\ reachable = [r \in Rows |-> TRUE]
    /\ acceptedKeys = {}
    /\ deliveries = [r \in Rows |-> 0]

-----------------------------------------------------------------------------
\* dispatchNotification: the outbox row is inserted while the recipient is an
\* active member whose preference allows email.
Enqueue(r) ==
    /\ reachable[r]
    /\ Insert(r)
    /\ UNCHANGED <<workerVars, reachable, mailVars>>

\* Members leave and rejoin, and switch their email preference, at any time.
RecipientChanges(r) ==
    /\ reachable' = [reachable EXCEPT ![r] = ~ @]
    /\ UNCHANGED <<rows, workerVars, mailVars>>

RetryDead(r) ==
    /\ RetryDeadLetter(r)
    /\ UNCHANGED <<workerVars, reachable, mailVars>>

TimePasses(r) ==
    /\ ClaimTimesOut(r) \/ BackoffElapses(r)
    /\ UNCHANGED <<workerVars, reachable, mailVars>>

-----------------------------------------------------------------------------
\* claimNotificationEmailBatch: rows locked by a concurrent claim are skipped,
\* so a claim may take any claimable rows up to the batch size.
ClaimNotificationEmailBatch(w) ==
    /\ phase[w] = "idle"
    /\ \E S \in (SUBSET Rows) \ {{}} :
          /\ Cardinality(S) =< BatchSize
          /\ ClaimBatch(S)
          /\ batch' = [batch EXCEPT ![w] =
                {[id |-> r, token |-> Claimed(rows[r]).token] : r \in S}]
    /\ phase' = [phase EXCEPT ![w] = "loop"]
    /\ UNCHANGED <<cur, reachable, mailVars>>

Goto(w, p) == phase' = [phase EXCEPT ![w] = p] /\ UNCHANGED <<batch, cur>>

\* The for loop goes to the next candidate, or the job ends.
Continue(w) ==
    /\ phase' = [phase EXCEPT ![w] = IF batch[w] = {} THEN "idle" ELSE "loop"]
    /\ cur' = [cur EXCEPT ![w] = NoCandidate]
    /\ UNCHANGED batch

\* loadRecipient decides whether to send; a failed query goes to the catch.
LoadRecipient(w) ==
    /\ phase[w] = "loop"
    /\ \E c \in batch[w] :
          /\ cur' = [cur EXCEPT ![w] = c]
          /\ batch' = [batch EXCEPT ![w] = @ \ {c}]
          /\ \E p \in {IF reachable[c.id] THEN "send" ELSE "skip", "release"} :
                phase' = [phase EXCEPT ![w] = p]
    /\ UNCHANGED <<rows, reachable, mailVars>>

\* The fenced statements on the current candidate; none of them looks at the
\* number of rows it matched.
MarkSkipped(w) ==
    /\ phase[w] = "skip"
    /\ rows' = [rows EXCEPT ![cur[w].id] =
                   Fenced(@, cur[w].token, Finished(@, "skipped"))]
    /\ Continue(w)
    /\ UNCHANGED <<reachable, mailVars>>

\* Mutant: a key per attempt instead of one per outbox row.
IdempotencyKeyPerAttempt(c) == <<c.id, c.token>>

\* The Idempotency-Key header.
IdempotencyKey(c) == c.id

\* The provider takes the request; a key it knows sends nothing again.
ProviderAccepts(c) ==
    /\ acceptedKeys' = acceptedKeys \cup {IdempotencyKey(c)}
    /\ deliveries' = IF IdempotencyKey(c) \in acceptedKeys
                     THEN deliveries
                     ELSE [deliveries EXCEPT ![c.id] = @ + 1]

\* transport.send: accepted and answered; accepted with the answer lost or
\* unusable; refused, or never sent (attachment or configuration error).
Send(w) ==
    /\ phase[w] = "send"
    /\ \/ ProviderAccepts(cur[w]) /\ Goto(w, "markSent")
       \/ ProviderAccepts(cur[w]) /\ Goto(w, "release")
       \/ UNCHANGED <<acceptedKeys, deliveries>> /\ Goto(w, "release")
    /\ UNCHANGED <<rows, reachable>>

MarkSent(w) ==
    /\ phase[w] = "markSent"
    /\ rows' = [rows EXCEPT ![cur[w].id] =
                   Fenced(@, cur[w].token, Finished(@, "sent"))]
    /\ Continue(w)
    /\ UNCHANGED <<reachable, mailVars>>

\* The catch of the loop after markSent or markSkipped itself failed.
MarkFails(w) ==
    /\ phase[w] \in {"markSent", "skip"}
    /\ Goto(w, "release")
    /\ UNCHANGED <<rows, reachable, mailVars>>

ReleaseFailed(w) ==
    /\ phase[w] = "release"
    /\ rows' = [rows EXCEPT ![cur[w].id] = Fenced(@, cur[w].token, Released(@))]
    /\ Continue(w)
    /\ UNCHANGED <<reachable, mailVars>>

\* The process dies, or releaseFailed throws out of the job: the rest of the
\* batch is forgotten and the claims stay in the table.
Crash(w) ==
    /\ phase[w] # "idle"
    /\ phase' = [phase EXCEPT ![w] = "idle"]
    /\ batch' = [batch EXCEPT ![w] = {}]
    /\ cur' = [cur EXCEPT ![w] = NoCandidate]
    /\ UNCHANGED <<rows, reachable, mailVars>>

WorkerStep(w) ==
    \/ LoadRecipient(w) \/ MarkSkipped(w) \/ Send(w)
    \/ MarkSent(w) \/ MarkFails(w) \/ ReleaseFailed(w)

Next ==
    \/ \E r \in Rows : Enqueue(r) \/ RecipientChanges(r) \/ RetryDead(r) \/ TimePasses(r)
    \/ \E w \in Workers : ClaimNotificationEmailBatch(w) \/ WorkerStep(w) \/ Crash(w)

Spec == Init /\ [][Next]_vars

-----------------------------------------------------------------------------
\* The claims worker w still remembers.
Held(w) == batch[w] \cup ({cur[w]} \ {NoCandidate})

CurrentClaim(r) == [id |-> r, token |-> rows[r].token]

\* ADR 0003, "Parallel workers cannot own the same current claim": of all the
\* workers that still remember a claim of a row, at most one remembers the
\* claim the table now records, however late the others are.
SingleOwner ==
    \A r \in Rows, v, w \in Workers :
        /\ rows[r].status = "processing"
        /\ CurrentClaim(r) \in Held(v) \cap Held(w)
        => v = w

\* A processing row changes status only by a step of the worker that holds its
\* current claim: a worker whose claim another one took over can neither
\* complete nor release it (the claim_token in every WHERE clause).
OnlyOwnerFinishes ==
    [][\A r \in Rows :
          rows[r].status = "processing" /\ rows'[r].status # "processing" =>
             \E w \in Workers : cur[w] = CurrentClaim(r) /\ cur'[w] # cur[w]]_vars

\* ADR 0003, "Provider and database retries do not duplicate an email": over all
\* attempts, takeovers and dead-letter retries one row sends one email.
AtMostOneEmail == \A r \in Rows : deliveries[r] =< 1

\* A row recorded as sent really went out, and a dead or pending row never
\* hides behind a stale worker's "sent".
SentWasDelivered == \A r \in Rows : rows[r].status = "sent" => deliveries[r] = 1

\* The worker's statements keep to the table's promise.
ImplementsWorkTable == TableSpec
=============================================================================
