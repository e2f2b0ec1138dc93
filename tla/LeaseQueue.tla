---------------------------- MODULE LeaseQueue ----------------------------
(***************************************************************************)
(* A row of one of the durable work tables the CalmBoard worker drains      *)
(* (notification_email_outbox, auth_email_outbox, automation_events,        *)
(* export_jobs, form_responses, ...) and the SQL statements every processor *)
(* applies to it.  The five processors repeat the same statements; this     *)
(* module states them once.                                                 *)
(*                                                                          *)
(* Time is abstracted to the two comparisons the SQL makes with now():      *)
(*   due    available_at <= now()                                           *)
(*   stale  claimed_at < now() - claim timeout                              *)
(* claim_token is gen_random_uuid(), fresh for every claim of the row.  A   *)
(* claim also increments attempts, which no statement decreases, so the     *)
(* attempt number it produces names the claim's UUID.                       *)
(***************************************************************************)
EXTENDS Naturals

NoToken == 0

OpenStatus == {"pending", "processing"}
DoneStatus == {"sent", "skipped", "completed"}
FinalStatus == DoneStatus \cup {"dead"}
Status == {"absent"} \cup OpenStatus \cup FinalStatus

RowType == [status : Status, attempts : Nat, maxAttempts : Nat,
            due : BOOLEAN, stale : BOOLEAN, token : Nat]

\* A row that has not been inserted yet, and the row the insert creates
\* (attempts 0, available_at now()).
AbsentRow(max) == [status |-> "absent", attempts |-> 0, maxAttempts |-> max,
                   due |-> TRUE, stale |-> FALSE, token |-> NoToken]
Inserted(row) == [row EXCEPT !.status = "pending"]

\* Mutant: a processing row is never claimed again, however old its claim.
ClaimableOnlyPending(row) ==
    row.attempts < row.maxAttempts /\ row.due /\ row.status = "pending"

\* The WHERE clause of the claim statement.
Claimable(row) ==
    /\ row.attempts < row.maxAttempts
    /\ row.due
    /\ \/ row.status = "pending"
       \/ row.status = "processing" /\ row.stale

\* Mutant: a takeover keeps the token of the claim it takes over.
ClaimedKeepingToken(row) ==
    [row EXCEPT !.status = "processing",
                !.attempts = row.attempts + 1,
                !.token = IF row.token = NoToken THEN row.attempts + 1 ELSE row.token,
                !.stale = FALSE]

\* The SET clause of the claim statement.
Claimed(row) ==
    [status |-> "processing",
     attempts |-> row.attempts + 1, maxAttempts |-> row.maxAttempts,
     due |-> row.due, stale |-> FALSE, token |-> row.attempts + 1]

\* The fence of every later statement: status = 'processing' and
\* claim_token = $2.
Owns(row, token) == row.status = "processing" /\ row.token = token

\* markSent / markSkipped / completeEvent: the row becomes final and the
\* claim is cleared.
Finished(row, final) ==
    [row EXCEPT !.status = final, !.token = NoToken, !.stale = FALSE]

\* Mutant: an exhausted row gets a status the enum does not have.
ReleasedAsFailed(row) ==
    IF row.attempts >= row.maxAttempts
    THEN Finished(row, "failed")
    ELSE [row EXCEPT !.status = "pending", !.due = FALSE,
                     !.token = NoToken, !.stale = FALSE]

\* releaseFailed: back to pending behind a backoff, dead once the attempts
\* are used up.
Released(row) ==
    IF row.attempts >= row.maxAttempts
    THEN Finished(row, "dead")
    ELSE [row EXCEPT !.status = "pending", !.due = FALSE,
                     !.token = NoToken, !.stale = FALSE]

\* retry_dead_letter: an administrator reopens a dead row with extra attempts.
RetriedDeadLetter(row, extra) ==
    [status |-> "pending",
     attempts |-> row.attempts, maxAttempts |-> row.maxAttempts + extra,
     due |-> TRUE, stale |-> FALSE, token |-> NoToken]

\* Mutant: an UPDATE by id alone.
Unfenced(row, token, updated) == updated

\* The row a fenced UPDATE leaves: changed when the fence holds, untouched
\* (zero rows matched) when it does not.
Fenced(row, token, updated) == IF Owns(row, token) THEN updated ELSE row

\* The claim timeout passes while the row is processing; the backoff passes.
TimedOut(row) == [row EXCEPT !.stale = TRUE]
BackedOff(row) == [row EXCEPT !.due = TRUE]
=============================================================================
