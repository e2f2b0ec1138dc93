----------------------------- MODULE WorkTable -----------------------------
(***************************************************************************)
(* What a durable work table promises, whoever drains it: the abstract      *)
(* specification every queue processor of the worker implements.  Workers,  *)
(* their batches and the effects of the work are not visible here; what is  *)
(* left is how a row may move.                                              *)
(*                                                                          *)
(* MaxAttempts is the max_attempts column default; ExtraAttempts the        *)
(* attempts one dead-letter retry grants (5 in the code); AttemptCap bounds *)
(* how far retries may raise max_attempts, so that the table stays finite.  *)
(***************************************************************************)
EXTENDS LeaseQueue

CONSTANTS Rows, MaxAttempts, ExtraAttempts, AttemptCap

ASSUME TableConstants == /\ MaxAttempts \in Nat \ {0}
                         /\ ExtraAttempts \in Nat
                         /\ AttemptCap \in Nat

VARIABLE rows

TableInit == rows = [r \in Rows |-> AbsentRow(MaxAttempts)]

\* The producer's transaction inserts a row, or several.
InsertAll(S) ==
    /\ \A r \in S : rows[r].status = "absent"
    /\ rows' = [r \in Rows |-> IF r \in S THEN Inserted(rows[r]) ELSE rows[r]]

Insert(r) == InsertAll({r})

\* One claim statement takes a whole batch.
ClaimBatch(S) ==
    /\ \A r \in S : Claimable(rows[r])
    /\ rows' = [r \in Rows |-> IF r \in S THEN Claimed(rows[r]) ELSE rows[r]]

\* The holder of the current claim finishes the row, or gives it back.
Finish(r, final) ==
    /\ rows[r].status = "processing"
    /\ rows' = [rows EXCEPT ![r] = Finished(@, final)]

GiveBack(r) ==
    /\ rows[r].status = "processing"
    /\ rows' = [rows EXCEPT ![r] = Released(@)]

RetryDeadLetter(r) ==
    /\ rows[r].status = "dead"
    /\ rows[r].maxAttempts + ExtraAttempts =< AttemptCap
    /\ rows' = [rows EXCEPT ![r] = RetriedDeadLetter(@, ExtraAttempts)]

\* Time passes.
ClaimTimesOut(r) ==
    /\ rows[r].status = "processing" /\ ~ rows[r].stale
    /\ rows' = [rows EXCEPT ![r] = TimedOut(@)]

BackoffElapses(r) ==
    /\ rows[r].status = "pending" /\ ~ rows[r].due
    /\ rows' = [rows EXCEPT ![r] = BackedOff(@)]

TableNext ==
    \/ \E S \in SUBSET Rows : InsertAll(S) \/ ClaimBatch(S)
    \/ \E r \in Rows :
          \/ \E final \in DoneStatus : Finish(r, final)
          \/ GiveBack(r)
          \/ RetryDeadLetter(r)
          \/ ClaimTimesOut(r)
          \/ BackoffElapses(r)

TableSpec == TableInit /\ [][TableNext]_rows

-----------------------------------------------------------------------------
\* The attempts of a row never exceed its limit, and a row carries a claim
\* token, the one its latest attempt drew, exactly while it is processing
\* (the claim_state check constraint of the tables).
RowConsistent(row) ==
    /\ row.attempts =< row.maxAttempts
    /\ IF row.status = "processing"
       THEN row.token = row.attempts /\ row.attempts > 0
       ELSE row.token = NoToken

TableInv == /\ rows \in [Rows -> RowType]
            /\ \A r \in Rows : RowConsistent(rows[r])

\* What the BEFORE UPDATE triggers of the tables accept (migration 0034): attempts
\* and max_attempts never decrease, and a final row is never reopened, but for
\* an administrator's retry of a dead one (which raises max_attempts).
TriggerAllows(old, new) ==
    /\ new.attempts >= old.attempts
    /\ new.maxAttempts >= old.maxAttempts
    /\ old.status \in FinalStatus /\ new.status # old.status =>
          old.status = "dead" /\ new.status = "pending"

\* No statement of a processor is ever rejected by the trigger: the fences of
\* the statements already imply what the trigger enforces.
TriggerNeverFires == [][\A r \in Rows : TriggerAllows(rows[r], rows'[r])]_rows
=============================================================================
