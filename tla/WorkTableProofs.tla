-------------------------- MODULE WorkTableProofs --------------------------
(***************************************************************************)
(* Proofs about the abstract work table, for any set of rows and any limits *)
(* on the attempts.                                                         *)
(***************************************************************************)
EXTENDS WorkTable, TLAPS

\* Every statement the processors apply to a row leaves a well-formed row
\* whose token and attempts agree (the claim_state and attempts checks).
LEMMA RowSteps ==
    ASSUME NEW row \in RowType, RowConsistent(row)
    PROVE  /\ Claimable(row) =>
                Claimed(row) \in RowType /\ RowConsistent(Claimed(row))
           /\ \A final \in FinalStatus :
                Finished(row, final) \in RowType /\ RowConsistent(Finished(row, final))
           /\ Released(row) \in RowType /\ RowConsistent(Released(row))
           /\ RetriedDeadLetter(row, ExtraAttempts) \in RowType
           /\ RowConsistent(RetriedDeadLetter(row, ExtraAttempts))
           /\ TimedOut(row) \in RowType /\ RowConsistent(TimedOut(row))
           /\ BackedOff(row) \in RowType /\ RowConsistent(BackedOff(row))
           /\ row.status = "absent" =>
                Inserted(row) \in RowType /\ RowConsistent(Inserted(row))
  <1> USE TableConstants DEF RowType, RowConsistent, Status, OpenStatus, FinalStatus, DoneStatus, NoToken
  <1>1. Claimable(row) => Claimed(row) \in RowType /\ RowConsistent(Claimed(row))
    <2>1. Claimable(row) => row.attempts < row.maxAttempts
      BY Zenon DEF Claimable
    <2>2. row.attempts < row.maxAttempts =>
             Claimed(row) \in RowType /\ RowConsistent(Claimed(row))
      BY DEF Claimed
    <2> QED  BY <2>1, <2>2
  <1>2. \A final \in FinalStatus :
           Finished(row, final) \in RowType /\ RowConsistent(Finished(row, final))
    BY DEF Finished
  <1>3. Released(row) \in RowType /\ RowConsistent(Released(row))
    BY DEF Released, Finished
  <1>4. /\ RetriedDeadLetter(row, ExtraAttempts) \in RowType
        /\ RowConsistent(RetriedDeadLetter(row, ExtraAttempts))
    BY DEF RetriedDeadLetter
  <1>5. TimedOut(row) \in RowType /\ RowConsistent(TimedOut(row))
    BY DEF TimedOut
  <1>6. BackedOff(row) \in RowType /\ RowConsistent(BackedOff(row))
    BY DEF BackedOff
  <1>7. row.status = "absent" => Inserted(row) \in RowType /\ RowConsistent(Inserted(row))
    BY DEF Inserted
  <1> QED  BY <1>1, <1>2, <1>3, <1>4, <1>5, <1>6, <1>7

\* An empty table is well-formed.
LEMMA TableInitInv == TableInit => TableInv
  BY TableConstants DEF TableInit, TableInv, AbsentRow, RowType, RowConsistent,
     Status, OpenStatus, FinalStatus, DoneStatus, NoToken

\* The ways one row may change in a step of the table.
RowMoves(old, new) ==
    \/ new = old
    \/ old.status = "absent" /\ new = Inserted(old)
    \/ Claimable(old) /\ new = Claimed(old)
    \/ old.status = "processing" /\ \E final \in DoneStatus : new = Finished(old, final)
    \/ old.status = "processing" /\ new = Released(old)
    \/ old.status = "dead" /\ new = RetriedDeadLetter(old, ExtraAttempts)
    \/ old.status = "processing" /\ new = TimedOut(old)
    \/ old.status = "pending" /\ new = BackedOff(old)

\* A step of the table moves every row by one of those, and keeps its domain.
LEMMA TableStepMoves ==
    ASSUME TableInv, [TableNext]_rows
    PROVE  /\ DOMAIN rows' = Rows
           /\ rows' = [r \in Rows |-> rows'[r]]
           /\ \A r \in Rows : RowMoves(rows[r], rows'[r])
  <1> rows \in [Rows -> RowType]
    BY DEF TableInv
  <1>1. CASE UNCHANGED rows
    BY <1>1 DEF RowMoves
  <1>2. CASE \E S \in SUBSET Rows : InsertAll(S) \/ ClaimBatch(S)
    BY <1>2 DEF InsertAll, ClaimBatch, RowMoves
  <1>3. ASSUME NEW q \in Rows,
               \/ \E final \in DoneStatus : Finish(q, final)
               \/ GiveBack(q)
               \/ RetryDeadLetter(q)
               \/ ClaimTimesOut(q)
               \/ BackoffElapses(q)
        PROVE  /\ DOMAIN rows' = Rows
               /\ rows' = [r \in Rows |-> rows'[r]]
               /\ \A r \in Rows : RowMoves(rows[r], rows'[r])
    BY <1>3 DEF Finish, GiveBack, RetryDeadLetter, ClaimTimesOut, BackoffElapses,
       RowMoves
  <1> QED  BY <1>1, <1>2, <1>3 DEF TableNext

\* A row moved by one of those stays well-formed.
LEMMA RowMovesConsistent ==
    ASSUME NEW old \in RowType, RowConsistent(old), NEW new, RowMoves(old, new)
    PROVE  new \in RowType /\ RowConsistent(new)
  <1>1. \A final \in DoneStatus : final \in FinalStatus
    BY DEF FinalStatus
  <1> QED  BY <1>1, RowSteps DEF RowMoves

\* The well-formedness of the rows is inductive.
LEMMA TableInvStep == TableInv /\ [TableNext]_rows => TableInv'
  <1> SUFFICES ASSUME TableInv, [TableNext]_rows PROVE TableInv'
    OBVIOUS
  <1>1. ASSUME NEW r \in Rows PROVE rows'[r] \in RowType /\ RowConsistent(rows'[r])
    <2>1. rows[r] \in RowType /\ RowConsistent(rows[r])
      BY DEF TableInv
    <2>2. RowMoves(rows[r], rows'[r])
      BY TableStepMoves
    <2> QED  BY <2>1, <2>2, RowMovesConsistent
  <1>2. rows' = [r \in Rows |-> rows'[r]]
    BY TableStepMoves
  <1>3. rows' \in [Rows -> RowType]
    BY <1>1, <1>2
  <1> QED  BY <1>1, <1>3 DEF TableInv

\* Rows of a work table are always well-formed: attempts within the limit, a
\* claim token exactly while processing, and that token the latest one drawn.
THEOREM TableInvariant == TableSpec => []TableInv
  BY TableInitInv, TableInvStep, PTL DEF TableSpec

\* No move of a row is one the trigger rejects.
LEMMA RowMovesAllowed ==
    ASSUME NEW old \in RowType, NEW new, RowMoves(old, new)
    PROVE  TriggerAllows(old, new)
  <1> USE DEF TriggerAllows, FinalStatus, DoneStatus, RowType, Status, OpenStatus
  <1>1. CASE new = old
    BY <1>1
  <1>2. CASE old.status = "absent" /\ new = Inserted(old)
    BY <1>2 DEF Inserted
  <1>3. CASE Claimable(old) /\ new = Claimed(old)
    <2>1. old.status \in {"pending", "processing"}
      BY <1>3, Zenon DEF Claimable
    <2> QED  BY <1>3, <2>1 DEF Claimed
  <1>4. CASE old.status = "processing" /\ \E final \in DoneStatus : new = Finished(old, final)
    BY <1>4 DEF Finished
  <1>5. CASE old.status = "processing" /\ new = Released(old)
    BY <1>5 DEF Released, Finished
  <1>6. CASE old.status = "dead" /\ new = RetriedDeadLetter(old, ExtraAttempts)
    BY <1>6, TableConstants DEF RetriedDeadLetter
  <1>7. CASE old.status = "processing" /\ new = TimedOut(old)
    BY <1>7 DEF TimedOut
  <1>8. CASE old.status = "pending" /\ new = BackedOff(old)
    BY <1>8 DEF BackedOff
  <1> QED  BY <1>1, <1>2, <1>3, <1>4, <1>5, <1>6, <1>7, <1>8 DEF RowMoves

\* The trigger of the table never rejects a statement, so a final row stays
\* final unless an administrator retries a dead one, and attempts only grow.
THEOREM TableTrigger == TableSpec => TriggerNeverFires
  <1>1. TableInv /\ [TableNext]_rows =>
           [\A r \in Rows : TriggerAllows(rows[r], rows'[r])]_rows
    BY TableStepMoves, RowMovesAllowed DEF TableInv
  <1> QED  BY <1>1, TableInvariant, PTL DEF TableSpec, TriggerNeverFires
=============================================================================
