----------------------- MODULE WorkspaceExportsProofs -----------------------
(***************************************************************************)
(* The export job implements the work table, notifies once, and never loses  *)
(* the artifact of a completed export before its retention ends: for any     *)
(* number of exports, workers and attempts.                                  *)
(***************************************************************************)
EXTENDS WorkspaceExports, WorkTableProofs

\* What a row tells about its past: a dead row has used its attempts up, and a
\* retried one had used up its first allowance, and more once claimed again.
RowHistory(row) ==
    /\ row.maxAttempts >= MaxAttempts
    /\ row.status = "dead" => row.attempts >= row.maxAttempts
    /\ row.maxAttempts > MaxAttempts =>
          /\ row.attempts >= MaxAttempts
          /\ row.status # "pending" => row.attempts > MaxAttempts

HistoryInv == \A r \in Rows : RowHistory(rows[r])

ExportPhases == {"export", "put", "complete", "release"}
SweepPhases == {"sweep", "delete", "verify", "markCleaned", "cleanupFailed"}

\* The work a worker has at hand.
AtHand(w) == (batch[w] \cup {cur[w]}) \ {NoCandidate}

\* A candidate carries a token the table has handed out.
DrawnClaim(c) == c \in Candidate /\ c.token > 0 /\ c.token =< rows[c.id].attempts

\* However late the sweep deletes an artifact, its row has expired, or is still
\* dead (or reopened without an attempt left), or was retried.
SweepDue(a) ==
    /\ a \in Artifact
    /\ a.status = "completed" => rows[a.id].status = "completed" /\ expired[a.id]
    /\ a.status = "dead" =>
          \/ Retried(a.id)
          \/ /\ rows[a.id].status \in {"dead", "pending"}
             /\ rows[a.id].attempts >= rows[a.id].maxAttempts

HandInv ==
    \A w \in Workers :
        /\ cur[w] = NoCandidate <=> phase[w] \in {"idle", "export", "sweep"}
        /\ phase[w] \in ExportPhases => \A c \in AtHand(w) : DrawnClaim(c)
        /\ phase[w] \in SweepPhases => \A a \in AtHand(w) : SweepDue(a)

\* The bucket holds what the export promises its reader.
Stored(r) ==
    /\ ~ Retried(r) => object[r] # NoToken
    /\ rows[r].attempts = 1 => object[r] = 1

\* A worker about to complete a row it still owns has uploaded the artifact.
UploadInv ==
    \A w \in Workers :
        phase[w] = "complete" /\ Owns(rows[cur[w].id], cur[w].token) => Stored(cur[w].id)

ResultInv ==
    \A r \in Rows :
        /\ notified[r] = IF rows[r].status = "completed" THEN 1 ELSE 0
        /\ expired[r] => rows[r].status = "completed"
        /\ rows[r].status = "completed" => checksum[r] = rows[r].attempts
        /\ Downloadable(r) => Stored(r)

Inv == TypeOK /\ TableInv /\ HistoryInv /\ HandInv /\ UploadInv /\ ResultInv

-----------------------------------------------------------------------------
\* What a worker in the body of either loop holds.
LEMMA CurrentWork ==
    ASSUME TypeOK, HandInv, NEW w \in Workers
    PROVE  /\ phase[w] \in {"put", "complete", "release"} =>
                 /\ cur[w] \in AtHand(w) /\ DrawnClaim(cur[w])
                 /\ cur[w].id \in Rows /\ cur[w].token \in Nat
           /\ phase[w] \in {"delete", "verify", "markCleaned", "cleanupFailed"} =>
                 /\ cur[w] \in AtHand(w) /\ SweepDue(cur[w])
                 /\ cur[w].id \in Rows
  <1>1. ASSUME phase[w] \in {"put", "complete", "release"}
        PROVE  /\ cur[w] \in AtHand(w) /\ DrawnClaim(cur[w])
               /\ cur[w].id \in Rows /\ cur[w].token \in Nat
    <2>1. cur[w] \in AtHand(w)
      BY <1>1 DEF HandInv, AtHand
    <2>2. DrawnClaim(cur[w])
      BY <1>1, <2>1 DEF HandInv, ExportPhases
    <2> QED  BY <2>1, <2>2 DEF DrawnClaim, Candidate
  <1>2. ASSUME phase[w] \in {"delete", "verify", "markCleaned", "cleanupFailed"}
        PROVE  cur[w] \in AtHand(w) /\ SweepDue(cur[w]) /\ cur[w].id \in Rows
    <2>1. cur[w] \in AtHand(w)
      BY <1>2 DEF HandInv, AtHand
    <2>2. SweepDue(cur[w])
      BY <1>2, <2>1 DEF HandInv, SweepPhases
    <2> QED  BY <2>1, <2>2 DEF SweepDue, Artifact
  <1> QED  BY <1>1, <1>2

\* Every step of the job is a step of the table or leaves it alone.
LEMMA StepImplementsTable ==
    ASSUME TypeOK, HandInv, [Next]_vars
    PROVE  [TableNext]_rows
  <1>1. ASSUME NEW r \in Rows, Request(r) \/ RetryDead(r) \/ TimePasses(r) \/ RetentionEnds(r)
        PROVE  [TableNext]_rows
    BY <1>1 DEF Request, Insert, RetryDead, TimePasses, RetentionEnds, TableNext
  <1>2. ASSUME NEW w \in Workers, ClaimWorkspaceExportBatch(w)
        PROVE  [TableNext]_rows
    BY <1>2 DEF ClaimWorkspaceExportBatch, TableNext
  <1>3. ASSUME NEW w \in Workers, MarkCompleted(w)
        PROVE  [TableNext]_rows
    <2>1. cur[w].id \in Rows
      BY <1>3, CurrentWork DEF MarkCompleted
    <2>2. UNCHANGED rows \/ Finish(cur[w].id, "completed")
      BY <1>3 DEF MarkCompleted, Owns, Finish
    <2> QED  BY <2>1, <2>2 DEF TableNext, DoneStatus
  <1>4. ASSUME NEW w \in Workers, ReleaseFailed(w)
        PROVE  [TableNext]_rows
    <2>1. cur[w].id \in Rows
      BY <1>4, CurrentWork DEF ReleaseFailed
    <2>2. UNCHANGED rows \/ GiveBack(cur[w].id)
      BY <1>4, <2>1 DEF ReleaseFailed, Fenced, Owns, GiveBack, TypeOK
    <2> QED  BY <2>1, <2>2 DEF TableNext
  <1>5. ASSUME NEW w \in Workers,
               \/ BuildArchive(w) \/ PutObject(w) \/ SelectExpired(w) \/ NextArtifact(w)
               \/ DeleteObject(w) \/ VerifyAbsent(w) \/ MarkCleaned(w) \/ CleanupFailed(w)
               \/ Crash(w)
        PROVE  [TableNext]_rows
    BY <1>5 DEF BuildArchive, PutObject, SelectExpired, NextArtifact, DeleteObject,
       VerifyAbsent, MarkCleaned, CleanupFailed, Crash
  <1>6. CASE UNCHANGED vars
    BY <1>6 DEF vars
  <1> QED  BY <1>1, <1>2, <1>3, <1>4, <1>5, <1>6 DEF Next

\* How a row's history, owner and outcome may change in a step of the table.
LEMMA RowMovesHistory ==
    ASSUME NEW old \in RowType, NEW new, RowConsistent(old), RowHistory(old), RowMoves(old, new)
    PROVE  /\ RowHistory(new)
           /\ new.attempts >= old.attempts
           /\ old.maxAttempts > MaxAttempts => new.maxAttempts > MaxAttempts
           /\ old.status \in {"dead", "pending"} /\ old.attempts >= old.maxAttempts =>
                 \/ new.maxAttempts > MaxAttempts
                 \/ new.status \in {"dead", "pending"} /\ new.attempts >= new.maxAttempts
           /\ old.status = "completed" => new = old
           /\ \A t \in Nat : Owns(new, t) /\ t =< old.attempts =>
                 /\ Owns(old, t)
                 /\ new.attempts = old.attempts /\ new.maxAttempts = old.maxAttempts
           /\ new.status = "completed" /\ old.status # "completed" =>
                 /\ old.status = "processing" /\ new.attempts = old.attempts
                 /\ new.maxAttempts = old.maxAttempts
  <1> USE TableConstants DEF RowType, RowConsistent, RowHistory, Owns, Status, OpenStatus,
        FinalStatus, DoneStatus, NoToken
  <1>1. CASE new = old
    BY <1>1
  <1>2. CASE old.status = "absent" /\ new = Inserted(old)
    BY <1>2 DEF Inserted
  <1>3. CASE Claimable(old) /\ new = Claimed(old)
    <2>1. old.status \in {"pending", "processing"} /\ old.attempts < old.maxAttempts
      BY <1>3, Zenon DEF Claimable
    <2> QED  BY <1>3, <2>1 DEF Claimed
  <1>4. CASE old.status = "processing" /\ \E final \in DoneStatus : new = Finished(old, final)
    BY <1>4 DEF Finished
  <1>5. CASE old.status = "processing" /\ new = Released(old)
    BY <1>5 DEF Released, Finished
  <1>6. CASE old.status = "dead" /\ new = RetriedDeadLetter(old, ExtraAttempts)
    BY <1>6 DEF RetriedDeadLetter
  <1>7. CASE old.status = "processing" /\ new = TimedOut(old)
    BY <1>7 DEF TimedOut
  <1>8. CASE old.status = "pending" /\ new = BackedOff(old)
    BY <1>8 DEF BackedOff
  <1> QED  BY <1>1, <1>2, <1>3, <1>4, <1>5, <1>6, <1>7, <1>8 DEF RowMoves
\* The same for every row of the table in a step of the job.
LEMMA RowsStep ==
    ASSUME Inv, [Next]_vars
    PROVE  /\ TableInv' /\ HistoryInv'
           /\ \A r \in Rows :
                /\ rows[r] \in RowType /\ rows'[r] \in RowType
                /\ RowConsistent(rows[r]) /\ RowHistory(rows[r]) /\ RowMoves(rows[r], rows'[r])
  <1>1. [TableNext]_rows
    BY StepImplementsTable DEF Inv
  <1>2. TableInv'
    BY <1>1, TableInvStep DEF Inv
  <1>3. \A r \in Rows :
           /\ rows[r] \in RowType /\ rows'[r] \in RowType
           /\ RowConsistent(rows[r]) /\ RowHistory(rows[r]) /\ RowMoves(rows[r], rows'[r])
    BY <1>1, <1>2, TableStepMoves DEF Inv, TableInv, HistoryInv
  <1>4. HistoryInv'
    BY <1>3, RowMovesHistory DEF HistoryInv
  <1> QED  BY <1>2, <1>3, <1>4

\* The invariant holds before the first job.
LEMMA InitInv == Init => Inv
  <1> SUFFICES ASSUME Init PROVE Inv
    OBVIOUS
  <1>1. TableInv
    BY TableInitInv DEF Init
  <1>2. TypeOK
    BY <1>1 DEF Init, TypeOK, TableInv, Phases, NoToken
  <1>3. \A r \in Rows : rows[r] = AbsentRow(MaxAttempts)
    BY DEF Init, TableInit
  <1>4. HistoryInv
    BY <1>3, TableConstants DEF HistoryInv, RowHistory, AbsentRow
  <1>5. HandInv
    BY DEF Init, HandInv, ExportPhases, SweepPhases
  <1>6. UploadInv
    BY DEF Init, UploadInv
  <1>7. ResultInv
    BY <1>3 DEF Init, ResultInv, Downloadable, AbsentRow
  <1> QED  BY <1>1, <1>2, <1>4, <1>5, <1>6, <1>7 DEF Inv

-----------------------------------------------------------------------------
\* Every step keeps the types.
LEMMA TypeStep ==
    ASSUME Inv, [Next]_vars
    PROVE  TypeOK'
  <1> USE DEF Inv
  <1>1. rows' \in [Rows -> RowType]
    BY RowsStep DEF TableInv
  <1>2. ASSUME NEW r \in Rows, Request(r) \/ RetryDead(r) \/ TimePasses(r) \/ RetentionEnds(r)
        PROVE  TypeOK'
    BY <1>1, <1>2 DEF TypeOK, Request, RetryDead, TimePasses, RetentionEnds, workerVars, jobVars
  <1>3. ASSUME NEW w \in Workers, ClaimWorkspaceExportBatch(w)
        PROVE  TypeOK'
    <2>1. PICK S \in SUBSET Rows :
             /\ batch' = [batch EXCEPT ![w] =
                   {[id |-> r, token |-> Claimed(rows[r]).token] : r \in S}]
             /\ cleaned' = [r \in Rows |-> cleaned[r] /\ r \notin S]
      BY <1>3 DEF ClaimWorkspaceExportBatch
    <2>2. \A r \in Rows : Claimed(rows[r]).token \in Nat
      BY DEF TypeOK, RowType, Claimed
    <2>3. batch' \in [Workers -> SUBSET (Candidate \cup Artifact)]
      BY <2>1, <2>2 DEF TypeOK, Candidate
    <2>4. cleaned' \in [Rows -> BOOLEAN]
      BY <2>1 DEF TypeOK
    <2> QED  BY <1>1, <1>3, <2>3, <2>4 DEF TypeOK, ClaimWorkspaceExportBatch, Phases
  <1>4. ASSUME NEW w \in Workers, BuildArchive(w) \/ NextArtifact(w)
        PROVE  TypeOK'
    BY <1>1, <1>4 DEF TypeOK, BuildArchive, NextArtifact, Take, jobVars, Phases
  <1>5. ASSUME NEW w \in Workers, PutObject(w)
        PROVE  TypeOK'
    <2>1. cur[w].id \in Rows /\ cur[w].token \in Nat
      BY <1>5, CurrentWork DEF PutObject
    <2> QED  BY <1>1, <1>5, <2>1 DEF TypeOK, PutObject, Goto, jobVars, Phases
  <1>6. ASSUME NEW w \in Workers, MarkCompleted(w)
        PROVE  TypeOK'
    <2>1. cur[w].id \in Rows /\ cur[w].token \in Nat
      BY <1>6, CurrentWork DEF MarkCompleted
    <2>2. checksum' \in [Rows -> Nat] /\ notified' \in [Rows -> Nat]
      BY <1>6, <2>1 DEF TypeOK, MarkCompleted
    <2> QED  BY <1>1, <1>6, <2>2 DEF TypeOK, MarkCompleted, Goto, Back, Phases
  <1>7. ASSUME NEW w \in Workers, ReleaseFailed(w) \/ VerifyAbsent(w) \/ Crash(w)
        PROVE  TypeOK'
    BY <1>1, <1>7 DEF TypeOK, ReleaseFailed, VerifyAbsent, Crash, Goto, Back, jobVars, Phases
  <1>8. ASSUME NEW w \in Workers, SelectExpired(w)
        PROVE  TypeOK'
    <2>1. batch' = [batch EXCEPT ![w] =
             {[id |-> r, status |-> rows[r].status] : r \in {q \in Rows : Sweepable(q)}}]
      BY <1>8 DEF SelectExpired
    <2>2. \A r \in Rows : Sweepable(r) => rows[r].status \in {"completed", "dead"}
      BY DEF Sweepable
    <2>3. {[id |-> r, status |-> rows[r].status] : r \in {q \in Rows : Sweepable(q)}}
            \subseteq Artifact
      BY <2>2 DEF Artifact
    <2>4. batch' \in [Workers -> SUBSET (Candidate \cup Artifact)]
      BY <2>1, <2>3 DEF TypeOK
    <2> QED  BY <1>1, <1>8, <2>4 DEF TypeOK, SelectExpired, jobVars, Phases
  <1>9. ASSUME NEW w \in Workers, DeleteObject(w)
        PROVE  TypeOK'
    BY <1>1, <1>9 DEF TypeOK, DeleteObject, Goto, jobVars, Phases, NoToken
  <1>10. ASSUME NEW w \in Workers, MarkCleaned(w) \/ CleanupFailed(w)
        PROVE  TypeOK'
    <2>1. cleaned' \in [Rows -> BOOLEAN]
      BY <1>10 DEF TypeOK, MarkCleaned, CleanupFailed
    <2> QED  BY <1>1, <1>10, <2>1 DEF TypeOK, MarkCleaned, CleanupFailed, SweepOn, Back,
               Goto, Phases
  <1>11. CASE UNCHANGED vars
    BY <1>11 DEF TypeOK, vars, workerVars, jobVars
  <1> QED  BY <1>2, <1>3, <1>4, <1>5, <1>6, <1>7, <1>8, <1>9, <1>10, <1>11 DEF Next

\* Retention only ends, and only that of completed exports.
LEMMA ExpiredStep ==
    ASSUME TypeOK, [Next]_vars
    PROVE  /\ \A r \in Rows : expired[r] => expired'[r]
           /\ \A r \in Rows : expired'[r] /\ ~ expired[r] =>
                 rows[r].status = "completed" /\ rows' = rows
  <1>1. ASSUME NEW r \in Rows, RetentionEnds(r)
        PROVE  /\ \A q \in Rows : expired[q] => expired'[q]
               /\ \A q \in Rows : expired'[q] /\ ~ expired[q] =>
                     rows[q].status = "completed" /\ rows' = rows
    BY <1>1 DEF RetentionEnds, TypeOK
  <1>2. ASSUME NEW r \in Rows, Request(r) \/ RetryDead(r) \/ TimePasses(r)
        PROVE  expired' = expired
    BY <1>2 DEF Request, RetryDead, TimePasses, jobVars
  <1>3. ASSUME NEW w \in Workers,
               \/ ClaimWorkspaceExportBatch(w) \/ BuildArchive(w) \/ PutObject(w)
               \/ MarkCompleted(w) \/ ReleaseFailed(w)
               \/ SelectExpired(w) \/ NextArtifact(w) \/ DeleteObject(w)
               \/ VerifyAbsent(w) \/ MarkCleaned(w) \/ CleanupFailed(w) \/ Crash(w)
        PROVE  expired' = expired
    BY <1>3 DEF ClaimWorkspaceExportBatch, BuildArchive, PutObject, MarkCompleted,
       ReleaseFailed, SelectExpired, NextArtifact, DeleteObject, VerifyAbsent, MarkCleaned,
       CleanupFailed, Crash, jobVars
  <1>4. CASE UNCHANGED vars
    BY <1>4 DEF vars, jobVars
  <1> QED  BY <1>1, <1>2, <1>3, <1>4 DEF Next

\* A drawn claim stays drawn, and a sweep that was due stays due.
LEMMA WorkStaysDue ==
    ASSUME Inv, [Next]_vars
    PROVE  /\ \A c : DrawnClaim(c) => DrawnClaim(c)'
           /\ \A a : SweepDue(a) => SweepDue(a)'
  <1>1. ASSUME NEW c, DrawnClaim(c)
        PROVE  DrawnClaim(c)'
    <2>1. c.id \in Rows /\ c.token \in Nat
      BY <1>1 DEF DrawnClaim, Candidate
    <2>2. rows'[c.id].attempts >= rows[c.id].attempts
      BY <2>1, RowsStep, RowMovesHistory
    <2>3. rows'[c.id].attempts \in Nat /\ rows[c.id].attempts \in Nat
      BY <2>1, RowsStep DEF RowType
    <2> QED  BY <1>1, <2>1, <2>2, <2>3 DEF DrawnClaim
  <1>2. ASSUME NEW a, SweepDue(a)
        PROVE  SweepDue(a)'
    <2>1. a.id \in Rows
      BY <1>2 DEF SweepDue, Artifact
    <2> DEFINE old == rows[a.id]
               new == rows'[a.id]
    <2>2. /\ old.status = "completed" => new = old
          /\ old.maxAttempts > MaxAttempts => new.maxAttempts > MaxAttempts
          /\ old.status \in {"dead", "pending"} /\ old.attempts >= old.maxAttempts =>
                 \/ new.maxAttempts > MaxAttempts
                 \/ new.status \in {"dead", "pending"} /\ new.attempts >= new.maxAttempts
      BY <2>1, RowsStep, RowMovesHistory
    <2>3. expired[a.id] => expired'[a.id]
      <3>1. TypeOK
        BY DEF Inv
      <3>2. \A r \in Rows : expired[r] => expired'[r]
        BY <3>1, ExpiredStep
      <3> QED  BY <2>1, <3>2, Zenon
    <2> QED  BY <1>2, <2>2, <2>3 DEF SweepDue, Retried
  <1> QED  BY <1>1, <1>2

\* Every step keeps what the invariant says of the work at hand.
LEMMA HandStep ==
    ASSUME Inv, [Next]_vars
    PROVE  HandInv'
  <1> USE DEF Inv, ExportPhases, SweepPhases
  <1> DEFINE Good(v) ==
        /\ cur[v] = NoCandidate <=> phase[v] \in {"idle", "export", "sweep"}
        /\ phase[v] \in ExportPhases => \A c \in AtHand(v) : DrawnClaim(c)
        /\ phase[v] \in SweepPhases => \A a \in AtHand(v) : SweepDue(a)
  <1>0. \A v \in Workers : Good(v)
    BY DEF HandInv
  \* A worker whose place and work do not change.
  <1>1. ASSUME NEW v \in Workers, phase'[v] = phase[v], batch'[v] = batch[v], cur'[v] = cur[v]
        PROVE  Good(v)'
    BY <1>0, <1>1, WorkStaysDue DEF AtHand
  \* A worker that moves on with the work it has.
  <1>2. ASSUME NEW v \in Workers, cur'[v] = cur[v], batch'[v] = batch[v],
               \/ phase[v] \in {"put", "complete"} /\ phase'[v] \in {"complete", "release"}
               \/ phase[v] \in {"delete", "verify", "markCleaned"}
                    /\ phase'[v] \in {"verify", "markCleaned", "cleanupFailed"}
        PROVE  Good(v)'
    BY <1>0, <1>2, WorkStaysDue DEF AtHand
  \* A worker that returns to its loop.
  <1>3. ASSUME NEW v \in Workers, cur'[v] = NoCandidate, batch'[v] = batch[v],
               \/ phase[v] \in {"complete", "release"} /\ phase'[v] = "export"
               \/ phase[v] \in {"markCleaned", "cleanupFailed"} /\ phase'[v] \in {"idle", "sweep"}
        PROVE  Good(v)'
    BY <1>0, <1>3, WorkStaysDue DEF AtHand
  \* A worker that takes the next element of its batch.
  <1>4. ASSUME NEW v \in Workers, NEW c \in batch[v], cur'[v] = c, batch'[v] \subseteq batch[v],
               \/ phase[v] = "export" /\ phase'[v] \in {"put", "release"}
               \/ phase[v] = "sweep" /\ phase'[v] = "delete"
        PROVE  Good(v)'
    <2>1. c # NoCandidate
      BY ExportConstants DEF TypeOK
    <2> QED  BY <1>0, <1>4, <2>1, WorkStaysDue DEF AtHand
  <1>5. ASSUME NEW r \in Rows, Request(r) \/ RetryDead(r) \/ TimePasses(r) \/ RetentionEnds(r)
        PROVE  \A v \in Workers : Good(v)'
    BY <1>1, <1>5 DEF Request, RetryDead, TimePasses, RetentionEnds, workerVars
  <1>6. ASSUME NEW w \in Workers, NEW v \in Workers, ClaimWorkspaceExportBatch(w)
        PROVE  Good(v)'
    <2>1. CASE v # w
      BY <1>1, <1>6, <2>1 DEF ClaimWorkspaceExportBatch, TypeOK
    <2>2. CASE v = w
      <3>1. PICK S \in SUBSET Rows :
               /\ ClaimBatch(S)
               /\ batch'[w] = {[id |-> r, token |-> Claimed(rows[r]).token] : r \in S}
        BY <1>6 DEF ClaimWorkspaceExportBatch, TypeOK
      <3>2. cur'[w] = NoCandidate /\ phase'[w] = "export"
        BY <1>0, <1>6 DEF ClaimWorkspaceExportBatch, TypeOK
      <3>3. ASSUME NEW c \in batch'[w] PROVE DrawnClaim(c)'
        <4>1. PICK r \in S : c = [id |-> r, token |-> Claimed(rows[r]).token]
          BY <3>1
        <4>2. rows[r].attempts \in Nat
          BY DEF TypeOK, RowType
        <4>3. /\ c.id = r /\ c.token = rows[r].attempts + 1
              /\ rows'[r].attempts = rows[r].attempts + 1
          BY <3>1, <4>1 DEF ClaimBatch, Claimed
        <4> QED  BY <4>1, <4>2, <4>3 DEF DrawnClaim, Candidate
      <3>4. \A c \in AtHand(w)' : DrawnClaim(c)'
        BY <3>2, <3>3 DEF AtHand
      <3> QED  BY <2>2, <3>2, <3>4
    <2> QED  BY <2>1, <2>2
  <1>7. ASSUME NEW w \in Workers, NEW v \in Workers, BuildArchive(w) \/ NextArtifact(w)
        PROVE  Good(v)'
    <2>1. CASE v # w
      BY <1>1, <1>7, <2>1 DEF BuildArchive, NextArtifact, Take, TypeOK
    <2>2. CASE v = w
      BY <1>4, <1>7, <2>2 DEF BuildArchive, NextArtifact, Take, TypeOK
    <2> QED  BY <2>1, <2>2
  <1>8. ASSUME NEW w \in Workers, NEW v \in Workers,
               PutObject(w) \/ DeleteObject(w) \/ VerifyAbsent(w)
        PROVE  Good(v)'
    <2>1. CASE v # w
      BY <1>1, <1>8, <2>1 DEF PutObject, DeleteObject, VerifyAbsent, Goto, TypeOK
    <2>2. CASE v = w
      BY <1>2, <1>8, <2>2 DEF PutObject, DeleteObject, VerifyAbsent, Goto, TypeOK
    <2> QED  BY <2>1, <2>2
  <1>9. ASSUME NEW w \in Workers, NEW v \in Workers, MarkCompleted(w)
        PROVE  Good(v)'
    <2>1. CASE v # w
      BY <1>1, <1>9, <2>1 DEF MarkCompleted, Goto, Back, TypeOK
    <2>2. CASE v = w
      BY <1>2, <1>3, <1>9, <2>2 DEF MarkCompleted, Goto, Back, TypeOK
    <2> QED  BY <2>1, <2>2
  <1>10. ASSUME NEW w \in Workers, NEW v \in Workers,
               ReleaseFailed(w) \/ MarkCleaned(w) \/ CleanupFailed(w)
        PROVE  Good(v)'
    <2>1. CASE v # w
      BY <1>1, <1>10, <2>1 DEF ReleaseFailed, MarkCleaned, CleanupFailed, SweepOn, Back, Goto,
           TypeOK
    <2>2. CASE v = w
      BY <1>2, <1>3, <1>10, <2>2 DEF ReleaseFailed, MarkCleaned, CleanupFailed, SweepOn, Back,
           Goto, TypeOK
    <2> QED  BY <2>1, <2>2
  <1>11. ASSUME NEW w \in Workers, NEW v \in Workers, SelectExpired(w)
        PROVE  Good(v)'
    <2>1. CASE v # w
      BY <1>1, <1>11, <2>1 DEF SelectExpired, TypeOK
    <2>2. CASE v = w
      <3>1. /\ batch'[w] = {[id |-> r, status |-> rows[r].status] : r \in {q \in Rows : Sweepable(q)}}
            /\ cur'[w] = NoCandidate /\ phase'[w] \in {"idle", "sweep"}
        BY <1>0, <1>11 DEF SelectExpired, TypeOK
      <3>2. \A r \in Rows : Sweepable(r) => SweepDue([id |-> r, status |-> rows[r].status])
        BY DEF HistoryInv, RowHistory, Sweepable, SweepDue, Artifact
      <3>3. \A a \in AtHand(w)' : SweepDue(a)'
        BY <3>1, <3>2, WorkStaysDue DEF AtHand
      <3> QED  BY <2>2, <3>1, <3>3
    <2> QED  BY <2>1, <2>2
  <1>12. ASSUME NEW w \in Workers, NEW v \in Workers, Crash(w)
        PROVE  Good(v)'
    <2>1. CASE v # w
      BY <1>1, <1>12, <2>1 DEF Crash, TypeOK
    <2>2. CASE v = w
      BY <1>12, <2>2 DEF Crash, TypeOK
    <2> QED  BY <2>1, <2>2
  <1>13. ASSUME UNCHANGED vars
         PROVE  \A v \in Workers : Good(v)'
    BY <1>1, <1>13 DEF vars, workerVars
  <1>14. \A v \in Workers : Good(v)'
    <2> HIDE DEF Good
    <2> QED  BY <1>5, <1>6, <1>7, <1>8, <1>9, <1>10, <1>11, <1>12, <1>13 DEF Next
  <1> QED  BY <1>14 DEF HandInv

-----------------------------------------------------------------------------
\* Who writes the bucket: an upload with a drawn token, or a sweep that is due.
LEMMA ObjectStep ==
    ASSUME Inv, [Next]_vars
    PROVE  \/ object' = object
           \/ \E c : DrawnClaim(c) /\ object' = [object EXCEPT ![c.id] = c.token]
           \/ \E a : SweepDue(a) /\ object' = [object EXCEPT ![a.id] = NoToken]
  <1>1. ASSUME NEW r \in Rows, Request(r) \/ RetryDead(r) \/ TimePasses(r) \/ RetentionEnds(r)
        PROVE  object' = object
    BY <1>1 DEF Request, RetryDead, TimePasses, RetentionEnds
  <1>2. ASSUME NEW w \in Workers, PutObject(w)
        PROVE  \/ object' = object
               \/ \E c : DrawnClaim(c) /\ object' = [object EXCEPT ![c.id] = c.token]
    BY <1>2, CurrentWork DEF PutObject, Inv
  <1>3. ASSUME NEW w \in Workers, DeleteObject(w)
        PROVE  \/ object' = object
               \/ \E a : SweepDue(a) /\ object' = [object EXCEPT ![a.id] = NoToken]
    BY <1>3, CurrentWork DEF DeleteObject, Inv
  <1>4. ASSUME NEW w \in Workers,
               \/ ClaimWorkspaceExportBatch(w) \/ BuildArchive(w)
               \/ MarkCompleted(w) \/ ReleaseFailed(w)
               \/ SelectExpired(w) \/ NextArtifact(w)
               \/ VerifyAbsent(w) \/ MarkCleaned(w) \/ CleanupFailed(w) \/ Crash(w)
        PROVE  object' = object
    BY <1>4 DEF ClaimWorkspaceExportBatch, BuildArchive, MarkCompleted, ReleaseFailed,
       SelectExpired, NextArtifact, VerifyAbsent, MarkCleaned, CleanupFailed, Crash
  <1>5. CASE UNCHANGED vars
    BY <1>5 DEF vars
  <1> QED  BY <1>1, <1>2, <1>3, <1>4, <1>5 DEF Next

\* Nobody takes the artifact from a row in progress or from a download: a late
\* upload of the same export replaces it, and only a sweep of a row that was
\* dead before its retry deletes it.
LEMMA StoredStep ==
    ASSUME Inv, [Next]_vars, NEW r \in Rows,
           Stored(r), rows[r].status = "processing" \/ Downloadable(r),
           rows'[r].attempts = rows[r].attempts, rows'[r].maxAttempts = rows[r].maxAttempts
    PROVE  Stored(r)'
  <1>1. rows[r].attempts \in Nat /\ object \in [Rows -> Nat]
    BY DEF Inv, TypeOK, RowType
  <1>2. CASE object' = object
    BY <1>2 DEF Stored, Retried
  <1>3. ASSUME NEW c, DrawnClaim(c), object' = [object EXCEPT ![c.id] = c.token]
        PROVE  Stored(r)'
    <2>1. c.id \in Rows /\ c.token \in Nat /\ c.token > 0 /\ c.token =< rows[c.id].attempts
      BY <1>3 DEF DrawnClaim, Candidate
    <2>2. CASE c.id = r
      BY <1>1, <1>3, <2>1, <2>2 DEF Stored, NoToken
    <2>3. CASE c.id # r
      BY <1>1, <1>3, <2>1, <2>3 DEF Stored, Retried
    <2> QED  BY <2>2, <2>3
  <1>4. ASSUME NEW a, SweepDue(a), object' = [object EXCEPT ![a.id] = NoToken]
        PROVE  Stored(r)'
    <2>1. a.id \in Rows /\ a.status \in {"completed", "dead"}
      BY <1>4 DEF SweepDue, Artifact
    <2>2. CASE a.id = r
      <3>1. rows[r].status \in {"processing", "completed"}
        BY DEF Downloadable
      <3>2. rows[r].status = "completed" => ~ expired[r]
        BY DEF Downloadable
      <3>3. a.status = "dead"
        BY <1>4, <2>1, <2>2, <3>1, <3>2 DEF SweepDue
      <3>4. Retried(r)
        BY <1>4, <2>2, <3>1, <3>3 DEF SweepDue
      <3>5. rows[r].attempts > 1
        BY <3>1, <3>4, <1>1, TableConstants DEF Inv, HistoryInv, RowHistory, Retried
      <3> QED  BY <3>4, <3>5, <1>1 DEF Stored, Retried
    <2>3. CASE a.id # r
      BY <1>1, <1>4, <2>1, <2>3 DEF Stored, Retried
    <2> QED  BY <2>2, <2>3
  <1> QED  BY <1>2, <1>3, <1>4, ObjectStep

\* Every step keeps the upload of an owner that is about to complete.
LEMMA UploadStep ==
    ASSUME Inv, [Next]_vars
    PROVE  UploadInv'
  <1> SUFFICES ASSUME NEW v \in Workers, phase'[v] = "complete",
                      Owns(rows'[cur'[v].id], cur'[v].token)
               PROVE  Stored(cur[v].id)'
    BY DEF UploadInv
  <1>1. CASE phase[v] = "complete" /\ cur'[v] = cur[v]
    <2>1. /\ cur[v].id \in Rows /\ cur[v].token \in Nat
          /\ cur[v].token =< rows[cur[v].id].attempts
      BY <1>1, CurrentWork DEF Inv, DrawnClaim
    <2>2. PICK r \in Rows : r = cur[v].id
      BY <2>1
    <2>3. /\ Owns(rows[r], cur[v].token)
          /\ rows'[r].attempts = rows[r].attempts /\ rows'[r].maxAttempts = rows[r].maxAttempts
      BY <1>1, <2>1, <2>2, RowsStep, RowMovesHistory
    <2>4. Stored(r)
      BY <1>1, <2>2, <2>3 DEF Inv, UploadInv
    <2>5. Stored(r)'
      BY <2>3, <2>4, StoredStep DEF Owns
    <2> QED  BY <1>1, <2>2, <2>5 DEF Stored, Retried
  <1>2. CASE ~ (phase[v] = "complete" /\ cur'[v] = cur[v])
    <2>1. PutObject(v) /\ phase[v] = "put" /\ cur'[v] = cur[v]
      <3> USE DEF Inv, TypeOK, HandInv
      <3>1. ASSUME NEW q \in Rows, Request(q) \/ RetryDead(q) \/ TimePasses(q) \/ RetentionEnds(q)
            PROVE  FALSE
        BY <1>2, <3>1 DEF Request, RetryDead, TimePasses, RetentionEnds, workerVars
      <3>2. ASSUME NEW w \in Workers, ClaimWorkspaceExportBatch(w) \/ SelectExpired(w) \/ Crash(w)
            PROVE  FALSE
        BY <1>2, <3>2 DEF ClaimWorkspaceExportBatch, SelectExpired, Crash
      <3>3. ASSUME NEW w \in Workers, BuildArchive(w) \/ NextArtifact(w)
            PROVE  FALSE
        BY <1>2, <3>3 DEF BuildArchive, NextArtifact, Take
      <3>4. ASSUME NEW w \in Workers,
                   \/ MarkCompleted(w) \/ ReleaseFailed(w) \/ DeleteObject(w)
                   \/ VerifyAbsent(w) \/ MarkCleaned(w) \/ CleanupFailed(w)
            PROVE  FALSE
        BY <1>2, <3>4 DEF MarkCompleted, ReleaseFailed, DeleteObject, VerifyAbsent, MarkCleaned,
           CleanupFailed, SweepOn, Goto, Back
      <3>5. ASSUME NEW w \in Workers, PutObject(w)
            PROVE  w = v /\ phase[v] = "put" /\ cur'[v] = cur[v]
        BY <1>2, <3>5 DEF PutObject, Goto
      <3>6. CASE UNCHANGED vars
        BY <1>2, <3>6 DEF vars, workerVars
      <3> QED  BY <3>1, <3>2, <3>3, <3>4, <3>5, <3>6 DEF Next
    <2>2. cur[v].id \in Rows /\ cur[v].token \in Nat /\ DrawnClaim(cur[v])
      BY <2>1, CurrentWork DEF Inv
    <2>3. object' = [object EXCEPT ![cur[v].id] = cur[v].token] /\ rows' = rows
      BY <2>1 DEF PutObject, Goto, Inv, TypeOK
    <2>4. object'[cur[v].id] = cur[v].token
      BY <2>2, <2>3 DEF Inv, TypeOK
    <2>5. rows[cur[v].id].attempts \in Nat
      BY <2>2 DEF Inv, TypeOK, RowType
    <2> QED  BY <2>1, <2>2, <2>3, <2>4, <2>5 DEF Stored, DrawnClaim, NoToken
  <1> QED  BY <1>1, <1>2

\* Only the owner's transaction completes a row; it records the checksum of its
\* upload and notifies in the same step.
LEMMA CompletionStep ==
    ASSUME Inv, [Next]_vars
    PROVE  \/ \E w \in Workers :
                /\ phase[w] = "complete" /\ Owns(rows[cur[w].id], cur[w].token)
                /\ rows' = [rows EXCEPT ![cur[w].id] = Finished(@, "completed")]
                /\ checksum' = [checksum EXCEPT ![cur[w].id] = cur[w].token]
                /\ notified' = [notified EXCEPT ![cur[w].id] = @ + 1]
                /\ object' = object /\ expired' = expired
           \/ /\ checksum' = checksum /\ notified' = notified
              /\ \A r \in Rows : rows'[r].status = "completed" => rows[r].status = "completed"
  <1> DEFINE Quiet == /\ checksum' = checksum /\ notified' = notified
                      /\ \A r \in Rows : rows'[r].status = "completed" => rows[r].status = "completed"
  <1> USE DEF Inv, TypeOK
  <1>1. ASSUME NEW r \in Rows, Request(r)
        PROVE  Quiet
    <2>1. \A q \in Rows : Inserted(rows[q]).status = "pending"
      BY DEF Inserted, RowType
    <2> QED  BY <1>1, <2>1 DEF Request, Insert, InsertAll, jobVars
  <1>2. ASSUME NEW r \in Rows, RetryDead(r) \/ TimePasses(r) \/ RetentionEnds(r)
        PROVE  Quiet
    <2>1. /\ RetriedDeadLetter(rows[r], ExtraAttempts).status = "pending"
          /\ TimedOut(rows[r]).status = rows[r].status
          /\ BackedOff(rows[r]).status = rows[r].status
      BY DEF RetriedDeadLetter, TimedOut, BackedOff, RowType
    <2> QED  BY <1>2, <2>1 DEF RetryDead, TimePasses, RetentionEnds, RetryDeadLetter,
                ClaimTimesOut, BackoffElapses, jobVars
  <1>3. ASSUME NEW w \in Workers, ClaimWorkspaceExportBatch(w)
        PROVE  Quiet
    BY <1>3 DEF ClaimWorkspaceExportBatch, ClaimBatch, Claimed
  <1>4. ASSUME NEW w \in Workers, ReleaseFailed(w)
        PROVE  Quiet
    <2>1. cur[w].id \in Rows
      BY <1>4, CurrentWork DEF ReleaseFailed
    <2>2. Released(rows[cur[w].id]).status # "completed"
      BY <2>1 DEF Released, Finished, RowType
    <2> QED  BY <1>4, <2>1, <2>2 DEF ReleaseFailed, Fenced, jobVars
  <1>5. ASSUME NEW w \in Workers, MarkCompleted(w),
               ~ (rows' = rows /\ checksum' = checksum /\ notified' = notified)
        PROVE  /\ phase[w] = "complete" /\ Owns(rows[cur[w].id], cur[w].token)
               /\ rows' = [rows EXCEPT ![cur[w].id] = Finished(@, "completed")]
               /\ checksum' = [checksum EXCEPT ![cur[w].id] = cur[w].token]
               /\ notified' = [notified EXCEPT ![cur[w].id] = @ + 1]
               /\ object' = object /\ expired' = expired
    BY <1>5 DEF MarkCompleted
  <1>6. ASSUME NEW w \in Workers,
               \/ BuildArchive(w) \/ PutObject(w) \/ SelectExpired(w) \/ NextArtifact(w)
               \/ DeleteObject(w) \/ VerifyAbsent(w) \/ MarkCleaned(w) \/ CleanupFailed(w)
               \/ Crash(w)
        PROVE  Quiet
    BY <1>6 DEF BuildArchive, PutObject, SelectExpired, NextArtifact, DeleteObject,
       VerifyAbsent, MarkCleaned, CleanupFailed, Crash, jobVars
  <1>7. CASE UNCHANGED vars
    BY <1>7 DEF vars, jobVars
  <1> QED  BY <1>1, <1>2, <1>3, <1>4, <1>5, <1>6, <1>7 DEF Next

\* Every step keeps what the invariant says of completed exports.
LEMMA ResultStep ==
    ASSUME Inv, [Next]_vars
    PROVE  ResultInv'
  <1> SUFFICES ASSUME NEW r \in Rows
               PROVE  /\ notified'[r] = IF rows'[r].status = "completed" THEN 1 ELSE 0
                      /\ expired'[r] => rows'[r].status = "completed"
                      /\ rows'[r].status = "completed" => checksum'[r] = rows'[r].attempts
                      /\ Downloadable(r)' => Stored(r)'
    BY DEF ResultInv
  <1>1. /\ notified[r] = IF rows[r].status = "completed" THEN 1 ELSE 0
        /\ expired[r] => rows[r].status = "completed"
        /\ rows[r].status = "completed" => checksum[r] = rows[r].attempts
        /\ Downloadable(r) => Stored(r)
    BY DEF Inv, ResultInv
  <1>2. rows[r].status = "completed" => rows'[r] = rows[r]
    BY RowsStep, RowMovesHistory
  <1>3. expired'[r] => rows'[r].status = "completed"
    <2>1. TypeOK
      BY DEF Inv
    <2>2. /\ \A q \in Rows : expired'[q] /\ ~ expired[q] => rows[q].status = "completed" /\ rows' = rows
          /\ \A q \in Rows : expired[q] => expired'[q]
      BY <2>1, ExpiredStep
    <2>3. expired'[r] => rows[r].status = "completed"
      BY <1>1, <2>2, Zenon
    <2> QED  BY <1>2, <2>3
  <1>4. expired[r] => expired'[r]
    <2>1. TypeOK
      BY DEF Inv
    <2>2. \A q \in Rows : expired[q] => expired'[q]
      BY <2>1, ExpiredStep
    <2> QED  BY <2>2, Zenon
  <1>5. CASE rows[r].status = "completed"
    <2>1. Downloadable(r)' => Stored(r)'
      <3>1. Downloadable(r)' => Downloadable(r)
        BY <1>4, <1>5 DEF Downloadable
      <3> QED  BY <1>1, <1>2, <1>5, <3>1, StoredStep
    <2>2. notified'[r] = notified[r] /\ checksum'[r] = checksum[r]
      <3>1. ASSUME NEW w \in Workers, phase[w] = "complete", Owns(rows[cur[w].id], cur[w].token)
            PROVE  cur[w].id # r
        BY <1>5, <3>1 DEF Owns
      <3> QED  BY <3>1, CompletionStep DEF Inv, TypeOK
    <2> QED  BY <1>1, <1>2, <1>3, <1>5, <2>1, <2>2
  <1>6. CASE rows[r].status # "completed" /\ rows'[r].status # "completed"
    <2>1. notified'[r] = notified[r]
      <3>1. ASSUME NEW w \in Workers, phase[w] = "complete",
                   rows' = [rows EXCEPT ![cur[w].id] = Finished(@, "completed")]
            PROVE  cur[w].id # r
        <4>1. \A q \in Rows : Finished(rows[q], "completed").status = "completed"
          BY DEF Finished, Inv, TypeOK, RowType
        <4> QED  BY <1>6, <3>1, <4>1 DEF Inv, TypeOK
      <3> QED  BY <3>1, CompletionStep DEF Inv, TypeOK
    <2> QED  BY <1>1, <1>3, <1>6, <2>1 DEF Downloadable
  <1>7. CASE rows[r].status # "completed" /\ rows'[r].status = "completed"
    <2>1. PICK w \in Workers :
             /\ phase[w] = "complete" /\ Owns(rows[cur[w].id], cur[w].token)
             /\ rows' = [rows EXCEPT ![cur[w].id] = Finished(@, "completed")]
             /\ checksum' = [checksum EXCEPT ![cur[w].id] = cur[w].token]
             /\ notified' = [notified EXCEPT ![cur[w].id] = @ + 1]
             /\ object' = object /\ expired' = expired
      BY <1>7, CompletionStep
    <2>2. cur[w].id = r
      BY <1>7, <2>1 DEF Inv, TypeOK
    <2>3. /\ rows'[r].attempts = rows[r].attempts
          /\ rows'[r].maxAttempts = rows[r].maxAttempts
      BY <1>7, RowsStep, RowMovesHistory
    <2>4. Stored(r)
      BY <2>1, <2>2 DEF Inv, UploadInv
    <2>5. Stored(r)'
      BY <2>1, <2>3, <2>4 DEF Stored, Retried
    <2>6. notified'[r] = 1
      BY <1>1, <1>7, <2>1, <2>2 DEF Inv, TypeOK
    <2>7. checksum'[r] = rows[r].attempts
      <3>1. rows[r].token = rows[r].attempts
        BY <2>1, <2>2, RowsStep DEF RowConsistent, Owns
      <3> QED  BY <2>1, <2>2, <3>1 DEF Inv, TypeOK, Owns
    <2> QED  BY <1>3, <1>7, <2>3, <2>5, <2>6, <2>7
  <1> QED  BY <1>5, <1>6, <1>7

\* The invariant is inductive.
LEMMA InvStep == Inv /\ [Next]_vars => Inv'
  BY TypeStep, RowsStep, HandStep, UploadStep, ResultStep DEF Inv

\* Hence it holds in every reachable state.
LEMMA InvHolds == Spec => []Inv
  BY InitInv, InvStep, PTL DEF Spec

-----------------------------------------------------------------------------
\* Every state of the export job is well formed; a completed export has notified
\* its recipients exactly once, no other has, and unless an administrator
\* retried it, its artifact stays in the bucket until it expires, whatever
\* crashes, takeovers, lost answers and late sweeps happen.
THEOREM ExportsInvariant == Spec => []ExportsInv
  <1>1. Inv => ExportsInv
    BY DEF Inv, ResultInv, Stored, ExportsInv, NotifiedOnceCompleted, UnretriedKeepsArtifact
  <1> QED  BY <1>1, InvHolds, PTL

\* An export that completed on its first attempt can be downloaded with the
\* checksum recorded for it: no other worker ever had a claim whose late upload
\* or sweep could reach its object.
THEOREM ExportsFirstAttempt == Spec => []FirstAttemptIntact
  <1>1. Inv => FirstAttemptIntact
    BY DEF Inv, ResultInv, Stored, FirstAttemptIntact, Downloadable, NoToken
  <1> QED  BY <1>1, InvHolds, PTL

\* The export job implements the abstract work table.
THEOREM ExportsImplementTable == Spec => ImplementsWorkTable
  <1>1. Init => TableInit
    BY DEF Init
  <1>2. Inv /\ [Next]_vars => [TableNext]_rows
    BY StepImplementsTable DEF Inv
  <1> QED  BY <1>1, <1>2, InvHolds, PTL DEF Spec, TableSpec, ImplementsWorkTable

\* Hence the trigger on export_jobs never rejects one of the job's statements.
THEOREM ExportsTrigger == Spec => TriggerNeverFires
  BY ExportsImplementTable, TableTrigger, PTL DEF ImplementsWorkTable
=============================================================================
