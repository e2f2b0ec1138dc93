-------------------------- MODULE FormSubmissions --------------------------
(***************************************************************************)
(* Task creation for public form responses                                  *)
(* (apps/worker/src/form-submissions.ts over form_responses), together with  *)
(* the API's own task creation, which draws serial numbers from the same     *)
(* task_serial_sequences row.  createTaskForResponse is one transaction that *)
(* holds the response row and the sequence row locked, so it is one step.    *)
(***************************************************************************)
EXTENDS WorkTable, FiniteSets

CONSTANTS Workers, BatchSize, NoCandidate, ApiTasks

Candidate == [id : Rows, token : Nat]

ASSUME FormConstants == /\ BatchSize \in Nat \ {0}
                        /\ NoCandidate \notin Candidate
                        /\ ApiTasks \cap Rows = {}

VARIABLES
    phase, batch, cur,
    projectOpen,  \* the target project exists and is not deleted
    serialOf,     \* serial numbers of the tasks created, by what asked for them
    nextSerial,   \* serial numbers drawn so far
    events        \* task_created automation events, by deduplication key

workerVars == <<phase, batch, cur>>
taskVars == <<serialOf, nextSerial, events>>
formsVars == <<rows, workerVars, projectOpen, taskVars>>

Phases == {"idle", "loop", "create", "release"}
Sources == Rows \cup ApiTasks

\* Every variable has its type; serialOf holds the serials each response or API
\* request was given.
FormsTypeOK ==
    /\ rows \in [Rows -> RowType]
    /\ phase \in [Workers -> Phases]
    /\ batch \in [Workers -> SUBSET Candidate]
    /\ cur \in [Workers -> Candidate \cup {NoCandidate}]
    /\ projectOpen \in BOOLEAN
    /\ serialOf \in [Sources -> SUBSET Nat]
    /\ nextSerial \in Nat
    /\ events \subseteq Sources

FormsInit ==
    /\ TableInit
    /\ phase = [w \in Workers |-> "idle"]
    /\ batch = [w \in Workers |-> {}]
    /\ cur = [w \in Workers |-> NoCandidate]
    /\ projectOpen = TRUE
    /\ serialOf = [s \in Sources |-> {}]
    /\ nextSerial = 0
    /\ events = {}

-----------------------------------------------------------------------------
\* submit: a response that asks for a task is stored as pending work.
Submit(r) ==
    /\ Insert(r)
    /\ UNCHANGED <<workerVars, projectOpen, taskVars>>

RetryDead(r) ==
    /\ RetryDeadLetter(r)
    /\ UNCHANGED <<workerVars, projectOpen, taskVars>>

TimePasses(r) ==
    /\ ClaimTimesOut(r) \/ BackoffElapses(r)
    /\ UNCHANGED <<workerVars, projectOpen, taskVars>>

\* softDelete of the projects repository; nothing brings a project back.
DeleteProject ==
    /\ projectOpen
    /\ projectOpen' = FALSE
    /\ UNCHANGED <<rows, workerVars, taskVars>>

\* allocateTaskSerialNumbers and the insert of the task that takes the number.
AllocateSerial(s) ==
    /\ nextSerial' = nextSerial + 1
    /\ serialOf' = [serialOf EXCEPT ![s] = @ \cup {nextSerial + 1}]

\* create of the tasks repository: serial, task and automation event commit with
\* the request, or roll back together.  A deleted project still takes tasks.
ApiCreatesTask(t) ==
    /\ serialOf[t] = {}
    /\ AllocateSerial(t)
    /\ events' = events \cup {t}
    /\ UNCHANGED <<rows, workerVars, projectOpen>>

-----------------------------------------------------------------------------
Goto(w, p) == phase' = [phase EXCEPT ![w] = p] /\ UNCHANGED <<batch, cur>>

Continue(w) ==
    /\ phase' = [phase EXCEPT ![w] = IF batch[w] = {} THEN "idle" ELSE "loop"]
    /\ cur' = [cur EXCEPT ![w] = NoCandidate]
    /\ UNCHANGED batch

ClaimFormTaskCreationBatch(w) ==
    /\ phase[w] = "idle"
    /\ \E S \in (SUBSET Rows) \ {{}} :
          /\ Cardinality(S) =< BatchSize
          /\ ClaimBatch(S)
          /\ batch' = [batch EXCEPT ![w] =
                {[id |-> r, token |-> Claimed(rows[r]).token] : r \in S}]
    /\ phase' = [phase EXCEPT ![w] = "loop"]
    /\ UNCHANGED <<cur, projectOpen, taskVars>>

NextResponse(w) ==
    /\ phase[w] = "loop"
    /\ \E c \in batch[w] : /\ cur' = [cur EXCEPT ![w] = c]
                           /\ batch' = [batch EXCEPT ![w] = @ \ {c}]
    /\ phase' = [phase EXCEPT ![w] = "create"]
    /\ UNCHANGED <<rows, projectOpen, taskVars>>

\* What the transaction writes: serial, task, event and the completed response.
Committed(c) ==
    /\ AllocateSerial(c.id)
    /\ events' = events \cup {c.id}
    /\ rows' = [rows EXCEPT ![c.id] = Fenced(@, c.token, Finished(@, "completed"))]

\* Mutant: the serial is drawn outside the transaction, so a failure burns it.
CreateTaskBurningSerial(w) ==
    /\ phase[w] = "create"
    /\ IF ~ Owns(rows[cur[w].id], cur[w].token)
       THEN Continue(w) /\ UNCHANGED <<rows, taskVars>>
       ELSE \/ projectOpen /\ Committed(cur[w]) /\ (Continue(w) \/ Goto(w, "release"))
            \/ /\ nextSerial' = nextSerial + 1
               /\ Goto(w, "release")
               /\ UNCHANGED <<rows, serialOf, events>>
    /\ UNCHANGED projectOpen

\* Mutant: the transaction does not check that the claim is still its own.
CreateTaskUnfenced(w) ==
    /\ phase[w] = "create"
    /\ \/ projectOpen /\ Committed(cur[w]) /\ (Continue(w) \/ Goto(w, "release"))
       \/ Goto(w, "release") /\ UNCHANGED <<rows, taskVars>>
    /\ UNCHANGED projectOpen

\* createTaskForResponse: a lost claim is "stale" and left alone; otherwise the
\* transaction commits (its answer may be lost), or rolls back, as it must when
\* the project is gone.
CreateTaskForResponse(w) ==
    /\ phase[w] = "create"
    /\ IF ~ Owns(rows[cur[w].id], cur[w].token)
       THEN Continue(w) /\ UNCHANGED <<rows, taskVars>>
       ELSE \/ projectOpen /\ Committed(cur[w]) /\ (Continue(w) \/ Goto(w, "release"))
            \/ Goto(w, "release") /\ UNCHANGED <<rows, taskVars>>
    /\ UNCHANGED projectOpen

ReleaseFormTaskCreation(w) ==
    /\ phase[w] = "release"
    /\ rows' = [rows EXCEPT ![cur[w].id] = Fenced(@, cur[w].token, Released(@))]
    /\ Continue(w)
    /\ UNCHANGED <<projectOpen, taskVars>>

Crash(w) ==
    /\ phase[w] # "idle"
    /\ phase' = [phase EXCEPT ![w] = "idle"]
    /\ batch' = [batch EXCEPT ![w] = {}]
    /\ cur' = [cur EXCEPT ![w] = NoCandidate]
    /\ UNCHANGED <<rows, projectOpen, taskVars>>

WorkerStep(w) == NextResponse(w) \/ CreateTaskForResponse(w) \/ ReleaseFormTaskCreation(w)

FormsNext ==
    \/ \E r \in Rows : Submit(r) \/ RetryDead(r) \/ TimePasses(r)
    \/ \E t \in ApiTasks : ApiCreatesTask(t)
    \/ DeleteProject
    \/ \E w \in Workers : ClaimFormTaskCreationBatch(w) \/ WorkerStep(w) \/ Crash(w)

FormsSpec == FormsInit /\ [][FormsNext]_formsVars

\* The scheduler re-runs the job; time passes; a started job goes on.
Fairness ==
    /\ \A r \in Rows : WF_formsVars(TimePasses(r))
    /\ \A w \in Workers : WF_formsVars(WorkerStep(w))
    /\ WF_formsVars(\E w \in Workers : ClaimFormTaskCreationBatch(w))

FairSpec == FormsSpec /\ Fairness

-----------------------------------------------------------------------------
\* A response has its one task and its one task_created event exactly when its
\* row says completed: no takeover, lost commit answer or dead-letter retry
\* creates a second task, and no failure leaves half of the work behind.
OneTaskPerResponse ==
    \A r \in Rows :
        /\ Cardinality(serialOf[r]) = IF rows[r].status = "completed" THEN 1 ELSE 0
        /\ r \in events <=> rows[r].status = "completed"

\* Serial numbers are dense: worker and API together hand out 1..nextSerial, each
\* number once, and a rolled back creation burns none.
SerialsDense ==
    /\ UNION {serialOf[s] : s \in Sources} = 1..nextSerial
    /\ \A s, t \in Sources : s # t => serialOf[s] \cap serialOf[t] = {}

\* The state stays well formed, with one task per completed response and dense
\* serial numbers.
SubmissionsInv == FormsTypeOK /\ OneTaskPerResponse /\ SerialsDense

\* The worker's statements keep to the table's promise.
ImplementsWorkTable == TableSpec

Held(w) == batch[w] \cup ({cur[w]} \ {NoCandidate})

Stranded(r) == /\ rows[r].status = "processing"
               /\ rows[r].attempts = rows[r].maxAttempts
               /\ \A w \in Workers : [id |-> r, token |-> rows[r].token] \notin Held(w)

\* Every response is eventually turned into a task or declared dead, unless a
\* worker stopped on its last attempt; a commit whose answer was lost included.
EventuallySettledOrStranded ==
    \A r \in Rows : rows[r].status \in OpenStatus ~>
        rows[r].status \in FinalStatus \/ Stranded(r)
=============================================================================
