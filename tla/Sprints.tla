------------------------------ MODULE Sprints ------------------------------
(***************************************************************************)
(* The sprints of one project (packages/database/src/repositories/sprints.ts,*)
(* sprint-analytics.ts, and the soft delete and status changes of tasks.ts). *)
(* A task's membership is kept twice: tasks.sprint_id, and the one row of    *)
(* task_sprint_assignments whose removed_at is null.  An active sprint also  *)
(* has a timeline: its start snapshot, and an event for each later change.   *)
(*                                                                         *)
(* Requests are READ COMMITTED transactions.  One that decides on a row it   *)
(* has not locked is two steps, and "op" holds what it read:                 *)
(*   assign, move  lock the task and read the sprint they assign it to;      *)
(*   renumber      locks the task it moves and reads the columns of the      *)
(*                 board it will number again;                              *)
(*   complete      locks its sprint and reads the one that takes over;       *)
(*   delete        reads the task before it locks anything.                  *)
(* Inserting an assignment or an event takes a key-share lock on the sprint  *)
(* it refers to, so it waits for a transaction holding that sprint's row.    *)
(***************************************************************************)
EXTENDS Integers, FiniteSets

CONSTANTS Clients,   \* requests that may be in progress at the same time
          Sprint, Task,
          Hierarchies, \* the parents the tasks may have, NoTask for a top-level one
          NoTask, NoSprint, NoOp,
          MaxDrift   \* bound: no request begins while a timeline has drifted further

Target == Sprint \cup {NoSprint}
Status == {"absent", "planned", "active", "completed", "cancelled"}
OpType == [kind : {"assign", "move", "complete", "delete"}, task : Task \cup {NoTask},
           from : Target, to : Target, status : Status, done : BOOLEAN]
          \cup [kind : {"renumber"}, task : Task, done : BOOLEAN,
                open : SUBSET Task, closed : SUBSET Task]

ASSUME SprintConstants ==
    /\ Hierarchies \subseteq [Task -> Task \cup {NoTask}] /\ NoTask \notin Task
    /\ NoSprint \notin Sprint /\ NoOp \notin OpType
    /\ IsFiniteSet(Task) /\ MaxDrift \in Nat

VARIABLES sprints,     \* status of every sprint
          tasks,       \* live, sprint_id, whether the status is done, and parent_id
          assignment,  \* sprint of the task's open assignment; the unique index allows one
          timeline,    \* task counts that the start snapshot and the events of an
                       \* active sprint add up to; no transaction reads it once ended
          op           \* the transaction a client is in the middle of

vars == <<sprints, tasks, assignment, timeline, op>>

NoTimeline == [scope |-> 0, completed |-> 0]

\* Every variable has its type.
TypeOK ==
    /\ sprints \in [Sprint -> Status]
    /\ tasks \in [Task -> [live : BOOLEAN, sprint : Target, done : BOOLEAN,
                           parent : Task \cup {NoTask}]]
    /\ assignment \in [Task -> Target]
    /\ timeline \in [Sprint -> [scope : Int, completed : Int]]
    /\ op \in [Clients -> OpType \cup {NoOp}]

Init ==
    /\ sprints = [s \in Sprint |-> "absent"]
    /\ \E parent \in Hierarchies :
          tasks = [t \in Task |-> [live |-> TRUE, sprint |-> NoSprint, done |-> FALSE,
                                  parent |-> parent[t]]]
    /\ assignment = [t \in Task |-> NoSprint]
    /\ timeline = [s \in Sprint |-> NoTimeline]
    /\ op = [c \in Clients |-> NoOp]

-----------------------------------------------------------------------------
(* Membership, the locks that are held, and the timeline.                  *)

Members(s) == {t \in Task : tasks[t].live /\ tasks[t].sprint = s}

Counts(s) == [scope |-> Cardinality(Members(s)),
              completed |-> Cardinality({t \in Members(s) : tasks[t].done})]

\* verifySprintMembershipConsistency: both records of membership name the same tasks.
Consistent(s) == Members(s) = {t \in Task : assignment[t] = s}

TaskLocked(t) == \E c \in Clients : op[c] # NoOp /\ op[c].kind \in {"assign", "move", "renumber"} /\ op[c].task = t

SprintLocked(s) == \E c \in Clients : op[c] # NoOp /\ op[c].kind = "complete" /\ op[c].from = s

\* A statement that reads or writes all the tasks of s waits for their locks.
MembersFree(s) == \A t \in Task : s \in {tasks[t].sprint, assignment[t]} => ~TaskLocked(t)

Free(s) == s \in Sprint => ~SprintLocked(s)

Active(s) == s \in Sprint /\ sprints[s] = "active"

Completed(done) == IF done THEN 1 ELSE 0

\* The change of a timeline by the task_removed or task_added event of a task.
Added(s, done) == [x \in Sprint |-> [scope |-> IF x = s THEN 1 ELSE 0,
                                    completed |-> IF x = s THEN Completed(done) ELSE 0]]
Removed(s, done) == [x \in Sprint |-> [scope |-> IF x = s THEN -1 ELSE 0,
                                      completed |-> IF x = s THEN -Completed(done) ELSE 0]]
NoEvent == [x \in Sprint |-> NoTimeline]

\* Events that reach a sprint after it has ended lie beyond the end of its timeline.
Append(e, f) == timeline' =
    [s \in Sprint |-> IF Active(s) THEN [scope |-> timeline[s].scope + e[s].scope + f[s].scope,
                                        completed |-> timeline[s].completed + e[s].completed + f[s].completed]
                      ELSE timeline[s]]

\* By how much the members of a sprint differ from what its timeline counts;
\* getSprintTimeline throws if it is not zero when the sprint is completed.
Drift(s) == <<Counts(s).scope - timeline[s].scope, Counts(s).completed - timeline[s].completed>>

\* The bound on what a run follows: nothing reads the timeline before the end.
Within(s) == \A i \in 1..2 : Drift(s)[i] \in -MaxDrift .. MaxDrift

Begin(c, o) ==
    /\ \A s \in Sprint : Active(s) => Within(s)
    /\ op[c] = NoOp /\ op' = [op EXCEPT ![c] = o]
End(c) == op' = [op EXCEPT ![c] = NoOp]
InProgress(c, k) == op[c] # NoOp /\ op[c].kind = k

\* Both records are changed together: close the open assignment, insert another, set sprint_id.
PutInto(ts, s) ==
    /\ tasks' = [t \in Task |-> IF t \in ts THEN [tasks[t] EXCEPT !.sprint = s] ELSE tasks[t]]
    /\ assignment' = [t \in Task |-> IF t \in ts THEN s ELSE assignment[t]]

-----------------------------------------------------------------------------
(* The life of a sprint.                                                   *)

\* The default of the status column.
DefaultStatus == "planned"

CreateSprint(s) ==
    /\ sprints[s] = "absent"
    /\ sprints' = [sprints EXCEPT ![s] = DefaultStatus]
    /\ UNCHANGED <<tasks, assignment, timeline, op>>

\* sprints_active_unique: at most one sprint of the project is active.
ActiveIndexFree == \A s \in Sprint : sprints[s] # "active"

StartSprint(s) ==
    /\ sprints[s] = "planned" /\ ActiveIndexFree
    /\ Free(s) /\ MembersFree(s) /\ Consistent(s)
    /\ sprints' = [sprints EXCEPT ![s] = "active"]
    /\ timeline' = [timeline EXCEPT ![s] = Counts(s)]
    /\ UNCHANGED <<tasks, assignment, op>>

BeginComplete(c, s, destination) ==
    /\ sprints[s] = "active" /\ Free(s)
    /\ destination = NoSprint \/ (destination \in Sprint /\ sprints[destination] = "planned")
    /\ Begin(c, [kind |-> "complete", task |-> NoTask, from |-> s, to |-> destination,
                 status |-> "active", done |-> FALSE])
    /\ UNCHANGED <<sprints, tasks, assignment, timeline>>

Unfinished(s) == {t \in Members(s) : ~tasks[t].done}

\* The complete snapshot that the transaction stores is Counts(s) of this moment.
CompleteSprint(c) ==
    /\ InProgress(c, "complete")
    /\ LET s == op[c].from IN
        /\ MembersFree(s) /\ Consistent(s)
        /\ PutInto(Unfinished(s), op[c].to)
        /\ sprints' = [sprints EXCEPT ![s] = "completed"]
        /\ timeline' = [timeline EXCEPT ![s] = NoTimeline]
    /\ End(c)

\* Mutant: the finished tasks keep their sprint_id although their assignments close.
CancelSprintKeepingDone(s) ==
    /\ sprints[s] \in {"planned", "active"}
    /\ Free(s) /\ MembersFree(s)
    /\ sprints' = [sprints EXCEPT ![s] = "cancelled"]
    /\ tasks' = [t \in Task |-> IF t \in Unfinished(s) THEN [tasks[t] EXCEPT !.sprint = NoSprint] ELSE tasks[t]]
    /\ assignment' = [t \in Task |-> IF assignment[t] = s THEN NoSprint ELSE assignment[t]]
    /\ timeline' = [timeline EXCEPT ![s] = NoTimeline]
    /\ UNCHANGED op

\* Every task leaves the sprint, and so does a deleted one that still has an assignment.
CancelSprint(s) ==
    /\ sprints[s] \in {"planned", "active"}
    /\ Free(s) /\ MembersFree(s)
    /\ sprints' = [sprints EXCEPT ![s] = "cancelled"]
    /\ tasks' = [t \in Task |-> IF tasks[t].sprint = s THEN [tasks[t] EXCEPT !.sprint = NoSprint] ELSE tasks[t]]
    /\ assignment' = [t \in Task |-> IF assignment[t] = s THEN NoSprint ELSE assignment[t]]
    /\ timeline' = [timeline EXCEPT ![s] = NoTimeline]
    /\ UNCHANGED op

-----------------------------------------------------------------------------
(* The membership of a task.                                               *)

Open(s) == sprints[s] \in {"planned", "active"}

BeginAssign(c, t, s) ==
    /\ tasks[t].live /\ ~TaskLocked(t)
    /\ tasks[t].sprint # s /\ Open(s)
    /\ Begin(c, [kind |-> "assign", task |-> t, from |-> tasks[t].sprint, to |-> s,
                 status |-> sprints[s], done |-> tasks[t].done])
    /\ UNCHANGED <<sprints, tasks, assignment, timeline>>

\* The event depends on the status that was read before the insert could wait.
AssignTaskToSprint(c) ==
    /\ InProgress(c, "assign")
    /\ LET o == op[c] IN
        /\ Free(o.to)
        /\ PutInto({o.task}, o.to)
        /\ Append(NoEvent, IF o.status = "active" THEN Added(o.to, o.done) ELSE NoEvent)
    /\ End(c)
    /\ UNCHANGED sprints

\* An expected source that is not the task's sprint is refused: no step.
BeginMove(c, t, s) ==
    /\ tasks[t].live /\ ~TaskLocked(t)
    /\ tasks[t].sprint # s
    /\ s = NoSprint \/ (s \in Sprint /\ Open(s))
    /\ Begin(c, [kind |-> "move", task |-> t, from |-> tasks[t].sprint, to |-> s,
                 status |-> "absent", done |-> tasks[t].done])
    /\ UNCHANGED <<sprints, tasks, assignment, timeline>>

\* Both sprints are read again after the writes, and get the events of an active sprint.
MoveTaskBetweenSprints(c) ==
    /\ InProgress(c, "move")
    /\ LET o == op[c] IN
        /\ Free(o.to)
        /\ Active(o.from) => Free(o.from)
        /\ PutInto({o.task}, o.to)
        /\ Append(Removed(o.from, o.done), Added(o.to, o.done))
    /\ End(c)
    /\ UNCHANGED sprints

RemoveTaskFromSprint(t) ==
    /\ ~TaskLocked(t) /\ tasks[t].sprint # NoSprint
    /\ Active(tasks[t].sprint) => Free(tasks[t].sprint)
    /\ tasks' = [tasks EXCEPT ![t].sprint = NoSprint]
    /\ assignment' = [assignment EXCEPT ![t] = IF @ = tasks[t].sprint THEN NoSprint ELSE @]
    /\ Append(Removed(tasks[t].sprint, tasks[t].done), NoEvent)
    /\ UNCHANGED <<sprints, op>>

-----------------------------------------------------------------------------
(* Changes of the task itself.                                             *)

\* Mutant: a status change that does not conflict with the lock of an assignment.
ChangeStatusUnlocked(t) ==
    /\ tasks[t].live
    /\ Active(tasks[t].sprint) => Free(tasks[t].sprint)
    /\ tasks' = [tasks EXCEPT ![t].done = ~@]
    /\ Append(Removed(tasks[t].sprint, tasks[t].done), Added(tasks[t].sprint, ~tasks[t].done))
    /\ UNCHANGED <<sprints, assignment, op>>

\* update, and move between anchors: the versioned write makes "before" the row that
\* is replaced.
ChangeStatus(t) ==
    /\ tasks[t].live /\ ~TaskLocked(t)
    /\ Active(tasks[t].sprint) => Free(tasks[t].sprint)
    /\ tasks' = [tasks EXCEPT ![t].done = ~@]
    /\ Append(Removed(tasks[t].sprint, tasks[t].done), Added(tasks[t].sprint, ~tasks[t].done))
    /\ UNCHANGED <<sprints, assignment, op>>

OnBoard == {t \in Task : tasks[t].live /\ tasks[t].parent = NoTask}

\* A move to a position: the project and the task are locked, the other rows of the
\* column it leaves and of the one it enters are only read.  One column is the done one.
BeginRenumber(c, t, done, rows) ==
    /\ t \in OnBoard /\ ~TaskLocked(t)
    /\ \A d \in Clients : ~InProgress(d, "renumber")
    /\ rows \subseteq OnBoard \ {t}
    /\ \A u \in rows : tasks[u].done \in {tasks[t].done, done}
    /\ tasks[t].done \/ done => \A u \in OnBoard \ {t} : tasks[u].done => u \in rows
    /\ Begin(c, [kind |-> "renumber", task |-> t, done |-> done,
                 open |-> {u \in rows : ~tasks[u].done}, closed |-> {u \in rows : tasks[u].done}])
    /\ UNCHANGED <<sprints, tasks, assignment, timeline>>

\* Every row gets the status it was read with; only the moved task gets its event.
Renumbered(o, t) == tasks[t].live /\ t \in o.open \cup o.closed

Renumber(c) ==
    /\ InProgress(c, "renumber")
    /\ LET o == op[c]  s == tasks[o.task].sprint IN
        /\ \A t \in o.open \cup o.closed : ~TaskLocked(t)
        /\ Active(s) => Free(s)
        /\ tasks' = [t \in Task |->
                        IF t = o.task THEN [tasks[t] EXCEPT !.done = o.done]
                        ELSE IF Renumbered(o, t) THEN [tasks[t] EXCEPT !.done = t \in o.closed]
                        ELSE tasks[t]]
        /\ Append(Removed(s, tasks[o.task].done), Added(s, o.done))
    /\ End(c)
    /\ UNCHANGED <<sprints, assignment>>

BeginDelete(c, t) ==
    /\ tasks[t].live
    /\ Begin(c, [kind |-> "delete", task |-> t, from |-> tasks[t].sprint, to |-> NoSprint,
                 status |-> "absent", done |-> tasks[t].done])
    /\ UNCHANGED <<sprints, tasks, assignment, timeline>>

Subtasks(t) == {u \in Task : tasks[u].parent = t /\ tasks[u].live}

\* The assignment of the task read before is closed; no assignment of a subtask is.
ClosedByDelete(o) == {t \in {o.task} : assignment[t] = o.from}

SoftDelete(c) ==
    /\ InProgress(c, "delete")
    /\ LET o == op[c]  gone == {o.task} \cup Subtasks(o.task) IN
        /\ tasks[o.task].live /\ \A t \in gone : ~TaskLocked(t)
        /\ Active(o.from) => Free(o.from)
        /\ tasks' = [t \in Task |-> IF t \in gone THEN [tasks[t] EXCEPT !.live = FALSE, !.sprint = NoSprint]
                                    ELSE tasks[t]]
        /\ assignment' = [t \in Task |-> IF t \in ClosedByDelete(o) THEN NoSprint ELSE assignment[t]]
        /\ Append(Removed(o.from, o.done), NoEvent)
    /\ End(c)
    /\ UNCHANGED sprints

\* A check that throws, a deadlock the database breaks, a lost connection: rolled back.
Abort(c) == op[c] # NoOp /\ End(c) /\ UNCHANGED <<sprints, tasks, assignment, timeline>>

Next ==
    \/ \E s \in Sprint : CreateSprint(s) \/ StartSprint(s) \/ CancelSprint(s)
    \/ \E c \in Clients :
        \/ \E s \in Sprint, d \in Target : BeginComplete(c, s, d)
        \/ \E t \in Task, s \in Sprint : BeginAssign(c, t, s)
        \/ \E t \in Task, s \in Target : BeginMove(c, t, s)
        \/ \E t \in Task : BeginDelete(c, t)
        \/ \E t \in Task, done \in BOOLEAN, rows \in SUBSET Task : BeginRenumber(c, t, done, rows)
        \/ CompleteSprint(c) \/ AssignTaskToSprint(c) \/ MoveTaskBetweenSprints(c)
        \/ Renumber(c) \/ SoftDelete(c) \/ Abort(c)
    \/ \E t \in Task : RemoveTaskFromSprint(t) \/ ChangeStatus(t)

Spec == Init /\ [][Next]_vars

-----------------------------------------------------------------------------
(* What the sprints promise.                                               *)

\* The two records of a task's membership agree for every task that is not
\* deleted, however the requests that change them interleave: tasks.sprint_id
\* is the sprint of the open assignment.  verifySprintMembershipConsistency
\* can therefore only fail because of a deleted task.
LiveMembershipAgrees == \A t \in Task : tasks[t].live => tasks[t].sprint = assignment[t]

\* A transaction that changes the members of s without the event for it, or
\* the other way round: an assignment that takes the task out of s, or that
\* read s before it was started; a deletion that takes a subtask along, or
\* that read the task before another request changed it; a renumbering that
\* read another task of s before its status changed, and writes the old one.
Leaks(c, s) ==
    /\ op[c] # NoOp /\ op'[c] = NoOp
    /\ LET o == op[c]  t == tasks[o.task] IN
        \/ o.kind = "assign" /\ (o.from = s \/ (o.to = s /\ o.status = "planned"))
        \/ o.kind = "delete" /\ (\/ Subtasks(o.task) \cap Members(s) # {}
                                 \/ t.sprint # o.from \/ t.done # o.done)
        \/ o.kind = "renumber" /\ \E u \in Members(s) :
                Renumbered(o, u) /\ tasks[u].done # (u \in o.closed)

\* The timeline of an active sprint follows its members through every other
\* transaction: moves, removals, status changes, renumberings that find the
\* cards in the columns they read them in, and the completion of other
\* sprints keep the drift as it is, whatever runs at the same time.
OnlyNamedRequestsLeak ==
    [][\A s \in Sprint : Active(s) /\ sprints'[s] = "active" /\ Drift(s)' # Drift(s)
                            => \E c \in Clients : Leaks(c, s)]_vars
=============================================================================
