---------------------------- MODULE ProjectProofs ----------------------------
(***************************************************************************)
(* What a project may count on, for any number of requests at once.         *)
(*                                                                          *)
(* Its sprints, for any number of tasks and sprints and any task hierarchy: *)
(* the two records of a task's membership agree, and only assignments,      *)
(* deletions and late renumberings make the timeline of a sprint drift.     *)
(*                                                                          *)
(* Its attachments, for any number of them and of cleanup jobs: what is     *)
(* offered can be downloaded, and only orphans are removed.                 *)
(***************************************************************************)
EXTENDS Sprints, Attachments, FiniteSetTheorems, TLAPS

-----------------------------------------------------------------------------
(* The sprints.                                                            *)

\* The counts that startSprint stores in the start snapshot are integers.
LEMMA CountsAreIntegers ==
    ASSUME NEW s \in Sprint
    PROVE  Counts(s) \in [scope : Int, completed : Int]
<1>1. IsFiniteSet(Task)
    BY SprintConstants
<1>2. IsFiniteSet(Members(s)) /\ IsFiniteSet({t \in Members(s) : tasks[t].done})
    <2>1. Members(s) \subseteq Task /\ {t \in Members(s) : tasks[t].done} \subseteq Task
        BY DEF Members
    <2> QED
        BY <1>1, <2>1, FS_Subset
<1>3. Cardinality(Members(s)) \in Nat /\ Cardinality({t \in Members(s) : tasks[t].done}) \in Nat
    BY <1>2, FS_CardinalityType
<1> QED
    BY <1>3 DEF Counts

\* A sprint that is not active has an empty timeline.
LEMMA NoTimelineTyped == NoTimeline \in [scope : Int, completed : Int]
BY DEF NoTimeline

\* Events of any kind leave every timeline a pair of integers.
LEMMA AppendTyped ==
    ASSUME TypeOK, NEW e \in [Sprint -> [scope : Int, completed : Int]],
           NEW f \in [Sprint -> [scope : Int, completed : Int]], Append(e, f)
    PROVE  timeline' \in [Sprint -> [scope : Int, completed : Int]]
BY DEF TypeOK, Append

\* The events of the model are changes by integers.
LEMMA EventsTyped ==
    ASSUME NEW s, NEW done \in BOOLEAN
    PROVE  /\ Added(s, done) \in [Sprint -> [scope : Int, completed : Int]]
           /\ Removed(s, done) \in [Sprint -> [scope : Int, completed : Int]]
           /\ NoEvent \in [Sprint -> [scope : Int, completed : Int]]
BY DEF Added, Removed, NoEvent, NoTimeline, Completed

\* A client's slot holds a well-typed transaction, or none, after Begin and End.
LEMMA OpTyped ==
    ASSUME TypeOK, NEW c \in Clients
    PROVE  /\ \A o \in OpType : Begin(c, o) => op' \in [Clients -> OpType \cup {NoOp}]
           /\ End(c) => op' \in [Clients -> OpType \cup {NoOp}]
BY DEF TypeOK, Begin, End

\* The row of a task keeps its type when its columns are set.
LEMMA RowTyped ==
    ASSUME TypeOK, NEW t \in Task, NEW done \in BOOLEAN
    PROVE  /\ tasks[t] \in [live : BOOLEAN, sprint : Target, done : BOOLEAN,
                             parent : Task \cup {NoTask}]
           /\ [tasks[t] EXCEPT !.live = FALSE, !.sprint = NoSprint]
                  \in [live : BOOLEAN, sprint : Target, done : BOOLEAN,
                      parent : Task \cup {NoTask}]
           /\ [tasks[t] EXCEPT !.live = FALSE, !.sprint = NoSprint].sprint = NoSprint
           /\ [tasks[t] EXCEPT !.done = done]
                  \in [live : BOOLEAN, sprint : Target, done : BOOLEAN,
                      parent : Task \cup {NoTask}]
<1>1. /\ tasks[t] \in [live : BOOLEAN, sprint : Target, done : BOOLEAN,
                        parent : Task \cup {NoTask}]
      /\ NoSprint \in Target
    BY DEF TypeOK, Target
<1> QED
    BY <1>1

\* Putting tasks into a sprint, or none, keeps the types of both records.
LEMMA PutIntoTyped ==
    ASSUME TypeOK, NEW ts, NEW s \in Target, PutInto(ts, s)
    PROVE  /\ tasks' \in [Task -> [live : BOOLEAN, sprint : Target, done : BOOLEAN,
                              parent : Task \cup {NoTask}]]
           /\ assignment' \in [Task -> Target]
BY DEF TypeOK, PutInto

-----------------------------------------------------------------------------

\* Type correctness of the sprints, for every value of the constants.
THEOREM SprintsTypeOK == Spec => []TypeOK
<1>1. Init => TypeOK
    BY SprintConstants DEF Init, TypeOK, NoTimeline, Status, Target
<1>2. TypeOK /\ [Next]_vars => TypeOK'
    <2> SUFFICES ASSUME TypeOK, [Next]_vars PROVE TypeOK'
        OBVIOUS
    <2>1. ASSUME NEW s \in Sprint, CreateSprint(s) PROVE TypeOK'
        BY <2>1 DEF CreateSprint, DefaultStatus, TypeOK, Status
    <2>2. ASSUME NEW s \in Sprint, StartSprint(s) PROVE TypeOK'
        <3>1. Counts(s) \in [scope : Int, completed : Int]
            BY CountsAreIntegers
        <3> QED
            BY <2>2, <3>1 DEF StartSprint, TypeOK, Status
    <2>3. ASSUME NEW s \in Sprint, CancelSprint(s) PROVE TypeOK'
        <3>1. sprints' \in [Sprint -> Status] /\ op' = op
            BY <2>3 DEF CancelSprint, TypeOK, Status
        <3>2. timeline' \in [Sprint -> [scope : Int, completed : Int]]
            BY <2>3, NoTimelineTyped DEF CancelSprint, TypeOK
        <3>3. tasks' \in [Task -> [live : BOOLEAN, sprint : Target, done : BOOLEAN,
                              parent : Task \cup {NoTask}]]
            BY <2>3 DEF CancelSprint, TypeOK, Target
        <3>4. assignment' \in [Task -> Target]
            BY <2>3 DEF CancelSprint, TypeOK, Target
        <3> QED
            BY <3>1, <3>2, <3>3, <3>4 DEF TypeOK
    <2>4. ASSUME NEW c \in Clients, NEW s \in Sprint, NEW d \in Target, BeginComplete(c, s, d)
          PROVE  TypeOK'
        BY <2>4, OpTyped DEF BeginComplete, TypeOK, OpType, Status, Target
    <2>5. ASSUME NEW c \in Clients, NEW t \in Task, NEW s \in Sprint, BeginAssign(c, t, s)
          PROVE  TypeOK'
        BY <2>5, OpTyped DEF BeginAssign, TypeOK, OpType, Status, Target
    <2>6. ASSUME NEW c \in Clients, NEW t \in Task, NEW s \in Target, BeginMove(c, t, s)
          PROVE  TypeOK'
        BY <2>6, OpTyped DEF BeginMove, TypeOK, OpType, Status, Target
    <2>7. ASSUME NEW c \in Clients, NEW t \in Task, BeginDelete(c, t)
          PROVE  TypeOK'
        BY <2>7, OpTyped DEF BeginDelete, TypeOK, OpType, Status, Target
    <2>8. ASSUME NEW c \in Clients, CompleteSprint(c) PROVE TypeOK'
        <3>1. op[c] \in OpType /\ op[c].from \in Target /\ op[c].to \in Target
            BY <2>8 DEF CompleteSprint, InProgress, TypeOK, OpType
        <3>2. PutInto(Unfinished(op[c].from), op[c].to)
            BY <2>8 DEF CompleteSprint
        <3>3. sprints' \in [Sprint -> Status]
            BY <2>8 DEF CompleteSprint, TypeOK, Status
        <3>4. timeline' \in [Sprint -> [scope : Int, completed : Int]]
            BY <2>8, NoTimelineTyped DEF CompleteSprint, TypeOK
        <3> QED
            BY <2>8, <3>1, <3>2, <3>3, <3>4, OpTyped, PutIntoTyped DEF CompleteSprint, TypeOK
    <2>9. ASSUME NEW c \in Clients, AssignTaskToSprint(c) PROVE TypeOK'
        <3>1. op[c] \in OpType /\ op[c].to \in Target /\ op[c].done \in BOOLEAN
            BY <2>9 DEF AssignTaskToSprint, InProgress, TypeOK, OpType
        <3>2. PutInto({op[c].task}, op[c].to) /\ sprints' = sprints /\ End(c)
            BY <2>9 DEF AssignTaskToSprint
        <3>3. timeline' \in [Sprint -> [scope : Int, completed : Int]]
            BY <2>9, <3>1, EventsTyped, AppendTyped DEF AssignTaskToSprint
        <3> QED
            BY <3>1, <3>2, <3>3, OpTyped, PutIntoTyped DEF TypeOK
    <2>10. ASSUME NEW c \in Clients, MoveTaskBetweenSprints(c) PROVE TypeOK'
        <3>1. op[c] \in OpType /\ op[c].to \in Target /\ op[c].done \in BOOLEAN
            BY <2>10 DEF MoveTaskBetweenSprints, InProgress, TypeOK, OpType
        <3>2. PutInto({op[c].task}, op[c].to) /\ sprints' = sprints /\ End(c)
            BY <2>10 DEF MoveTaskBetweenSprints
        <3>3. timeline' \in [Sprint -> [scope : Int, completed : Int]]
            BY <2>10, <3>1, EventsTyped, AppendTyped DEF MoveTaskBetweenSprints
        <3> QED
            BY <3>1, <3>2, <3>3, OpTyped, PutIntoTyped DEF TypeOK
    <2>11. ASSUME NEW c \in Clients, SoftDelete(c) PROVE TypeOK'
        <3>1. op[c] \in OpType /\ op[c].done \in BOOLEAN
            BY <2>11 DEF SoftDelete, InProgress, TypeOK, OpType
        <3>2. tasks' \in [Task -> [live : BOOLEAN, sprint : Target, done : BOOLEAN,
                              parent : Task \cup {NoTask}]]
            BY <2>11, RowTyped DEF SoftDelete
        <3>3. assignment' \in [Task -> Target] /\ sprints' = sprints /\ End(c)
            BY <2>11 DEF SoftDelete, TypeOK, Target
        <3>4. timeline' \in [Sprint -> [scope : Int, completed : Int]]
            BY <2>11, <3>1, EventsTyped, AppendTyped DEF SoftDelete
        <3> QED
            BY <3>2, <3>3, <3>4, OpTyped DEF TypeOK
    <2>12. ASSUME NEW c \in Clients, Abort(c) PROVE TypeOK'
        BY <2>12, OpTyped DEF Abort, TypeOK
    <2>13. ASSUME NEW t \in Task, RemoveTaskFromSprint(t) PROVE TypeOK'
        <3>1. tasks[t].done \in BOOLEAN
            BY DEF TypeOK
        <3>2. timeline' \in [Sprint -> [scope : Int, completed : Int]]
            BY <2>13, <3>1, EventsTyped, AppendTyped DEF RemoveTaskFromSprint
        <3> QED
            BY SMTT(40), <2>13, <3>2 DEF RemoveTaskFromSprint, TypeOK, Target
    <2>14. ASSUME NEW t \in Task, ChangeStatus(t) PROVE TypeOK'
        <3>1. tasks[t].done \in BOOLEAN /\ (~tasks[t].done) \in BOOLEAN
            BY DEF TypeOK
        <3>2. timeline' \in [Sprint -> [scope : Int, completed : Int]]
            BY <2>14, <3>1, EventsTyped, AppendTyped DEF ChangeStatus
        <3> QED
            BY <2>14, <3>2 DEF ChangeStatus, TypeOK
    <2>15. ASSUME UNCHANGED vars PROVE TypeOK'
        BY <2>15 DEF vars, TypeOK
    <2>16. ASSUME NEW c \in Clients, NEW t \in Task, NEW done \in BOOLEAN, NEW rows \in SUBSET Task,
                  BeginRenumber(c, t, done, rows)
           PROVE  TypeOK'
        BY <2>16, OpTyped DEF BeginRenumber, TypeOK, OpType
    <2>17. ASSUME NEW c \in Clients, Renumber(c) PROVE TypeOK'
        <3>1. op[c].task \in Task /\ op[c].done \in BOOLEAN
            BY <2>17 DEF Renumber, InProgress, TypeOK, OpType
        <3>2. PICK x, old, new : /\ x = tasks[op[c].task].sprint /\ old = tasks[op[c].task].done
                                 /\ new = op[c].done
            OBVIOUS
        <3>3. Append(Removed(x, old), Added(x, new)) /\ old \in BOOLEAN /\ new \in BOOLEAN
            BY <2>17, <3>1, <3>2 DEF Renumber, TypeOK
        <3>4. timeline' \in [Sprint -> [scope : Int, completed : Int]]
            BY <3>3, EventsTyped, AppendTyped
        <3>5. tasks' \in [Task -> [live : BOOLEAN, sprint : Target, done : BOOLEAN,
                              parent : Task \cup {NoTask}]]
            <4>1. \A t \in Task : (t \in op[c].closed) \in BOOLEAN
                OBVIOUS
            <4> QED
                BY <2>17, <3>1, <4>1, RowTyped DEF Renumber
        <3> QED
            BY <2>17, <3>4, <3>5, OpTyped DEF Renumber, TypeOK
    <2> QED
        BY <2>1, <2>2, <2>3, <2>4, <2>5, <2>6, <2>7, <2>8, <2>9, <2>10, <2>11, <2>12, <2>13, <2>14, <2>15,
           <2>16, <2>17
        DEF Next
<1> QED
    BY <1>1, <1>2, PTL DEF Spec

\* Putting tasks into a sprint changes both records to the same value.
LEMMA PutIntoAgrees ==
    ASSUME TypeOK, LiveMembershipAgrees, NEW ts, NEW s \in Target, PutInto(ts, s)
    PROVE  LiveMembershipAgrees'
BY DEF TypeOK, LiveMembershipAgrees, PutInto

\* However requests interleave, tasks.sprint_id and the open assignment of a
\* live task name the same sprint.  The agreement is inductive given the types:
\* each transaction changes both records of a task or takes it out of the live ones.
THEOREM MembershipAgrees == Spec => []LiveMembershipAgrees
<1>1. Init => LiveMembershipAgrees
    BY DEF Init, LiveMembershipAgrees
<1>2. TypeOK /\ LiveMembershipAgrees /\ [Next]_vars => LiveMembershipAgrees'
    <2> SUFFICES ASSUME TypeOK, LiveMembershipAgrees, [Next]_vars PROVE LiveMembershipAgrees'
        OBVIOUS
    <2>1. ASSUME UNCHANGED <<tasks, assignment>> PROVE LiveMembershipAgrees'
        BY <2>1 DEF LiveMembershipAgrees
    <2>2. ASSUME NEW s \in Sprint, CreateSprint(s) \/ StartSprint(s) PROVE LiveMembershipAgrees'
        BY <2>1, <2>2 DEF CreateSprint, StartSprint
    <2>3. ASSUME NEW s \in Sprint, CancelSprint(s) PROVE LiveMembershipAgrees'
        BY <2>3 DEF CancelSprint, TypeOK, LiveMembershipAgrees
    <2>4. ASSUME NEW c \in Clients, CompleteSprint(c) PROVE LiveMembershipAgrees'
        BY <2>4, PutIntoAgrees DEF CompleteSprint, InProgress, TypeOK, OpType
    <2>5. ASSUME NEW c \in Clients, AssignTaskToSprint(c) PROVE LiveMembershipAgrees'
        BY <2>5, PutIntoAgrees DEF AssignTaskToSprint, InProgress, TypeOK, OpType
    <2>6. ASSUME NEW c \in Clients, MoveTaskBetweenSprints(c) PROVE LiveMembershipAgrees'
        BY <2>6, PutIntoAgrees DEF MoveTaskBetweenSprints, InProgress, TypeOK, OpType
    <2>7. ASSUME NEW c \in Clients, SoftDelete(c) PROVE LiveMembershipAgrees'
        BY ZenonT(60), <2>7 DEF SoftDelete, ClosedByDelete, TypeOK, LiveMembershipAgrees
    <2>8. ASSUME NEW t \in Task, RemoveTaskFromSprint(t) PROVE LiveMembershipAgrees'
        BY <2>8 DEF RemoveTaskFromSprint, TypeOK, LiveMembershipAgrees
    <2>9. ASSUME NEW t \in Task, ChangeStatus(t) PROVE LiveMembershipAgrees'
        BY <2>9 DEF ChangeStatus, TypeOK, LiveMembershipAgrees
    <2>10. ASSUME NEW c \in Clients,
                  \/ \E s \in Sprint, d \in Target : BeginComplete(c, s, d)
                  \/ \E t \in Task, s \in Sprint : BeginAssign(c, t, s)
                  \/ \E t \in Task, s \in Target : BeginMove(c, t, s)
                  \/ \E t \in Task : BeginDelete(c, t)
                  \/ \E t \in Task, done \in BOOLEAN, rows \in SUBSET Task : BeginRenumber(c, t, done, rows)
                  \/ Abort(c)
           PROVE  LiveMembershipAgrees'
        BY <2>1, <2>10 DEF BeginComplete, BeginAssign, BeginMove, BeginDelete, BeginRenumber, Abort
    <2>11. ASSUME UNCHANGED vars PROVE LiveMembershipAgrees'
        BY <2>1, <2>11 DEF vars
    <2>12. ASSUME NEW c \in Clients, Renumber(c) PROVE LiveMembershipAgrees'
        BY <2>12 DEF Renumber, TypeOK, LiveMembershipAgrees
    <2> QED
        BY <2>2, <2>3, <2>4, <2>5, <2>6, <2>7, <2>8, <2>9, <2>10, <2>11, <2>12 DEF Next
<1> QED
    BY <1>1, <1>2, SprintsTypeOK, PTL DEF Spec
-----------------------------------------------------------------------------
(* The timeline.                                                           *)

Assigns(c) == op[c] # NoOp /\ op[c].kind \in {"assign", "move"}
Locks(c) == op[c] # NoOp /\ op[c].kind \in {"assign", "move", "renumber"}
Completes(c) == op[c] # NoOp /\ op[c].kind = "complete"

\* A transaction that locks a task finds it live, an assignment or a move as it read it
\* and elsewhere than where it puts it; no two lock the same.
TaskLockInv ==
    /\ \A c \in Clients : Locks(c) => op[c].task \in Task /\ tasks[op[c].task].live
    /\ \A c \in Clients : Assigns(c) =>
          /\ op[c].from = tasks[op[c].task].sprint /\ op[c].from # op[c].to
          /\ op[c].done = tasks[op[c].task].done
          /\ op[c].kind = "assign" => op[c].status \in {"planned", "active"}
    /\ \A c, d \in Clients : Locks(c) /\ Locks(d) /\ op[c].task = op[d].task => c = d

\* At most one sprint is active; one that is being completed stays so, and no
\* two complete the same.
SprintLockInv ==
    /\ \A s, r \in Sprint : Active(s) /\ Active(r) => s = r
    /\ \A c \in Clients : Completes(c) => op[c].from \in Sprint /\ Active(op[c].from)
    /\ \A c, d \in Clients : Completes(c) /\ Completes(d) /\ op[c].from = op[d].from => c = d

\* A deleted task is in no sprint.
DeletedInv == \A t \in Task : ~tasks[t].live => tasks[t].sprint = NoSprint

\* A deletion has read a task.
DeletesTask == \A c \in Clients : op[c] # NoOp /\ op[c].kind = "delete" => op[c].task \in Task

LockInv == TypeOK /\ TaskLockInv /\ SprintLockInv /\ DeletedInv /\ DeletesTask

\* Transactions that end, or go on while the tasks they lock stay as they are.
LEMMA LocksKept ==
    ASSUME TaskLockInv,
           \A c \in Clients : Locks(c)' =>
               Locks(c) /\ op'[c] = op[c] /\ tasks'[op[c].task] = tasks[op[c].task]
    PROVE  TaskLockInv'
BY DEF TaskLockInv, Assigns, Locks

\* The slots of the clients after a transaction begins or ends.
LEMMA Slots ==
    ASSUME TypeOK, NEW c \in Clients
    PROVE  /\ \A o : Begin(c, o) => op'[c] = o /\ \A d \in Clients \ {c} : op'[d] = op[d]
           /\ End(c) => op'[c] = NoOp /\ \A d \in Clients \ {c} : op'[d] = op[d]
BY DEF TypeOK, Begin, End

\* The locks of tasks, and that deleted tasks are in no sprint, are inductive.
LEMMA TaskLockStep ==
    ASSUME TypeOK, TaskLockInv, DeletedInv, [Next]_vars
    PROVE  TaskLockInv' /\ DeletedInv'
<1>1. CASE UNCHANGED <<tasks, op>>
    BY <1>1, LocksKept DEF Locks, DeletedInv
<1>2. ASSUME NEW s \in Sprint, CancelSprint(s)
      PROVE  TaskLockInv' /\ DeletedInv'
    <2>1. \A t \in Task : TaskLocked(t) => tasks'[t] = tasks[t]
        BY <1>2 DEF CancelSprint, MembersFree
    <2>2. \A c \in Clients : Locks(c) => TaskLocked(op[c].task) /\ op[c].task \in Task
        BY DEF TaskLockInv, Locks, TaskLocked
    <2>3. TaskLockInv'
        BY <1>2, <2>1, <2>2, LocksKept DEF CancelSprint, Locks
    <2>4. DeletedInv'
        BY <1>2 DEF CancelSprint, DeletedInv, TypeOK
    <2> QED
        BY <2>3, <2>4
<1>3. ASSUME NEW c \in Clients, NEW t \in Task, NEW s \in Target,
             (s \in Sprint /\ BeginAssign(c, t, s)) \/ BeginMove(c, t, s)
      PROVE  TaskLockInv' /\ DeletedInv'
    <2>1. PICK o : /\ Begin(c, o) /\ o.kind \in {"assign", "move"} /\ o.task = t
                   /\ o.from = tasks[t].sprint /\ o.to = s /\ o.done = tasks[t].done
                   /\ o.kind = "assign" => o.status \in {"planned", "active"}
        BY <1>3 DEF BeginAssign, BeginMove, Open
    <2>2. /\ tasks' = tasks /\ tasks[t].live /\ tasks[t].sprint # s /\ ~TaskLocked(t)
        BY <1>3 DEF BeginAssign, BeginMove
    <2>3. op'[c] = o /\ (\A d \in Clients \ {c} : op'[d] = op[d]) /\ op[c] = NoOp
        BY <2>1, Slots DEF Begin
    <2>4. \A d \in Clients : Locks(d) => d # c /\ op[d].task # t
        BY <2>2, <2>3 DEF Locks, TaskLocked
    <2>5. \A d \in Clients \ {c} : (Locks(d)' <=> Locks(d)) /\ (Assigns(d)' <=> Assigns(d))
        BY <2>3 DEF Locks, Assigns
    <2>6. TaskLockInv'
        BY <2>1, <2>2, <2>3, <2>4, <2>5 DEF TaskLockInv
    <2> QED
        BY <2>2, <2>6 DEF DeletedInv
<1>4. ASSUME NEW c \in Clients, NEW o, Begin(c, o), o.kind \notin {"assign", "move", "renumber"}, tasks' = tasks
      PROVE  TaskLockInv' /\ DeletedInv'
    <2>1. op'[c] = o /\ \A d \in Clients \ {c} : op'[d] = op[d]
        BY <1>4, Slots
    <2>2. TaskLockInv'
        BY <1>4, <2>1, LocksKept DEF Locks
    <2> QED
        BY <1>4, <2>2 DEF DeletedInv
<1>5. ASSUME NEW c \in Clients, End(c),
             \A d \in Clients \ {c} : Locks(d) => tasks'[op[d].task] = tasks[op[d].task]
      PROVE  TaskLockInv'
    <2>1. op'[c] = NoOp /\ \A d \in Clients \ {c} : op'[d] = op[d]
        BY <1>5, Slots
    <2> QED
        BY <1>5, <2>1, LocksKept DEF Locks
<1>6. ASSUME NEW c \in Clients, CompleteSprint(c)
      PROVE  TaskLockInv' /\ DeletedInv'
    <2>1. op[c].to \in Target /\ PutInto(Unfinished(op[c].from), op[c].to) /\ End(c)
        BY <1>6 DEF CompleteSprint, InProgress, TypeOK, OpType
    <2>2. \A t \in Task : TaskLocked(t) => tasks'[t] = tasks[t]
        BY <1>6, <2>1 DEF CompleteSprint, MembersFree, PutInto, Unfinished, Members
    <2>3. \A d \in Clients : Locks(d) => TaskLocked(op[d].task) /\ op[d].task \in Task
        BY DEF TaskLockInv, Locks, TaskLocked
    <2>4. DeletedInv'
        BY <2>1 DEF PutInto, Unfinished, Members, DeletedInv, TypeOK
    <2> QED
        BY <1>5, <2>1, <2>2, <2>3, <2>4
<1>7. ASSUME NEW c \in Clients, AssignTaskToSprint(c) \/ MoveTaskBetweenSprints(c)
      PROVE  TaskLockInv' /\ DeletedInv'
    <2>1. Locks(c) /\ PutInto({op[c].task}, op[c].to) /\ End(c)
        BY <1>7 DEF AssignTaskToSprint, MoveTaskBetweenSprints, InProgress, Locks
    <2>2. op[c].task \in Task /\ tasks[op[c].task].live
        BY <2>1 DEF TaskLockInv
    <2>3. \A d \in Clients \ {c} : Locks(d) => op[d].task \in Task /\ op[d].task # op[c].task
        BY <2>1 DEF TaskLockInv
    <2>4. \A d \in Clients \ {c} : Locks(d) => tasks'[op[d].task] = tasks[op[d].task]
        BY <2>1, <2>3 DEF PutInto
    <2>5. DeletedInv'
        BY <2>1, <2>2 DEF PutInto, DeletedInv, TypeOK
    <2> QED
        BY <1>5, <2>1, <2>4, <2>5
<1>8. ASSUME NEW c \in Clients, SoftDelete(c)
      PROVE  TaskLockInv' /\ DeletedInv'
    <2>1. /\ \A t \in Task : TaskLocked(t) => tasks'[t] = tasks[t]
          /\ End(c)
        BY <1>8 DEF SoftDelete
    <2>2. \A d \in Clients : Locks(d) => TaskLocked(op[d].task) /\ op[d].task \in Task
        BY DEF TaskLockInv, Locks, TaskLocked
    <2>3. DeletedInv'
        <3>1. \A t \in Task : tasks'[t] = tasks[t] \/ tasks'[t].sprint = NoSprint
            BY <1>8, RowTyped DEF SoftDelete
        <3> QED
            BY <3>1 DEF DeletedInv
    <2> QED
        BY <1>5, <2>1, <2>2, <2>3
<1>9. ASSUME NEW t \in Task, RemoveTaskFromSprint(t) \/ ChangeStatus(t)
      PROVE  TaskLockInv' /\ DeletedInv'
    <2>1. /\ \A u \in Task : TaskLocked(u) => tasks'[u] = tasks[u]
          /\ op' = op
        BY <1>9 DEF RemoveTaskFromSprint, ChangeStatus, TypeOK
    <2>2. \A d \in Clients : Locks(d) => TaskLocked(op[d].task) /\ op[d].task \in Task
        BY DEF TaskLockInv, Locks, TaskLocked
    <2>3. TaskLockInv'
        BY <2>1, <2>2, LocksKept DEF Locks
    <2>4. DeletedInv'
        <3>1. CASE RemoveTaskFromSprint(t)
            <4>1. \A u \in Task : tasks'[u] = tasks[u] \/ tasks'[u].sprint = NoSprint
                BY <3>1 DEF RemoveTaskFromSprint, TypeOK
            <4> QED
                BY <4>1 DEF DeletedInv
        <3>2. CASE ChangeStatus(t)
            <4>1. /\ \A u \in Task \ {t} : tasks'[u] = tasks[u]
                  /\ tasks'[t].live = tasks[t].live /\ tasks'[t].sprint = tasks[t].sprint
                BY <3>2 DEF ChangeStatus, TypeOK
            <4> QED
                BY <3>2, <4>1 DEF DeletedInv, ChangeStatus
        <3> QED
            BY <1>9, <3>1, <3>2
    <2> QED
        BY <2>3, <2>4
<1>10. ASSUME NEW c \in Clients, Abort(c)
       PROVE  TaskLockInv' /\ DeletedInv'
    BY <1>5, <1>10 DEF Abort, DeletedInv
<1>11. ASSUME NEW c \in Clients,
              \/ \E s \in Sprint, d \in Target : BeginComplete(c, s, d)
              \/ \E t \in Task : BeginDelete(c, t)
       PROVE  TaskLockInv' /\ DeletedInv'
    BY <1>4, <1>11 DEF BeginComplete, BeginDelete
<1>12. ASSUME NEW c \in Clients, NEW t \in Task, NEW done \in BOOLEAN, NEW rows \in SUBSET Task,
              BeginRenumber(c, t, done, rows)
       PROVE  TaskLockInv' /\ DeletedInv'
    <2>1. PICK o : Begin(c, o) /\ o.kind = "renumber" /\ o.task = t
        BY <1>12 DEF BeginRenumber
    <2>2. tasks' = tasks /\ tasks[t].live /\ ~TaskLocked(t)
        BY <1>12 DEF BeginRenumber, OnBoard
    <2>3. op'[c] = o /\ (\A d \in Clients \ {c} : op'[d] = op[d]) /\ op[c] = NoOp
        BY <2>1, Slots DEF Begin
    <2>4. \A d \in Clients : Locks(d) => d # c /\ op[d].task # t
        BY <2>2, <2>3 DEF Locks, TaskLocked
    <2>5. /\ \A d \in Clients \ {c} : (Locks(d)' <=> Locks(d)) /\ (Assigns(d)' <=> Assigns(d))
          /\ ~Assigns(c)'
        BY <2>1, <2>3 DEF Locks, Assigns
    <2>6. TaskLockInv'
        BY <2>1, <2>2, <2>3, <2>4, <2>5 DEF TaskLockInv
    <2> QED
        BY <2>2, <2>6 DEF DeletedInv
<1>13. ASSUME NEW c \in Clients, Renumber(c)
       PROVE  TaskLockInv' /\ DeletedInv'
    <2>1. Locks(c) /\ End(c)
        BY <1>13 DEF Renumber, InProgress, Locks
    <2>2. \A d \in Clients \ {c} : Locks(d) =>
             TaskLocked(op[d].task) /\ op[d].task \in Task /\ op[d].task # op[c].task
        BY <2>1 DEF TaskLockInv, Locks, TaskLocked
    <2>3. \A t \in Task : TaskLocked(t) /\ t # op[c].task => tasks'[t] = tasks[t]
        BY <1>13 DEF Renumber, Renumbered
    <2>4. \A t \in Task : tasks'[t].live = tasks[t].live /\ tasks'[t].sprint = tasks[t].sprint
        BY <1>13 DEF Renumber, TypeOK
    <2> QED
        BY <1>5, <2>1, <2>2, <2>3, <2>4 DEF DeletedInv
<1> QED
    BY <1>1, <1>2, <1>3, <1>6, <1>7, <1>8, <1>9, <1>10, <1>11, <1>12, <1>13
    DEF Next, CreateSprint, StartSprint, vars, Target

\* The locks of sprints, and the one active sprint, are inductive.
LEMMA SprintLockStep ==
    ASSUME TypeOK, SprintLockInv, [Next]_vars
    PROVE  SprintLockInv'
<1>1. CASE UNCHANGED <<sprints, op>>
    BY <1>1 DEF SprintLockInv, Active, Completes
<1>2. ASSUME NEW x \in Sprint, CreateSprint(x)
      PROVE  SprintLockInv'
    <2>1. \A s : Active(s)' <=> Active(s)
        BY <1>2 DEF CreateSprint, DefaultStatus, Active, TypeOK
    <2> QED
        BY <1>2, <2>1 DEF CreateSprint, SprintLockInv, Completes
<1>3. ASSUME NEW x \in Sprint, StartSprint(x)
      PROVE  SprintLockInv'
    <2>1. \A s : Active(s)' <=> s = x
        BY <1>3 DEF StartSprint, ActiveIndexFree, Active, TypeOK
    <2>2. \A c \in Clients : ~Completes(c)
        BY <1>3 DEF StartSprint, ActiveIndexFree, Active, SprintLockInv
    <2> QED
        BY <1>3, <2>1, <2>2 DEF StartSprint, SprintLockInv, Completes
<1>4. ASSUME NEW x \in Sprint, CancelSprint(x)
      PROVE  SprintLockInv'
    <2>1. \A s : Active(s)' <=> Active(s) /\ s # x
        BY <1>4 DEF CancelSprint, Active, TypeOK
    <2>2. \A c \in Clients : Completes(c) => op[c].from # x
        BY <1>4 DEF CancelSprint, Free, SprintLocked, Completes
    <2> QED
        BY <1>4, <2>1, <2>2 DEF CancelSprint, SprintLockInv, Completes
<1>5. ASSUME NEW c \in Clients, NEW s \in Sprint, NEW d \in Target, BeginComplete(c, s, d)
      PROVE  SprintLockInv'
    <2>1. PICK o : Begin(c, o) /\ o.from = s
        BY <1>5 DEF BeginComplete
    <2>2. op'[c] = o /\ (\A b \in Clients \ {c} : op'[b] = op[b]) /\ op[c] = NoOp
        BY <2>1, Slots DEF Begin
    <2>3. Active(s) /\ sprints' = sprints /\ \A b \in Clients : Completes(b) => op[b].from # s
        BY <1>5 DEF BeginComplete, Active, Free, SprintLocked, Completes
    <2>4. \A b \in Clients \ {c} : Completes(b)' <=> Completes(b)
        BY <2>2 DEF Completes
    <2>5. \A x : Active(x)' <=> Active(x)
        BY <2>3 DEF Active
    <2> QED
        BY <2>1, <2>2, <2>3, <2>4, <2>5 DEF SprintLockInv
<1>6. ASSUME NEW c \in Clients, NEW o, Begin(c, o), o.kind # "complete", sprints' = sprints
      PROVE  SprintLockInv'
    <2>1. op'[c] = o /\ \A d \in Clients \ {c} : op'[d] = op[d]
        BY <1>6, Slots
    <2>2. \A b \in Clients : Completes(b)' => Completes(b) /\ op'[b] = op[b]
        BY <1>6, <2>1 DEF Completes
    <2>3. \A x : Active(x)' <=> Active(x)
        BY <1>6 DEF Active
    <2> QED
        BY <2>2, <2>3 DEF SprintLockInv
<1>7. ASSUME NEW c \in Clients, End(c), sprints' = sprints
      PROVE  SprintLockInv'
    <2>1. op'[c] = NoOp /\ \A d \in Clients \ {c} : op'[d] = op[d]
        BY <1>7, Slots
    <2>2. \A b \in Clients : Completes(b)' => Completes(b) /\ op'[b] = op[b]
        BY <2>1 DEF Completes
    <2>3. \A x : Active(x)' <=> Active(x)
        BY <1>7 DEF Active
    <2> QED
        BY <2>2, <2>3 DEF SprintLockInv
<1>8. ASSUME NEW c \in Clients, CompleteSprint(c)
      PROVE  SprintLockInv'
    <2>1. Completes(c) /\ op[c].from \in Sprint
        BY <1>8 DEF CompleteSprint, InProgress, Completes, SprintLockInv
    <2>2. op'[c] = NoOp /\ \A d \in Clients \ {c} : op'[d] = op[d]
        BY <1>8, Slots DEF CompleteSprint
    <2>3. \A x : Active(x)' <=> Active(x) /\ x # op[c].from
        BY <1>8, <2>1 DEF CompleteSprint, Active, TypeOK
    <2>4. \A b \in Clients : Completes(b)' =>
             Completes(b) /\ op'[b] = op[b] /\ op[b].from # op[c].from
        BY <2>1, <2>2 DEF Completes, SprintLockInv
    <2> QED
        BY <2>3, <2>4 DEF SprintLockInv
<1>9. ASSUME NEW c \in Clients,
             \/ \E t \in Task, s \in Sprint : BeginAssign(c, t, s)
             \/ \E t \in Task, s \in Target : BeginMove(c, t, s)
             \/ \E t \in Task : BeginDelete(c, t)
             \/ \E t \in Task, done \in BOOLEAN, rows \in SUBSET Task : BeginRenumber(c, t, done, rows)
      PROVE  SprintLockInv'
    BY <1>6, <1>9 DEF BeginAssign, BeginMove, BeginDelete, BeginRenumber
<1>10. ASSUME NEW c \in Clients,
              AssignTaskToSprint(c) \/ MoveTaskBetweenSprints(c) \/ Renumber(c) \/ SoftDelete(c) \/ Abort(c)
       PROVE  SprintLockInv'
    BY <1>7, <1>10 DEF AssignTaskToSprint, MoveTaskBetweenSprints, Renumber, SoftDelete, Abort
<1> QED
    BY <1>1, <1>2, <1>3, <1>4, <1>5, <1>8, <1>9, <1>10
    DEF Next, RemoveTaskFromSprint, ChangeStatus, vars
\* The size of a set of which one element may change.
LEMMA SizeChange ==
    ASSUME NEW A, NEW B, IsFiniteSet(A), IsFiniteSet(B), NEW t, A \ {t} = B \ {t}
    PROVE  /\ Cardinality(A) \in Nat /\ Cardinality(B) \in Nat
           /\ Cardinality(B) = Cardinality(A) - Completed(t \in A) + Completed(t \in B)
<1>1. Cardinality(A) \in Nat /\ Cardinality(B) \in Nat
    BY FS_CardinalityType
<1>2. /\ Cardinality(A \ {t}) = IF t \in A THEN Cardinality(A) - 1 ELSE Cardinality(A)
      /\ Cardinality(B \ {t}) = IF t \in B THEN Cardinality(B) - 1 ELSE Cardinality(B)
    BY FS_RemoveElement
<1> QED
    BY <1>1, <1>2 DEF Completed

Finished(s) == {t \in Members(s) : tasks[t].done}

\* What the change of one task does to the counts of a sprint.
LEMMA CountsChange ==
    ASSUME NEW s \in Sprint, NEW t \in Task, \A u \in Task \ {t} : tasks'[u] = tasks[u]
    PROVE  /\ Counts(s).scope \in Int /\ Counts(s).completed \in Int
           /\ Counts(s)'.scope
                 = Counts(s).scope - Completed(t \in Members(s)) + Completed(t \in Members(s)')
           /\ Counts(s)'.completed
                 = Counts(s).completed - Completed(t \in Finished(s)) + Completed(t \in Finished(s)')
<1>1. /\ IsFiniteSet(Members(s)) /\ IsFiniteSet(Members(s)')
      /\ IsFiniteSet(Finished(s)) /\ IsFiniteSet(Finished(s)')
    <2>1. /\ Members(s) \subseteq Task /\ Members(s)' \subseteq Task
          /\ Finished(s) \subseteq Task /\ Finished(s)' \subseteq Task
        BY DEF Members, Finished
    <2> QED
        BY <2>1, FS_Subset, SprintConstants
<1>2. Members(s) \ {t} = Members(s)' \ {t}
    BY DEF Members
<1>3. Finished(s) \ {t} = Finished(s)' \ {t}
    BY DEF Members, Finished
<1>4. /\ Counts(s).scope = Cardinality(Members(s))
      /\ Counts(s).completed = Cardinality(Finished(s))
      /\ Counts(s)'.scope = Cardinality(Members(s)')
      /\ Counts(s)'.completed = Cardinality(Finished(s)')
    BY DEF Counts, Finished
<1> QED
    BY <1>1, <1>2, <1>3, <1>4, SizeChange

\* The counts of a sprint whose members stay as they are.
LEMMA CountsSame ==
    ASSUME NEW s \in Sprint, Members(s)' = Members(s),
           \A u \in Members(s) : tasks'[u].done = tasks[u].done
    PROVE  Counts(s)' = Counts(s)
<1>1. {t \in Members(s)' : tasks'[t].done} = {t \in Members(s) : tasks[t].done}
    OBVIOUS
<1> QED
    BY <1>1 DEF Counts

\* The events of a transaction in the timeline of an active sprint.
LEMMA TimelineChange ==
    ASSUME NEW s \in Sprint, Active(s), NEW e, NEW f, Append(e, f)
    PROVE  /\ timeline'[s].scope = timeline[s].scope + e[s].scope + f[s].scope
           /\ timeline'[s].completed = timeline[s].completed + e[s].completed + f[s].completed
BY DEF Append

\* What the events of a task add to the counts of a sprint.
LEMMA EventFields ==
    ASSUME NEW s \in Sprint, NEW x, NEW done
    PROVE  /\ Added(x, done)[s].scope = IF x = s THEN 1 ELSE 0
           /\ Added(x, done)[s].completed = IF x = s /\ done THEN 1 ELSE 0
           /\ Removed(x, done)[s].scope = IF x = s THEN -1 ELSE 0
           /\ Removed(x, done)[s].completed = IF x = s /\ done THEN -1 ELSE 0
           /\ NoEvent[s].scope = 0 /\ NoEvent[s].completed = 0
BY DEF Added, Removed, NoEvent, NoTimeline, Completed

\* The drift of a sprint stays when counts and timeline change alike.
LEMMA DriftSame ==
    ASSUME TypeOK, NEW s \in Sprint, NEW a \in Int, NEW b \in Int,
           Counts(s)'.scope = Counts(s).scope + a, Counts(s)'.completed = Counts(s).completed + b,
           timeline'[s].scope = timeline[s].scope + a,
           timeline'[s].completed = timeline[s].completed + b
    PROVE  Drift(s)' = Drift(s)
<1>1. /\ Counts(s).scope \in Int /\ Counts(s).completed \in Int
      /\ timeline[s].scope \in Int /\ timeline[s].completed \in Int
    BY CountsAreIntegers DEF TypeOK
<1>2. /\ Counts(s)'.scope - timeline'[s].scope = Counts(s).scope - timeline[s].scope
      /\ Counts(s)'.completed - timeline'[s].completed = Counts(s).completed - timeline[s].completed
    BY <1>1
<1> QED
    BY <1>2 DEF Drift

\* One task leaves, joins or changes in a sprint with the events for it.
LEMMA OneTaskDrift ==
    ASSUME TypeOK, NEW s \in Sprint, Active(s), NEW t \in Task,
           \A u \in Task \ {t} : tasks'[u] = tasks[u], NEW e, NEW f, Append(e, f),
           e[s].scope = (IF t \in Members(s) THEN -1 ELSE 0),
           e[s].completed = (IF t \in Members(s) /\ tasks[t].done THEN -1 ELSE 0),
           f[s].scope = (IF t \in Members(s)' THEN 1 ELSE 0),
           f[s].completed = (IF t \in Members(s)' /\ tasks'[t].done THEN 1 ELSE 0)
    PROVE  Drift(s)' = Drift(s)
<1> DEFINE a == e[s].scope + f[s].scope
           b == e[s].completed + f[s].completed
<1>1. /\ t \in Finished(s) <=> t \in Members(s) /\ tasks[t].done
      /\ t \in Finished(s)' <=> t \in Members(s)' /\ tasks'[t].done
    BY DEF Finished
<1>2. /\ e[s].scope = -Completed(t \in Members(s)) /\ f[s].scope = Completed(t \in Members(s)')
      /\ e[s].completed = -Completed(t \in Finished(s))
      /\ f[s].completed = Completed(t \in Finished(s)')
    BY <1>1 DEF Completed
<1>3. /\ e[s].scope \in Int /\ f[s].scope \in Int
      /\ e[s].completed \in Int /\ f[s].completed \in Int
    OBVIOUS
<1>4. /\ Completed(t \in Members(s)) \in Int /\ Completed(t \in Members(s)') \in Int
      /\ Completed(t \in Finished(s)) \in Int /\ Completed(t \in Finished(s)') \in Int
    BY DEF Completed
<1>5. a \in Int /\ b \in Int
    BY <1>3
<1>6. Counts(s)'.scope = Counts(s).scope + a /\ Counts(s)'.completed = Counts(s).completed + b
    BY <1>2, <1>3, <1>4, CountsChange
<1>7. timeline[s].scope \in Int /\ timeline[s].completed \in Int
    BY DEF TypeOK
<1>8. timeline'[s].scope = timeline[s].scope + a /\ timeline'[s].completed = timeline[s].completed + b
    BY <1>3, <1>7, TimelineChange
<1> QED
    BY <1>5, <1>6, <1>8, DriftSame

\* A step that is no leak keeps the drift of the active sprint.
LEMMA DriftStep ==
    ASSUME LockInv, [Next]_vars, NEW s \in Sprint, Active(s), sprints'[s] = "active",
           \A c \in Clients : ~Leaks(c, s)
    PROVE  Drift(s)' = Drift(s)
<1>0. TypeOK /\ TaskLockInv /\ SprintLockInv /\ DeletedInv /\ DeletesTask /\ NoSprint \notin Sprint
    BY SprintConstants DEF LockInv
<1>1. CASE UNCHANGED <<tasks, timeline>>
    BY <1>1 DEF Drift, Counts, Members
<1>2. ASSUME NEW x \in Sprint, StartSprint(x)
      PROVE  FALSE
    BY <1>2 DEF StartSprint, ActiveIndexFree, Active
<1>3. ASSUME NEW x \in Sprint, CancelSprint(x)
      PROVE  Drift(s)' = Drift(s)
    <2>1. x # s
        BY <1>0, <1>3 DEF CancelSprint, TypeOK
    <2>2. timeline'[s] = timeline[s]
        BY <1>0, <1>3, <2>1 DEF CancelSprint, TypeOK
    <2>3. /\ \A t \in Task : tasks[t].sprint = s => tasks'[t] = tasks[t]
          /\ \A t \in Task : tasks[t].sprint # s => tasks'[t].sprint # s
        BY <1>0, <1>3, <2>1 DEF CancelSprint, TypeOK
    <2>4. Members(s)' = Members(s) /\ \A t \in Members(s) : tasks'[t].done = tasks[t].done
        BY <2>3 DEF Members
    <2>5. Counts(s)' = Counts(s)
        BY <2>4, CountsSame
    <2> QED
        BY <2>2, <2>5 DEF Drift
<1>4. ASSUME NEW c \in Clients, CompleteSprint(c)
      PROVE  FALSE
    <2>1. op[c].from = s
        BY <1>0, <1>4 DEF CompleteSprint, InProgress, SprintLockInv, Completes
    <2> QED
        BY <1>0, <1>4, <2>1 DEF CompleteSprint, TypeOK
<1>5. ASSUME NEW c \in Clients, AssignTaskToSprint(c) \/ MoveTaskBetweenSprints(c)
      PROVE  Drift(s)' = Drift(s)
    <2>1. PICK t, from, to, done : /\ t = op[c].task /\ from = op[c].from /\ to = op[c].to
                                   /\ done = op[c].done
        OBVIOUS
    <2>2. /\ op[c] # NoOp /\ op[c] \in OpType /\ Assigns(c)
          /\ PutInto({t}, to) /\ op'[c] = NoOp
        BY <1>0, <1>5, <2>1, Slots
        DEF AssignTaskToSprint, MoveTaskBetweenSprints, InProgress, Assigns, TypeOK
    <2>3. /\ t \in Task /\ tasks[t].live /\ from = tasks[t].sprint
          /\ done = tasks[t].done
        BY <1>0, <2>1, <2>2 DEF TaskLockInv, Assigns, Locks
    <2>4. /\ \A u \in Task \ {t} : tasks'[u] = tasks[u]
          /\ tasks'[t].sprint = to /\ tasks'[t].live /\ tasks'[t].done = done
        BY <1>0, <2>2, <2>3 DEF PutInto, TypeOK
    <2>5. /\ t \in Members(s) <=> from = s
          /\ t \in Members(s)' <=> to = s
        BY <2>3, <2>4 DEF Members
    <2>6. ASSUME NEW e, NEW f, Append(e, f),
                 e[s].scope = (IF from = s THEN -1 ELSE 0),
                 e[s].completed = (IF from = s /\ done THEN -1 ELSE 0),
                 f[s].scope = (IF to = s THEN 1 ELSE 0),
                 f[s].completed = (IF to = s /\ done THEN 1 ELSE 0)
          PROVE  Drift(s)' = Drift(s)
        <3>1. /\ e[s].scope = IF t \in Members(s) THEN -1 ELSE 0
              /\ e[s].completed = IF t \in Members(s) /\ tasks[t].done THEN -1 ELSE 0
            BY <2>3, <2>5, <2>6
        <3>2. /\ f[s].scope = IF t \in Members(s)' THEN 1 ELSE 0
              /\ f[s].completed = IF t \in Members(s)' /\ tasks'[t].done THEN 1 ELSE 0
            BY <2>4, <2>5, <2>6
        <3> QED
            BY <1>0, <2>3, <2>4, <2>6, <3>1, <3>2, OneTaskDrift
    <2>7. CASE MoveTaskBetweenSprints(c)
        <3>1. Append(Removed(from, done), Added(to, done))
            BY <2>1, <2>7 DEF MoveTaskBetweenSprints
        <3> QED
            BY <2>6, <3>1, EventFields
    <2>8. CASE AssignTaskToSprint(c)
        <3>1. op[c].kind = "assign" /\ op[c].status \in {"planned", "active"}
            BY <1>0, <2>2, <2>8 DEF AssignTaskToSprint, InProgress, TaskLockInv
        <3>2. from # s /\ (to = s => op[c].status = "active")
            BY <2>1, <2>2, <3>1 DEF Leaks
        <3>3. PICK e, f : /\ Append(e, f) /\ e = NoEvent
                          /\ f = IF op[c].status = "active" THEN Added(to, done) ELSE NoEvent
            BY <2>1, <2>8 DEF AssignTaskToSprint
        <3>4. /\ e[s].scope = IF from = s THEN -1 ELSE 0
              /\ e[s].completed = IF from = s /\ done THEN -1 ELSE 0
            BY <3>2, <3>3, EventFields
        <3>5. /\ f[s].scope = IF to = s THEN 1 ELSE 0
              /\ f[s].completed = IF to = s /\ done THEN 1 ELSE 0
            <4>1. CASE op[c].status = "active"
                BY <3>3, <4>1, EventFields
            <4>2. CASE op[c].status # "active"
                BY <3>2, <3>3, <4>2, EventFields
            <4> QED
                BY <4>1, <4>2
        <3> QED
            BY <2>6, <3>3, <3>4, <3>5
    <2> QED
        BY <1>5, <2>7, <2>8
<1>6. ASSUME NEW t \in Task, RemoveTaskFromSprint(t)
      PROVE  Drift(s)' = Drift(s)
    <2>1. PICK from, done : from = tasks[t].sprint /\ done = tasks[t].done
        OBVIOUS
    <2>2. PICK e, f : Append(e, f) /\ e = Removed(from, done) /\ f = NoEvent
        BY <1>6, <2>1 DEF RemoveTaskFromSprint
    <2>3. /\ \A u \in Task \ {t} : tasks'[u] = tasks[u]
          /\ tasks'[t].sprint = NoSprint /\ tasks[t].live
        BY <1>0, <1>6 DEF RemoveTaskFromSprint, TypeOK, DeletedInv
    <2>4. (t \in Members(s) <=> from = s) /\ t \notin Members(s)'
        BY <1>0, <2>1, <2>3 DEF Members
    <2>5. /\ e[s].scope = IF t \in Members(s) THEN -1 ELSE 0
          /\ e[s].completed = IF t \in Members(s) /\ tasks[t].done THEN -1 ELSE 0
        BY <2>1, <2>2, <2>4, EventFields
    <2>6. /\ f[s].scope = IF t \in Members(s)' THEN 1 ELSE 0
          /\ f[s].completed = IF t \in Members(s)' /\ tasks'[t].done THEN 1 ELSE 0
        BY <2>2, <2>4, EventFields
    <2> QED
        BY <1>0, <2>2, <2>3, <2>5, <2>6, OneTaskDrift
<1>7. ASSUME NEW t \in Task, ChangeStatus(t)
      PROVE  Drift(s)' = Drift(s)
    <2>1. PICK x, old, new : x = tasks[t].sprint /\ old = tasks[t].done /\ new = ~tasks[t].done
        OBVIOUS
    <2>2. PICK e, f : Append(e, f) /\ e = Removed(x, old) /\ f = Added(x, new)
        BY <1>7, <2>1 DEF ChangeStatus
    <2>3. /\ \A u \in Task \ {t} : tasks'[u] = tasks[u]
          /\ tasks'[t].sprint = x /\ tasks'[t].live /\ tasks[t].live
          /\ tasks'[t].done = new
        BY <1>0, <1>7, <2>1 DEF ChangeStatus, TypeOK
    <2>4. /\ t \in Members(s) <=> x = s
          /\ t \in Members(s)' <=> x = s
        BY <2>1, <2>3 DEF Members
    <2>5. /\ e[s].scope = IF t \in Members(s) THEN -1 ELSE 0
          /\ e[s].completed = IF t \in Members(s) /\ tasks[t].done THEN -1 ELSE 0
        BY <2>1, <2>2, <2>4, EventFields
    <2>6. /\ f[s].scope = IF t \in Members(s)' THEN 1 ELSE 0
          /\ f[s].completed = IF t \in Members(s)' /\ tasks'[t].done THEN 1 ELSE 0
        BY <2>2, <2>3, <2>4, EventFields
    <2> QED
        BY <1>0, <2>2, <2>3, <2>5, <2>6, OneTaskDrift
<1>8. ASSUME NEW c \in Clients, SoftDelete(c)
      PROVE  Drift(s)' = Drift(s)
    <2>1. PICK t, from, done : t = op[c].task /\ from = op[c].from /\ done = op[c].done
        OBVIOUS
    <2>2. op[c] # NoOp /\ op[c].kind = "delete" /\ op'[c] = NoOp
        BY <1>0, <1>8, Slots DEF SoftDelete, InProgress
    <2>3. t \in Task /\ tasks[t].live
        BY <1>0, <1>8, <2>1, <2>2 DEF DeletesTask, SoftDelete
    <2>4. /\ Subtasks(t) \cap Members(s) = {}
          /\ tasks[t].sprint = from /\ tasks[t].done = done
        BY <2>1, <2>2 DEF Leaks
    <2>5. PICK e, f : Append(e, f) /\ e = Removed(from, done) /\ f = NoEvent
        BY <1>8, <2>1 DEF SoftDelete
    <2>6. /\ \A u \in Task : u \notin {t} \cup Subtasks(t) => tasks'[u] = tasks[u]
          /\ \A u \in Task : u \in {t} \cup Subtasks(t) => tasks'[u].sprint = NoSprint
        <3>1. tasks' = [u \in Task |-> IF u \in {t} \cup Subtasks(t)
                                       THEN [tasks[u] EXCEPT !.live = FALSE, !.sprint = NoSprint]
                                       ELSE tasks[u]]
            BY <1>8, <2>1 DEF SoftDelete
        <3> QED
            BY ZenonT(60), <1>0, <3>1 DEF TypeOK
    <2>7. t \in Members(s) <=> from = s
        BY <2>3, <2>4 DEF Members
    <2>8. Members(s)' = Members(s) \ {t} /\ \A u \in Members(s) \ {t} : tasks'[u] = tasks[u]
        BY <1>0, <2>4, <2>6 DEF Members
    <2>9. /\ e[s].scope = IF t \in Members(s) THEN -1 ELSE 0
          /\ e[s].completed = IF t \in Members(s) /\ tasks[t].done THEN -1 ELSE 0
          /\ f[s].scope = 0 /\ f[s].completed = 0
        BY <2>4, <2>5, <2>7, EventFields
    <2>10. timeline[s].scope \in Int /\ timeline[s].completed \in Int
        BY <1>0 DEF TypeOK
    <2>11. CASE t \in Members(s)
        <3>1. /\ IsFiniteSet(Members(s)) /\ IsFiniteSet(Finished(s))
            <4>1. Members(s) \subseteq Task /\ Finished(s) \subseteq Task
                BY DEF Members, Finished
            <4> QED
                BY <4>1, FS_Subset, SprintConstants
        <3>2. Finished(s)' = Finished(s) \ {t} /\ (t \in Finished(s) <=> tasks[t].done)
            BY <2>8, <2>11 DEF Finished
        <3>3. /\ Cardinality(Members(s)') = Cardinality(Members(s)) - 1
              /\ Cardinality(Finished(s)') =
                    IF tasks[t].done THEN Cardinality(Finished(s)) - 1 ELSE Cardinality(Finished(s))
            BY <2>8, <2>11, <3>1, <3>2, FS_RemoveElement
        <3>4. Cardinality(Members(s)) \in Nat /\ Cardinality(Finished(s)) \in Nat
            BY <3>1, FS_CardinalityType
        <3>5. PICK b : b \in {0, -1} /\ b = e[s].completed
            BY <2>9
        <3>6. Counts(s)'.scope = Counts(s).scope + (-1) /\ Counts(s)'.completed = Counts(s).completed + b
            BY <2>9, <2>11, <3>3, <3>4, <3>5 DEF Counts, Finished
        <3>7. /\ timeline'[s].scope = timeline[s].scope + (-1)
              /\ timeline'[s].completed = timeline[s].completed + b
            BY <2>5, <2>9, <2>10, <2>11, <3>5, TimelineChange
        <3> QED
            BY <1>0, <3>5, <3>6, <3>7, DriftSame
    <2>12. CASE t \notin Members(s)
        <3>1. Members(s)' = Members(s) /\ \A u \in Members(s) : tasks'[u].done = tasks[u].done
            BY <2>8, <2>12
        <3>2. Counts(s)' = Counts(s)
            BY <3>1, CountsSame
        <3>3. timeline'[s].scope = timeline[s].scope /\ timeline'[s].completed = timeline[s].completed
            BY <2>5, <2>9, <2>10, <2>12, TimelineChange
        <3> QED
            BY <3>2, <3>3 DEF Drift
    <2> QED
        BY <2>11, <2>12
<1>9. ASSUME NEW c \in Clients, Renumber(c)
      PROVE  Drift(s)' = Drift(s)
    <2>1. PICK t, x, old, new : /\ t = op[c].task /\ x = tasks[op[c].task].sprint
                                /\ old = tasks[op[c].task].done /\ new = op[c].done
        OBVIOUS
    <2>2. op[c] # NoOp /\ op[c].kind = "renumber" /\ Locks(c) /\ op'[c] = NoOp
        BY <1>0, <1>9, Slots DEF Renumber, InProgress, Locks
    <2>3. t \in Task /\ tasks[t].live /\ x = tasks[t].sprint /\ old = tasks[t].done
        BY <1>0, <2>1, <2>2 DEF TaskLockInv
    <2>4. PICK e, f : Append(e, f) /\ e = Removed(x, old) /\ f = Added(x, new)
        BY <1>9, <2>1 DEF Renumber
    <2>5. /\ tasks'[t].done = new
          /\ \A u \in Task : tasks'[u].live = tasks[u].live /\ tasks'[u].sprint = tasks[u].sprint
        BY <1>0, <1>9, <2>1, <2>3 DEF Renumber, TypeOK
    <2>6. \A u \in Members(s) \ {t} : tasks'[u].done = tasks[u].done
        <3>1. \A u \in Members(s) : Renumbered(op[c], u) => tasks[u].done = (u \in op[c].closed)
            BY <2>2 DEF Leaks
        <3>2. \A u \in Task \ {t} : tasks'[u].done =
                  IF Renumbered(op[c], u) THEN u \in op[c].closed ELSE tasks[u].done
            BY <1>0, <1>9, <2>1 DEF Renumber, TypeOK
        <3> QED
            BY <3>1, <3>2 DEF Members
    <2>7. Members(s)' = Members(s)
        BY <2>5 DEF Members
    <2>8. t \in Members(s) <=> x = s
        BY <2>3 DEF Members
    <2>9. Finished(s)' \ {t} = Finished(s) \ {t}
        BY <2>6, <2>7 DEF Finished
    <2>10. /\ t \in Finished(s) <=> x = s /\ old
           /\ t \in Finished(s)' <=> x = s /\ new
        BY <2>3, <2>5, <2>7, <2>8 DEF Finished
    <2>11. IsFiniteSet(Finished(s)) /\ IsFiniteSet(Finished(s)')
        <3>1. Finished(s) \subseteq Task /\ Finished(s)' \subseteq Task
            BY DEF Members, Finished
        <3> QED
            BY <3>1, FS_Subset, SprintConstants
    <2>12. PICK a, b : /\ a = (IF x = s /\ old THEN 1 ELSE 0)
                       /\ b = (IF x = s /\ new THEN 1 ELSE 0)
        OBVIOUS
    <2>13. /\ Cardinality(Finished(s)) \in Nat
           /\ Cardinality(Finished(s)') = Cardinality(Finished(s)) - a + b
        BY <2>9, <2>10, <2>11, <2>12, SizeChange DEF Completed
    <2>14. /\ Counts(s)'.scope = Counts(s).scope
           /\ Counts(s).completed = Cardinality(Finished(s))
           /\ Counts(s)'.completed = Cardinality(Finished(s)')
        BY <2>7 DEF Counts, Finished
    <2>15. /\ timeline[s].scope \in Int /\ timeline[s].completed \in Int
           /\ Counts(s).scope \in Int /\ a \in Int /\ b \in Int
        BY <1>0, <2>12, CountsAreIntegers DEF TypeOK
    <2>16. /\ timeline'[s].scope = timeline[s].scope + e[s].scope + f[s].scope
           /\ timeline'[s].completed = timeline[s].completed + e[s].completed + f[s].completed
        BY <2>4, TimelineChange
    <2>17. /\ e[s].scope + f[s].scope = 0
           /\ e[s].completed = -a /\ f[s].completed = b
           /\ e[s].scope \in Int /\ f[s].scope \in Int
        BY <2>4, <2>12, EventFields
    <2>18. /\ Counts(s)'.scope = Counts(s).scope + 0
           /\ Counts(s)'.completed = Counts(s).completed + (b - a)
           /\ timeline'[s].scope = timeline[s].scope + 0
           /\ timeline'[s].completed = timeline[s].completed + (b - a)
        BY <2>13, <2>14, <2>15, <2>16, <2>17
    <2> QED
        BY <1>0, <2>15, <2>18, DriftSame
<1> QED
    BY <1>1, <1>2, <1>3, <1>4, <1>5, <1>6, <1>7, <1>8, <1>9
    DEF Next, CreateSprint, BeginComplete, BeginAssign, BeginMove, BeginDelete, BeginRenumber, Abort, vars

\* A deletion keeps the task it has read.
LEMMA DeletesTaskStep ==
    ASSUME TypeOK, DeletesTask, [Next]_vars
    PROVE  DeletesTask'
<1>1. ASSUME NEW c \in Clients, NEW o, Begin(c, o), o.kind = "delete" => o.task \in Task
      PROVE  DeletesTask'
    BY <1>1, Slots DEF DeletesTask
<1>2. ASSUME NEW c \in Clients, End(c)
      PROVE  DeletesTask'
    BY <1>2, Slots DEF DeletesTask
<1>3. CASE op' = op
    BY <1>3 DEF DeletesTask
<1>4. ASSUME NEW c \in Clients,
             \/ \E s \in Sprint, d \in Target : BeginComplete(c, s, d)
             \/ \E t \in Task, s \in Sprint : BeginAssign(c, t, s)
             \/ \E t \in Task, s \in Target : BeginMove(c, t, s)
             \/ \E t \in Task : BeginDelete(c, t)
             \/ \E t \in Task, done \in BOOLEAN, rows \in SUBSET Task : BeginRenumber(c, t, done, rows)
      PROVE  DeletesTask'
    BY <1>1, <1>4 DEF BeginComplete, BeginAssign, BeginMove, BeginDelete, BeginRenumber
<1>5. ASSUME NEW c \in Clients,
             \/ CompleteSprint(c) \/ AssignTaskToSprint(c) \/ MoveTaskBetweenSprints(c)
             \/ Renumber(c) \/ SoftDelete(c) \/ Abort(c)
      PROVE  DeletesTask'
    BY <1>2, <1>5
    DEF CompleteSprint, AssignTaskToSprint, MoveTaskBetweenSprints, Renumber, SoftDelete, Abort
<1> QED
    BY <1>3, <1>4, <1>5
    DEF Next, CreateSprint, StartSprint, CancelSprint, RemoveTaskFromSprint, ChangeStatus, vars

\* However requests interleave, the timeline of an active sprint follows its members
\* through every transaction but the leaking assignments, deletions and renumberings.
\* It needs the locks of LockInv: an assignment, a move or a status change finds the
\* task as it read it, a renumbering the one it moves; and only one sprint is active.
THEOREM TimelineFollowsMembers == Spec => OnlyNamedRequestsLeak
<1>1. Init => LockInv
    <2>1. Init => TypeOK
        BY SprintConstants DEF Init, TypeOK, NoTimeline, Status, Target
    <2>2. Init => TaskLockInv /\ SprintLockInv /\ DeletedInv /\ DeletesTask
        BY DEF Init, TaskLockInv, SprintLockInv, DeletedInv, DeletesTask, Assigns, Locks, Completes, Active
    <2> QED
        BY <2>1, <2>2 DEF LockInv
<1>2. LockInv /\ TypeOK' /\ [Next]_vars => LockInv'
    BY TaskLockStep, SprintLockStep, DeletesTaskStep DEF LockInv
<1>3. LockInv /\ [Next]_vars =>
        [\A s \in Sprint : Active(s) /\ sprints'[s] = "active" /\ Drift(s)' # Drift(s)
                              => \E c \in Clients : Leaks(c, s)]_vars
    BY DriftStep
<1> QED
    BY <1>1, <1>2, <1>3, SprintsTypeOK, PTL DEF Spec, OnlyNamedRequestsLeak

-----------------------------------------------------------------------------
(* The attachments.                                                        *)

AttachmentRow == [state : {"none", "present", "purged"}, scan : ScanStatus,
                  deleted : BOOLEAN, old : BOOLEAN,
                  attempts : 0..MaxAttempts, claim : {"none", "held", "stale"},
                  exact : BOOLEAN]

\* A clean attachment that users can see.
Offered(a) == Live(a) /\ row[a].scan = "clean" /\ target[a]

\* The cleanup has claimed no attachment that is offered, but for a late verdict, and
\* a job at work is at one of the claims counted in the row.
ClaimsInv ==
    \A a \in Attachment :
        /\ Offered(a) /\ row[a].attempts > 0 => a \in late
        /\ \A n \in Attempt : worker[a][n] # "none" => row[a].state = "purged" \/ n =< row[a].attempts

\* A request of completeUpload that deletes the object found it unfit, and has not
\* done so before its scan.
VerdictsInv ==
    \A r \in Request : request[r] # NoJob =>
        /\ request[r].at = "scan" => ~ request[r].dropped
        /\ request[r].kind = "complete" /\ (request[r].dropped \/ request[r].at = "object") =>
              request[r].scan \in {"failed", "infected"}

StorageInv == AttachmentsInv /\ ClaimsInv /\ VerdictsInv

\* What a request in progress is, and what it is after another step.
LEMMA RequestFields ==
    ASSUME AttachmentsTypeOK, NEW r \in Request, request[r] # NoJob
    PROVE  /\ request[r] \in RequestType /\ request[r].id \in Attachment
           /\ request[r].scan \in ScanStatus
           /\ request[r].wrote \in BOOLEAN /\ request[r].dropped \in BOOLEAN
  <1>1. request[r] \in RequestType
    BY DEF AttachmentsTypeOK
  <1> QED  BY <1>1 DEF RequestType

\* A row of the table.
LEMMA RowFields ==
    ASSUME AttachmentsTypeOK, NEW a \in Attachment
    PROVE  /\ row[a] \in AttachmentRow /\ row[a].attempts \in 0..MaxAttempts
           /\ row[a].deleted \in BOOLEAN
  <1>1. row[a] \in AttachmentRow
    BY DEF AttachmentsTypeOK, AttachmentRow
  <1> QED  BY <1>1 DEF AttachmentRow

\* The steps that write one row and keep all requests and histories: what they
\* leave of the row.
RowWrite(a, new) ==
    /\ row' = [row EXCEPT ![a] = new] /\ new \in AttachmentRow
    /\ \/ /\ new.state = row[a].state /\ new.scan = row[a].scan
          /\ new.deleted = row[a].deleted /\ new.attempts = row[a].attempts
       \/ /\ row[a] = NoRow /\ new.scan = "pending" /\ new.attempts = 0
       \/ /\ Orphan(a) /\ row[a].state = "present" /\ new.state = "present"
          /\ new.scan = row[a].scan /\ new.deleted = row[a].deleted
          /\ new.attempts = row[a].attempts + 1 /\ target' = target
       \/ /\ new.state = "purged"
          /\ \E n \in Attempt : /\ n = row[a].attempts
                                /\ worker[a][n] = "finish" /\ worker'[a][n] # "finish"

\* Every step that touches no request writes one row as described, or none.
LEMMA RowWrites ==
    ASSUME AttachmentsTypeOK, NEW a \in Attachment,
           \/ CreateUpload(a) \/ Age(a) \/ ClaimTimesOut(a) \/ Claim(a)
           \/ \E n \in Attempt : Finish(a, n) \/ Release(a, n)
    PROVE  row' = row \/ \E new : RowWrite(a, new)
  <1>0. /\ row[a] \in AttachmentRow /\ row[a].attempts \in 0..MaxAttempts
        /\ MaxAttempts \in Nat /\ worker[a] \in [Attempt -> {"none", "delete", "finish", "release"}]
        /\ worker \in [Attachment -> [Attempt -> {"none", "delete", "finish", "release"}]]
    BY RowFields, AttachmentConstants DEF AttachmentsTypeOK
  <1>1. CASE CreateUpload(a)
    <2>1. PICK new : new = [row[a] EXCEPT !.state = "present"]
      OBVIOUS
    <2>2. row' = [row EXCEPT ![a] = new] /\ row[a] = NoRow
      BY <1>1, <2>1 DEF CreateUpload
    <2>3. new \in AttachmentRow /\ new.scan = row[a].scan /\ new.attempts = row[a].attempts
      BY <1>0, <2>1 DEF AttachmentRow
    <2>4. row[a].scan = "pending" /\ row[a].attempts = 0
      BY <2>2 DEF NoRow
    <2> QED  BY <2>2, <2>3, <2>4 DEF RowWrite
  <1>2. CASE Age(a) \/ ClaimTimesOut(a)
    <2>1. PICK new : \/ new = [row[a] EXCEPT !.old = TRUE] /\ row' = [row EXCEPT ![a] = new]
                     \/ new = [row[a] EXCEPT !.claim = "stale"] /\ row' = [row EXCEPT ![a] = new]
      BY <1>2 DEF Age, ClaimTimesOut
    <2>2. /\ new \in AttachmentRow /\ new.state = row[a].state /\ new.scan = row[a].scan
          /\ new.deleted = row[a].deleted /\ new.attempts = row[a].attempts
      BY <1>0, <2>1 DEF AttachmentRow
    <2> QED  BY <2>1, <2>2 DEF RowWrite
  <1>3. CASE Claim(a)
    <2>1. PICK exact \in BOOLEAN : row' = [row EXCEPT ![a].attempts = @ + 1, ![a].claim = "held",
                                                      ![a].exact = exact]
      BY <1>3 DEF Claim
    <2>2. PICK m : m = row[a].attempts + 1 /\ m \in 0..MaxAttempts
      BY <1>0, <1>3 DEF Claim, Claimable
    <2>3. PICK new : new = [row[a] EXCEPT !.attempts = m, !.claim = "held", !.exact = exact]
      OBVIOUS
    <2>4. row' = [row EXCEPT ![a] = new]
      BY <2>1, <2>2, <2>3
    <2>5. /\ new \in AttachmentRow /\ new.state = row[a].state /\ new.scan = row[a].scan
          /\ new.deleted = row[a].deleted /\ new.attempts = m
      BY <1>0, <2>2, <2>3 DEF AttachmentRow
    <2>6. Orphan(a) /\ row[a].state = "present" /\ target' = target
      BY <1>3 DEF Claim, Present
    <2> QED  BY <2>2, <2>4, <2>5, <2>6 DEF RowWrite
  <1>4. ASSUME NEW n \in Attempt, Finish(a, n)
        PROVE  row' = row \/ \E new : RowWrite(a, new)
    <2>1. CASE Holds(a, n) /\ row' # row
      <3>1. PICK new : new = [NoRow EXCEPT !.state = "purged"]
        OBVIOUS
      <3>2. row' = [row EXCEPT ![a] = new]
        BY <1>4, <2>1, <3>1 DEF Finish
      <3>3. new \in AttachmentRow /\ new.state = "purged"
        <4>1. new = [state |-> "purged", scan |-> "pending", deleted |-> FALSE, old |-> FALSE,
                     attempts |-> 0, claim |-> "none", exact |-> FALSE]
          BY <3>1 DEF NoRow
        <4>2. 0 \in 0..MaxAttempts /\ "pending" \in ScanStatus
          BY <1>0 DEF ScanStatus
        <4> QED  BY <4>1, <4>2 DEF AttachmentRow
      <3>4. n = row[a].attempts /\ worker[a][n] = "finish" /\ worker'[a][n] # "finish"
        BY <1>0, <1>4, <2>1 DEF Finish, Holds
      <3> QED  BY <3>2, <3>3, <3>4 DEF RowWrite
    <2>2. CASE ~ Holds(a, n)
      BY <1>4, <2>2 DEF Finish
    <2>3. CASE row' = row
      BY <2>3
    <2> QED  BY <2>1, <2>2, <2>3
  <1>5. ASSUME NEW n \in Attempt, Release(a, n)
        PROVE  row' = row \/ \E new : RowWrite(a, new)
    <2>1. CASE Holds(a, n)
      <3>1. PICK new : new = [row[a] EXCEPT !.claim = "none", !.exact = FALSE]
        OBVIOUS
      <3>2. row' = [row EXCEPT ![a] = new]
        BY <1>5, <2>1, <3>1 DEF Release
      <3>3. /\ new \in AttachmentRow /\ new.state = row[a].state /\ new.scan = row[a].scan
            /\ new.deleted = row[a].deleted /\ new.attempts = row[a].attempts
        BY <1>0, <3>1 DEF AttachmentRow
      <3> QED  BY <3>2, <3>3 DEF RowWrite
    <2>2. CASE ~ Holds(a, n)
      BY <1>5, <2>2 DEF Release
    <2> QED  BY <2>1, <2>2
  <1> QED  BY <1>1, <1>2, <1>3, <1>4, <1>5

\* The invariant holds before the first upload.
LEMMA StorageInit ==
    ASSUME AttachmentsInit
    PROVE  StorageInv
  <1>1. NoRow \in AttachmentRow
    BY AttachmentConstants DEF NoRow, AttachmentRow, ScanStatus
  <1>2. AttachmentsTypeOK
    BY <1>1 DEF AttachmentsInit, AttachmentsTypeOK, AttachmentRow
  <1>3. \A a \in Attachment : row[a].state = "none" /\ \A n \in Attempt : worker[a][n] = "none"
    BY DEF AttachmentsInit, NoRow
  <1>4. \A a \in Attachment : ~ Live(a)
    BY <1>3 DEF Live
  <1> QED  BY <1>2, <1>3, <1>4
      DEF StorageInv, AttachmentsInv, CleanHasObject, ClaimsInv, VerdictsInv, Offered, AttachmentsInit

\* What the steps of time, users and the cleanup do, requests apart.
TableStep(a) ==
    \/ CreateUpload(a) \/ Upload(a) \/ DeleteTarget(a) \/ Age(a) \/ ClaimTimesOut(a) \/ Claim(a)
    \/ \E n \in Attempt : Finish(a, n) \/ Release(a, n) \/ Crash(a, n)

\* They preserve the invariant: none offers an attachment, removes an object or
\* claims an attachment that is offered.
LEMMA TableSteps ==
    ASSUME StorageInv, NEW a \in Attachment, TableStep(a)
    PROVE  StorageInv'
  <1> USE DEF StorageInv, AttachmentsInv
  <1>0. UNCHANGED <<request, aborted, late>> /\ MaxAttempts \in Nat
    BY AttachmentConstants DEF TableStep, CreateUpload, Upload, DeleteTarget, Age, ClaimTimesOut, Claim,
       Finish, Release, Crash, history
  <1>1. row' = row \/ \E new : RowWrite(a, new)
    BY RowWrites DEF TableStep, Upload, DeleteTarget, Crash
  <1>2. /\ object' \in [Attachment -> BOOLEAN] /\ linked' \in [Attachment -> BOOLEAN]
        /\ target' \in [Attachment -> BOOLEAN]
        /\ \A b \in Attachment : (object[b] => object'[b]) /\ (target'[b] => target[b])
    <2>1. /\ object \in [Attachment -> BOOLEAN] /\ linked \in [Attachment -> BOOLEAN]
          /\ target \in [Attachment -> BOOLEAN]
      BY DEF AttachmentsTypeOK
    <2> QED  BY <2>1 DEF TableStep, CreateUpload, Upload, DeleteTarget, Age, ClaimTimesOut, Claim,
        Finish, Release, Crash, store
  <1>3. /\ worker' \in [Attachment -> [Attempt -> {"none", "delete", "finish", "release"}]]
        /\ \A b \in Attachment, n \in Attempt :
              worker'[b][n] # "none" =>
                  worker[b][n] # "none" \/ (b = a /\ Claim(a) /\ n = row[a].attempts + 1)
    <2>1. worker \in [Attachment -> [Attempt -> {"none", "delete", "finish", "release"}]]
      BY DEF AttachmentsTypeOK
    <2>2. CASE Claim(a)
      <3>1. row[a].attempts + 1 \in Attempt
        <4>1. row[a].attempts \in 0..MaxAttempts /\ row[a].attempts < MaxAttempts
          BY <2>2, RowFields DEF Claim, Claimable
        <4> QED  BY <1>0, <4>1 DEF Attempt
      <3> QED  BY <2>1, <2>2, <3>1 DEF Claim
    <2>3. ASSUME NEW n \in Attempt, worker[a][n] # "none",
                 \E next \in {"none", "release"} : worker' = [worker EXCEPT ![a][n] = next]
          PROVE  /\ worker' \in [Attachment -> [Attempt -> {"none", "delete", "finish", "release"}]]
                 /\ \A b \in Attachment, m \in Attempt : worker'[b][m] # "none" => worker[b][m] # "none"
      BY <2>1, <2>3
    <2>4. CASE worker' = worker
      BY <2>1, <2>4
    <2> QED  BY <2>2, <2>3, <2>4 DEF TableStep, CreateUpload, Upload, DeleteTarget, Age, ClaimTimesOut,
        Finish, Release, Crash
  <1>4. row' \in [Attachment -> AttachmentRow]
    BY <1>1 DEF RowWrite, AttachmentsTypeOK, AttachmentRow
  <1>5. AttachmentsTypeOK'
    BY <1>0, <1>2, <1>3, <1>4 DEF AttachmentsTypeOK, AttachmentRow
  <1>6. VerdictsInv'
    BY <1>0 DEF VerdictsInv
  <1>7. ASSUME NEW b \in Attachment
        PROVE  /\ Offered(b)' => Offered(b)
               /\ Offered(b)' /\ row'[b].attempts > 0 => row[b].attempts > 0
               /\ row[b].state = "purged" => row'[b].state = "purged"
               /\ row'[b].state = "purged" \/ row[b].attempts =< row'[b].attempts
               /\ b = a /\ Claim(a) => row'[b].attempts = row[b].attempts + 1
    <2>1. row[b] \in AttachmentRow /\ row[b].attempts \in 0..MaxAttempts
      BY RowFields
    <2>2. CASE row' = row
      <3>1. ~ Claim(a)
        <4>1. SUFFICES ASSUME Claim(a) PROVE FALSE
          OBVIOUS
        <4>2. row[a].attempts \in Nat /\ row \in [Attachment -> AttachmentRow]
          BY <1>0, RowFields DEF AttachmentsTypeOK, AttachmentRow
        <4>3. row'[a].attempts = row[a].attempts + 1
          BY <4>1, <4>2 DEF Claim, AttachmentRow
        <4> QED  BY <2>2, <4>2, <4>3
      <3> QED  BY <1>0, <1>2, <2>1, <2>2, <3>1 DEF Offered, Live
    <2>3. CASE b # a
      <3>1. row'[b] = row[b]
        BY <1>1, <2>3 DEF RowWrite, AttachmentsTypeOK
      <3> QED  BY <1>0, <1>2, <2>1, <2>3, <3>1 DEF Offered, Live
    <2>4. ASSUME b = a, NEW new, RowWrite(a, new)
          PROVE  /\ Offered(b)' => Offered(b)
                 /\ Offered(b)' /\ row'[b].attempts > 0 => row[b].attempts > 0
                 /\ row[b].state = "purged" => row'[b].state = "purged"
                 /\ row'[b].state = "purged" \/ row[b].attempts =< row'[b].attempts
      <3>1. row'[b] = new
        BY <2>4 DEF RowWrite, AttachmentsTypeOK
      <3>2. CASE /\ new.state = row[a].state /\ new.scan = row[a].scan
                 /\ new.deleted = row[a].deleted /\ new.attempts = row[a].attempts
        BY <1>0, <1>2, <2>1, <2>4, <3>1, <3>2 DEF Offered, Live
      <3>3. CASE row[a] = NoRow /\ new.scan = "pending" /\ new.attempts = 0
        BY <2>4, <3>1, <3>3 DEF Offered, NoRow
      <3>4. CASE /\ Orphan(a) /\ row[a].state = "present" /\ new.state = "present"
                 /\ new.scan = row[a].scan /\ new.deleted = row[a].deleted
                 /\ new.attempts = row[a].attempts + 1 /\ target' = target
        <4>1. ~ Offered(b)'
          BY <2>4, <3>1, <3>4 DEF Offered, Live, Orphan
        <4> QED  BY <1>0, <2>1, <2>4, <3>1, <3>4, <4>1
      <3>5. CASE new.state = "purged"
        BY <2>4, <3>1, <3>5 DEF Offered, Live
      <3> QED  BY <2>4, <3>2, <3>3, <3>4, <3>5 DEF RowWrite
    <2>5. ASSUME b = a, Claim(a) PROVE row'[b].attempts = row[b].attempts + 1
      <3>1. row \in [Attachment -> AttachmentRow]
        BY DEF AttachmentsTypeOK, AttachmentRow
      <3> QED  BY <2>1, <2>5, <3>1 DEF Claim, AttachmentRow
    <2> QED  BY <1>1, <2>2, <2>3, <2>4, <2>5
  <1>8. ClaimsInv'
    <2> SUFFICES ASSUME NEW b \in Attachment
                 PROVE  /\ Offered(b)' /\ row'[b].attempts > 0 => b \in late'
                        /\ \A n \in Attempt : worker'[b][n] # "none" =>
                              row'[b].state = "purged" \/ n =< row'[b].attempts
      BY DEF ClaimsInv, Offered
    <2>1. Offered(b)' /\ row'[b].attempts > 0 => b \in late'
      BY <1>0, <1>7 DEF ClaimsInv
    <2>2. ASSUME NEW n \in Attempt, worker'[b][n] # "none"
          PROVE  row'[b].state = "purged" \/ n =< row'[b].attempts
      <3>1. n \in Nat /\ row[b].attempts \in Nat /\ row'[b].attempts \in Nat
        BY <1>0, <1>4, RowFields DEF Attempt, AttachmentRow
      <3>2. CASE worker[b][n] # "none"
        <4>1. row[b].state = "purged" \/ n =< row[b].attempts
          BY <3>2 DEF ClaimsInv
        <4> QED  BY <1>7, <3>1, <4>1
      <3>3. CASE b = a /\ Claim(a) /\ n = row[a].attempts + 1
        BY <1>7, <3>1, <3>3
      <3> QED  BY <1>3, <2>2, <3>2, <3>3
    <2> QED  BY <2>1, <2>2
  <1>9. CleanHasObject'
    <2>1. \A b \in Attachment : Dropping(b) => Dropping(b)'
      BY <1>0 DEF Dropping
    <2> QED  BY <1>0, <1>2, <1>7, <2>1 DEF CleanHasObject, Offered
  <1> QED  BY <1>5, <1>6, <1>8, <1>9

\* deleteReference: the objects of attachments that are offered are out of reach of
\* the cleanup, but for late verdicts.
LEMMA DeleteReferencesStep ==
    ASSUME StorageInv, NEW a \in Attachment, NEW n \in Attempt, DeleteReferences(a, n)
    PROVE  StorageInv'
  <1> USE DEF StorageInv, AttachmentsInv
  <1>1. PICK gone \in BOOLEAN, next \in {"finish", "release"} :
           /\ object' = [object EXCEPT ![a] = @ /\ ~gone]
           /\ worker' = [worker EXCEPT ![a][n] = next]
    BY DEF DeleteReferences
  <1>2. UNCHANGED <<row, linked, target, request, aborted, late>> /\ worker[a][n] = "delete"
    BY DEF DeleteReferences, history
  <1>3. worker \in [Attachment -> [Attempt -> {"none", "delete", "finish", "release"}]]
    BY DEF AttachmentsTypeOK
  <1>4. /\ worker' \in [Attachment -> [Attempt -> {"none", "delete", "finish", "release"}]]
        /\ \A b \in Attachment, m \in Attempt : worker'[b][m] # "none" => worker[b][m] # "none"
    BY <1>1, <1>2, <1>3
  <1>5. /\ object' \in [Attachment -> BOOLEAN]
        /\ \A b \in Attachment \ {a} : object'[b] = object[b]
    <2>1. object \in [Attachment -> BOOLEAN]
      BY DEF AttachmentsTypeOK
    <2> QED  BY <1>1, <2>1
  <1>6. AttachmentsTypeOK' /\ VerdictsInv' /\ ClaimsInv'
    <2>1. AttachmentsTypeOK'
      BY <1>2, <1>4, <1>5 DEF AttachmentsTypeOK
    <2>2. VerdictsInv'
      BY <1>2 DEF VerdictsInv
    <2>3. ClaimsInv'
      BY <1>2, <1>4 DEF ClaimsInv, Offered, Live
    <2> QED  BY <2>1, <2>2, <2>3
  <1>7. Offered(a) => a \in late
    <2>1. row[a].state = "purged" \/ n =< row[a].attempts
      BY <1>2 DEF ClaimsInv
    <2>2. row[a].attempts \in 0..MaxAttempts /\ n \in 1..MaxAttempts /\ MaxAttempts \in Nat
      BY RowFields, AttachmentConstants DEF Attempt
    <2>3. row[a].state = "purged" \/ row[a].attempts > 0
      BY <2>1, <2>2
    <2> QED  BY <2>3 DEF ClaimsInv, Offered, Live
  <1>8. CleanHasObject'
    BY <1>2, <1>5, <1>7 DEF CleanHasObject, Offered, Live, Dropping
  <1> QED  BY <1>6, <1>8

\* A request starts: nothing else changes.
LEMMA BeginSteps ==
    ASSUME StorageInv, NEW r \in Request, NEW a \in Attachment,
           BeginCompleteUpload(r, a) \/ BeginDeleteAttachment(r, a)
    PROVE  StorageInv'
  <1> USE DEF StorageInv, AttachmentsInv
  <1>1. UNCHANGED <<row, object, linked, target, worker, aborted, late>> /\ request[r] = NoJob
    BY DEF BeginCompleteUpload, BeginDeleteAttachment, Start, store, history
  <1>2. PICK job \in RequestType :
           /\ request' = [request EXCEPT ![r] = job]
           /\ ~ job.dropped
           /\ job.kind = "complete" => job.at = "scan"
    <2>1. "pending" \in ScanStatus
      BY DEF ScanStatus
    <2>2. CASE BeginCompleteUpload(r, a)
      <3>1. PICK job : job = [kind |-> "complete", id |-> a, at |-> "scan", scan |-> "pending",
                              wrote |-> FALSE, dropped |-> FALSE]
        OBVIOUS
      <3>2. job \in RequestType /\ ~ job.dropped /\ job.at = "scan"
        BY <2>1, <3>1 DEF RequestType
      <3> QED  BY <2>2, <3>1, <3>2 DEF BeginCompleteUpload, Start
    <2>3. CASE BeginDeleteAttachment(r, a)
      <3>1. PICK job : job = [kind |-> "delete", id |-> a, at |-> "object", scan |-> "pending",
                              wrote |-> TRUE, dropped |-> FALSE]
        OBVIOUS
      <3>2. job \in RequestType /\ ~ job.dropped /\ job.kind # "complete"
        BY <2>1, <3>1 DEF RequestType
      <3> QED  BY <2>3, <3>1, <3>2 DEF BeginDeleteAttachment, Start
    <2> QED  BY <2>2, <2>3
  <1>3. /\ request' \in [Request -> RequestType \cup {NoJob}] /\ request'[r] = job
        /\ \A q \in Request \ {r} : request'[q] = request[q]
    BY <1>2 DEF AttachmentsTypeOK
  <1>4. AttachmentsTypeOK'
    BY <1>1, <1>3 DEF AttachmentsTypeOK
  <1>5. VerdictsInv'
    BY <1>2, <1>3 DEF VerdictsInv
  <1>6. ClaimsInv'
    BY <1>1 DEF ClaimsInv, Offered, Live
  <1>7. \A b \in Attachment : Dropping(b) => Dropping(b)'
    BY <1>1, <1>3 DEF Dropping
  <1>8. CleanHasObject'
    BY <1>1, <1>7 DEF CleanHasObject, Live
  <1> QED  BY <1>4, <1>5, <1>6, <1>8

\* A request goes on: it may delete its object, and then says so.
LEMMA RequestGoesOn ==
    ASSUME StorageInv, NEW r \in Request, request[r] # NoJob, NEW job \in RequestType,
           request' = [request EXCEPT ![r] = job], job.id = request[r].id,
           request[r].dropped => job.dropped,
           job.at = "scan" => ~ job.dropped,
           job.kind = "complete" /\ (job.dropped \/ job.at = "object") =>
              job.scan \in {"failed", "infected"},
           object' \in [Attachment -> BOOLEAN],
           \A b \in Attachment : object[b] /\ ~ object'[b] => b = request[r].id /\ job.dropped,
           UNCHANGED <<row, linked, target, worker, aborted, late>>
    PROVE  StorageInv'
  <1> USE DEF StorageInv, AttachmentsInv
  <1>1. /\ request' \in [Request -> RequestType \cup {NoJob}] /\ request'[r] = job /\ job # NoJob
        /\ \A q \in Request \ {r} : request'[q] = request[q]
    BY NoJobAssumption DEF AttachmentsTypeOK
  <1>2. AttachmentsTypeOK'
    BY <1>1 DEF AttachmentsTypeOK
  <1>3. VerdictsInv'
    BY <1>1 DEF VerdictsInv
  <1>4. ClaimsInv'
    BY DEF ClaimsInv, Offered, Live
  <1>5. \A b \in Attachment : Dropping(b) => Dropping(b)'
    BY <1>1 DEF Dropping
  <1>6. CleanHasObject'
    <2> SUFFICES ASSUME NEW b \in Attachment, Live(b), row[b].scan = "clean", target[b], ~ object'[b]
                 PROVE  Dropping(b)' \/ b \in aborted \/ b \in late
      BY DEF CleanHasObject, Live
    <2>1. CASE object[b]
      <3>1. b = job.id /\ job.dropped
        BY <2>1
      <3> QED  BY <1>1, <3>1 DEF Dropping
    <2>2. CASE ~ object[b]
      BY <1>5, <2>2 DEF CleanHasObject
    <2> QED  BY <2>1, <2>2
  <1> QED  BY <1>2, <1>3, <1>4, <1>6

\* The scan, the record of its verdict and the deletion of the object.
LEMMA RequestSteps ==
    ASSUME StorageInv, NEW r \in Request,
           (\E verdict \in Verdict : Scan(r, verdict)) \/ RecordScan(r) \/ DeleteObject(r)
    PROVE  StorageInv'
  <1> USE DEF StorageInv, AttachmentsInv
  <1>0. request[r] # NoJob /\ UNCHANGED <<row, linked, target, worker, aborted, late>>
    BY DEF Scan, RecordScan, DeleteObject, At, store, history
  <1>1. /\ request[r] \in RequestType /\ request[r].id \in Attachment
        /\ request[r].scan \in ScanStatus /\ request[r].dropped \in BOOLEAN
        /\ object \in [Attachment -> BOOLEAN]
    BY <1>0, RequestFields DEF AttachmentsTypeOK
  <1>2. ASSUME NEW verdict \in Verdict, Scan(r, verdict)
        PROVE  StorageInv'
    <2>1. PICK mismatch \in BOOLEAN :
             /\ mismatch => verdict = "failed"
             /\ object' = [object EXCEPT ![request[r].id] = @ /\ ~mismatch]
             /\ request' = [request EXCEPT ![r].at = "record", ![r].scan = verdict,
                                           ![r].dropped = mismatch]
      BY <1>2 DEF Scan
    <2>2. PICK job : job = [request[r] EXCEPT !.at = "record", !.scan = verdict, !.dropped = mismatch]
      OBVIOUS
    <2>3. request' = [request EXCEPT ![r] = job]
      BY <2>1, <2>2
    <2>4. verdict \in ScanStatus
      BY DEF Verdict, ScanStatus
    <2>5. /\ job \in RequestType /\ job.id = request[r].id /\ job.at = "record"
          /\ job.scan = verdict /\ job.dropped = mismatch
      BY <1>1, <2>2, <2>4 DEF RequestType
    <2>6. ~ request[r].dropped
      BY <1>2 DEF Scan, At, VerdictsInv
    <2>7. /\ object' \in [Attachment -> BOOLEAN]
          /\ \A b \in Attachment : object[b] /\ ~ object'[b] => b = request[r].id /\ mismatch
      BY <1>1, <2>1
    <2>8. job.kind = "complete" /\ (job.dropped \/ job.at = "object") => job.scan \in {"failed", "infected"}
      BY <2>1, <2>5
    <2>9. \A b \in Attachment : object[b] /\ ~ object'[b] => b = request[r].id /\ job.dropped
      BY <2>5, <2>7
    <2> QED  BY <1>0, <2>3, <2>5, <2>6, <2>7, <2>8, <2>9, RequestGoesOn
  <1>3. CASE RecordScan(r)
    <2>1. PICK at \in {"object", "commit"} :
             /\ at = "object" => request[r].scan = "infected"
             /\ request' = [request EXCEPT ![r].wrote = TRUE, ![r].at = at]
      BY <1>3 DEF RecordScan
    <2>2. PICK job : job = [request[r] EXCEPT !.wrote = TRUE, !.at = at]
      OBVIOUS
    <2>3. request' = [request EXCEPT ![r] = job]
      BY <2>1, <2>2
    <2>4. /\ job \in RequestType /\ job.id = request[r].id /\ job.at = at /\ job.kind = request[r].kind
          /\ job.scan = request[r].scan /\ job.dropped = request[r].dropped
      BY <1>1, <2>2 DEF RequestType
    <2>5. job.kind = "complete" /\ (job.dropped \/ job.at = "object") => job.scan \in {"failed", "infected"}
      BY <1>0, <2>1, <2>4 DEF VerdictsInv
    <2>6. object' = object
      BY <1>3 DEF RecordScan, store
    <2> QED  BY <1>0, <1>1, <2>1, <2>3, <2>4, <2>5, <2>6, RequestGoesOn
  <1>4. CASE DeleteObject(r)
    <2>1. PICK job : job = [request[r] EXCEPT !.at = "commit", !.dropped = TRUE]
      OBVIOUS
    <2>2. /\ request' = [request EXCEPT ![r] = job] /\ request[r].at = "object"
          /\ object' = [object EXCEPT ![request[r].id] = FALSE]
      BY <1>4, <2>1 DEF DeleteObject
    <2>3. /\ job \in RequestType /\ job.id = request[r].id /\ job.at = "commit"
          /\ job.kind = request[r].kind /\ job.scan = request[r].scan /\ job.dropped = TRUE
      BY <1>1, <2>1 DEF RequestType
    <2>4. job.kind = "complete" => job.scan \in {"failed", "infected"}
      BY <1>0, <2>2, <2>3 DEF VerdictsInv
    <2>5. /\ object' \in [Attachment -> BOOLEAN]
          /\ \A b \in Attachment : object[b] /\ ~ object'[b] => b = request[r].id
      BY <1>1, <2>2
    <2>6. job.dropped
      BY <2>3
    <2> QED  BY <1>0, <2>2, <2>3, <2>4, <2>5, <2>6, RequestGoesOn
  <1> QED  BY <1>2, <1>3, <1>4

\* A request ends, and whatever it dropped is accounted for.
LEMMA EndSteps ==
    ASSUME StorageInv, NEW r \in Request, Commit(r) \/ RollBack(r)
    PROVE  StorageInv'
  <1> USE DEF StorageInv, AttachmentsInv
  <1>0. request[r] # NoJob /\ UNCHANGED <<object, linked, target, worker>>
    BY DEF Commit, RollBack, store
  <1>1. PICK a \in Attachment : a = request[r].id
    BY <1>0, RequestFields
  <1>2. /\ request' \in [Request -> RequestType \cup {NoJob}] /\ request'[r] = NoJob
        /\ \A q \in Request \ {r} : request'[q] = request[q]
    BY DEF AttachmentsTypeOK, Commit, RollBack, EndRequest
  <1>3. VerdictsInv'
    BY <1>2 DEF VerdictsInv
  <1>4. \A b \in Attachment : Dropping(b) => Dropping(b)' \/ (b = a /\ request[r].dropped)
    BY <1>1, <1>2 DEF Dropping
  <1>5. CASE RollBack(r)
    <2>1. /\ UNCHANGED <<row, late>>
          /\ aborted' = IF request[r].dropped THEN aborted \cup {a} ELSE aborted
      BY <1>1, <1>5 DEF RollBack
    <2>2. AttachmentsTypeOK'
      BY <1>0, <1>2, <2>1 DEF AttachmentsTypeOK
    <2>3. ClaimsInv'
      BY <1>0, <2>1 DEF ClaimsInv, Offered, Live
    <2>4. CleanHasObject'
      BY <1>0, <1>4, <2>1 DEF CleanHasObject, Live
    <2> QED  BY <1>3, <2>2, <2>3, <2>4
  <1>6. CASE Commit(r)
    <2>1. /\ request[r] \in RequestType /\ request[r].scan \in ScanStatus
          /\ row[a] \in AttachmentRow /\ row \in [Attachment -> AttachmentRow]
      BY <1>0, RequestFields, RowFields DEF AttachmentsTypeOK, AttachmentRow
    <2>2. PICK new : new = IF request[r].kind = "delete" THEN [row[a] EXCEPT !.deleted = TRUE, !.old = FALSE]
                           ELSE [row[a] EXCEPT !.scan = request[r].scan, !.old = FALSE]
      OBVIOUS
    <2>3. row' = [row EXCEPT ![a] = new]
      BY <1>1, <1>6, <2>1, <2>2 DEF Commit, AttachmentRow
    <2>4. /\ new \in AttachmentRow /\ new.state = row[a].state /\ new.attempts = row[a].attempts
          /\ request[r].kind = "delete" => new.deleted
          /\ request[r].kind # "delete" => new.scan = request[r].scan /\ new.deleted = row[a].deleted
      BY <2>1, <2>2 DEF AttachmentRow
    <2>5. row'[a] = new /\ \A b \in Attachment \ {a} : row'[b] = row[b]
      BY <2>1, <2>3
    <2>6. /\ aborted' = aborted
          /\ late' = IF request[r].scan = "clean" /\ (row[a].attempts > 0 \/ ~object[a])
                     THEN late \cup {a} ELSE late
      BY <1>1, <1>6 DEF Commit
    <2>7. row' \in [Attachment -> AttachmentRow]
      BY <2>1, <2>3, <2>4
    <2>8. AttachmentsTypeOK'
      BY <1>0, <1>2, <2>6, <2>7 DEF AttachmentsTypeOK, AttachmentRow
    <2>9. Offered(a)' => request[r].kind = "complete" /\ request[r].scan = "clean" /\ ~ request[r].dropped
      <3>1. Offered(a)' => request[r].kind # "delete" /\ request[r].scan = "clean"
        BY <2>4, <2>5 DEF Offered, Live
      <3>2. request[r].kind \in {"complete", "delete"}
        BY <2>1 DEF RequestType
      <3> QED  BY <1>0, <3>1, <3>2 DEF VerdictsInv
    <2>10. \A b \in Attachment \ {a} : Offered(b)' => Offered(b)
      BY <1>0, <2>5 DEF Offered, Live
    <2>11. ClaimsInv'
      <3> SUFFICES ASSUME NEW b \in Attachment
                   PROVE  /\ Offered(b)' /\ row'[b].attempts > 0 => b \in late'
                          /\ \A n \in Attempt : worker'[b][n] # "none" =>
                                row'[b].state = "purged" \/ n =< row'[b].attempts
        BY DEF ClaimsInv, Offered
      <3>1. row'[b].state = row[b].state /\ row'[b].attempts = row[b].attempts
        BY <2>4, <2>5
      <3>2. Offered(b)' /\ row[b].attempts > 0 => b \in late'
        BY <2>6, <2>9, <2>10 DEF ClaimsInv
      <3> QED  BY <1>0, <3>1, <3>2 DEF ClaimsInv
    <2>12. CleanHasObject'
      <3> SUFFICES ASSUME NEW b \in Attachment, Offered(b)', ~ object'[b]
                   PROVE  Dropping(b)' \/ b \in aborted' \/ b \in late'
        BY DEF CleanHasObject, Offered
      <3>1. CASE b = a
        BY <1>0, <2>6, <2>9, <3>1
      <3>2. CASE b # a
        BY <1>0, <1>4, <2>6, <2>10, <3>2 DEF CleanHasObject, Offered
      <3> QED  BY <3>1, <3>2
    <2> QED  BY <1>3, <2>8, <2>11, <2>12
  <1> QED  BY <1>5, <1>6

\* No step breaks the invariant.
LEMMA StorageStep ==
    ASSUME StorageInv, [AttachmentsNext]_attachmentVars
    PROVE  StorageInv'
  <1>1. CASE UNCHANGED attachmentVars
    BY <1>1 DEF attachmentVars, StorageInv, AttachmentsInv, AttachmentsTypeOK, CleanHasObject,
       ClaimsInv, VerdictsInv, Offered, Live, Dropping
  <1>2. CASE \E a \in Attachment : TableStep(a)
    BY <1>2, TableSteps
  <1>3. CASE \E a \in Attachment, n \in Attempt : DeleteReferences(a, n)
    BY <1>3, DeleteReferencesStep
  <1>4. CASE \E r \in Request, a \in Attachment :
                BeginCompleteUpload(r, a) \/ BeginDeleteAttachment(r, a)
    BY <1>4, BeginSteps
  <1>5. CASE \E r \in Request : RequestStep(r)
    BY <1>5, RequestSteps, EndSteps DEF RequestStep
  <1> QED  BY <1>1, <1>2, <1>3, <1>4, <1>5 DEF AttachmentsNext, WorkerStep, TableStep

\* The invariant holds in every state of the specification.
LEMMA StorageInvariant == AttachmentsSpec => []StorageInv
  <1>1. AttachmentsInit => StorageInv
    BY StorageInit
  <1>2. StorageInv /\ [AttachmentsNext]_attachmentVars => StorageInv'
    BY StorageStep
  <1> QED  BY <1>1, <1>2, PTL DEF AttachmentsSpec

\* However uploads, scans, deletions, rollbacks and the cleanup interleave, the object
\* of an attachment that is offered for download is missing only while a request that
\* deleted it commits, after such a request failed, or when its verdict came late.
THEOREM AttachmentsInvariant == AttachmentsSpec => []AttachmentsInv
  <1>1. StorageInv => AttachmentsInv
    BY DEF StorageInv
  <1> QED  BY <1>1, StorageInvariant, PTL

\* Only orphans are removed for good, by the job that made the last claim, however
\* many claims timed out before it and however many jobs are still at work.
THEOREM AttachmentsPurges == AttachmentsSpec => PurgesOrphans
  <1>1. ASSUME StorageInv, AttachmentsNext, NEW a \in Attachment, Present(a), row'[a].state = "purged"
        PROVE  /\ Live(a) /\ row[a].scan = "clean" /\ target[a] => a \in late
               /\ worker[a][row[a].attempts] # worker'[a][row[a].attempts]
    <2>0. AttachmentsTypeOK /\ row[a].state = "present" /\ row \in [Attachment -> AttachmentRow]
      BY <1>1 DEF StorageInv, AttachmentsInv, Present, AttachmentsTypeOK, AttachmentRow
    <2>1. ASSUME row' = row PROVE FALSE
      BY <1>1, <2>0, <2>1
    <2>2. ASSUME NEW r \in Request, Commit(r) PROVE FALSE
      <3>1. PICK b \in Attachment : b = request[r].id
        BY <2>0, <2>2, RequestFields DEF Commit
      <3>2. row[b] \in AttachmentRow
        BY <2>0
      <3>3. PICK new : new = IF request[r].kind = "delete" THEN [row[b] EXCEPT !.deleted = TRUE, !.old = FALSE]
                             ELSE [row[b] EXCEPT !.scan = request[r].scan, !.old = FALSE]
        OBVIOUS
      <3>4. row' = [row EXCEPT ![b] = new]
        BY <2>2, <3>1, <3>2, <3>3 DEF Commit, AttachmentRow
      <3>5. new.state = row[b].state
        BY <3>2, <3>3 DEF AttachmentRow
      <3> QED  BY <1>1, <2>0, <3>4, <3>5
    <2>3. PICK b \in Attachment : TableStep(b)
      <3>1. ASSUME NEW r \in Request, \/ \E verdict \in Verdict : Scan(r, verdict)
                                      \/ RecordScan(r) \/ DeleteObject(r) \/ RollBack(r)
            PROVE  FALSE
        BY <2>1, <3>1 DEF Scan, RecordScan, DeleteObject, RollBack
      <3>2. ASSUME NEW c \in Attachment, NEW n \in Attempt, DeleteReferences(c, n) PROVE FALSE
        BY <2>1, <3>2 DEF DeleteReferences
      <3>3. ASSUME NEW r \in Request, NEW c \in Attachment,
                   BeginCompleteUpload(r, c) \/ BeginDeleteAttachment(r, c)
            PROVE  FALSE
        BY <2>1, <3>3 DEF BeginCompleteUpload, BeginDeleteAttachment
      <3> QED  BY <1>1, <2>2, <3>1, <3>2, <3>3 DEF AttachmentsNext, WorkerStep, RequestStep, TableStep
    <2>4. row' = row \/ \E new : RowWrite(b, new)
      BY <2>0, <2>3, RowWrites DEF TableStep, Upload, DeleteTarget, Crash
    <2>5. PICK new : RowWrite(b, new)
      BY <2>1, <2>4
    <2>6. b = a /\ row'[a] = new
      BY <1>1, <2>0, <2>5 DEF RowWrite
    <2>7. PICK n \in Attempt : /\ n = row[a].attempts
                               /\ worker[a][n] = "finish" /\ worker'[a][n] # "finish"
      <3>1. row[a] # NoRow /\ new.state # row[a].state /\ new.state # "present"
        BY <1>1, <2>0, <2>6 DEF NoRow
      <3> QED  BY <2>5, <2>6, <3>1 DEF RowWrite
    <2>8. row[a].attempts > 0
      BY <2>7, AttachmentConstants DEF Attempt
    <2>9. Live(a) /\ row[a].scan = "clean" /\ target[a] => a \in late
      BY <1>1, <2>8 DEF StorageInv, ClaimsInv, Offered
    <2> QED  BY <2>7, <2>9
  <1>2. ASSUME StorageInv, [AttachmentsNext]_attachmentVars
        PROVE  [\A a \in Attachment :
                  Present(a) /\ row'[a].state = "purged" =>
                     /\ Live(a) /\ row[a].scan = "clean" /\ target[a] => a \in late
                     /\ worker[a][row[a].attempts] # worker'[a][row[a].attempts]]_attachmentVars
    BY <1>1, <1>2
  <1> QED  BY <1>2, StorageInvariant, PTL DEF AttachmentsSpec, PurgesOrphans
=============================================================================
