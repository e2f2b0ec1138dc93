------------------------------ MODULE TaskBoard ------------------------------
(***************************************************************************)
(* The Kanban board of one project: the columns of its top-level tasks,    *)
(* their order and the WIP limits (move, create, update and softDelete of  *)
(* packages/database/src/repositories/tasks.ts, setWipLimit of             *)
(* project-workflow.ts and the drag handler of the web client).            *)
(*                                                                         *)
(* A client asks for a move on the board as it saw it.  The server locks   *)
(* the project and the task, reads the columns and checks the limit, then  *)
(* writes: either the moved row alone, between two anchors, or, for older  *)
(* clients, every row of both columns, renumbered.  The other operations   *)
(* take neither the project's lock nor those of the rows that were read.   *)
(*                                                                         *)
(* Orders are doubles; here they are integers on a grid that has Unit      *)
(* steps between two whole numbers, and a mean is rounded onto the grid.   *)
(* A task is named by its serial number, so tasks are numbered in the      *)
(* order of creation; IdRank orders them by their ids.                     *)
(***************************************************************************)
EXTENDS Integers, FiniteSets

CONSTANTS
    Task,           \* the serial numbers 1..n
    Created,        \* how many tasks exist at first
    IdRank,         \* position of a task among the ids
    Columns,        \* the statuses that a task may have
    Client,         \* moves in progress at once
    Unit,           \* grid steps in an order of 1
    LowOrder, HighOrder, \* bound: orders stay between these
    GivenOrders,    \* bound: the orders that updates give to tasks
    Limited,        \* bound: the columns that are given limits
    Limits,         \* bound: the WIP limits in use; NoLimit is none
    Requests,       \* bound: requests that are made in all
    NoLimit, NoTask, NoOp

Order == LowOrder..HighOrder

ASSUME BoardConstants ==
    /\ IsFiniteSet(Task) /\ Task = 1..Cardinality(Task) /\ Created \in 1..Cardinality(Task)
    /\ IdRank \in [Task -> Nat] /\ \A t, u \in Task : IdRank[t] = IdRank[u] => t = u
    /\ Unit \in Nat \ {0} /\ LowOrder \in Int /\ HighOrder \in Int
    /\ \A t \in 1..Created : Unit * (t - 1) \in Order
    /\ Columns # {} /\ {"new", "gone"} \cap Columns = {} /\ Limited \subseteq Columns
    /\ Limits \subseteq Nat \ {0} /\ NoLimit \notin Limits /\ NoTask \notin Task
    /\ Requests \in Nat

VARIABLES
    card,   \* card[t]: column and order of a task; "new" before it is created
            \* and "gone" after it is deleted
    wip,    \* project_wip_limits by column
    op,     \* op[c]: the move a client is making, or NoOp
    left,   \* requests still to be made
    stale,  \* clients whose move has anchors in a column that was changed since
    late    \* clients whose move has read what was changed since

vars == <<card, wip, op, left, stale, late>>

Place == [status : Columns, order : Order]
Plans == UNION {[R -> Place] : R \in SUBSET Task}
MoveType ==
    [phase : {"ask", "move"}, task : Task, from : Columns, status : Columns,
     anchored : BOOLEAN, seen : SUBSET Task, index : Nat, before : Task \cup {NoTask}, after : Task \cup {NoTask},
     plan : Plans]
ASSUME NoOpAssumption == NoOp \notin MoveType

Off(why) == [status |-> why, order |-> 0]
On(t) == card[t].status \in Columns
Column(s) == {t \in Task : card[t].status = s}
Others(s, t) == Column(s) \ {t}

(* Cards are sorted by their orders; a key that no two of them share       *)
(* decides between equal ones.  The board shows them by IdRank.            *)
Precedes(key, t, u) ==
    card[t].order < card[u].order \/ (card[t].order = card[u].order /\ key[t] < key[u])

(* The key of the columns as the server sorts them to renumber them.       *)
Serial == [t \in Task |-> t]

(* How many cards of S come before a card, and the one shown behind k.     *)
Position(key, S, t) == Cardinality({u \in S : Precedes(key, u, t)})
OneOf(found) == IF found = {} THEN NoTask ELSE CHOOSE t \in found : TRUE
At(S, k) == OneOf({t \in S : Position(IdRank, S, t) = k})

Init ==
    /\ card = [t \in Task |-> IF t <= Created
                              THEN [status |-> CHOOSE s \in Columns : TRUE, order |-> Unit * (t - 1)]
                              ELSE Off("new")]
    /\ wip = [s \in Columns |-> NoLimit]
    /\ op = [c \in Client |-> NoOp]
    /\ left = Requests
    /\ stale = {} /\ late = {}

-----------------------------------------------------------------------------
Request == left > 0 /\ left' = left - 1

Moving(o) == o # NoOp /\ o.phase = "move"
ProjectFree == \A c \in Client : ~Moving(op[c])
RowFree(t) == \A c \in Client : ~(Moving(op[c]) /\ op[c].task = t)

Changed(R, s) == \E t \in R : card'[t] # card[t] /\ s \in {card[t].status, card'[t].status}

(* What a write to the rows R makes of the moves in progress, those of the *)
(* clients in done being over.  A request that waits for its turn is lost  *)
(* when the version of its task is no longer the expected one.  Anchors    *)
(* are stale when their column is no longer what the client saw.  A write  *)
(* without the project's lock can come between a move's reading of the     *)
(* columns and its writing, which is late then.                            *)
Touch(R, done) ==
    LET over == done \cup {c \in Client : op[c] # NoOp /\ ~Moving(op[c]) /\ op[c].task \in R}
    IN  /\ op' = [c \in Client |-> IF c \in over THEN NoOp ELSE op[c]]
        /\ stale' = {c \in Client \ over :
              c \in stale \/ (op[c] # NoOp /\ op[c].anchored /\ Changed(R, op[c].status))}
        /\ late' = {c \in Client \ over :
              c \in late \/ (Moving(op[c]) /\ (Changed(R, op[c].status) \/ Changed(R, op[c].from)))}

(* create: at the end of the project's serial numbers, in any column.      *)
Create(s) ==
    \E t \in Task :
        /\ Request
        /\ card[t] = Off("new") /\ \A u \in Task : u < t => card[u] # Off("new")
        /\ Unit * (t - 1) \in Order
        /\ card' = [card EXCEPT ![t] = [status |-> s, order |-> Unit * (t - 1)]]
        /\ Touch({t}, {})
        /\ UNCHANGED wip

(* update with the current version: a new status, which keeps the order,   *)
(* or a new order; no limit is looked at.                                  *)
Update(t, s, o) ==
    /\ Request
    /\ On(t) /\ RowFree(t)
    /\ [status |-> s, order |-> o] # card[t]
    /\ \/ o = card[t].order
       \/ s = card[t].status /\ o \in GivenOrders
    /\ card' = [card EXCEPT ![t] = [status |-> s, order |-> o]]
    /\ Touch({t}, {})
    /\ UNCHANGED wip

SoftDelete(t) ==
    /\ Request
    /\ On(t) /\ RowFree(t)
    /\ card' = [card EXCEPT ![t] = Off("gone")]
    /\ Touch({t}, {})
    /\ UNCHANGED wip

(* setWipLimit, or its removal, without the lock of the project.           *)
SetWipLimit(s, n) ==
    /\ Request
    /\ n # wip[s]
    /\ wip' = [wip EXCEPT ![s] = n]
    /\ late' = late \cup {c \in Client : Moving(op[c]) /\ op[c].status = s}
    /\ UNCHANGED <<card, op, stale>>

-----------------------------------------------------------------------------
(* onDragEnd: the card is dropped at a place of the column and the client  *)
(* names its neighbours among the cards it shows, all of the column or, on *)
(* the board of a sprint, only some; there may be none on either side.     *)
(* The web client drops a move to where the card already is, or over a     *)
(* limit that it knows; other clients of the API need not.                 *)
AskBetween(c, t, s, seen) ==
    /\ Request
    /\ On(t) /\ op[c] = NoOp /\ seen \subseteq Others(s, t)
    /\ \E i \in 0..Cardinality(seen) :
        op' = [op EXCEPT ![c] =
            [phase |-> "ask", task |-> t, from |-> card[t].status, status |-> s,
             anchored |-> TRUE, seen |-> seen, index |-> i,
             before |-> At(seen, i - 1), after |-> At(seen, i), plan |-> <<>>]]
    /\ UNCHANGED <<card, wip, stale, late>>

(* A request of an older client, which names only a place of the column.   *)
AskPlace(c, t, s) ==
    /\ Request
    /\ On(t) /\ op[c] = NoOp
    /\ \E i \in 0..Cardinality(Others(s, t)) :
        op' = [op EXCEPT ![c] =
            [phase |-> "ask", task |-> t, from |-> card[t].status, status |-> s,
             anchored |-> FALSE, seen |-> {}, index |-> i,
             before |-> NoTask, after |-> NoTask, plan |-> <<>>]]
    /\ UNCHANGED <<card, wip, stale, late>>

\* Mutant: the anchors are taken as they are sent.
NeighboursAsSent(o) == <<o.before, o.after>>

(* The neighbours the server works with: the anchors, and for an anchor    *)
(* at the end of what the client saw, the task next to it.                 *)
Neighbours(o) ==
    LET rest == Others(o.status, o.task)
        next(t, d) == At(rest, Position(IdRank, rest, t) + d)
    IN  CASE o.before # NoTask /\ o.after = NoTask -> <<o.before, next(o.before, 1)>>
          [] o.before = NoTask /\ o.after # NoTask -> <<next(o.after, -1), o.after>>
          [] OTHER -> <<o.before, o.after>>

AnchorsFound(o) == {o.before, o.after} \ {NoTask} \subseteq Column(o.status)

(* The mean of two doubles, rounded down onto the grid.                    *)
Mean(a, b) == (a + b) \div 2

TargetOrder(n) ==
    CASE n[1] # NoTask /\ n[2] # NoTask -> Mean(card[n[1]].order, card[n[2]].order)
      [] n[1] # NoTask /\ n[2] = NoTask -> card[n[1]].order + Unit
      [] n[1] = NoTask /\ n[2] # NoTask -> card[n[2]].order - Unit
      [] OTHER -> 0

\* Mutant: an order equal to a neighbour's passes.
StrictlyBetweenOrEqual(o, n) ==
    /\ n[1] # NoTask => card[n[1]].order <= o
    /\ n[2] # NoTask => o <= card[n[2]].order

(* A move that would not land strictly between its neighbours is refused:  *)
(* "column order requires maintenance".                                    *)
StrictlyBetween(o, n) ==
    /\ n[1] # NoTask => card[n[1]].order < o
    /\ n[2] # NoTask => o < card[n[2]].order

\* Mutant: the count leaves out the task that is moved in.
WithinLimitEqual(o) ==
    \/ card[o.task].status = o.status
    \/ wip[o.status] = NoLimit
    \/ Cardinality(Column(o.status)) <= wip[o.status]

(* The limit is looked at when the task changes its column.                *)
WithinLimit(o) ==
    \/ card[o.task].status = o.status
    \/ wip[o.status] = NoLimit
    \/ Cardinality(Column(o.status)) + 1 <= wip[o.status]

AnchoredPlan(o) ==
    [t \in {o.task} |-> [status |-> o.status, order |-> TargetOrder(Neighbours(o))]]

(* Where a task is spliced in: where it was dropped, or at the end of a    *)
(* column that is shorter by now.                                          *)
DropIndex(o) ==
    LET end == Cardinality(Others(o.status, o.task))
    IN  IF o.index < end THEN o.index ELSE end

(* The row of a renumbered column.                                         *)
Renumbered(s, k) == [status |-> s, order |-> Unit * k]

\* Mutant: the index is ignored.
PositionalPlanAppending(o) ==
    LET target == Others(o.status, o.task)
        source == Others(card[o.task].status, o.task)
    IN  [u \in target \cup source \cup {o.task} |->
            IF u = o.task THEN Renumbered(o.status, Cardinality(target))
            ELSE IF u \in target THEN Renumbered(o.status, Position(Serial, target, u))
            ELSE Renumbered(card[o.task].status, Position(Serial, source, u))]

\* Mutant: the source column is renumbered with the target's status.
PositionalPlanOneStatus(o) ==
    LET target == Others(o.status, o.task)
        source == Others(card[o.task].status, o.task)
        pushed(k) == IF k < DropIndex(o) THEN k ELSE k + 1
    IN  [u \in target \cup source \cup {o.task} |->
            IF u = o.task THEN Renumbered(o.status, DropIndex(o))
            ELSE IF u \in target THEN Renumbered(o.status, pushed(Position(Serial, target, u)))
            ELSE Renumbered(o.status, Position(Serial, source, u))]

(* Without anchors: take the task out of its column, splice it into the    *)
(* other, and renumber both.                                               *)
PositionalPlan(o) ==
    LET target == Others(o.status, o.task)
        source == Others(card[o.task].status, o.task)
        pushed(k) == IF k < DropIndex(o) THEN k ELSE k + 1
    IN  [u \in target \cup source \cup {o.task} |->
            IF u = o.task THEN Renumbered(o.status, DropIndex(o))
            ELSE IF u \in target THEN Renumbered(o.status, pushed(Position(Serial, target, u)))
            ELSE Renumbered(card[o.task].status, Position(Serial, source, u))]

Refused(o) ==
    \/ ~WithinLimit(o)
    \/ o.anchored /\ ~AnchorsFound(o)
    \/ o.anchored /\ AnchorsFound(o)
       /\ ~StrictlyBetween(TargetOrder(Neighbours(o)), Neighbours(o))

(* move: lock the project and the task, whose version is the expected one, *)
(* read the columns and decide what to write.                              *)
BeginMove(c) ==
    /\ op[c] # NoOp /\ op[c].phase = "ask"
    /\ ProjectFree
    /\ IF Refused(op[c])
       THEN op' = [op EXCEPT ![c] = NoOp] /\ stale' = stale \ {c}
       ELSE LET plan == IF op[c].anchored THEN AnchoredPlan(op[c]) ELSE PositionalPlan(op[c])
            IN  /\ \A t \in DOMAIN plan : plan[t].order \in Order
                /\ op' = [op EXCEPT ![c] = [@ EXCEPT !.phase = "move", !.plan = plan,
                                                     !.before = NoTask, !.after = NoTask]]
                /\ UNCHANGED stale
    /\ UNCHANGED <<card, wip, left, late>>

(* Write the rows, those that were deleted since excepted, and commit.     *)
CommitMove(c) ==
    /\ Moving(op[c])
    /\ LET rows == {t \in DOMAIN op[c].plan : On(t)}
       IN  /\ card' = [t \in Task |-> IF t \in rows THEN op[c].plan[t] ELSE card[t]]
           /\ Touch(rows, {c})
    /\ UNCHANGED <<wip, left>>

Next ==
    \/ \E s \in Columns :
        \/ Create(s)
        \/ \E t \in Task, o \in Order : Update(t, s, o)
        \/ \E c \in Client, t \in Task, seen \in SUBSET Task : AskBetween(c, t, s, seen)
        \/ \E c \in Client, t \in Task : AskPlace(c, t, s)
    \/ \E s \in Limited, n \in Limits \cup {NoLimit} : SetWipLimit(s, n)
    \/ \E t \in Task : SoftDelete(t)
    \/ \E c \in Client : BeginMove(c) \/ CommitMove(c)

Spec == Init /\ [][Next]_vars

-----------------------------------------------------------------------------
(* Every variable has its type.                                            *)
TypeOK ==
    /\ card \in [Task -> Place \cup {Off("new"), Off("gone")}]
    /\ wip \in [Columns -> Limits \cup {NoLimit}] /\ left \in 0..Requests
    /\ op \in [Client -> MoveType \cup {NoOp}]
    /\ stale \subseteq Client /\ late \subseteq Client

Commits(c) == Moving(op[c]) /\ op'[c] = NoOp
Tied(s) == \E t, u \in Column(s) : t # u /\ card[t].order = card[u].order
OrderKept(S) == \A u, v \in S : Precedes(IdRank, u, v)' <=> Precedes(IdRank, u, v)

(* What a move does is known as long as nobody overtook it: a move between *)
(* anchors needs the column the client saw, a renumbering the columns the  *)
(* server read.                                                            *)
Overtaken(c) == IF op[c].anchored THEN c \in stale ELSE c \in late

(* The cards among which a task was dropped.                               *)
Shown(o) == IF o.anchored THEN o.seen ELSE Others(o.status, o.task)

(* "remove and insert the moving task" (ADR 0009): a move that was not     *)
(* overtaken takes the task out of one column and puts it into the other   *)
(* at the place among the shown cards where the user dropped it, and       *)
(* leaves the order in which all other tasks are shown alone, although it  *)
(* computes with fractions, tie-breaks and cards that the user does not    *)
(* see.                                                                    *)
MoveIsInsertion ==
    [][\A c \in Client, t \in Task, s, r \in Columns :
        /\ Commits(c) /\ op[c].task = t /\ op[c].status = s /\ op[c].from = r
        /\ ~Overtaken(c) /\ c \notin late
        /\ ~op[c].anchored => ~Tied(s) /\ ~Tied(r)
        => /\ Column(s)' = Others(s, t) \cup {t} /\ OrderKept(Others(s, t))
           /\ Cardinality({u \in Shown(op[c]) : Precedes(IdRank, u, t)'}) = DropIndex(op[c])
           /\ r # s => Column(r)' = Others(r, t) /\ OrderKept(Others(r, t))]_vars

(* The client named both neighbours, or it showed no card of the column.   *)
BothOrNone(o) == o.seen = {} \/ o.index \in 1..(Cardinality(o.seen) - 1)

(* Two cards of a column with the same order leave no room for a third     *)
(* between them ("requires maintenance", and nothing maintains).  A move   *)
(* makes two orders equal only when it was overtaken, as when two clients  *)
(* drop a card into the same gap, or when the other card is one that the   *)
(* client did not show, and it was dropped between two shown cards or into *)
(* a column without any: at the ends of what the client shows, the server  *)
(* looks the other neighbour up itself.                                    *)
OnlyOvertakenOrHiddenTie ==
    [][\A c \in Client, t \in Task, s \in Columns :
        Commits(c) /\ op[c].task = t /\ op[c].status = s /\ ~Overtaken(c) =>
            \A u \in Column(s)' \ {t} : card'[u].order = card'[t].order =>
                op[c].anchored /\ u \notin op[c].seen /\ BothOrNone(op[c])]_vars

(* "enforced even outside the web UI" (ADR 0009) holds for moves: a move   *)
(* takes a column over its WIP limit only if an operation without the      *)
(* project's lock filled the column, or lowered its limit, after the move  *)
(* had counted.  (create and update do not look at limits at all.)         *)
OnlyLateMovesExceedWip ==
    [][\A c \in Client, s \in Columns :
        /\ Commits(c)
        /\ Cardinality(Column(s)') > Cardinality(Column(s))
        /\ wip[s] # NoLimit /\ Cardinality(Column(s)') > wip[s]
        => c \in late]_vars

(* A move changes the status of no task but its own, unless it renumbers   *)
(* columns and the other task was updated after they had been read: then   *)
(* it puts the old status back, without an automation event.               *)
OnlyLateRenumberingRevertsStatus ==
    [][\A c \in Client : Commits(c) =>
        \A u \in Task \ {op[c].task} :
            card'[u].status # card[u].status => ~op[c].anchored /\ c \in late]_vars
=============================================================================
