----------------------------- MODULE TaskGraph -----------------------------
(***************************************************************************)
(* The two graphs over the tasks of a project: subtasks (tasks.parent_id)   *)
(* and dependencies (task_dependencies), as create, update and softDelete   *)
(* of repositories/tasks.ts, replaceTaskDependencies of                     *)
(* repositories/task-dependencies.ts and the triggers of migration 0008     *)
(* change them.                                                             *)
(*                                                                          *)
(* A request is one READ COMMITTED transaction (tenant-database.interceptor)*)
(* in four steps that other requests interleave with:                       *)
(*   Begin*   the unlocked checks of its input                              *)
(*   Plan     UPDATE of the task's row (version check, the row stays locked)*)
(*            or its INSERT; the search for cycles in the proposed graph    *)
(*   InsertLinks  the changed rows of task_dependencies, each through the   *)
(*            BEFORE trigger                                                *)
(*   Commit   makes the changes visible to the others                       *)
(* A step whose check fails is Abort: the transaction rolls back.           *)
(*                                                                          *)
(* Type and lag of a dependency do not matter to the graph: an active       *)
(* dependency is the pair <<blocking, dependent>>.  The version of a row is *)
(* replaced by the answer its only reader wants: is it still the one the    *)
(* request saw (current)?                                                   *)
(***************************************************************************)
EXTENDS Naturals, FiniteSets

CONSTANTS Task, Client,
          NoTask,    \* parent_id null
          Keep,      \* the parent of a request that does not mention it
          NoOp,
          MaxDepth,  \* maxSubtaskDepth
          MaxDeps,   \* bound: dependencies one request names
          Combine    \* bound: whether one request names a parent and dependencies

ASSUME GraphConstants ==
    /\ MaxDepth \in Nat /\ MaxDeps \in Nat /\ Combine \in BOOLEAN
    /\ IsFiniteSet(Task) /\ NoTask \notin Task
    /\ Keep \notin Task \cup {NoTask}

VARIABLES
    state,     \* of each task: absent, live or deleted
    parent,    \* parent_id
    edges,     \* active dependencies
    op,        \* the request each client has open
    overtaken  \* history: what other requests committed since the open request
               \* looked at it: at the parents ("parent"), for its search of the
               \* dependencies ("search") and in the trigger ("edge")

vars == <<state, parent, edges, op, overtaken>>

Edge == Task \X Task
Op == [kind : {"create", "update", "delete"}, phase : {"checked", "planned", "written"},
       task : Task, parent : Task \cup {NoTask, Keep}, deps : SUBSET Task, named : BOOLEAN,
       current : BOOLEAN, add : SUBSET Edge, drop : SUBSET Edge, gone : SUBSET Task]

\* Every variable has its type.
TypeOK ==
    /\ state \in [Task -> {"absent", "live", "deleted"}]
    /\ parent \in [Task -> Task \cup {NoTask}]
    /\ edges \subseteq Edge
    /\ op \in [Client -> Op \cup {NoOp}]
    /\ overtaken \in [Client -> SUBSET {"parent", "search", "edge"}]

Init ==
    /\ state = [t \in Task |-> "absent"]
    /\ parent = [t \in Task |-> NoTask]
    /\ edges = {}
    /\ op = [c \in Client |-> NoOp]
    /\ overtaken = [c \in Client |-> {}]

Live(t) == state[t] = "live"

-----------------------------------------------------------------------------
(* Graphs.                                                                 *)

ClosedUnder(E, S) == \A e \in E : e[1] \in S => e[2] \in S

\* The recursive query of the trigger, and parentChain: everything E leads to
\* from t, itself included.
Reachable(E, t) ==
    {u \in Task : \A S \in SUBSET Task : t \in S /\ ClosedUnder(E, S) => u \in S}

\* Mutant: only the self-loops of the early return.
DetectSelfLoop(E) == \E e \in E : e[1] = e[2]

\* detectDependencyCycle.
DetectDependencyCycle(E) == \E e \in E : e[1] \in Reachable(E, e[2])

ParentEdges == {<<t, parent[t]>> : t \in {u \in Task : parent[u] # NoTask}}

ParentChain(p) == Reachable(ParentEdges, p)

\* Mutant: neither the parent nor its chain is compared with the task.
ParentAcceptedForgettingSelf(t, p) ==
    /\ \A u \in ParentChain(p) : Live(u)
    /\ \E u \in ParentChain(p) : parent[u] = NoTask
    /\ Cardinality(ParentChain(p)) =< MaxDepth

\* Mutant: one level too many.
ParentAcceptedTooDeep(t, p) ==
    /\ p # t
    /\ \A u \in ParentChain(p) : Live(u)
    /\ \E u \in ParentChain(p) : parent[u] = NoTask
    /\ t \notin ParentChain(p)
    /\ Cardinality(ParentChain(p)) =< MaxDepth + 1

\* The checks of a parent in validateCreateInput and validateUpdateInput: each
\* ancestor is loaded, so it is live; a chain that never ends is refused; the
\* task is not among them; and they are not too many.
ParentAccepted(t, p) ==
    /\ p # t
    /\ \A u \in ParentChain(p) : Live(u)
    /\ \E u \in ParentChain(p) : parent[u] = NoTask
    /\ t \notin ParentChain(p)
    /\ Cardinality(ParentChain(p)) =< MaxDepth

-----------------------------------------------------------------------------
(* Transactions.                                                           *)

\* The rows of tasks a request holds locked until it commits.
Locks(c) == IF op[c] = NoOp \/ op[c].phase = "checked" \/ op[c].kind = "create" THEN {}
            ELSE op[c].gone \cup {op[c].task}
LockedByOther(c, t) == \E d \in Client \ {c} : t \in Locks(d)

Begin(c, o) ==
    /\ op' = [op EXCEPT ![c] = o]
    /\ UNCHANGED <<state, parent, edges, overtaken>>

\* named: the request mentions dependencies, D being all the task shall have.
Request(kind, t, p, named, D) ==
    [kind |-> kind, phase |-> "checked", task |-> t, parent |-> p,
     deps |-> D, named |-> named, current |-> TRUE, add |-> {}, drop |-> {}, gone |-> {}]

\* validateTaskDependenciesInput: the blocking tasks are live and not the task.
DepsAccepted(t, D) == \A b \in D : b # t /\ Live(b)

\* create: a parent is optional, no dependencies are the same as none named.
BeginCreate(c, t, p, D) ==
    /\ op[c] = NoOp
    /\ state[t] = "absent" /\ \A d \in Client : op[d] # NoOp => op[d].task # t
    /\ p # Keep /\ DepsAccepted(t, D) /\ (p = NoTask \/ D = {} \/ Combine)
    /\ p \in Task => ParentAccepted(t, p)
    /\ Begin(c, Request("create", t, p, D # {}, D))

\* update: of the requests, those that name a parent or dependencies.
BeginUpdate(c, t, p, named, D) ==
    /\ op[c] = NoOp
    /\ Live(t) /\ (D # {} => named)
    /\ p # Keep \/ named
    /\ Combine \/ p = Keep \/ ~named
    /\ DepsAccepted(t, D)
    /\ p \in Task => ParentAccepted(t, p)
    /\ Begin(c, Request("update", t, p, named, D))

BeginDelete(c, t) ==
    /\ op[c] = NoOp
    /\ Live(t)
    /\ Begin(c, Request("delete", t, Keep, FALSE, {}))

Incoming(t) == {e \in edges : e[2] = t}
Desired(o) == {<<b, o.task>> : b \in o.deps}

\* The versioned UPDATE, or the INSERT, of the task; then the difference to
\* the active dependencies of the task and the search for a cycle in the graph
\* the request proposes (nothing to do when there is no difference).
Plan(c) ==
    /\ op[c] # NoOp /\ op[c].phase = "checked" /\ op[c].kind # "delete"
    /\ LET o == op[c] IN
        /\ o.kind = "update" => Live(o.task) /\ o.current /\ ~LockedByOther(c, o.task)
        /\ LET add  == IF o.named THEN Desired(o) \ Incoming(o.task) ELSE {}
               drop == IF o.named THEN Incoming(o.task) \ Desired(o) ELSE {}
           IN  /\ add \cup drop # {} =>
                     ~DetectDependencyCycle((edges \ Incoming(o.task)) \cup Desired(o))
               /\ op' = [op EXCEPT ![c].phase = IF add = {} THEN "written" ELSE "planned",
                                   ![c].add = add, ![c].drop = drop]
    /\ UNCHANGED <<state, parent, edges, overtaken>>

\* Mutant: no trigger, the search of the plan is trusted.
TriggerAbsent(o, b) == Live(b)

\* validate_task_dependency, for an inserted row: the blocking task is live
\* (the dependent one is the locked row) and not downstream of the dependent one.
TriggerAccepts(o, b) ==
    /\ Live(b)
    /\ b \notin Reachable(edges \ o.drop, o.task)

\* The removed dependencies are closed, the new ones inserted: a new look at
\* what the others have committed to the dependencies.
InsertLinks(c) ==
    /\ op[c] # NoOp /\ op[c].phase = "planned"
    /\ \A e \in op[c].add : TriggerAccepts(op[c], e[1])
    /\ op' = [op EXCEPT ![c].phase = "written"]
    /\ UNCHANGED <<state, parent, edges, overtaken>>

Subtasks(t) == {u \in Task : Live(u) /\ parent[u] = t}

\* Mutant: the dependencies of the subtasks stay open.
LinksOfFirst(gone, t) == {e \in edges : t \in {e[1], e[2]}}

\* close_deleted_task_links, for every task the request deletes.
LinksOf(gone, t) == {e \in edges : e[1] \in gone \/ e[2] \in gone}

\* softDelete: the task, its direct subtasks, and the dependencies of all.
WriteDelete(c) ==
    /\ op[c] # NoOp /\ op[c].phase = "checked" /\ op[c].kind = "delete"
    /\ LET t == op[c].task  gone == {t} \cup Subtasks(t) IN
        /\ Live(t) /\ \A u \in gone : ~LockedByOther(c, u)
        /\ op' = [op EXCEPT ![c].phase = "written", ![c].gone = gone,
                            ![c].drop = LinksOf(gone, t)]
    /\ UNCHANGED <<state, parent, edges, overtaken>>

\* What a request has looked at and relies on so far.
Looked(o) ==
    (IF o.parent # Keep \/ o.gone # {} THEN {"parent"} ELSE {})
    \cup (IF o.add = {} THEN {} ELSE {"search"})
    \cup (IF o.phase = "written" /\ (o.add # {} \/ o.kind = "delete") THEN {"edge"} ELSE {})

\* What the others find changed when a request commits.
Kinds(o) ==
    (IF o.kind = "delete" \/ o.parent # Keep THEN {"parent"} ELSE {})
    \cup (IF o.kind = "delete" \/ o.add \cup o.drop # {} THEN {"search", "edge"} ELSE {})

ParentWritten(o) ==
    IF o.kind = "delete" \/ o.parent = Keep THEN parent
    ELSE [parent EXCEPT ![o.task] = o.parent]

Commit(c) ==
    /\ op[c] # NoOp /\ op[c].phase = "written"
    /\ LET o == op[c] IN
        /\ state' = [t \in Task |->
              IF t \in o.gone THEN "deleted"
              ELSE IF o.kind = "create" /\ t = o.task THEN "live" ELSE state[t]]
        /\ parent' = ParentWritten(o)
        /\ edges' = (edges \ o.drop) \cup o.add
        /\ op' = [d \in Client |->
              IF d = c THEN NoOp
              ELSE IF op[d] # NoOp /\ o.kind = "update" /\ op[d].task = o.task
              THEN [op[d] EXCEPT !.current = FALSE] ELSE op[d]]
        /\ overtaken' = [d \in Client |->
              IF d = c \/ op[d] = NoOp THEN {} ELSE overtaken[d] \cup (Kinds(o) \cap Looked(op[d]))]

\* A failed check, a deadlock the database breaks, a lost connection.
Abort(c) ==
    /\ op[c] # NoOp
    /\ op' = [op EXCEPT ![c] = NoOp]
    /\ overtaken' = [overtaken EXCEPT ![c] = {}]
    /\ UNCHANGED <<state, parent, edges>>

DepsInput == {D \in SUBSET Task : Cardinality(D) =< MaxDeps}

Next == \E c \in Client :
    \/ \E t \in Task, p \in Task \cup {NoTask, Keep}, D \in DepsInput :
          BeginCreate(c, t, p, D) \/ \E named \in BOOLEAN : BeginUpdate(c, t, p, named, D)
    \/ \E t \in Task : BeginDelete(c, t)
    \/ Plan(c) \/ InsertLinks(c) \/ WriteDelete(c) \/ Commit(c) \/ Abort(c)

Spec == Init /\ [][Next]_vars

-----------------------------------------------------------------------------
(* What the graphs promise.                                                *)

\* There are tasks that all wait for, or are all below, one another.
Cyclic(E) == \E S \in SUBSET Task : S # {} /\ \A u \in S : \E v \in S : <<u, v>> \in E

Commits(c) == op[c] # NoOp /\ op[c].phase = "written" /\ op'[c] = NoOp
                /\ <<state, parent, edges>>' # <<state, parent, edges>>

\* Dependencies become cyclic only through a request that another one overtook
\* between its trigger and its commit: the checks miss nothing else, whatever
\* was committed between the input check, the search and the insert.
OnlyOverlapsCloseCycle ==
    [][edges' # edges /\ ~Cyclic(edges) /\ Cyclic(edges)' =>
          \E c \in Client : Commits(c) /\ "edge" \in overtaken[c]]_vars

\* Tasks become each other's ancestors only through a request that another one
\* overtook between its check of the new parent and its commit.
OnlyOverlapsCloseParents ==
    [][parent' # parent /\ ~Cyclic(ParentEdges) /\ Cyclic(ParentEdges)' =>
          \E c \in Client : Commits(c) /\ "parent" \in overtaken[c]]_vars

Dangling == {e \in edges : state[e[1]] = "deleted" \/ state[e[2]] = "deleted"}

Orphans == {t \in Task : Live(t) /\ parent[t] # NoTask /\ state[parent[t]] = "deleted"}

\* A deletion leaves nothing behind but in two cases: an active dependency on a
\* deleted task, or a live task below one, is the work of a request that another
\* one overtook, or of softDelete going only one level down.
OnlyOverlapsDangle ==
    [][/\ \A e \in Dangling' \ Dangling :
            \E c \in Client : Commits(c) /\ "edge" \in overtaken[c]
       /\ \A t \in Orphans' \ Orphans : \E c \in Client :
            /\ Commits(c)
            /\ \/ op[c].kind = "delete" /\ parent[parent[t]] = op[c].task
               \/ "parent" \in overtaken[c]]_vars

\* Once two requests have closed a cycle, no request adds a dependency without
\* breaking it, unless it was itself overtaken: the search covers the workspace.
CycleFreezesDependencies ==
    [][edges' \ edges # {} /\ Cyclic(edges) /\ Cyclic(edges)' =>
          \E c \in Client : Commits(c) /\ "search" \in overtaken[c]]_vars

Depth(t) == Cardinality(ParentChain(t)) - 1

\* A task gets deeper than the limit only with a moved subtree, whose height no
\* check measures, or by overlapping requests.
OnlySubtreesExceedDepth ==
    [][parent' # parent => \A t \in Task : Depth(t) =< MaxDepth /\ Depth(t)' > MaxDepth =>
          \E c \in Client : Commits(c) /\ (op[c].task # t \/ "parent" \in overtaken[c])]_vars
=============================================================================
