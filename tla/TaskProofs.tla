----------------------------- MODULE TaskProofs -----------------------------
(***************************************************************************)
(* What tasks may count on, for any number of them and of requests at once. *)
(*                                                                          *)
(* First their graphs: only overlapping requests close a cycle in either    *)
(* graph or leave something behind a deletion, a cycle freezes the          *)
(* dependencies, and only a moved subtree gets too deep.  The graph         *)
(* arguments are two lemmas, AddingEdges and DetectComplete; the rest shows *)
(* that what a request relies on, and what it found, still holds when it    *)
(* commits, unless the history says that another request changed it.        *)
(*                                                                          *)
(* Then where they come from: a form response has one task, and the serial  *)
(* numbers of a project's tasks are dense.                                  *)
(***************************************************************************)
EXTENDS TaskGraph, FormSubmissions, WorkTableProofs, FiniteSetTheorems, WellFoundedInduction

-----------------------------------------------------------------------------
(* The graphs.                                                             *)

\* The types hold at the beginning.
LEMMA InitTypeOK == Init => TypeOK
BY GraphConstants DEF Init, TypeOK, Op, Edge

\* No step breaks a type.
LEMMA NextTypeOK == TypeOK /\ [Next]_vars => TypeOK'
<1> SUFFICES ASSUME TypeOK, [Next]_vars PROVE TypeOK'
    OBVIOUS
<1> USE DEF TypeOK
<1>1. CASE UNCHANGED vars
    BY <1>1 DEF vars
<1>2. ASSUME NEW c \in Client, NEW t \in Task, NEW p \in Task \cup {NoTask, Keep},
             NEW D \in DepsInput, BeginCreate(c, t, p, D)
      PROVE  TypeOK'
    <2>1. Request("create", t, p, D # {}, D) \in Op
        BY <1>2 DEF Request, Op, DepsInput, Edge
    <2> QED BY <1>2, <2>1 DEF BeginCreate, Begin
<1>3. ASSUME NEW c \in Client, NEW t \in Task, NEW p \in Task \cup {NoTask, Keep},
             NEW D \in DepsInput, NEW named \in BOOLEAN, BeginUpdate(c, t, p, named, D)
      PROVE  TypeOK'
    <2>1. Request("update", t, p, named, D) \in Op
        BY <1>3 DEF Request, Op, DepsInput, Edge
    <2> QED BY <1>3, <2>1 DEF BeginUpdate, Begin
<1>4. ASSUME NEW c \in Client, NEW t \in Task, BeginDelete(c, t)
      PROVE  TypeOK'
    <2>1. Request("delete", t, Keep, FALSE, {}) \in Op
        BY <1>4 DEF Request, Op, Edge
    <2> QED BY <1>4, <2>1 DEF BeginDelete, Begin
<1>5. ASSUME NEW c \in Client, Plan(c) PROVE TypeOK'
    <2> DEFINE o == op[c]
               add == IF o.named THEN Desired(o) \ Incoming(o.task) ELSE {}
               drop == IF o.named THEN Incoming(o.task) \ Desired(o) ELSE {}
               new == [o EXCEPT !.phase = IF add = {} THEN "written" ELSE "planned",
                                !.add = add, !.drop = drop]
    <2>1. o \in Op
        BY <1>5 DEF Plan
    <2>2. add \in SUBSET Edge /\ drop \in SUBSET Edge
        BY <2>1 DEF Desired, Incoming, Op, Edge
    <2>3. new \in Op
        BY <2>1, <2>2 DEF Op
    <2>4. op' = [op EXCEPT ![c] = new]
        BY <1>5 DEF Plan
    <2>5. UNCHANGED <<state, parent, edges, overtaken>>
        BY <1>5 DEF Plan
    <2> HIDE DEF new
    <2> QED BY <2>3, <2>4, <2>5
<1>6. ASSUME NEW c \in Client, InsertLinks(c) PROVE TypeOK'
    <2>1. op[c] \in Op
        BY <1>6 DEF InsertLinks
    <2>2. [op[c] EXCEPT !.phase = "written"] \in Op
        BY <2>1 DEF Op
    <2> QED BY <2>2, <1>6 DEF InsertLinks
<1>7. ASSUME NEW c \in Client, WriteDelete(c) PROVE TypeOK'
    <2> DEFINE t == op[c].task
               gone == {t} \cup Subtasks(t)
    <2>1. op[c] \in Op /\ t \in Task
        BY <1>7 DEF WriteDelete, Op
    <2>2. gone \in SUBSET Task /\ LinksOf(gone, t) \in SUBSET Edge
        BY <2>1 DEF Subtasks, LinksOf
    <2>3. [op[c] EXCEPT !.phase = "written", !.gone = gone, !.drop = LinksOf(gone, t)] \in Op
        BY <2>1, <2>2 DEF Op
    <2> QED BY <2>3, <1>7 DEF WriteDelete
<1>8. ASSUME NEW c \in Client, Commit(c) PROVE TypeOK'
    <2>1. op[c] \in Op
        BY <1>8 DEF Commit
    <2>2. state' \in [Task -> {"absent", "live", "deleted"}]
        BY <1>8 DEF Commit
    <2>3. parent' \in [Task -> Task \cup {NoTask}]
        BY <1>8, <2>1 DEF Commit, ParentWritten, Op
    <2>4. edges' \subseteq Edge
        BY <1>8, <2>1 DEF Commit, Op
    <2>5. op' \in [Client -> Op \cup {NoOp}]
        <3>1. ASSUME NEW d \in Client, op[d] # NoOp
              PROVE  [op[d] EXCEPT !.current = FALSE] \in Op
            BY <3>1 DEF Op
        <3> QED BY <1>8, <3>1 DEF Commit
    <2>6. overtaken' \in [Client -> SUBSET {"parent", "search", "edge"}]
        BY <1>8 DEF Commit, Kinds
    <2> QED BY <2>2, <2>3, <2>4, <2>5, <2>6
<1>9. ASSUME NEW c \in Client, Abort(c) PROVE TypeOK'
    BY <1>9 DEF Abort
<1> HIDE DEF TypeOK
<1> QED BY <1>1, <1>2, <1>3, <1>4, <1>5, <1>6, <1>7, <1>8, <1>9 DEF Next

\* Type correctness: every variable keeps its type; in particular no request
\* ever writes the "not mentioned" mark into parent_id.
THEOREM GraphTypes == Spec => []TypeOK
<1> QED BY InitTypeOK, NextTypeOK, PTL DEF Spec

-----------------------------------------------------------------------------
\* Adding edges into x from tasks that x does not lead to closes no cycle, and
\* neither does removing edges.
LEMMA AddingEdges ==
    ASSUME NEW E \in SUBSET Edge, NEW F \in SUBSET Edge, NEW x \in Task, NEW B \in SUBSET Task,
           F \subseteq E \cup {<<b, x>> : b \in B},
           \A b \in B : b \notin Reachable(E, x),
           ~Cyclic(E)
    PROVE  ~Cyclic(F)
<1> SUFFICES ASSUME Cyclic(F) PROVE FALSE
    OBVIOUS
<1>1. PICK S \in SUBSET Task : S # {} /\ \A u \in S : \E v \in S : <<u, v>> \in F
    BY DEF Cyclic
<1>2. CASE x \notin S
    <2>1. \A u \in S : \E v \in S : <<u, v>> \in E
        BY <1>1, <1>2
    <2> QED BY <1>1, <2>1 DEF Cyclic
<1>3. CASE x \in S
    <2> DEFINE T == S \cap Reachable(E, x)
    <2>1. x \in T
        BY <1>3 DEF Reachable
    <2>2. ASSUME NEW u \in T PROVE \E v \in T : <<u, v>> \in E
        <3>1. PICK v \in S : <<u, v>> \in F
            BY <1>1, <2>2
        <3>2. <<u, v>> \in E
            BY <3>1, <2>2
        <3>3. v \in Reachable(E, x)
            <4>1. ASSUME NEW Z \in SUBSET Task, x \in Z, ClosedUnder(E, Z) PROVE v \in Z
                <5>1. u \in Z
                    BY <4>1, <2>2 DEF Reachable
                <5> QED BY <5>1, <4>1, <3>2 DEF ClosedUnder
            <4> QED BY <4>1, <1>1, <3>1 DEF Reachable
        <3> QED BY <3>1, <3>2, <3>3
    <2> QED BY <2>1, <2>2 DEF Cyclic
<1> QED BY <1>2, <1>3

-----------------------------------------------------------------------------
\* What an open request o relies on, held being what others have changed under
\* it, E the dependencies and P the parents: new dependencies lead into its task,
\* from tasks the trigger found not to be downstream of it; its task is not in the
\* chain of its new parent.
Relies(o, held, E, P) ==
    /\ o.phase = "checked" \/ o.kind = "delete" => o.add = {}
    /\ \A e \in o.add : e[2] = o.task
    /\ o.phase = "written" /\ "edge" \notin held =>
          \A e \in o.add : e[1] \notin Reachable(E \ o.drop, o.task)
    /\ o.parent \in Task /\ "parent" \notin held => o.task \notin Reachable(P, o.parent)

Reliance == \A c \in Client : op[c] # NoOp => Relies(op[c], overtaken[c], edges, ParentEdges)

\* A step that leaves the graphs and the requests of the others alone.
LEMMA OwnStep ==
    ASSUME TypeOK, Reliance, NEW c \in Client, NEW o,
           op' = [op EXCEPT ![c] = o], UNCHANGED <<parent, edges>>,
           \A d \in Client \ {c} : overtaken'[d] = overtaken[d],
           o # NoOp => Relies(o, overtaken'[c], edges', ParentEdges')
    PROVE  Reliance'
<1> SUFFICES ASSUME NEW d \in Client, op'[d] # NoOp
             PROVE  Relies(op'[d], overtaken'[d], edges', ParentEdges')
    BY DEF Reliance
<1>1. CASE d = c
    BY <1>1 DEF TypeOK
<1>2. CASE d # c
    <2>1. op'[d] = op[d] /\ overtaken'[d] = overtaken[d]
        BY <1>2 DEF TypeOK
    <2>2. Relies(op[d], overtaken[d], edges, ParentEdges)
        BY <2>1 DEF Reliance
    <2> QED BY <2>1, <2>2 DEF ParentEdges
<1> QED BY <1>1, <1>2

\* At the beginning no request is open.
LEMMA InitReliance == Init => Reliance
BY DEF Init, Reliance

\* No step takes from a request what it relies on, unless it overtakes it.
LEMMA NextReliance == TypeOK /\ Reliance /\ [Next]_vars => Reliance'
<1> SUFFICES ASSUME TypeOK, Reliance, [Next]_vars PROVE Reliance'
    OBVIOUS
<1>1. CASE UNCHANGED vars
    BY <1>1 DEF vars, Reliance, ParentEdges
<1>2. ASSUME NEW c \in Client, NEW t \in Task, NEW p \in Task \cup {NoTask, Keep},
             NEW D \in DepsInput, BeginCreate(c, t, p, D)
      PROVE  Reliance'
    <2> DEFINE o == Request("create", t, p, D # {}, D)
    <2>1. Relies(o, overtaken[c], edges, ParentEdges)
        BY <1>2 DEF BeginCreate, Relies, Request, ParentAccepted, ParentChain
    <2>2. Relies(o, overtaken'[c], edges', ParentEdges')
        BY <2>1, <1>2 DEF BeginCreate, Begin, ParentEdges
    <2> HIDE DEF o
    <2> QED BY <1>2, <2>2, OwnStep DEF BeginCreate, Begin, o
<1>3. ASSUME NEW c \in Client, NEW t \in Task, NEW p \in Task \cup {NoTask, Keep},
             NEW D \in DepsInput, NEW named \in BOOLEAN, BeginUpdate(c, t, p, named, D)
      PROVE  Reliance'
    <2> DEFINE o == Request("update", t, p, named, D)
    <2>1. Relies(o, overtaken[c], edges, ParentEdges)
        BY <1>3 DEF BeginUpdate, Relies, Request, ParentAccepted, ParentChain
    <2>2. Relies(o, overtaken'[c], edges', ParentEdges')
        BY <2>1, <1>3 DEF BeginUpdate, Begin, ParentEdges
    <2> HIDE DEF o
    <2> QED BY <1>3, <2>2, OwnStep DEF BeginUpdate, Begin, o
<1>4. ASSUME NEW c \in Client, NEW t \in Task, BeginDelete(c, t)
      PROVE  Reliance'
    <2> DEFINE o == Request("delete", t, Keep, FALSE, {})
    <2>1. Relies(o, overtaken'[c], edges', ParentEdges')
        BY GraphConstants DEF Relies, Request
    <2> HIDE DEF o
    <2> QED BY <1>4, <2>1, OwnStep DEF BeginDelete, Begin, o
<1>5. ASSUME NEW c \in Client, Plan(c) PROVE Reliance'
    <2> DEFINE o == op[c]
               add == IF o.named THEN Desired(o) \ Incoming(o.task) ELSE {}
               drop == IF o.named THEN Incoming(o.task) \ Desired(o) ELSE {}
               new == [o EXCEPT !.phase = IF add = {} THEN "written" ELSE "planned",
                                !.add = add, !.drop = drop]
    <2>1. o \in Op /\ Relies(o, overtaken[c], edges, ParentEdges) /\ o.kind # "delete"
        BY <1>5 DEF Plan, TypeOK, Reliance
    <2>2. op' = [op EXCEPT ![c] = new] /\ UNCHANGED <<parent, edges, overtaken>>
        BY <1>5 DEF Plan
    <2>3. \A e \in add : e[2] = o.task
        BY DEF Desired
    <2> HIDE DEF add, drop
    <2>4. /\ new.kind = o.kind /\ new.task = o.task /\ new.parent = o.parent
          /\ new.add = add
          /\ new.phase = IF add = {} THEN "written" ELSE "planned"
        BY <2>1 DEF Op
    <2>5. Relies(new, overtaken[c], edges, ParentEdges)
        BY <2>1, <2>3, <2>4 DEF Relies
    <2>6. Relies(new, overtaken'[c], edges', ParentEdges')
        BY <2>2, <2>5 DEF ParentEdges
    <2> HIDE DEF new
    <2> QED BY <2>2, <2>6, OwnStep
<1>6. ASSUME NEW c \in Client, InsertLinks(c) PROVE Reliance'
    <2> DEFINE new == [op[c] EXCEPT !.phase = "written"]
    <2>1. op[c] \in Op /\ Relies(op[c], overtaken[c], edges, ParentEdges)
        BY <1>6 DEF InsertLinks, TypeOK, Reliance
    <2>2. op' = [op EXCEPT ![c] = new] /\ UNCHANGED <<parent, edges, overtaken>>
        BY <1>6 DEF InsertLinks
    <2>3. \A e \in op[c].add : e[1] \notin Reachable(edges \ op[c].drop, op[c].task)
        BY <1>6 DEF InsertLinks, TriggerAccepts
    <2>4. /\ new.kind = op[c].kind /\ new.task = op[c].task /\ new.parent = op[c].parent
          /\ new.add = op[c].add /\ new.drop = op[c].drop /\ new.phase = "written"
        BY <2>1 DEF Op
    <2>5. Relies(new, overtaken[c], edges, ParentEdges)
        BY <2>1, <2>3, <2>4 DEF Relies
    <2>6. Relies(new, overtaken'[c], edges', ParentEdges')
        BY <2>2, <2>5 DEF ParentEdges
    <2> HIDE DEF new
    <2> QED BY <2>2, <2>6, OwnStep
<1>7. ASSUME NEW c \in Client, WriteDelete(c) PROVE Reliance'
    <2> DEFINE t == op[c].task
               gone == {t} \cup Subtasks(t)
               new == [op[c] EXCEPT !.phase = "written", !.gone = gone, !.drop = LinksOf(gone, t)]
    <2>1. op[c] \in Op /\ Relies(op[c], overtaken[c], edges, ParentEdges) /\ op[c].kind = "delete"
        BY <1>7 DEF WriteDelete, TypeOK, Reliance
    <2>2. op' = [op EXCEPT ![c] = new] /\ UNCHANGED <<parent, edges, overtaken>>
        BY <1>7 DEF WriteDelete
    <2> HIDE DEF gone
    <2>4. /\ new.kind = op[c].kind /\ new.task = op[c].task /\ new.parent = op[c].parent
          /\ new.add = op[c].add
        BY <2>1 DEF Op
    <2>5. Relies(new, overtaken[c], edges, ParentEdges)
        BY <2>1, <2>4 DEF Relies
    <2>6. Relies(new, overtaken'[c], edges', ParentEdges')
        BY <2>2, <2>5 DEF ParentEdges
    <2> HIDE DEF new
    <2> QED BY <2>2, <2>6, OwnStep
<1>8. ASSUME NEW c \in Client, Commit(c) PROVE Reliance'
    <2> DEFINE o == op[c]
    <2> SUFFICES ASSUME NEW d \in Client, op'[d] # NoOp
                 PROVE  Relies(op'[d], overtaken'[d], edges', ParentEdges')
        BY DEF Reliance
    <2>1. /\ d # c /\ op[d] # NoOp /\ op[d] \in Op
          /\ overtaken'[d] = overtaken[d] \cup (Kinds(o) \cap Looked(op[d]))
        BY <1>8 DEF Commit, TypeOK
    <2>2. /\ op'[d].kind = op[d].kind /\ op'[d].phase = op[d].phase
          /\ op'[d].task = op[d].task /\ op'[d].parent = op[d].parent
          /\ op'[d].add = op[d].add /\ op'[d].drop = op[d].drop
        BY <1>8, <2>1 DEF Commit, Op
    <2>3. Relies(op[d], overtaken[d], edges, ParentEdges)
        BY <2>1 DEF Reliance
    <2>4. "edge" \notin overtaken'[d] /\ op[d].phase = "written" /\ op[d].add # {}
              => "edge" \notin overtaken[d] /\ edges' = edges
        BY <1>8, <2>1 DEF Looked, Kinds, Commit
    <2>5. "parent" \notin overtaken'[d] /\ op[d].parent \in Task
              => "parent" \notin overtaken[d] /\ parent' = parent
        BY <1>8, <2>1, GraphConstants DEF Looked, Kinds, Commit, ParentWritten
    <2>6. op[d].phase = "written" /\ "edge" \notin overtaken'[d] =>
              \A e \in op[d].add : e[1] \notin Reachable(edges' \ op[d].drop, op[d].task)
        BY <2>3, <2>4 DEF Relies
    <2>7. op[d].parent \in Task /\ "parent" \notin overtaken'[d] =>
              op[d].task \notin Reachable(ParentEdges', op[d].parent)
        BY <2>3, <2>5 DEF Relies, ParentEdges
    <2> QED BY <2>2, <2>3, <2>6, <2>7 DEF Relies
<1>9. ASSUME NEW c \in Client, Abort(c) PROVE Reliance'
    BY <1>9, OwnStep DEF Abort, TypeOK
<1> QED BY <1>1, <1>2, <1>3, <1>4, <1>5, <1>6, <1>7, <1>8, <1>9 DEF Next

\* Tasks and dependencies change only in a commit.
LEMMA OnlyCommits ==
    ASSUME [Next]_vars, <<state, parent, edges>>' # <<state, parent, edges>>
    PROVE  \E c \in Client : Commit(c)
<1>1. Next
    BY DEF vars
<1>2. PICK c \in Client :
        \/ \E t \in Task, p \in Task \cup {NoTask, Keep}, D \in DepsInput :
              BeginCreate(c, t, p, D) \/ \E named \in BOOLEAN : BeginUpdate(c, t, p, named, D)
        \/ \E t \in Task : BeginDelete(c, t)
        \/ Plan(c) \/ InsertLinks(c) \/ WriteDelete(c) \/ Commit(c) \/ Abort(c)
    BY <1>1, Zenon DEF Next
<1>3. (\E o : Begin(c, o)) \/ Plan(c) \/ InsertLinks(c) \/ WriteDelete(c) \/ Commit(c) \/ Abort(c)
    BY <1>2, Zenon DEF BeginCreate, BeginUpdate, BeginDelete
<1> QED BY <1>3 DEF Begin, Plan, InsertLinks, WriteDelete, Abort

\* A commit that closes a cycle of dependencies was overtaken after its trigger.
LEMMA CycleStep ==
    ASSUME TypeOK, Reliance, [Next]_vars,
           edges' # edges, ~Cyclic(edges), Cyclic(edges')
    PROVE  \E c \in Client : Commits(c) /\ "edge" \in overtaken[c]
<1>1. PICK c \in Client : Commit(c)
    BY OnlyCommits
<1> DEFINE o == op[c]
           E == edges \ o.drop
           B == {e[1] : e \in o.add}
<1>2. /\ o # NoOp /\ o \in Op /\ o.phase = "written" /\ op'[c] = NoOp
      /\ edges' = E \cup o.add /\ Relies(o, overtaken[c], edges, ParentEdges)
    BY <1>1 DEF Commit, TypeOK, Reliance
<1>3. Commits(c)
    BY <1>2 DEF Commits
<1>4. SUFFICES ASSUME "edge" \notin overtaken[c] PROVE FALSE
    BY <1>3
<1>5. o.task \in Task /\ E \in SUBSET Edge /\ edges' \in SUBSET Edge /\ B \in SUBSET Task
    BY <1>2 DEF TypeOK, Op, Edge
<1>6. o.add \subseteq {<<b, o.task>> : b \in B}
    BY <1>2 DEF Relies, Op, Edge
<1>7. \A b \in B : b \notin Reachable(E, o.task)
    BY <1>2, <1>4 DEF Relies
<1>8. ~Cyclic(E)
    BY DEF Cyclic
<1> HIDE DEF E, B, o
<1> QED BY <1>2, <1>5, <1>6, <1>7, <1>8, AddingEdges

\* A commit that closes a cycle of parents was overtaken after its check.
LEMMA ParentStep ==
    ASSUME TypeOK, Reliance, [Next]_vars,
           parent' # parent, ~Cyclic(ParentEdges), Cyclic(ParentEdges)'
    PROVE  \E c \in Client : Commits(c) /\ "parent" \in overtaken[c]
<1>1. PICK c \in Client : Commit(c)
    BY OnlyCommits
<1> DEFINE o == op[c]
           F == ParentEdges'
<1>2. /\ o # NoOp /\ o \in Op /\ o.phase = "written" /\ op'[c] = NoOp
      /\ parent' = [parent EXCEPT ![o.task] = o.parent] /\ o.parent # Keep
      /\ Relies(o, overtaken[c], edges, ParentEdges)
    BY <1>1 DEF Commit, ParentWritten, TypeOK, Reliance
<1>3. Commits(c)
    BY <1>2 DEF Commits
<1>4. SUFFICES ASSUME "parent" \notin overtaken[c] PROVE FALSE
    BY <1>3
<1>5. o.task \in Task /\ ParentEdges \in SUBSET Edge /\ F \in SUBSET Edge
    BY <1>2 DEF TypeOK, Op, Edge, ParentEdges
<1>6. Cyclic(F)
    BY DEF Cyclic
<1>7. CASE o.parent = NoTask
    <2>1. F \subseteq ParentEdges
        BY <1>2, <1>7 DEF ParentEdges, TypeOK, Op
    <2> QED BY <2>1, <1>6 DEF Cyclic
<1>8. CASE o.parent \in Task
    <2> DEFINE B == {o.task}
    <2>1. F \subseteq ParentEdges \cup {<<b, o.parent>> : b \in B}
        BY <1>2, <1>8 DEF ParentEdges, TypeOK, Op
    <2>2. \A b \in B : b \notin Reachable(ParentEdges, o.parent)
        BY <1>2, <1>4, <1>8 DEF Relies
    <2>3. B \in SUBSET Task
        BY <1>5
    <2> HIDE DEF F, o, B
    <2> QED BY <2>1, <2>2, <2>3, <1>5, <1>6, <1>8, AddingEdges
<1> QED BY <1>2, <1>7, <1>8 DEF Op

\* What requests rely on is inductive given the types.
LEMMA RelianceInvariant == Spec => [](TypeOK /\ Reliance)
<1> QED BY InitTypeOK, NextTypeOK, InitReliance, NextReliance, PTL DEF Spec

\* The dependencies of a workspace become cyclic only when two requests overlap
\* between the trigger of one and its commit: input check, search and trigger
\* together are complete, for any number of tasks and requests.
THEOREM DependenciesAcyclicUnlessOvertaken == Spec => OnlyOverlapsCloseCycle
<1>1. TypeOK /\ Reliance /\ [Next]_vars =>
        [edges' # edges /\ ~Cyclic(edges) /\ Cyclic(edges)' =>
            \E c \in Client : Commits(c) /\ "edge" \in overtaken[c]]_vars
    BY CycleStep DEF Cyclic
<1> QED BY <1>1, RelianceInvariant, PTL DEF Spec, OnlyOverlapsCloseCycle

\* Tasks become each other's ancestors only when a request changes the parents
\* between the ancestor check of another one and its commit, for any depth limit.
THEOREM ParentsAcyclicUnlessOvertaken == Spec => OnlyOverlapsCloseParents
<1>1. TypeOK /\ Reliance /\ [Next]_vars =>
        [parent' # parent /\ ~Cyclic(ParentEdges) /\ Cyclic(ParentEdges)' =>
            \E c \in Client : Commits(c) /\ "parent" \in overtaken[c]]_vars
    BY ParentStep
<1> QED BY <1>1, RelianceInvariant, PTL DEF Spec, OnlyOverlapsCloseParents

-----------------------------------------------------------------------------
(* Deletions, existing cycles and the depth.                                *)

\* What an open request found and still finds, held being what others have
\* changed under it: the tasks it links to are live, the search found no cycle in
\* the graph it proposes, the chain of its new parent is short enough, and a
\* deletion takes along every subtask and every dependency there is.
Finds(o, held) ==
    /\ o.phase = "checked" \/ o.kind # "delete" => o.gone = {}
    /\ o.phase = "planned" => o.kind # "delete"
    /\ o.kind = "create" => o.parent # Keep
    /\ o.kind = "update" /\ o.phase # "checked" => Live(o.task)
    /\ o.kind = "delete" /\ o.phase = "written" => o.task \in o.gone
    /\ o.phase = "written" /\ "edge" \notin held =>
          /\ \A e \in o.add : Live(e[1])
          /\ \A e \in edges : e[1] \in o.gone \/ e[2] \in o.gone => e \in o.drop
    /\ o.add # {} /\ "search" \notin held =>
          ~DetectDependencyCycle((edges \ o.drop) \cup o.add)
    /\ o.parent \in Task /\ "parent" \notin held =>
          Live(o.parent) /\ Cardinality(ParentChain(o.parent)) =< MaxDepth
    /\ o.kind = "delete" /\ o.phase = "written" /\ "parent" \notin held =>
          o.gone = {o.task} \cup Subtasks(o.task)

Findings == \A c \in Client : op[c] # NoOp => Finds(op[c], overtaken[c])

\* No two requests hold the same row locked.
LocksDisjoint == \A c \in Client, d \in Client : c # d => Locks(c) \cap Locks(d) = {}

\* What a request found it still finds when nothing changed.
LEMMA FindsKept ==
    ASSUME NEW o, NEW held, UNCHANGED <<state, parent, edges>>, Finds(o, held)
    PROVE  Finds(o, held)'
BY DEF Finds, Live, ParentChain, ParentEdges, Subtasks

\* A step that leaves the tasks and the requests of the others alone.
LEMMA OwnFindings ==
    ASSUME TypeOK, Findings, NEW c \in Client, NEW o, NEW held, overtaken'[c] = held,
           op' = [op EXCEPT ![c] = o], UNCHANGED <<state, parent, edges>>,
           \A d \in Client \ {c} : overtaken'[d] = overtaken[d],
           o # NoOp => Finds(o, held)
    PROVE  Findings'
<1> SUFFICES ASSUME NEW d \in Client, op'[d] # NoOp
             PROVE  Finds(op[d], overtaken[d])'
    BY DEF Findings
<1>1. PICK n, h : n = op'[d] /\ h = overtaken'[d]
    OBVIOUS
<1>2. Finds(n, h)
    <2>1. CASE d = c
        BY <1>1, <2>1 DEF TypeOK
    <2>2. CASE d # c
        BY <1>1, <2>2 DEF TypeOK, Findings
    <2> QED BY <2>1, <2>2
<1>3. Finds(n, h)'
    BY <1>2, FindsKept
<1> QED BY <1>1, <1>3

\* The input checks find what a request relies on from its beginning.
LEMMA RequestFinds ==
    ASSUME NEW kind, NEW t, NEW p, NEW named, NEW D, NEW held,
           kind = "create" => p # Keep, p \in Task => ParentAccepted(t, p)
    PROVE  Finds(Request(kind, t, p, named, D), held)
<1>1. p \in Task => p \in ParentChain(p)
    BY DEF ParentChain, Reachable
<1>2. p \in Task => Live(p) /\ Cardinality(ParentChain(p)) =< MaxDepth
    BY <1>1 DEF ParentAccepted
<1> QED BY <1>2 DEF Finds, Request

\* No step takes from a request what it has found, unless it overtakes it.
LEMMA NextFindings ==
    ASSUME TypeOK, Reliance, Findings, LocksDisjoint, [Next]_vars
    PROVE  Findings'
<1>1. CASE UNCHANGED vars
    <2> SUFFICES ASSUME NEW d \in Client, op'[d] # NoOp
                 PROVE  Finds(op[d], overtaken[d])'
        BY DEF Findings
    <2>1. PICK n, h : n = op[d] /\ h = overtaken[d] /\ n = op'[d] /\ h = overtaken'[d]
        BY <1>1 DEF vars
    <2>2. Finds(n, h)
        BY <2>1 DEF Findings
    <2>3. Finds(n, h)'
        BY <1>1, <2>2, FindsKept DEF vars
    <2> QED BY <2>1, <2>3
<1>2. ASSUME NEW c \in Client, NEW kind, NEW t, NEW p, NEW named, NEW D,
             kind = "create" => p # Keep, p \in Task => ParentAccepted(t, p),
             Begin(c, Request(kind, t, p, named, D))
      PROVE  Findings'
    <2>1. PICK o : o = Request(kind, t, p, named, D) /\ Begin(c, o)
        BY <1>2
    <2>2. PICK held : held = overtaken[c] /\ overtaken'[c] = held
        BY <2>1 DEF Begin
    <2>3. Finds(o, held)
        BY <1>2, <2>1, RequestFinds
    <2> QED BY <2>1, <2>2, <2>3, OwnFindings DEF Begin
<1>3. ASSUME NEW c \in Client, NEW t \in Task, NEW p \in Task \cup {NoTask, Keep},
             NEW D \in DepsInput,
             BeginCreate(c, t, p, D) \/ \E named \in BOOLEAN : BeginUpdate(c, t, p, named, D)
      PROVE  Findings'
    <2>1. CASE BeginCreate(c, t, p, D)
        BY <1>2, <2>1 DEF BeginCreate
    <2>2. ASSUME NEW named \in BOOLEAN, BeginUpdate(c, t, p, named, D)
          PROVE  Findings'
        BY <1>2, <2>2 DEF BeginUpdate
    <2> QED BY <1>3, <2>1, <2>2
<1>4. ASSUME NEW c \in Client, NEW t \in Task, BeginDelete(c, t)
      PROVE  Findings'
    BY <1>2, <1>4, GraphConstants DEF BeginDelete
<1>5. ASSUME NEW c \in Client, Plan(c) PROVE Findings'
    <2> DEFINE add(o) == IF o.named THEN Desired(o) \ Incoming(o.task) ELSE {}
               drop(o) == IF o.named THEN Incoming(o.task) \ Desired(o) ELSE {}
    <2>1. PICK o, h : o = op[c] /\ h = overtaken[c]
        OBVIOUS
    <2>2. /\ o \in Op /\ o # NoOp /\ o.phase = "checked" /\ o.kind # "delete" /\ Finds(o, h)
          /\ o.kind = "update" => Live(o.task)
        BY <1>5, <2>1 DEF Plan, TypeOK, Findings
    <2>3. PICK a, r : a = add(o) /\ r = drop(o)
        OBVIOUS
    <2>4. a # {} => ~DetectDependencyCycle((edges \ r) \cup a)
        <3>1. a # {} => (edges \ r) \cup a = (edges \ Incoming(o.task)) \cup Desired(o)
            BY <2>3 DEF Incoming
        <3>2. a \cup r # {} => ~DetectDependencyCycle((edges \ Incoming(o.task)) \cup Desired(o))
            BY <1>5, <2>1, <2>3 DEF Plan
        <3> QED BY <3>1, <3>2
    <2>5. PICK n : /\ n = [o EXCEPT !.phase = IF a = {} THEN "written" ELSE "planned",
                                    !.add = a, !.drop = r]
                   /\ op' = [op EXCEPT ![c] = n]
        BY <1>5, <2>1, <2>3 DEF Plan
    <2>6. /\ n.kind = o.kind /\ n.task = o.task /\ n.parent = o.parent /\ n.gone = o.gone
          /\ n.add = a /\ n.drop = r /\ (n.phase = "written" => a = {})
        BY <2>2, <2>5 DEF Op
    <2>7. Finds(n, h)
        <3>1. o.gone = {} /\ (o.kind = "create" => o.parent # Keep)
            BY <2>2 DEF Finds
        <3> QED BY <2>2, <2>4, <2>6, <3>1 DEF Finds
    <2> QED BY <1>5, <2>1, <2>5, <2>7, OwnFindings DEF Plan
<1>6. ASSUME NEW c \in Client, InsertLinks(c) PROVE Findings'
    <2>1. PICK o, h : o = op[c] /\ h = overtaken[c]
        OBVIOUS
    <2>2. /\ o \in Op /\ o # NoOp /\ o.phase = "planned" /\ Finds(o, h)
          /\ Relies(o, h, edges, ParentEdges)
        BY <1>6, <2>1 DEF InsertLinks, TypeOK, Findings, Reliance
    <2>3. PICK n : n = [o EXCEPT !.phase = "written"] /\ op' = [op EXCEPT ![c] = n]
        BY <1>6, <2>1 DEF InsertLinks
    <2>4. /\ n.kind = o.kind /\ n.task = o.task /\ n.parent = o.parent /\ n.gone = o.gone
          /\ n.add = o.add /\ n.drop = o.drop /\ n.phase = "written"
        BY <2>2, <2>3 DEF Op
    <2>5. o.kind # "delete" /\ o.gone = {}
        BY <2>2 DEF Finds
    <2>6. \A e \in o.add : Live(e[1])
        BY <1>6, <2>1 DEF InsertLinks, TriggerAccepts
    <2>7. Finds(n, h)
        BY <2>2, <2>4, <2>5, <2>6 DEF Finds
    <2> QED BY <1>6, <2>1, <2>3, <2>7, OwnFindings DEF InsertLinks
<1>7. ASSUME NEW c \in Client, WriteDelete(c) PROVE Findings'
    <2>1. PICK o, h : o = op[c] /\ h = overtaken[c]
        OBVIOUS
    <2>2. /\ o \in Op /\ o # NoOp /\ o.phase = "checked" /\ o.kind = "delete" /\ Finds(o, h)
          /\ o.task \in Task
        BY <1>7, <2>1 DEF WriteDelete, TypeOK, Findings, Op
    <2>3. PICK gone, r : gone = {o.task} \cup Subtasks(o.task) /\ r = LinksOf(gone, o.task)
        OBVIOUS
    <2>4. PICK n : /\ n = [o EXCEPT !.phase = "written", !.gone = gone, !.drop = r]
                   /\ op' = [op EXCEPT ![c] = n]
        BY <1>7, <2>1, <2>3 DEF WriteDelete
    <2>5. /\ n.kind = o.kind /\ n.task = o.task /\ n.parent = o.parent /\ n.gone = gone
          /\ n.add = o.add /\ n.drop = r /\ n.phase = "written"
        BY <2>2, <2>4 DEF Op
    <2>6. o.add = {}
        BY <2>1, <2>2 DEF Reliance, Relies
    <2>7. \A e \in edges : e[1] \in gone \/ e[2] \in gone => e \in r
        BY <2>3 DEF LinksOf
    <2>8. Finds(n, h)
        BY <2>2, <2>3, <2>5, <2>6, <2>7 DEF Finds
    <2> QED BY <1>7, <2>1, <2>4, <2>8, OwnFindings DEF WriteDelete
<1>8. ASSUME NEW c \in Client, Abort(c) PROVE Findings'
    BY <1>8, OwnFindings DEF Abort, TypeOK
<1>9. ASSUME NEW c \in Client, Commit(c) PROVE Findings'
    <2> SUFFICES ASSUME NEW d \in Client, op'[d] # NoOp
                 PROVE  Finds(op[d], overtaken[d])'
        BY DEF Findings
    <2>1. PICK o, q, h, n, k : /\ o = op[c] /\ q = op[d] /\ h = overtaken[d]
                               /\ n = op'[d] /\ k = overtaken'[d]
        OBVIOUS
    <2>2. /\ d # c /\ q # NoOp /\ q \in Op /\ o # NoOp /\ o \in Op /\ o.phase = "written"
          /\ k = h \cup (Kinds(o) \cap Looked(q))
        BY <1>9, <2>1 DEF Commit, TypeOK
    <2>3. /\ n.kind = q.kind /\ n.phase = q.phase /\ n.task = q.task /\ n.parent = q.parent
          /\ n.add = q.add /\ n.drop = q.drop /\ n.gone = q.gone
        BY <1>9, <2>1, <2>2 DEF Commit, Op
    <2>4. /\ Finds(q, h) /\ Relies(q, h, edges, ParentEdges)
          /\ Finds(o, overtaken[c])
        BY <2>1, <2>2 DEF Findings, Reliance
    <2>5. /\ \A t \in Task : Live(t) /\ t \notin o.gone => Live(t)'
          /\ o.gone # {} => o.kind = "delete"
        BY <1>9, <2>1, <2>4 DEF Commit, Live, Finds
    <2>6. q.kind = "update" /\ q.phase # "checked" => Live(q.task)'
        <3> SUFFICES ASSUME q.kind = "update", q.phase # "checked" PROVE Live(q.task)'
            OBVIOUS
        <3>1. q.task \in Locks(d)
            BY <2>1, <2>2 DEF Locks
        <3>2. o.gone # {} => o.gone \subseteq Locks(c)
            BY <2>1, <2>2, <2>5 DEF Locks
        <3>3. q.task \notin o.gone
            BY <2>2, <3>1, <3>2 DEF LocksDisjoint
        <3>4. q.task \in Task /\ Live(q.task)
            BY <2>2, <2>4 DEF Op, Finds
        <3> QED BY <2>5, <3>3, <3>4
    <2>7. q.phase = "written" /\ "edge" \notin k =>
              /\ \A e \in q.add : Live(e[1])'
              /\ \A e \in edges' : e[1] \in q.gone \/ e[2] \in q.gone => e \in q.drop
        <3> SUFFICES ASSUME q.phase = "written", "edge" \notin k
                     PROVE  /\ \A e \in q.add : Live(e[1])'
                            /\ \A e \in edges' : e[1] \in q.gone \/ e[2] \in q.gone => e \in q.drop
            OBVIOUS
        <3>1. "edge" \notin h
            BY <2>2
        <3>2. CASE q.add = {} /\ q.kind # "delete"
            BY <2>4, <3>2 DEF Finds
        <3>3. CASE q.add # {} \/ q.kind = "delete"
            <4>1. o.kind # "delete" /\ o.add \cup o.drop = {}
                BY <2>2, <3>3 DEF Kinds, Looked
            <4>2. o.gone = {} /\ edges' = edges
                BY <1>9, <2>1, <2>5, <4>1 DEF Commit
            <4>3. \A e \in q.add : e[1] \in Task
                BY <2>2 DEF Op, Edge
            <4> QED BY <2>4, <2>5, <3>1, <4>2, <4>3 DEF Finds
        <3> QED BY <3>2, <3>3
    <2>8. q.add # {} /\ "search" \notin k =>
              ~DetectDependencyCycle((edges' \ q.drop) \cup q.add)
        <3> SUFFICES ASSUME q.add # {}, "search" \notin k
                     PROVE  ~DetectDependencyCycle((edges' \ q.drop) \cup q.add)
            OBVIOUS
        <3>1. "search" \notin h /\ o.kind # "delete" /\ o.add \cup o.drop = {}
            BY <2>2 DEF Kinds, Looked
        <3>2. edges' = edges
            BY <1>9, <2>1, <3>1 DEF Commit
        <3> QED BY <2>4, <3>1, <3>2 DEF Finds
    <2>9. q.parent # Keep \/ q.gone # {} =>
              ("parent" \notin k => "parent" \notin h /\ UNCHANGED <<state, parent>>)
        <3> SUFFICES ASSUME q.parent # Keep \/ q.gone # {}, "parent" \notin k
                     PROVE  "parent" \notin h /\ UNCHANGED <<state, parent>>
            OBVIOUS
        <3>1. "parent" \notin h /\ o.kind # "delete" /\ o.parent = Keep
            BY <2>2 DEF Kinds, Looked
        <3>2. o.gone = {} /\ o.kind # "create"
            BY <2>4, <2>5, <3>1 DEF Finds
        <3>3. parent' = parent
            BY <1>9, <2>1, <3>1 DEF Commit, ParentWritten
        <3>4. state' = state
            BY <1>9, <2>1, <3>2 DEF Commit, TypeOK
        <3> QED BY <3>1, <3>3, <3>4
    <2>10. q.parent \in Task /\ "parent" \notin k =>
              Live(q.parent)' /\ Cardinality(ParentChain(q.parent)') =< MaxDepth
        <3> SUFFICES ASSUME q.parent \in Task, "parent" \notin k
                     PROVE  Live(q.parent)' /\ Cardinality(ParentChain(q.parent)') =< MaxDepth
            OBVIOUS
        <3>1. "parent" \notin h /\ UNCHANGED <<state, parent>>
            BY <2>9, GraphConstants
        <3>2. Live(q.parent)' = Live(q.parent) /\ ParentChain(q.parent)' = ParentChain(q.parent)
            BY <3>1 DEF Live, ParentChain, ParentEdges
        <3> QED BY <2>4, <3>1, <3>2 DEF Finds
    <2>11. q.kind = "delete" /\ q.phase = "written" /\ "parent" \notin k =>
              q.gone = {q.task} \cup Subtasks(q.task)'
        <3> SUFFICES ASSUME q.kind = "delete", q.phase = "written", "parent" \notin k
                     PROVE  q.gone = {q.task} \cup Subtasks(q.task)'
            OBVIOUS
        <3>1. q.gone # {}
            BY <2>4 DEF Finds
        <3>2. "parent" \notin h /\ UNCHANGED <<state, parent>>
            BY <2>9, <3>1
        <3>3. Subtasks(q.task)' = Subtasks(q.task)
            BY <3>2 DEF Subtasks, Live
        <3> QED BY <2>4, <3>2, <3>3 DEF Finds
    <2>12. Finds(n, k)'
        BY <2>3, <2>4, <2>6, <2>7, <2>8, <2>10, <2>11 DEF Finds
    <2> QED BY <2>1, <2>12
<1> QED BY <1>1, <1>3, <1>4, <1>5, <1>6, <1>7, <1>8, <1>9 DEF Next

\* A request locks only rows that no other has locked.
LEMMA NextLocks ==
    ASSUME TypeOK, Findings, LocksDisjoint, [Next]_vars
    PROVE  LocksDisjoint'
<1>1. ASSUME NEW c \in Client, \A d \in Client \ {c} : Locks(d)' \subseteq Locks(d),
             \A t \in Locks(c)' : t \in Locks(c) \/ ~LockedByOther(c, t)
      PROVE  LocksDisjoint'
    BY <1>1 DEF LocksDisjoint, LockedByOther
<1>2. ASSUME NEW c \in Client, NEW o, op' = [op EXCEPT ![c] = o]
      PROVE  op'[c] = o /\ \A d \in Client \ {c} : Locks(d)' = Locks(d)
    BY <1>2 DEF TypeOK, Locks
<1>3. CASE UNCHANGED vars
    BY <1>3 DEF vars, LocksDisjoint, Locks
<1>4. ASSUME NEW c \in Client, NEW o, op' = [op EXCEPT ![c] = o], o = NoOp \/ o.phase = "checked"
      PROVE  LocksDisjoint'
    <2>1. Locks(c)' = {} /\ \A d \in Client \ {c} : Locks(d)' = Locks(d)
        BY <1>2, <1>4 DEF Locks
    <2> QED BY <1>1, <2>1
<1>5. ASSUME NEW c \in Client, NEW t \in Task, NEW p, NEW D,
             \/ BeginCreate(c, t, p, D) \/ BeginDelete(c, t)
             \/ \E named \in BOOLEAN : BeginUpdate(c, t, p, named, D)
      PROVE  LocksDisjoint'
    <2>1. PICK kind, q, named, E : Begin(c, Request(kind, t, q, named, E))
        BY <1>5, Zenon DEF BeginCreate, BeginUpdate, BeginDelete
    <2>2. PICK o : o = Request(kind, t, q, named, E) /\ Begin(c, o)
        BY <2>1
    <2>3. o.phase = "checked"
        BY <2>2 DEF Request
    <2> QED BY <1>4, <2>2, <2>3 DEF Begin
<1>6. ASSUME NEW c \in Client, Abort(c) PROVE LocksDisjoint'
    BY <1>4, <1>6 DEF Abort
<1>7. ASSUME NEW c \in Client, Plan(c) PROVE LocksDisjoint'
    <2>1. PICK o : o = op[c] /\ o # NoOp /\ o \in Op /\ o.phase = "checked" /\ o.kind # "delete"
        BY <1>7 DEF Plan, TypeOK
    <2>2. o.gone = {} /\ (o.kind = "update" => ~LockedByOther(c, o.task))
        BY <1>7, <2>1 DEF Plan, Findings, Finds
    <2>3. PICK n, p, a, r : /\ n = [o EXCEPT !.phase = p, !.add = a, !.drop = r]
                            /\ op' = [op EXCEPT ![c] = n]
        BY <1>7, <2>1 DEF Plan
    <2>4. n.kind = o.kind /\ n.task = o.task /\ n.gone = {}
        BY <2>1, <2>2, <2>3 DEF Op
    <2>5. \A t \in Locks(c)' : n.kind # "create" /\ t = n.task
        BY <1>2, <2>3, <2>4 DEF Locks
    <2>6. \A t \in Locks(c)' : ~LockedByOther(c, t)
        BY <2>1, <2>2, <2>4, <2>5 DEF Op
    <2> QED BY <1>1, <1>2, <2>3, <2>6
<1>8. ASSUME NEW c \in Client, InsertLinks(c) PROVE LocksDisjoint'
    <2>1. PICK o : o = op[c] /\ o # NoOp /\ o \in Op /\ o.phase = "planned"
        BY <1>8 DEF InsertLinks, TypeOK
    <2>2. PICK n : n = [o EXCEPT !.phase = "written"] /\ op' = [op EXCEPT ![c] = n]
        BY <1>8, <2>1 DEF InsertLinks
    <2>3. n.kind = o.kind /\ n.task = o.task /\ n.gone = o.gone
        BY <2>1, <2>2 DEF Op
    <2>4. Locks(c)' \subseteq Locks(c)
        BY <1>2, <2>1, <2>2, <2>3 DEF Locks
    <2> QED BY <1>1, <1>2, <2>2, <2>4
<1>9. ASSUME NEW c \in Client, WriteDelete(c) PROVE LocksDisjoint'
    <2>1. PICK o, gone : /\ o = op[c] /\ gone = {o.task} \cup Subtasks(o.task)
                         /\ o # NoOp /\ o \in Op
        BY <1>9 DEF WriteDelete, TypeOK
    <2>2. \A t \in gone : ~LockedByOther(c, t)
        BY <1>9, <2>1 DEF WriteDelete
    <2>3. PICK n, r : /\ n = [o EXCEPT !.phase = "written", !.gone = gone, !.drop = r]
                      /\ op' = [op EXCEPT ![c] = n]
        BY <1>9, <2>1 DEF WriteDelete
    <2>4. n.task = o.task /\ n.gone = gone
        BY <2>1, <2>3 DEF Op
    <2>5. Locks(c)' \subseteq gone
        BY <1>2, <2>1, <2>3, <2>4 DEF Locks
    <2> QED BY <1>1, <1>2, <2>2, <2>3, <2>5
<1>10. ASSUME NEW c \in Client, Commit(c) PROVE LocksDisjoint'
    <2>1. ASSUME NEW d \in Client \ {c} PROVE Locks(d)' \subseteq Locks(d)
        <3>1. PICK n, q : n = op'[d] /\ q = op[d]
            OBVIOUS
        <3>2. n = q \/ (q # NoOp /\ q \in Op /\ n = [q EXCEPT !.current = FALSE])
            BY <1>10, <3>1 DEF Commit, TypeOK
        <3>3. CASE n = q
            BY <3>1, <3>3 DEF Locks
        <3>4. CASE q # NoOp /\ q \in Op /\ n = [q EXCEPT !.current = FALSE]
            <4>1. /\ n.kind = q.kind /\ n.phase = q.phase /\ n.task = q.task /\ n.gone = q.gone
                BY <3>4 DEF Op
            <4> QED BY <3>1, <3>4, <4>1 DEF Locks
        <3> QED BY <3>2, <3>3, <3>4
    <2>2. Locks(c)' = {}
        BY <1>10 DEF Commit, Locks
    <2> QED BY <1>1, <2>1, <2>2
<1> QED BY <1>3, <1>5, <1>6, <1>7, <1>8, <1>9, <1>10 DEF Next

Inv == TypeOK /\ Reliance /\ Findings /\ LocksDisjoint

\* What the requests rely on and have found is inductive with the locks they hold.
LEMMA InvInvariant == Spec => []Inv
<1>1. Init => Findings /\ LocksDisjoint
    BY DEF Init, Findings, LocksDisjoint, Locks
<1>2. Inv /\ [Next]_vars => Inv'
    BY NextTypeOK, NextReliance, NextFindings, NextLocks DEF Inv
<1> QED BY <1>1, <1>2, InitTypeOK, InitReliance, PTL DEF Spec, Inv

\* What the request that commits has found.
LEMMA Committing ==
    ASSUME Inv, [Next]_vars, <<state, parent, edges>>' # <<state, parent, edges>>
    PROVE  \E c \in Client, o \in Op :
              /\ o = op[c] /\ Commit(c) /\ Commits(c) /\ o.phase = "written"
              /\ Finds(o, overtaken[c]) /\ Relies(o, overtaken[c], edges, ParentEdges)
              /\ o.task \in Task /\ \A t \in Task :
                    state'[t] = IF t \in o.gone THEN "deleted"
                                ELSE IF o.kind = "create" /\ t = o.task THEN "live" ELSE state[t]
<1>1. PICK c \in Client : Commit(c)
    BY OnlyCommits
<1>2. PICK o : o = op[c] /\ o # NoOp /\ o \in Op /\ o.phase = "written"
    BY <1>1 DEF Commit, Inv, TypeOK
<1>3. Finds(o, overtaken[c]) /\ Relies(o, overtaken[c], edges, ParentEdges)
    BY <1>2 DEF Inv, Findings, Reliance
<1>4. Commits(c)
    BY <1>1 DEF Commit, Commits
<1>5. \A t \in Task :
        state'[t] = IF t \in o.gone THEN "deleted"
                    ELSE IF o.kind = "create" /\ t = o.task THEN "live" ELSE state[t]
    BY <1>1, <1>2 DEF Commit
<1>6. o.task \in Task
    BY <1>2 DEF Op
<1> QED BY <1>1, <1>2, <1>3, <1>4, <1>5, <1>6

\* A dependency on a deleted task comes from a request that was overtaken.
LEMMA DanglingStep ==
    ASSUME Inv, [Next]_vars, NEW e \in Dangling' \ Dangling
    PROVE  \E c \in Client : Commits(c) /\ "edge" \in overtaken[c]
<1>0. TypeOK /\ e \in edges' /\ e \in Edge
    BY NextTypeOK DEF Inv, Dangling, TypeOK
<1>1. <<state, parent, edges>>' # <<state, parent, edges>>
    BY DEF Dangling
<1>2. PICK c \in Client, o \in Op :
        /\ o = op[c] /\ Commit(c) /\ Commits(c) /\ o.phase = "written"
        /\ Finds(o, overtaken[c]) /\ Relies(o, overtaken[c], edges, ParentEdges)
        /\ o.task \in Task /\ \A t \in Task :
              state'[t] = IF t \in o.gone THEN "deleted"
                          ELSE IF o.kind = "create" /\ t = o.task THEN "live" ELSE state[t]
    BY <1>1, Committing
<1>3. SUFFICES ASSUME "edge" \notin overtaken[c] PROVE FALSE
    BY <1>2
<1>4. e[1] \in Task /\ e[2] \in Task
    BY <1>0 DEF Edge
<1>5. e \in (edges \ o.drop) \cup o.add
    BY <1>0, <1>2 DEF Commit
<1>6. CASE e \in o.add
    <2>1. o.kind # "delete" /\ e[2] = o.task
        BY <1>2, <1>6 DEF Relies
    <2>2. o.gone = {} /\ Live(e[1]) /\ (o.kind = "update" => Live(o.task))
        BY <1>2, <1>3, <1>6, <2>1 DEF Finds
    <2>3. state'[e[1]] = "live" /\ state'[e[2]] = "live"
        BY <1>2, <1>4, <2>1, <2>2 DEF Live, Op
    <2> QED BY <2>3 DEF Dangling
<1>7. CASE e \in edges \ o.drop
    <2>1. e[1] \notin o.gone /\ e[2] \notin o.gone
        BY <1>2, <1>3, <1>7 DEF Finds
    <2>2. state'[e[1]] = "deleted" => state[e[1]] = "deleted"
        BY <1>2, <1>4, <2>1
    <2>3. state'[e[2]] = "deleted" => state[e[2]] = "deleted"
        BY <1>2, <1>4, <2>1
    <2> QED BY <1>7, <2>2, <2>3 DEF Dangling
<1> QED BY <1>5, <1>6, <1>7

\* A live task below a deleted one comes from a request that was overtaken, or from
\* the deletion of its grandparent.
LEMMA OrphanStep ==
    ASSUME Inv, [Next]_vars, NEW t \in Orphans' \ Orphans
    PROVE  \E c \in Client :
              /\ Commits(c)
              /\ \/ op[c].kind = "delete" /\ parent[parent[t]] = op[c].task
                 \/ "parent" \in overtaken[c]
<1>0. TypeOK /\ TypeOK' /\ t \in Task
    BY NextTypeOK DEF Inv, Orphans
<1>1. <<state, parent, edges>>' # <<state, parent, edges>>
    BY DEF Orphans, Live
<1>2. PICK c \in Client, o \in Op :
        /\ o = op[c] /\ Commit(c) /\ Commits(c) /\ o.phase = "written"
        /\ Finds(o, overtaken[c]) /\ Relies(o, overtaken[c], edges, ParentEdges)
        /\ o.task \in Task /\ \A u \in Task :
              state'[u] = IF u \in o.gone THEN "deleted"
                          ELSE IF o.kind = "create" /\ u = o.task THEN "live" ELSE state[u]
    BY <1>1, Committing
<1>3. SUFFICES ASSUME "parent" \notin overtaken[c]
               PROVE  o.kind = "delete" /\ parent[parent[t]] = o.task
    BY <1>2
<1>4. PICK p : p = parent'[t] /\ p \in Task /\ state'[p] = "deleted" /\ state'[t] = "live"
    BY <1>0 DEF Orphans, Live, TypeOK
<1>5. CASE o.kind = "delete"
    <2>1. parent' = parent /\ t \notin o.gone /\ state[t] = "live"
        BY <1>0, <1>2, <1>4, <1>5 DEF Commit, ParentWritten
    <2>2. state[p] # "deleted"
        BY <1>0, <1>4, <2>1, GraphConstants DEF Orphans, Live
    <2>3. p \in o.gone
        BY <1>2, <1>4, <1>5, <2>2
    <2>4. o.gone = {o.task} \cup Subtasks(o.task)
        BY <1>2, <1>3, <1>5 DEF Finds
    <2>5. p # o.task
        BY <1>0, <1>4, <2>1, <2>4 DEF Subtasks, Live
    <2> QED BY <1>4, <1>5, <2>1, <2>3, <2>4, <2>5 DEF Subtasks
<1>6. CASE o.kind # "delete"
    <2>1. o.gone = {}
        BY <1>2, <1>6 DEF Finds
    <2>2. state[p] = "deleted"
        BY <1>2, <1>4, <2>1
    <2>3. CASE p = parent[t]
        <3>1. state[t] # "live"
            BY <1>0, <1>4, <2>2, <2>3, GraphConstants DEF Orphans, Live
        <3>2. o.kind = "create" /\ t = o.task
            BY <1>0, <1>2, <1>4, <2>1, <3>1
        <3>3. p = o.parent
            BY <1>2, <1>4, <3>2, <1>0 DEF Commit, ParentWritten, Finds, TypeOK
        <3>4. Live(p)
            BY <1>2, <1>3, <1>4, <3>3 DEF Finds
        <3> QED BY <2>2, <3>4 DEF Live
    <2>4. CASE p # parent[t]
        <3>1. p = o.parent
            BY <1>0, <1>2, <1>4, <1>6, <2>4 DEF Commit, ParentWritten, TypeOK
        <3>2. Live(p)
            BY <1>2, <1>3, <1>4, <3>1 DEF Finds
        <3> QED BY <2>2, <3>2 DEF Live
    <2> QED BY <2>3, <2>4
<1> QED BY <1>5, <1>6

\* A deletion leaves an active dependency on a deleted task, or a live task below
\* one, only when requests overlap or when the deleted task has grandchildren:
\* softDelete and the close_deleted_task_links trigger miss nothing else, for any
\* number of tasks and requests.
THEOREM DeletionsComplete == Spec => OnlyOverlapsDangle
<1>1. Inv /\ [Next]_vars =>
        [/\ \A e \in Dangling' \ Dangling :
              \E c \in Client : Commits(c) /\ "edge" \in overtaken[c]
         /\ \A t \in Orphans' \ Orphans : \E c \in Client :
              /\ Commits(c)
              /\ \/ op[c].kind = "delete" /\ parent[parent[t]] = op[c].task
                 \/ "parent" \in overtaken[c]]_vars
    BY DanglingStep, OrphanStep
<1> QED BY <1>1, InvInvariant, PTL DEF Spec, OnlyOverlapsDangle

-----------------------------------------------------------------------------
\* What is reachable is a finite set, in which an edge leads on.
LEMMA ReachableFacts ==
    ASSUME NEW E \in SUBSET Edge, NEW u \in Task
    PROVE  /\ u \in Reachable(E, u) /\ Reachable(E, u) \subseteq Task
           /\ IsFiniteSet(Reachable(E, u)) /\ Cardinality(Reachable(E, u)) \in Nat
           /\ \A v \in Task : <<u, v>> \in E => Reachable(E, v) \subseteq Reachable(E, u)
<1>1. u \in Reachable(E, u) /\ Reachable(E, u) \subseteq Task
    BY DEF Reachable
<1>2. IsFiniteSet(Reachable(E, u))
    BY <1>1, FS_Subset, GraphConstants
<1>3. ASSUME NEW v \in Task, <<u, v>> \in E, NEW w \in Reachable(E, v)
      PROVE  w \in Reachable(E, u)
    <2>1. ASSUME NEW S \in SUBSET Task, u \in S, ClosedUnder(E, S) PROVE w \in S
        <3>1. v \in S
            BY <1>3, <2>1 DEF ClosedUnder
        <3> QED BY <1>3, <2>1, <3>1 DEF Reachable
    <2> QED BY <1>3, <2>1 DEF Reachable
<1> QED BY <1>1, <1>2, <1>3, FS_CardinalityType

\* detectDependencyCycle is complete: where it finds nothing there is no cycle.  Of
\* the tasks of a cycle, take one that leads to the fewest; the next one leads to fewer.
LEMMA DetectComplete ==
    ASSUME NEW E \in SUBSET Edge, Cyclic(E)
    PROVE  DetectDependencyCycle(E)
<1> SUFFICES ASSUME ~DetectDependencyCycle(E) PROVE FALSE
    OBVIOUS
<1>1. PICK S \in SUBSET Task : S # {} /\ \A u \in S : \E v \in S : <<u, v>> \in E
    BY DEF Cyclic
<1> DEFINE Size(u) == Cardinality(Reachable(E, u))
           T == {Size(u) : u \in S}
<1>2. T \subseteq Nat /\ T # {}
    BY <1>1, ReachableFacts
<1>3. PICK n \in T : \A m \in T : ~(<<m, n>> \in OpToRel(<, Nat))
    <2> HIDE DEF T
    <2> QED BY <1>2, NatLessThanWellFounded, WFMin
<1>4. PICK u \in S : n = Size(u)
    BY <1>3
<1>5. PICK v \in S : <<u, v>> \in E
    BY <1>1
<1>6. u \notin Reachable(E, v)
    BY <1>5 DEF DetectDependencyCycle
<1>7. /\ Reachable(E, v) \subseteq Reachable(E, u) /\ u \in Reachable(E, u)
      /\ IsFiniteSet(Reachable(E, u)) /\ Size(u) \in Nat /\ Size(v) \in Nat
    BY <1>1, <1>5, ReachableFacts
<1>8. Size(v) < Size(u)
    BY <1>6, <1>7, FS_Subset
<1>9. Size(v) \in T
    OBVIOUS
<1> HIDE DEF Size, T
<1> QED BY <1>3, <1>4, <1>7, <1>8, <1>9 DEF OpToRel

\* A dependency added to a graph with a cycle, which stays, was overtaken.
LEMMA FrozenStep ==
    ASSUME Inv, [Next]_vars, edges' \ edges # {}, Cyclic(edges')
    PROVE  \E c \in Client : Commits(c) /\ "search" \in overtaken[c]
<1>1. <<state, parent, edges>>' # <<state, parent, edges>>
    OBVIOUS
<1>2. PICK c \in Client, o \in Op :
        /\ o = op[c] /\ Commit(c) /\ Commits(c) /\ Finds(o, overtaken[c])
    BY <1>1, Committing
<1>3. SUFFICES ASSUME "search" \notin overtaken[c] PROVE FALSE
    BY <1>2
<1>4. edges' = (edges \ o.drop) \cup o.add
    BY <1>2 DEF Commit
<1>5. ~DetectDependencyCycle(edges')
    BY <1>2, <1>3, <1>4 DEF Finds
<1>6. edges' \in SUBSET Edge
    BY NextTypeOK DEF Inv, TypeOK
<1> QED BY <1>5, <1>6, DetectComplete

\* Once the dependencies are cyclic, no request adds one and leaves a cycle, unless
\* another request overtook it after its search: that search misses no cycle.
THEOREM CyclesFreezeDependencies == Spec => CycleFreezesDependencies
<1>1. Inv /\ [Next]_vars =>
        [edges' \ edges # {} /\ Cyclic(edges) /\ Cyclic(edges)' =>
            \E c \in Client : Commits(c) /\ "search" \in overtaken[c]]_vars
    BY FrozenStep DEF Cyclic
<1> QED BY <1>1, InvInvariant, PTL DEF Spec, CycleFreezesDependencies

-----------------------------------------------------------------------------
\* The chain of the task that gets a new parent is that of the parent and itself.
LEMMA DepthStep ==
    ASSUME Inv, [Next]_vars, parent' # parent, NEW t \in Task, Depth(t)' > MaxDepth
    PROVE  \E c \in Client : Commits(c) /\ (op[c].task # t \/ "parent" \in overtaken[c])
<1>0. TypeOK /\ TypeOK'
    BY NextTypeOK DEF Inv
<1>1. PICK c \in Client, o \in Op :
        /\ o = op[c] /\ Commit(c) /\ Commits(c) /\ o.task \in Task
        /\ Finds(o, overtaken[c]) /\ Relies(o, overtaken[c], edges, ParentEdges)
    BY Committing
<1>2. SUFFICES ASSUME o.task = t, "parent" \notin overtaken[c] PROVE FALSE
    BY <1>1
<1>3. o.parent # Keep /\ parent' = [parent EXCEPT ![t] = o.parent]
    BY <1>1, <1>2 DEF Commit, ParentWritten
<1>4. PICK P, F : P = ParentEdges /\ F = ParentEdges' /\ P \in SUBSET Edge /\ F \in SUBSET Edge
    <2>1. ParentEdges \in SUBSET Edge
        BY <1>0 DEF TypeOK, ParentEdges, Edge
    <2>2. ParentEdges' \in SUBSET Edge
        BY <1>0 DEF TypeOK, ParentEdges, Edge
    <2> QED BY <2>1, <2>2
<1>5. MaxDepth \in Nat /\ NoTask \notin Task
    BY GraphConstants
<1>6. ASSUME NEW Z \in SUBSET Task, t \in Z, ClosedUnder(F, Z), IsFiniteSet(Z),
             Cardinality(Z) =< MaxDepth + 1
      PROVE  FALSE
    <2>1. Reachable(F, t) \subseteq Z
        BY <1>6 DEF Reachable
    <2>2. Cardinality(Reachable(F, t)) =< Cardinality(Z)
        BY <1>6, <2>1, FS_Subset
    <2>3. Cardinality(Reachable(F, t)) \in Nat /\ Cardinality(Z) \in Nat
        BY <1>4, <1>6, ReachableFacts, FS_CardinalityType
    <2>4. Depth(t)' = Cardinality(Reachable(F, t)) - 1
        BY <1>4 DEF Depth, ParentChain
    <2> QED BY <1>5, <1>6, <2>2, <2>3, <2>4
<1>7. CASE o.parent = NoTask
    <2>1. \A e \in F : e[1] # t
        BY <1>0, <1>3, <1>4, <1>5, <1>7 DEF ParentEdges, TypeOK
    <2>2. ClosedUnder(F, {t})
        BY <2>1 DEF ClosedUnder
    <2>3. IsFiniteSet({t}) /\ Cardinality({t}) = 1
        BY FS_Singleton
    <2> QED BY <1>5, <1>6, <2>2, <2>3
<1>8. CASE o.parent \in Task
    <2>1. PICK p, Z : p = o.parent /\ Z = Reachable(P, p)
        OBVIOUS
    <2>2. /\ t \notin Z /\ Cardinality(Z) =< MaxDepth
        BY <1>1, <1>2, <1>4, <1>8, <2>1 DEF Relies, Finds, ParentChain
    <2>3. p \in Z /\ Z \subseteq Task /\ IsFiniteSet(Z) /\ Cardinality(Z) \in Nat
        BY <1>4, <1>8, <2>1, ReachableFacts
    <2>4. \A e \in F : e = <<t, p>> \/ e \in P
        BY <1>0, <1>3, <1>4, <2>1 DEF ParentEdges, TypeOK
    <2>5. ASSUME NEW e \in P, e[1] \in Z PROVE e[2] \in Z
        <3>1. e[2] \in Task
            BY <1>4, <2>5 DEF Edge
        <3>2. ASSUME NEW S \in SUBSET Task, p \in S, ClosedUnder(P, S) PROVE e[2] \in S
            <4>1. e[1] \in S
                BY <2>1, <2>5, <3>2 DEF Reachable
            <4> QED BY <2>5, <3>2, <4>1 DEF ClosedUnder
        <3> QED BY <2>1, <3>1, <3>2 DEF Reachable
    <2>6. \A e \in F : e[1] = t => e[2] = p
        BY <1>0, <1>3, <1>4, <2>1 DEF ParentEdges, TypeOK
    <2>7. ClosedUnder(F, Z \cup {t})
        BY <2>3, <2>4, <2>5, <2>6 DEF ClosedUnder
    <2>8. IsFiniteSet(Z \cup {t}) /\ Cardinality(Z \cup {t}) = Cardinality(Z) + 1
        BY <2>2, <2>3, FS_AddElement
    <2> QED BY <1>5, <1>6, <2>2, <2>3, <2>7, <2>8
<1> QED BY <1>3, <1>7, <1>8 DEF Op

\* No request puts the task it names deeper than the limit unless it was overtaken:
\* only the subtree below that task, which no check measures, can get too deep.
THEOREM DepthLimited == Spec => OnlySubtreesExceedDepth
<1>1. Inv /\ [Next]_vars =>
        [parent' # parent => \A t \in Task : Depth(t) =< MaxDepth /\ Depth(t)' > MaxDepth =>
            \E c \in Client : Commits(c) /\ (op[c].task # t \/ "parent" \in overtaken[c])]_vars
    BY DepthStep
<1> QED BY <1>1, InvInvariant, PTL DEF Spec, OnlySubtreesExceedDepth

-----------------------------------------------------------------------------
(* The tasks of form responses.                                            *)

\* A worker in the body of its loop holds a candidate.
ResponseAtHand ==
    \A w \in Workers : phase[w] \in {"create", "release"} => cur[w] \in Candidate

\* A completed response has one task and its event, and no other response has any.
ResponseTasks ==
    \A r \in Rows :
        /\ rows[r].status = "completed" => \E n \in Nat : serialOf[r] = {n}
        /\ rows[r].status # "completed" => serialOf[r] = {}
        /\ r \in events <=> rows[r].status = "completed"

FormsInv == FormsTypeOK /\ TableInv /\ ResponseAtHand /\ ResponseTasks /\ SerialsDense

\* A task draws the number after the last one, which no other task has.
LEMMA SerialStep ==
    ASSUME FormsTypeOK, SerialsDense, NEW s \in Sources, serialOf[s] = {}, AllocateSerial(s)
    PROVE  /\ nextSerial' \in Nat /\ serialOf' \in [Sources -> SUBSET Nat]
           /\ \E n \in Nat : serialOf'[s] = {n}
           /\ \A t \in Sources \ {s} : serialOf'[t] = serialOf[t]
           /\ SerialsDense'
  <1>1. nextSerial \in Nat /\ serialOf \in [Sources -> SUBSET Nat]
    BY DEF FormsTypeOK
  <1>2. PICK n \in Nat : n = nextSerial + 1
    BY <1>1
  <1>3. nextSerial' = n /\ serialOf' = [serialOf EXCEPT ![s] = {n}]
    BY <1>1, <1>2 DEF AllocateSerial
  <1>4. serialOf'[s] = {n} /\ \A t \in Sources \ {s} : serialOf'[t] = serialOf[t]
    BY <1>1, <1>3
  <1>5. serialOf' \in [Sources -> SUBSET Nat]
    BY <1>1, <1>3
  <1>6. \A x : (\E t \in Sources : x \in serialOf[t]) <=> x \in 1..nextSerial
    BY Zenon DEF SerialsDense
  <1>7. \A x : x \in 1..n <=> x \in 1..nextSerial \/ x = n
    BY <1>1, <1>2
  <1>8. n \notin 1..nextSerial
    BY <1>1, <1>2
  <1>9. \A x : (\E t \in Sources : x \in serialOf'[t]) <=> x \in 1..n
    <2>1. ASSUME NEW x, NEW t \in Sources, x \in serialOf'[t] PROVE x \in 1..n
      BY <1>4, <1>6, <1>7, <2>1
    <2>2. ASSUME NEW x, x \in 1..n PROVE \E t \in Sources : x \in serialOf'[t]
      BY <1>4, <1>6, <1>7, <2>2
    <2> QED  BY <2>1, <2>2
  <1>10. UNION {serialOf'[t] : t \in Sources} = 1..n
    BY <1>9, Zenon
  <1>11. \A t, u \in Sources : t # u => serialOf'[t] \cap serialOf'[u] = {}
    <2>1. \A t \in Sources : n \notin serialOf[t]
      BY <1>6, <1>8
    <2> QED  BY <1>4, <2>1 DEF SerialsDense
  <1>12. SerialsDense'
    BY <1>3, <1>10, <1>11 DEF SerialsDense
  <1> QED  BY <1>2, <1>3, <1>4, <1>5, <1>12

\* Every step of the job and of the API is a step of the table or leaves it alone.
LEMMA FormsStepTable ==
    ASSUME FormsTypeOK, ResponseAtHand, [FormsNext]_formsVars
    PROVE  [TableNext]_rows
  <1>1. ASSUME NEW r \in Rows, Submit(r) \/ RetryDead(r) \/ TimePasses(r)
        PROVE  [TableNext]_rows
    BY <1>1 DEF Submit, Insert, RetryDead, TimePasses, TableNext
  <1>2. ASSUME NEW w \in Workers, ClaimFormTaskCreationBatch(w)
        PROVE  [TableNext]_rows
    BY <1>2 DEF ClaimFormTaskCreationBatch, TableNext
  <1>3. ASSUME NEW w \in Workers, CreateTaskForResponse(w)
        PROVE  [TableNext]_rows
    <2>1. cur[w].id \in Rows
      BY <1>3 DEF CreateTaskForResponse, ResponseAtHand, Candidate
    <2>2. UNCHANGED rows \/ Finish(cur[w].id, "completed")
      BY <1>3, <2>1 DEF CreateTaskForResponse, Committed, Fenced, Owns, Finish, FormsTypeOK
    <2> QED  BY <2>1, <2>2 DEF TableNext, DoneStatus
  <1>4. ASSUME NEW w \in Workers, ReleaseFormTaskCreation(w)
        PROVE  [TableNext]_rows
    <2>1. cur[w].id \in Rows
      BY <1>4 DEF ReleaseFormTaskCreation, ResponseAtHand, Candidate
    <2>2. UNCHANGED rows \/ GiveBack(cur[w].id)
      BY <1>4, <2>1 DEF ReleaseFormTaskCreation, Fenced, Owns, GiveBack, FormsTypeOK
    <2> QED  BY <2>1, <2>2 DEF TableNext
  <1>5. CASE \/ \E t \in ApiTasks : ApiCreatesTask(t)
             \/ DeleteProject
             \/ \E w \in Workers : NextResponse(w) \/ Crash(w)
    BY <1>5 DEF ApiCreatesTask, DeleteProject, NextResponse, Crash
  <1>6. CASE UNCHANGED formsVars
    BY <1>6 DEF formsVars
  <1> QED  BY <1>1, <1>2, <1>3, <1>4, <1>5, <1>6 DEF FormsNext, WorkerStep

\* The invariant holds before the first response.
LEMMA FormsInitInv ==
    ASSUME FormsInit
    PROVE  FormsInv
  <1>1. TableInv
    BY TableInitInv DEF FormsInit
  <1>2. FormsTypeOK
    BY <1>1 DEF FormsInit, FormsTypeOK, TableInv, Phases
  <1>3. \A r \in Rows : rows[r].status = "absent"
    BY DEF FormsInit, TableInit, AbsentRow
  <1>4. ResponseAtHand /\ ResponseTasks
    BY <1>3 DEF FormsInit, ResponseAtHand, ResponseTasks, Sources
  <1>5. SerialsDense
    <2>1. \A s \in Sources : serialOf[s] = {}
      BY DEF FormsInit
    <2>2. UNION {serialOf[s] : s \in Sources} = {}
      BY <2>1, Zenon
    <2>3. 1..nextSerial = {}
      BY DEF FormsInit
    <2> QED  BY <2>1, <2>2, <2>3 DEF SerialsDense
  <1> QED  BY <1>1, <1>2, <1>4, <1>5 DEF FormsInv

\* Nothing but the commit of a task completes a response.
LEMMA CompletionUnchanged ==
    ASSUME FormsInv,
           \/ \E r \in Rows : Submit(r) \/ RetryDead(r) \/ TimePasses(r)
           \/ \E w \in Workers : ClaimFormTaskCreationBatch(w) \/ ReleaseFormTaskCreation(w)
    PROVE  \A r \in Rows : rows'[r].status = "completed" <=> rows[r].status = "completed"
  <1>1. rows \in [Rows -> RowType]
    BY DEF FormsInv, TableInv
  <1>2. ASSUME NEW r \in Rows, Submit(r) \/ RetryDead(r) \/ TimePasses(r), NEW q \in Rows
        PROVE  rows'[q].status = "completed" <=> rows[q].status = "completed"
    BY <1>1, <1>2 DEF Submit, Insert, InsertAll, Inserted, RetryDead, RetryDeadLetter,
       RetriedDeadLetter, TimePasses, ClaimTimesOut, TimedOut, BackoffElapses, BackedOff, RowType
  <1>3. ASSUME NEW w \in Workers, ClaimFormTaskCreationBatch(w), NEW q \in Rows
        PROVE  rows'[q].status = "completed" <=> rows[q].status = "completed"
    <2>1. PICK S \in SUBSET Rows : ClaimBatch(S)
      BY <1>3 DEF ClaimFormTaskCreationBatch
    <2>2. q \in S => rows[q].status # "completed"
      BY <2>1, Zenon DEF ClaimBatch, Claimable
    <2>3. rows'[q] = IF q \in S THEN Claimed(rows[q]) ELSE rows[q]
      BY <2>1 DEF ClaimBatch
    <2> QED  BY <2>2, <2>3 DEF Claimed
  <1>4. ASSUME NEW w \in Workers, ReleaseFormTaskCreation(w), NEW q \in Rows
        PROVE  rows'[q].status = "completed" <=> rows[q].status = "completed"
    <2>1. cur[w].id \in Rows
      BY <1>4 DEF ReleaseFormTaskCreation, FormsInv, ResponseAtHand, Candidate
    <2>2. PICK r \in Rows : r = cur[w].id
      BY <2>1
    <2>3. PICK new : new = Fenced(rows[r], cur[w].token, Released(rows[r]))
      OBVIOUS
    <2>4. rows' = [rows EXCEPT ![r] = new]
      BY <1>4, <2>2, <2>3 DEF ReleaseFormTaskCreation
    <2>5. rows[r] \in RowType
      BY <1>1
    <2>6. new.status = "completed" <=> rows[r].status = "completed"
      BY <2>3, <2>5 DEF Fenced, Owns, Released, Finished, RowType
    <2> QED  BY <1>1, <2>4, <2>6
  <1> QED  BY <1>2, <1>3, <1>4

\* The commit: serial, task, event and completed response in one.
LEMMA CommittedStep ==
    ASSUME FormsInv, NEW c \in Candidate, Owns(rows[c.id], c.token), Committed(c)
    PROVE  /\ nextSerial' \in Nat /\ serialOf' \in [Sources -> SUBSET Nat] /\ events' \subseteq Sources
           /\ ResponseTasks' /\ SerialsDense'
  <1>1. PICK r \in Rows : r = c.id
    BY DEF Candidate
  <1>2. r \in Sources /\ rows[r].status = "processing" /\ serialOf[r] = {}
    BY <1>1 DEF Owns, Sources, FormsInv, ResponseTasks
  <1>3. AllocateSerial(r) /\ events' = events \cup {r}
    BY <1>1 DEF Committed
  <1>4. /\ nextSerial' \in Nat /\ serialOf' \in [Sources -> SUBSET Nat]
        /\ \E n \in Nat : serialOf'[r] = {n}
        /\ \A t \in Sources \ {r} : serialOf'[t] = serialOf[t]
        /\ SerialsDense'
    BY <1>2, <1>3, SerialStep DEF FormsInv
  <1>5. rows'[r].status = "completed" /\ \A q \in Rows \ {r} : rows'[q] = rows[q]
    <2>1. rows \in [Rows -> RowType]
      BY DEF FormsInv, TableInv
    <2>2. rows' = [rows EXCEPT ![r] = Finished(rows[r], "completed")]
      BY <1>1 DEF Committed, Fenced
    <2> QED  BY <2>1, <2>2 DEF Finished, RowType
  <1>6. events' \subseteq Sources
    BY <1>2, <1>3 DEF FormsInv, FormsTypeOK
  <1>7. ResponseTasks'
    <2> SUFFICES ASSUME NEW q \in Rows
                 PROVE  /\ rows'[q].status = "completed" => \E n \in Nat : serialOf'[q] = {n}
                        /\ rows'[q].status # "completed" => serialOf'[q] = {}
                        /\ q \in events' <=> rows'[q].status = "completed"
      BY DEF ResponseTasks
    <2>1. CASE q = r
      BY <1>3, <1>4, <1>5, <2>1
    <2>2. CASE q # r
      BY <1>3, <1>4, <1>5, <2>2 DEF FormsInv, ResponseTasks, Sources
    <2> QED  BY <2>1, <2>2
  <1> QED  BY <1>4, <1>6, <1>7

\* A step that draws no number and completes no response.
LEMMA NoTaskStep ==
    ASSUME FormsInv, UNCHANGED taskVars,
           \A r \in Rows : rows'[r].status = "completed" <=> rows[r].status = "completed"
    PROVE  /\ nextSerial' \in Nat /\ serialOf' \in [Sources -> SUBSET Nat] /\ events' \subseteq Sources
           /\ ResponseTasks' /\ SerialsDense'
  <1>1. ResponseTasks'
    BY DEF taskVars, FormsInv, ResponseTasks
  <1>2. SerialsDense'
    BY DEF taskVars, FormsInv, SerialsDense
  <1> QED  BY <1>1, <1>2 DEF taskVars, FormsInv, FormsTypeOK

\* What becomes of the tasks in a step of the specification.
LEMMA TasksStep ==
    ASSUME FormsInv, [FormsNext]_formsVars
    PROVE  /\ nextSerial' \in Nat /\ serialOf' \in [Sources -> SUBSET Nat] /\ events' \subseteq Sources
           /\ ResponseTasks' /\ SerialsDense'
  <1>1. CASE \/ \E r \in Rows : Submit(r) \/ RetryDead(r) \/ TimePasses(r)
             \/ \E w \in Workers : ClaimFormTaskCreationBatch(w) \/ ReleaseFormTaskCreation(w)
    <2>1. UNCHANGED taskVars
      BY <1>1 DEF Submit, RetryDead, TimePasses, ClaimFormTaskCreationBatch, ReleaseFormTaskCreation
    <2> QED  BY <1>1, <2>1, CompletionUnchanged, NoTaskStep
  <1>2. CASE \/ DeleteProject \/ UNCHANGED formsVars
             \/ \E w \in Workers : NextResponse(w) \/ Crash(w)
    <2>1. UNCHANGED taskVars /\ UNCHANGED rows
      BY <1>2 DEF DeleteProject, formsVars, NextResponse, Crash
    <2> QED  BY <2>1, NoTaskStep
  <1>3. ASSUME NEW t \in ApiTasks, ApiCreatesTask(t)
        PROVE  /\ nextSerial' \in Nat /\ serialOf' \in [Sources -> SUBSET Nat]
               /\ events' \subseteq Sources /\ ResponseTasks' /\ SerialsDense'
    <2>1. t \in Sources /\ \A r \in Rows : r \in Sources \ {t}
      BY FormConstants DEF Sources
    <2>2. /\ nextSerial' \in Nat /\ serialOf' \in [Sources -> SUBSET Nat]
          /\ \A s \in Sources \ {t} : serialOf'[s] = serialOf[s]
          /\ SerialsDense'
      BY <1>3, <2>1, SerialStep DEF ApiCreatesTask, FormsInv
    <2>3. events' = events \cup {t} /\ rows' = rows
      BY <1>3 DEF ApiCreatesTask
    <2>4. ResponseTasks'
      BY <2>1, <2>2, <2>3 DEF FormsInv, ResponseTasks
    <2> QED  BY <2>1, <2>2, <2>3, <2>4 DEF FormsInv, FormsTypeOK
  <1>4. ASSUME NEW w \in Workers, CreateTaskForResponse(w)
        PROVE  /\ nextSerial' \in Nat /\ serialOf' \in [Sources -> SUBSET Nat]
               /\ events' \subseteq Sources /\ ResponseTasks' /\ SerialsDense'
    <2>1. cur[w] \in Candidate
      BY <1>4 DEF CreateTaskForResponse, FormsInv, ResponseAtHand
    <2>2. \/ UNCHANGED <<rows, taskVars>>
          \/ Owns(rows[cur[w].id], cur[w].token) /\ Committed(cur[w])
      BY <1>4 DEF CreateTaskForResponse
    <2>3. CASE UNCHANGED <<rows, taskVars>>
      BY <2>3, NoTaskStep
    <2> QED  BY <2>1, <2>2, <2>3, CommittedStep
  <1> QED  BY <1>1, <1>2, <1>3, <1>4 DEF FormsNext, WorkerStep

\* What becomes of the workers.
LEMMA WorkersStep ==
    ASSUME FormsInv, [FormsNext]_formsVars
    PROVE  /\ phase' \in [Workers -> Phases] /\ batch' \in [Workers -> SUBSET Candidate]
           /\ cur' \in [Workers -> Candidate \cup {NoCandidate}] /\ projectOpen' \in BOOLEAN
           /\ ResponseAtHand'
  <1> DEFINE Goal == /\ phase' \in [Workers -> Phases] /\ batch' \in [Workers -> SUBSET Candidate]
                     /\ cur' \in [Workers -> Candidate \cup {NoCandidate}] /\ projectOpen' \in BOOLEAN
                     /\ ResponseAtHand'
  <1>0. /\ phase \in [Workers -> Phases] /\ batch \in [Workers -> SUBSET Candidate]
        /\ cur \in [Workers -> Candidate \cup {NoCandidate}] /\ projectOpen \in BOOLEAN
        /\ ResponseAtHand /\ rows \in [Rows -> RowType]
    BY DEF FormsInv, FormsTypeOK
  <1>1. ASSUME UNCHANGED workerVars, projectOpen' \in BOOLEAN PROVE Goal
    BY <1>0, <1>1 DEF workerVars, ResponseAtHand
  <1>2. CASE \/ \E r \in Rows : Submit(r) \/ RetryDead(r) \/ TimePasses(r)
             \/ \E t \in ApiTasks : ApiCreatesTask(t)
             \/ DeleteProject \/ UNCHANGED formsVars
    BY <1>0, <1>1, <1>2
    DEF Submit, RetryDead, TimePasses, ApiCreatesTask, DeleteProject, formsVars
  <1>3. ASSUME NEW w \in Workers, Goto(w, "release"), phase[w] = "create", UNCHANGED projectOpen
        PROVE  Goal
    BY <1>0, <1>3 DEF Goto, Phases, ResponseAtHand
  <1>4. ASSUME NEW w \in Workers, Continue(w), UNCHANGED projectOpen
        PROVE  Goal
    BY <1>0, <1>4 DEF Continue, Phases, ResponseAtHand
  <1>5. ASSUME NEW w \in Workers, CreateTaskForResponse(w) \/ ReleaseFormTaskCreation(w)
        PROVE  Goal
    BY <1>3, <1>4, <1>5 DEF CreateTaskForResponse, ReleaseFormTaskCreation
  <1>6. ASSUME NEW w \in Workers, NextResponse(w) \/ Crash(w)
        PROVE  Goal
    BY <1>0, <1>6 DEF NextResponse, Crash, Phases, ResponseAtHand
  <1>7. ASSUME NEW w \in Workers, ClaimFormTaskCreationBatch(w)
        PROVE  Goal
    <2>1. PICK S \in SUBSET Rows : batch' = [batch EXCEPT ![w] =
             {[id |-> r, token |-> Claimed(rows[r]).token] : r \in S}]
      BY <1>7 DEF ClaimFormTaskCreationBatch
    <2>2. \A r \in Rows : Claimed(rows[r]).token \in Nat
      BY <1>0 DEF Claimed, RowType
    <2>3. batch' \in [Workers -> SUBSET Candidate]
      BY <1>0, <2>1, <2>2 DEF Candidate
    <2> QED  BY <1>0, <1>7, <2>3 DEF ClaimFormTaskCreationBatch, Phases, ResponseAtHand
  <1> QED  BY <1>2, <1>5, <1>6, <1>7 DEF FormsNext, WorkerStep

\* No step breaks the invariant.
LEMMA FormsInvStep ==
    ASSUME FormsInv, [FormsNext]_formsVars
    PROVE  FormsInv'
  <1>1. [TableNext]_rows
    BY FormsStepTable DEF FormsInv
  <1>2. TableInv'
    BY <1>1, TableInvStep DEF FormsInv
  <1>3. FormsTypeOK'
    BY <1>2, TasksStep, WorkersStep DEF FormsTypeOK, TableInv
  <1> QED  BY <1>2, <1>3, TasksStep, WorkersStep DEF FormsInv

\* The invariant holds in every state of the specification.
LEMMA FormsInvHolds == FormsSpec => []FormsInv
  <1>1. FormsInit => FormsInv
    BY FormsInitInv
  <1>2. FormsInv /\ [FormsNext]_formsVars => FormsInv'
    BY FormsInvStep
  <1> QED  BY <1>1, <1>2, PTL DEF FormsSpec

\* However often a response is claimed, taken over, retried or committed with a lost
\* answer, it has one task and one event exactly when it reads completed; and the
\* numbers that the worker and the API hand out are 1, 2, 3, ... without a gap or a
\* repetition.
THEOREM FormsInvariant == FormsSpec => []SubmissionsInv
  <1>1. FormsInv => SubmissionsInv
    <2> SUFFICES ASSUME FormsInv PROVE SubmissionsInv
      OBVIOUS
    <2>1. ASSUME NEW r \in Rows
          PROVE  Cardinality(serialOf[r]) = IF rows[r].status = "completed" THEN 1 ELSE 0
      <3>1. CASE rows[r].status = "completed"
        <4>1. PICK n : serialOf[r] = {n}
          BY <3>1 DEF FormsInv, ResponseTasks
        <4>2. Cardinality(serialOf[r]) = 1
          BY <4>1, FS_Singleton
        <4> QED  BY <3>1, <4>2
      <3>2. CASE rows[r].status # "completed"
        <4>1. serialOf[r] = {}
          BY <3>2 DEF FormsInv, ResponseTasks
        <4>2. Cardinality(serialOf[r]) = 0
          BY <4>1, FS_EmptySet
        <4> QED  BY <3>2, <4>2
      <3> QED  BY <3>1, <3>2
    <2> QED  BY <2>1 DEF FormsInv, ResponseTasks, SubmissionsInv, OneTaskPerResponse
  <1> QED  BY <1>1, FormsInvHolds, PTL

\* The worker implements the abstract work table.
THEOREM FormsImplementTable == FormsSpec => ImplementsWorkTable
  <1>1. FormsInit => TableInit
    BY DEF FormsInit
  <1>2. FormsInv /\ [FormsNext]_formsVars => [TableNext]_rows
    BY FormsStepTable DEF FormsInv
  <1> QED  BY <1>1, <1>2, FormsInvHolds, PTL DEF FormsSpec, TableSpec, ImplementsWorkTable
=============================================================================
