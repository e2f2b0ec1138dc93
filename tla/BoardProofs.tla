----------------------------- MODULE BoardProofs -----------------------------
(***************************************************************************)
(* The board and the automation rules, for any number of tasks, columns,   *)
(* clients, workers, rules and events.                                     *)
(*                                                                         *)
(* The automation rules that changes of a task set off: each acts once per *)
(* event, on what the event saw, and no change goes unnoticed.             *)
(*                                                                         *)
(* The moves of cards between the columns: what a move writes after it has *)
(* read the board is what the user meant, unless it was overtaken.  The    *)
(* argument is about the positions of cards in a sorted column, of which   *)
(* Positions says what is needed.                                          *)
(***************************************************************************)
EXTENDS AutomationEvents, TaskBoard, WorkTableProofs, FiniteSetTheorems, WellFoundedInduction

-----------------------------------------------------------------------------
(* The automation rules.                                                   *)

\* The events of changes of status.
Changes == {e \in Rows : Present(e) /\ event[e].trigger = "task_status_changed"}

\* An event is written with its row, and has receipts and children only from then
\* on; the changes can be counted.
RecordsInv ==
    /\ \A e \in Rows :
          /\ rows[e].status = "absent" <=> ~ Present(e)
          /\ ~ Present(e) => \A rule \in Rules : receipt[e][rule] = "none"
          /\ Present(e) /\ event[e].parent # NoEvent => Present(event[e].parent)
    /\ IsFiniteSet(Changes)

\* While none of the rules of an event failed, each that nobody edits is still to
\* be run or has its receipt.
NoRuleForgotten(w) ==
    \A i \in DOMAIN RuleOrder :
        RuleOrder[i] \notin EditedRules /\ RuleOrder[i].on = event[cur[w].id].trigger =>
            i \in todo[w] \/ receipt[cur[w].id][RuleOrder[i]] # "none"

\* A worker is at events that were written, and runs rules below the limit only.
WorkOK(w) ==
    /\ \A c \in batch[w] : Present(c.id)
    /\ phase[w] \in {"run", "skip", "release"} => cur[w] \in Candidate /\ Present(cur[w].id)
    /\ phase[w] = "run" => event[cur[w].id].depth < MaxDepth
    /\ phase[w] = "run" /\ ~ failed[w] => NoRuleForgotten(w)

WorkInv == \A w \in Workers : WorkOK(w)

EngineInv ==
    AutomationsInv /\ TableInv /\ RecordsInv /\ WorkInv /\ Rules \ EditedRules \subseteq enabled

-----------------------------------------------------------------------------
\* The loop over the rules takes one of those that are left.
LEMMA FirstIsOne ==
    ASSUME NEW S \in SUBSET DOMAIN RuleOrder, S # {}
    PROVE  First(S) \in S
  <1>1. S \subseteq Nat
    BY AutomationConstants
  <1>2. PICK i \in S : \A j \in S : ~ (<<j, i>> \in OpToRel(<, Nat))
    BY <1>1, NatLessThanWellFounded, WFMin
  <1>3. \A j \in S : ~ (j < i)
    BY <1>1, <1>2 DEF OpToRel
  <1>4. \A j \in S : i =< j
    BY <1>1, <1>3
  <1> QED  BY <1>4 DEF First

\* What a rule is.
LEMMA RuleFacts ==
    ASSUME NEW i \in DOMAIN RuleOrder
    PROVE  /\ RuleOrder[i] \in Rules /\ RuleOrder[i].on \in Triggers
           /\ RuleOrder[i].set \in Statuses \cup {"keep"} /\ RuleOrder[i].comment \in BOOLEAN
  <1>1. RuleOrder[i] \in Rules
    BY DEF Rules
  <1> DEFINE RuleType == [on : Triggers, when : SUBSET Statuses,
                          set : Statuses \cup {"keep"}, comment : BOOLEAN]
  <1>2. RuleOrder[i] \in RuleType
    <2>1. RuleOrder \in Seq(RuleType)
      BY AutomationConstants
    <2> HIDE DEF RuleType
    <2> QED  BY <2>1
  <1> QED  BY <1>1, <1>2

\* The events of a transaction get ids of their own, together with their rows, and
\* leave those of others alone.
LEMMA EventsWritten ==
    ASSUME AutomationsTypeOK, NEW new \in SUBSET EventType, InsertEvents(new)
    PROVE  \E ids \in SUBSET Rows :
             /\ InsertAll(ids)
             /\ \A e \in ids : ~ Present(e) /\ event'[e] \in Emitted(new)
             /\ \A e \in Rows \ ids : event'[e] = event[e]
             /\ \A x \in Emitted(new) : \E e \in ids : event'[e] = x
             /\ \A e, f \in ids : event'[e] = event'[f] => e = f
             /\ event' \in [Rows -> EventType \cup {NoEvent}]
  <1> DEFINE Injections == {place \in [Emitted(new) -> {e \in Rows : ~ Present(e)}] :
                               \A x, y \in DOMAIN place : x # y => place[x] # place[y]}
             place == CHOOSE p \in Injections : TRUE
             ids == {place[x] : x \in DOMAIN place}
  <1>1. Injections # {}
    BY DEF InsertEvents
  <1>2. place \in Injections
    BY <1>1
  <1>3. /\ place \in [Emitted(new) -> {e \in Rows : ~ Present(e)}]
        /\ \A x, y \in Emitted(new) : place[x] = place[y] => x = y
    BY <1>2
  <1>4. /\ event' = [e \in Rows |-> IF e \in ids THEN CHOOSE x \in DOMAIN place : place[x] = e
                                    ELSE event[e]]
        /\ InsertAll(ids)
    BY DEF InsertEvents
  <1> HIDE DEF place, Injections
  <1>5. \A x \in Emitted(new) : place[x] \in Rows /\ ~ Present(place[x])
    BY <1>3
  <1>6. ids \in SUBSET Rows /\ \A e \in ids : ~ Present(e)
    BY <1>3, <1>5
  <1>7. ASSUME NEW x \in Emitted(new) PROVE event'[place[x]] = x
    <2>1. DOMAIN place = Emitted(new)
      BY <1>3
    <2>2. place[x] \in ids /\ place[x] \in Rows
      BY <1>5, <2>1
    <2>3. (CHOOSE y \in DOMAIN place : place[y] = place[x]) = x
      BY <1>3, <2>1
    <2> QED  BY <1>4, <2>2, <2>3
  <1>8. \A e \in ids : \E x \in Emitted(new) : e = place[x] /\ event'[e] = x
    BY <1>3, <1>7
  <1>9. \A e \in Rows \ ids : event'[e] = event[e]
    BY <1>4
  <1>10. \A x \in Emitted(new) : place[x] \in ids
    BY <1>3
  <1>11. event' \in [Rows -> EventType \cup {NoEvent}]
    <2>1. \A e \in Rows : event'[e] \in EventType \cup {NoEvent}
      BY <1>8, <1>9 DEF Emitted, AutomationsTypeOK
    <2>2. event' = [e \in Rows |-> event'[e]]
      BY <1>4
    <2> QED  BY <2>1, <2>2
  <1> HIDE DEF ids
  <1>12. /\ InsertAll(ids)
         /\ \A e \in ids : ~ Present(e) /\ event'[e] \in Emitted(new)
         /\ \A e \in Rows \ ids : event'[e] = event[e]
         /\ \A x \in Emitted(new) : \E e \in ids : event'[e] = x
         /\ \A e, f \in ids : event'[e] = event'[f] => e = f
    <2>1. \A e \in ids : ~ Present(e) /\ event'[e] \in Emitted(new)
      BY <1>6, <1>8
    <2>2. \A x \in Emitted(new) : \E e \in ids : event'[e] = x
      BY <1>7, <1>10
    <2>3. \A e, f \in ids : event'[e] = event'[f] => e = f
      BY <1>8
    <2> QED  BY <1>4, <1>9, <2>1, <2>2, <2>3
  <1> QED  BY <1>6, <1>11, <1>12

\* The invariant holds before the first change.
LEMMA EngineInitInv ==
    ASSUME AutomationsInit
    PROVE  EngineInv
  <1>1. TableInv
    BY TableInitInv DEF AutomationsInit
  <1>2. AutomationsTypeOK
    <2>1. task \in [status : Statuses, version : Nat, live : BOOLEAN]
      <3>1. task \in [status : Statuses, version : {0}, live : {TRUE}]
        BY DEF AutomationsInit
      <3>2. task = [status |-> task.status, version |-> task.version, live |-> task.live]
        BY <3>1
      <3>3. task.status \in Statuses /\ task.version \in {0} /\ task.live \in {TRUE}
        BY <3>1
      <3>4. task.version \in Nat
        BY <3>3
      <3>5. task.live \in BOOLEAN
        BY <3>3, Zenon
      <3> QED  BY <3>2, <3>3, <3>4, <3>5
    <2>2. receipt \in [Rows -> [Rules -> Receipts]] /\ applied \in [Rows -> [Rules -> Nat]]
      BY DEF AutomationsInit, Receipts
    <2> QED  BY <1>1, <2>1, <2>2 DEF AutomationsInit, AutomationsTypeOK, TableInv, Phases
  <1>3. /\ \A e \in Rows : rows[e].status = "absent" /\ event[e] = NoEvent
        /\ \A e \in Rows, rule \in Rules : receipt[e][rule] = "none" /\ applied[e][rule] = 0
        /\ comments = {} /\ task.version = 0 /\ enabled = Rules
    BY DEF AutomationsInit, TableInit, AbsentRow
  <1>4. Changes = {} /\ \A e \in Rows : ~ Present(e)
    BY <1>3 DEF Changes, Present
  <1>5. EveryChangeHasItsEvent
    <2>1. Cardinality(Changes) = 0 /\ {event[e].version : e \in Changes} = {}
      BY <1>4, FS_EmptySet
    <2>2. 1..task.version = {}
      BY <1>3
    <2> QED  BY <1>3, <2>1, <2>2 DEF EveryChangeHasItsEvent, Changes
  <1>6. AppliedOnce /\ LoopProtection /\ ConditionsUseSnapshot /\ SentRanEveryRule
    BY <1>3, <1>4 DEF AppliedOnce, LoopProtection, ConditionsUseSnapshot, SentRanEveryRule
  <1>9. ActorsInherited
    BY <1>3, <1>4 DEF ActorsInherited
  <1>7. RecordsInv
    BY <1>3, <1>4, FS_EmptySet DEF RecordsInv
  <1>8. WorkInv
    BY DEF AutomationsInit, WorkInv, WorkOK
  <1> QED  BY <1>1, <1>2, <1>3, <1>5, <1>6, <1>7, <1>8, <1>9 DEF EngineInv, AutomationsInv

\* What users and the daily job write.
UserEvent ==
    (\E u \in Users, s \in Statuses : UserChangesStatus(u, s)) \/ EnqueueDaily

\* What a worker has at hand.
LEMMA AtHand ==
    ASSUME EngineInv, NEW w \in Workers, phase[w] \in {"run", "skip", "release"}
    PROVE  cur[w] \in Candidate /\ cur[w].id \in Rows /\ Present(cur[w].id)
  BY DEF EngineInv, WorkInv, WorkOK, Candidate

\* The transactions of rules that do something.
RuleActs(w) ==
    /\ phase[w] = "run" /\ todo[w] # {} /\ Owns(rows[cur[w].id], cur[w].token)
    /\ GateOpen(receipt[cur[w].id][RuleOrder[First(todo[w])]])
    /\ RuleApplies(RuleOrder[First(todo[w])], cur[w].id)
    /\ Effects(RuleOrder[First(todo[w])], cur[w].id)
    /\ \E error \in BOOLEAN : RuleDone(w, error)
    /\ UNCHANGED tenantVars

\* Those that only record that they have nothing to do.
RuleSkips(w) ==
    /\ phase[w] = "run" /\ todo[w] # {} /\ Owns(rows[cur[w].id], cur[w].token)
    /\ GateOpen(receipt[cur[w].id][RuleOrder[First(todo[w])]])
    /\ receipt' = [receipt EXCEPT ![cur[w].id][RuleOrder[First(todo[w])]] = "skipped"]
    /\ UNCHANGED <<rows, event, task, comments, applied, tenantVars>>
    /\ \E error \in BOOLEAN : RuleDone(w, error)

\* Those that had their receipt already, and those that fail.
RulePasses(w) ==
    /\ phase[w] = "run" /\ todo[w] # {}
    /\ \/ Goto(w, "release")
       \/ RuleDone(w, TRUE)
       \/ /\ ~ GateOpen(receipt[cur[w].id][RuleOrder[First(todo[w])]])
          /\ \E error \in BOOLEAN : RuleDone(w, error)
    /\ UNCHANGED <<rows, effectVars, tenantVars>>

\* A turn of a rule is one of the three.
LEMMA RuleOutcomes ==
    ASSUME NEW w \in Workers, ExecuteRule(w)
    PROVE  RuleActs(w) \/ RuleSkips(w) \/ RulePasses(w)
  <1> DEFINE c == cur[w]
             rule == RuleOrder[First(todo[w])]
  <1>1. phase[w] = "run" /\ todo[w] # {} /\ UNCHANGED tenantVars
    BY DEF ExecuteRule
  <1>2. CASE ~ Owns(rows[c.id], c.token)
    BY <1>1, <1>2 DEF ExecuteRule, RulePasses
  <1>3. CASE Owns(rows[c.id], c.token)
    <2>1. \/ RuleTransaction(rule, c.id) /\ \E error \in BOOLEAN : RuleDone(w, error)
          \/ RuleDone(w, TRUE) /\ UNCHANGED <<rows, effectVars>>
      BY <1>3 DEF ExecuteRule
    <2> HIDE DEF rule, c
    <2>2. CASE RuleDone(w, TRUE) /\ UNCHANGED <<rows, effectVars>>
      BY <1>1, <2>2 DEF RulePasses
    <2>3. CASE RuleTransaction(rule, c.id) /\ \E error \in BOOLEAN : RuleDone(w, error)
      <3>1. CASE ~ GateOpen(receipt[c.id][rule])
        BY <1>1, <2>3, <3>1 DEF RuleTransaction, RulePasses, rule, c
      <3>2. CASE GateOpen(receipt[c.id][rule]) /\ RuleApplies(rule, c.id)
        BY <1>1, <1>3, <2>3, <3>2 DEF RuleTransaction, RuleActs, rule, c
      <3>3. CASE GateOpen(receipt[c.id][rule]) /\ ~ RuleApplies(rule, c.id)
        BY <1>1, <1>3, <2>3, <3>3 DEF RuleTransaction, RuleSkips, rule, c
      <3> QED  BY <3>1, <3>2, <3>3
    <2> QED  BY <2>1, <2>2, <2>3
  <1> QED  BY <1>2, <1>3

-----------------------------------------------------------------------------
\* What was written stays: no step changes an event or a receipt.
Kept ==
    /\ \A e \in Rows : Present(e) => event'[e] = event[e]
    /\ \A e \in Rows, rule \in Rules :
          receipt[e][rule] # "none" => receipt'[e][rule] = receipt[e][rule]

\* Events that were sent had all their rules, and keep their receipts.
LEMMA SentStays ==
    ASSUME EngineInv, Kept,
           \A e \in Rows : rows'[e].status = "sent" => rows[e].status = "sent"
    PROVE  SentRanEveryRule'
  <1> SUFFICES ASSUME NEW e \in Rows, NEW rule \in Rules \ EditedRules,
                      rows'[e].status = "sent", rule.on = event'[e].trigger
               PROVE  receipt'[e][rule] # "none"
    BY DEF SentRanEveryRule
  <1>1. rows[e].status = "sent"
    OBVIOUS
  <1>2. Present(e)
    BY <1>1 DEF EngineInv, RecordsInv
  <1>3. event'[e] = event[e]
    BY <1>2 DEF Kept
  <1>4. receipt[e][rule] # "none"
    BY <1>1, <1>3 DEF EngineInv, AutomationsInv, SentRanEveryRule
  <1> QED  BY <1>4 DEF Kept

\* A worker whose place is not changed is still in place.
LEMMA WorkStays ==
    ASSUME EngineInv, Kept, NEW w \in Workers,
           phase'[w] = phase[w], batch'[w] = batch[w], cur'[w] = cur[w],
           todo'[w] = todo[w], failed'[w] = failed[w]
    PROVE  WorkOK(w)'
  <1>1. WorkOK(w) /\ batch[w] \in SUBSET Candidate /\ (phase[w] = "run" => cur[w] \in Candidate)
    BY DEF EngineInv, WorkInv, WorkOK, AutomationsInv, AutomationsTypeOK
  <1>2. \A e \in Rows : Present(e) => Present(e)' /\ event'[e] = event[e]
    BY DEF Kept, Present
  <1>3. \A c \in Candidate : c.id \in Rows
    BY DEF Candidate
  <1>4. (\A c \in batch[w] : Present(c.id))'
    BY <1>1, <1>2, <1>3 DEF WorkOK
  <1>5. (phase[w] \in {"run", "skip", "release"} => cur[w] \in Candidate /\ Present(cur[w].id))'
    BY <1>1, <1>2, <1>3 DEF WorkOK
  <1>6. (phase[w] = "run" => event[cur[w].id].depth < MaxDepth)'
    BY <1>1, <1>2, <1>3 DEF WorkOK
  <1>7. (phase[w] = "run" /\ ~ failed[w] => NoRuleForgotten(w))'
    <2> SUFFICES ASSUME phase[w] = "run", ~ failed[w], NEW i \in DOMAIN RuleOrder,
                        RuleOrder[i] \notin EditedRules, RuleOrder[i].on = event'[cur[w].id].trigger,
                        i \notin todo[w]
                 PROVE  receipt'[cur[w].id][RuleOrder[i]] # "none"
      BY DEF NoRuleForgotten
    <2>1. cur[w].id \in Rows /\ Present(cur[w].id) /\ RuleOrder[i] \in Rules
      BY <1>1, <1>3, RuleFacts DEF WorkOK
    <2>2. event'[cur[w].id] = event[cur[w].id]
      BY <1>2, <2>1
    <2>3. receipt[cur[w].id][RuleOrder[i]] # "none"
      BY <1>1, <2>2 DEF WorkOK, NoRuleForgotten
    <2> QED  BY <2>1, <2>3 DEF Kept
  <1> QED  BY <1>4, <1>5, <1>6, <1>7 DEF WorkOK

\* A step that writes no event and no receipt.
LEMMA QuietStep ==
    ASSUME EngineInv, UNCHANGED <<event, receipt, comments, applied>>,
           task'.version = task.version,
           \A e \in Rows : rows'[e].status = "absent" <=> rows[e].status = "absent"
    PROVE  /\ AppliedOnce' /\ LoopProtection' /\ ConditionsUseSnapshot'
           /\ EveryChangeHasItsEvent' /\ ActorsInherited' /\ RecordsInv' /\ Kept
  <1>1. AppliedOnce' /\ ConditionsUseSnapshot' /\ Kept
    BY DEF EngineInv, AutomationsInv, AppliedOnce, ConditionsUseSnapshot, Kept
  <1>2. \A e : Present(e)' <=> Present(e)
    BY DEF Present
  <1>3. LoopProtection' /\ ActorsInherited'
    BY <1>2 DEF EngineInv, AutomationsInv, LoopProtection, ActorsInherited
  <1>4. Changes' = Changes
    BY <1>2 DEF Changes
  <1>5. EveryChangeHasItsEvent'
    BY <1>4 DEF EngineInv, AutomationsInv, EveryChangeHasItsEvent, Changes
  <1>6. RecordsInv'
    BY <1>2, <1>4 DEF EngineInv, RecordsInv
  <1> QED  BY <1>1, <1>3, <1>5, <1>6

\* The events of a transaction join those that were there, each with its row.
LEMMA EventsJoin ==
    ASSUME EngineInv, NEW new \in SUBSET EventType, InsertEvents(new)
    PROVE  /\ [TableNext]_rows
           /\ event' \in [Rows -> EventType \cup {NoEvent}]
           /\ \A e \in Rows : Present(e) => Present(e)' /\ event'[e] = event[e]
           /\ \A e \in Rows : Present(e)' /\ ~ Present(e) => event'[e] \in Emitted(new)
           /\ \A e \in Rows : rows'[e].status = "absent" <=> ~ Present(e)'
           /\ \A e \in Rows : rows'[e].status = "sent" => rows[e].status = "sent"
  <1>1. AutomationsTypeOK
    BY DEF EngineInv, AutomationsInv
  <1>2. PICK ids \in SUBSET Rows :
             /\ InsertAll(ids)
             /\ \A e \in ids : ~ Present(e) /\ event'[e] \in Emitted(new)
             /\ \A e \in Rows \ ids : event'[e] = event[e]
             /\ event' \in [Rows -> EventType \cup {NoEvent}]
    BY <1>1, EventsWritten
  <1>3. [TableNext]_rows
    BY <1>2 DEF TableNext
  <1>4. \A e \in ids : Present(e)'
    BY <1>2, NoEventAssumption DEF Present, Emitted
  <1>5. \A e \in Rows \ ids : Present(e)' <=> Present(e)
    BY <1>2 DEF Present
  <1>6. \A e \in Rows : rows'[e] = IF e \in ids THEN Inserted(rows[e]) ELSE rows[e]
    BY <1>2 DEF InsertAll
  <1>7. \A e \in ids : rows'[e].status = "pending"
    BY <1>1, <1>6 DEF Inserted, AutomationsTypeOK, RowType
  <1>8. \A e \in Rows : rows'[e].status = "absent" <=> ~ Present(e)'
    BY <1>4, <1>5, <1>6, <1>7 DEF EngineInv, RecordsInv
  <1> QED  BY <1>2, <1>3, <1>4, <1>5, <1>6, <1>7, <1>8

\* The changes stay numbered as the versions of the task: a step writes an event of
\* a change, the one, exactly if it changes the status.
LEMMA ChangesCounted ==
    ASSUME EngineInv, NEW new \in SUBSET EventType, InsertEvents(new), task'.version \in Nat,
           \/ /\ task'.version = task.version
              /\ \A x \in new : x.trigger # "task_status_changed"
           \/ /\ task'.version = task.version + 1
              /\ \E x \in Emitted(new) :
                    /\ x.trigger = "task_status_changed" /\ x.version = task'.version
                    /\ \A y \in new : y.trigger = "task_status_changed" => y = x
    PROVE  EveryChangeHasItsEvent' /\ IsFiniteSet(Changes)'
  <1>1. AutomationsTypeOK /\ task.version \in Nat
    BY DEF EngineInv, AutomationsInv, AutomationsTypeOK
  <1>2. PICK ids \in SUBSET Rows :
             /\ \A e \in ids : ~ Present(e) /\ event'[e] \in Emitted(new)
             /\ \A e \in Rows \ ids : event'[e] = event[e]
             /\ \A x \in Emitted(new) : \E e \in ids : event'[e] = x
             /\ \A e, f \in ids : event'[e] = event'[f] => e = f
    BY <1>1, EventsWritten
  <1>3. \A e \in ids : Present(e)'
    BY <1>2, NoEventAssumption DEF Present, Emitted
  <1>4. /\ IsFiniteSet(Changes) /\ Cardinality(Changes) = task.version
        /\ {event[e].version : e \in Changes} = 1..task.version
    BY DEF EngineInv, RecordsInv, AutomationsInv, EveryChangeHasItsEvent, Changes
  <1>5. Changes' = Changes \cup {e \in ids : event'[e].trigger = "task_status_changed"}
    BY <1>2, <1>3 DEF Changes, Present
  <1>6. \A e \in Changes : event'[e] = event[e] /\ e \notin ids
    BY <1>2 DEF Changes
  <1>7. CASE /\ task'.version = task.version
             /\ \A x \in new : x.trigger # "task_status_changed"
    <2>1. Changes' = Changes
      BY <1>2, <1>5, <1>7 DEF Emitted
    <2>2. {event'[e].version : e \in Changes'} = {event[e].version : e \in Changes}
      BY <1>6, <2>1
    <2> QED  BY <1>4, <1>7, <2>1, <2>2 DEF EveryChangeHasItsEvent, Changes
  <1>8. CASE /\ task'.version = task.version + 1
             /\ \E x \in Emitted(new) :
                   /\ x.trigger = "task_status_changed" /\ x.version = task'.version
                   /\ \A y \in new : y.trigger = "task_status_changed" => y = x
    <2>1. PICK x \in Emitted(new) :
                   /\ x.trigger = "task_status_changed" /\ x.version = task'.version
                   /\ \A y \in new : y.trigger = "task_status_changed" => y = x
      BY <1>8
    <2>2. PICK f \in ids : event'[f] = x
      BY <1>2
    <2>3. {e \in ids : event'[e].trigger = "task_status_changed"} = {f}
      BY <1>2, <2>1, <2>2 DEF Emitted
    <2>4. Changes' = Changes \cup {f} /\ f \notin Changes
      BY <1>5, <1>6, <2>2, <2>3
    <2>5. IsFiniteSet(Changes') /\ Cardinality(Changes') = task.version + 1
      BY <1>4, <2>4, FS_AddElement
    <2>6. {event'[e].version : e \in Changes'} = {event[e].version : e \in Changes} \cup {task.version + 1}
      <3>1. \A e \in Changes : event'[e].version = event[e].version
        BY <1>6
      <3>2. event'[f].version = task.version + 1
        BY <1>8, <2>1, <2>2
      <3> QED  BY <2>4, <3>1, <3>2
    <2>7. 1..(task.version + 1) = (1..task.version) \cup {task.version + 1}
      BY <1>1
    <2>8. {event'[e].version : e \in Changes'} = 1..task'.version /\ Cardinality(Changes') = task'.version
      BY <1>4, <1>8, <2>5, <2>6, <2>7
    <2> QED  BY <2>5, <2>8 DEF EveryChangeHasItsEvent, Changes
  <1> QED  BY <1>7, <1>8

-----------------------------------------------------------------------------
\* Where the workers are.
WorkTypes ==
    /\ phase \in [Workers -> Phases] /\ batch \in [Workers -> SUBSET Candidate]
    /\ cur \in [Workers -> Candidate \cup {NoCandidate}]
    /\ todo \in [Workers -> SUBSET DOMAIN RuleOrder] /\ failed \in [Workers -> BOOLEAN]

\* The others are where they were.
OthersStay(w) ==
    \A v \in Workers \ {w} :
        /\ phase'[v] = phase[v] /\ batch'[v] = batch[v] /\ cur'[v] = cur[v]
        /\ todo'[v] = todo[v] /\ failed'[v] = failed[v]

\* It is enough to look at the worker that takes the step.
LEMMA OneWorkerSteps ==
    ASSUME EngineInv, Kept, NEW w \in Workers, OthersStay(w), WorkOK(w)'
    PROVE  WorkInv'
  <1> SUFFICES ASSUME NEW v \in Workers, v # w PROVE WorkOK(v)'
    BY DEF WorkInv
  <1> QED  BY WorkStays DEF OthersStay

\* No worker takes the step.
LEMMA NoWorkerSteps ==
    ASSUME EngineInv, Kept, UNCHANGED workerVars
    PROVE  WorkInv' /\ WorkTypes'
  <1>1. WorkTypes'
    BY DEF EngineInv, AutomationsInv, AutomationsTypeOK, WorkTypes, workerVars
  <1>2. ASSUME NEW v \in Workers PROVE WorkOK(v)'
    BY WorkStays DEF workerVars
  <1> QED  BY <1>1, <1>2 DEF WorkInv

\* A step that writes no event and no receipt, moves no worker out of place and
\* sends no event keeps the invariant.
LEMMA QuietStepInv ==
    ASSUME EngineInv, [TableNext]_rows, UNCHANGED <<event, receipt, comments, applied>>,
           task'.version = task.version,
           task' \in [status : Statuses, version : Nat, live : BOOLEAN],
           \A e \in Rows : rows'[e].status = "absent" <=> rows[e].status = "absent",
           enabled' \subseteq Rules, Rules \ EditedRules \subseteq enabled', members' \subseteq Users,
           WorkTypes', WorkInv', SentRanEveryRule'
    PROVE  EngineInv'
  <1>1. TableInv'
    BY TableInvStep DEF EngineInv
  <1>2. AutomationsTypeOK'
    BY <1>1 DEF EngineInv, AutomationsInv, AutomationsTypeOK, WorkTypes, TableInv
  <1>3. /\ AppliedOnce' /\ LoopProtection' /\ ConditionsUseSnapshot'
        /\ EveryChangeHasItsEvent' /\ ActorsInherited' /\ RecordsInv'
    BY QuietStep
  <1> QED  BY <1>1, <1>2, <1>3 DEF EngineInv, AutomationsInv

\* What a manager, a deletion, an administrator and the clock do.
LEMMA OutsideSteps ==
    ASSUME EngineInv,
           \/ UserDeletesTask
           \/ \E rule \in EditedRules : EditRule(rule)
           \/ \E u \in Users : MemberLeaves(u)
           \/ \E e \in Rows : RetryDead(e) \/ TimePasses(e)
    PROVE  EngineInv' /\ [TableNext]_rows
  <1>1. UNCHANGED <<event, receipt, comments, applied>> /\ UNCHANGED workerVars
    BY DEF UserDeletesTask, EditRule, MemberLeaves, RetryDead, TimePasses, effectVars
  <1>2. [TableNext]_rows
    BY DEF UserDeletesTask, EditRule, MemberLeaves, RetryDead, TimePasses, TableNext
  <1>3. /\ task'.version = task.version
        /\ task' \in [status : Statuses, version : Nat, live : BOOLEAN]
    <2>1. task \in [status : Statuses, version : Nat, live : BOOLEAN]
      BY DEF EngineInv, AutomationsInv, AutomationsTypeOK
    <2>2. task' = task \/ task' = [task EXCEPT !.live = FALSE]
      BY DEF UserDeletesTask, EditRule, MemberLeaves, RetryDead, TimePasses, effectVars
    <2> QED  BY <2>1, <2>2
  <1>4. enabled' \subseteq Rules /\ Rules \ EditedRules \subseteq enabled' /\ members' \subseteq Users
    <2>1. enabled \subseteq Rules /\ Rules \ EditedRules \subseteq enabled /\ members \subseteq Users
      BY DEF EngineInv, AutomationsInv, AutomationsTypeOK
    <2>3. members' \subseteq members
      BY DEF UserDeletesTask, EditRule, MemberLeaves, RetryDead, TimePasses, tenantVars
    <2>2. \/ enabled' = enabled
          \/ \E rule \in EditedRules : enabled' = enabled \ {rule} \/ enabled' = enabled \cup {rule}
      BY DEF UserDeletesTask, EditRule, MemberLeaves, RetryDead, TimePasses, tenantVars
    <2> QED  BY <2>1, <2>2, <2>3, AutomationConstants
  <1>5. \A e \in Rows : /\ rows'[e].status = "absent" <=> rows[e].status = "absent"
                        /\ rows'[e].status = "sent" => rows[e].status = "sent"
    <2>1. rows \in [Rows -> RowType]
      BY DEF EngineInv, TableInv
    <2>2. CASE UNCHANGED rows
      BY <2>2
    <2>3. CASE \E e \in Rows : RetryDeadLetter(e)
      BY <2>1, <2>3 DEF RetryDeadLetter, RetriedDeadLetter
    <2>4. CASE \E e \in Rows : ClaimTimesOut(e)
      BY <2>1, <2>4 DEF ClaimTimesOut, TimedOut, RowType
    <2>5. CASE \E e \in Rows : BackoffElapses(e)
      BY <2>1, <2>5 DEF BackoffElapses, BackedOff, RowType
    <2> QED  BY <2>2, <2>3, <2>4, <2>5 DEF UserDeletesTask, EditRule, MemberLeaves, RetryDead, TimePasses
  <1>6. Kept
    BY <1>1, <1>3, <1>5, QuietStep
  <1>7. WorkTypes' /\ WorkInv' /\ SentRanEveryRule'
    BY <1>1, <1>5, <1>6, NoWorkerSteps, SentStays
  <1> QED  BY <1>1, <1>2, <1>3, <1>4, <1>5, <1>7, QuietStepInv

\* A worker claims a batch.
LEMMA ClaimStep ==
    ASSUME EngineInv, NEW w \in Workers, ClaimAutomationEventBatch(w)
    PROVE  EngineInv' /\ [TableNext]_rows
  <1>1. PICK S \in (SUBSET Rows) \ {{}} :
          /\ ClaimBatch(S)
          /\ batch' = [batch EXCEPT ![w] =
                {[id |-> e, token |-> Claimed(rows[e]).token] : e \in S}]
    BY DEF ClaimAutomationEventBatch
  <1>2. /\ phase' = [phase EXCEPT ![w] = "loop"]
        /\ UNCHANGED <<cur, todo, failed, event, task, receipt, comments, applied, tenantVars>>
    BY DEF ClaimAutomationEventBatch, effectVars
  <1>3. AutomationsTypeOK /\ rows \in [Rows -> RowType]
    BY DEF EngineInv, AutomationsInv, TableInv
  <1>4. \A e \in S : Claimable(rows[e]) /\ rows[e].status # "absent"
    BY <1>1 DEF ClaimBatch, Claimable
  <1>5. \A e \in Rows : rows'[e] = IF e \in S THEN Claimed(rows[e]) ELSE rows[e]
    BY <1>1 DEF ClaimBatch
  <1>6. \A e \in Rows : /\ rows'[e].status = "absent" <=> rows[e].status = "absent"
                        /\ rows'[e].status = "sent" => rows[e].status = "sent"
    <2>1. \A e \in S : rows'[e].status = "processing"
      <3>1. \A e \in S : e \in Rows
        OBVIOUS
      <3>2. \A e \in S : rows'[e] = Claimed(rows[e])
        BY <1>5, <3>1
      <3>3. \A e \in S : Claimed(rows[e]).status = "processing"
        BY DEF Claimed
      <3> QED  BY <3>2, <3>3
    <2>2. \A e \in Rows \ S : rows'[e] = rows[e]
      BY <1>5
    <2> QED  BY <1>4, <2>1, <2>2
  <1>7. [TableNext]_rows
    BY <1>1 DEF TableNext
  <1>8. /\ enabled' \subseteq Rules /\ Rules \ EditedRules \subseteq enabled' /\ members' \subseteq Users
        /\ task' \in [status : Statuses, version : Nat, live : BOOLEAN]
    BY <1>2 DEF EngineInv, AutomationsInv, AutomationsTypeOK, tenantVars
  <1>9. Kept
    BY <1>2, <1>6, QuietStep
  <1>10. \A e \in S : [id |-> e, token |-> Claimed(rows[e]).token] \in Candidate
    BY <1>3 DEF Claimed, Candidate, RowType
  <1>11. WorkTypes'
    <2>1. batch' \in [Workers -> SUBSET Candidate]
      <3>1. {[id |-> e, token |-> Claimed(rows[e]).token] : e \in S} \in SUBSET Candidate
        BY <1>10
      <3> QED  BY <1>1, <1>3, <3>1 DEF AutomationsTypeOK
    <2> QED  BY <1>2, <1>3, <2>1 DEF AutomationsTypeOK, WorkTypes, Phases
  <1>12. WorkOK(w)'
    <2>1. phase'[w] = "loop"
      BY <1>2, <1>3 DEF AutomationsTypeOK
    <2>2. \A e \in S : Present(e)'
      BY <1>2, <1>4 DEF EngineInv, RecordsInv, Present
    <2>3. \A c \in batch'[w] : Present(c.id)'
      BY <1>1, <1>3, <2>2 DEF AutomationsTypeOK
    <2> QED  BY <2>1, <2>3 DEF WorkOK
  <1>13. OthersStay(w)
    BY <1>1, <1>2, <1>3 DEF OthersStay, AutomationsTypeOK
  <1>14. WorkInv' /\ SentRanEveryRule'
    BY <1>6, <1>9, <1>12, <1>13, OneWorkerSteps, SentStays
  <1> QED  BY <1>2, <1>6, <1>7, <1>8, <1>11, <1>14, QuietStepInv

\* A worker changes its place only.
LEMMA PlaceStep ==
    ASSUME EngineInv, NEW w \in Workers, UNCHANGED <<rows, effectVars, tenantVars>>,
           OthersStay(w), WorkTypes', WorkOK(w)'
    PROVE  EngineInv' /\ [TableNext]_rows
  <1>1. UNCHANGED <<rows, event, task, receipt, comments, applied, tenantVars>>
    BY DEF effectVars
  <1>2. /\ enabled' \subseteq Rules /\ Rules \ EditedRules \subseteq enabled' /\ members' \subseteq Users
        /\ task' \in [status : Statuses, version : Nat, live : BOOLEAN]
    BY <1>1 DEF EngineInv, AutomationsInv, AutomationsTypeOK, tenantVars
  <1>3. Kept
    BY <1>1, QuietStep
  <1>4. WorkInv' /\ SentRanEveryRule'
    BY <1>1, <1>3, OneWorkerSteps, SentStays
  <1> QED  BY <1>1, <1>2, <1>4, QuietStepInv

\* A worker takes an event of its batch, with the rules to run.
LEMMA LoadStep ==
    ASSUME EngineInv, NEW w \in Workers, LoadRules(w)
    PROVE  EngineInv' /\ [TableNext]_rows
  <1>1. AutomationsTypeOK /\ WorkOK(w)
    BY DEF EngineInv, AutomationsInv, WorkInv
  <1> DEFINE list(c) == IF AtDepthLimit(event[c.id].depth)
                        THEN {} ELSE RulesFor(event[c.id].trigger)
  <1>2. PICK c \in batch[w] :
          /\ cur' = [cur EXCEPT ![w] = c]
          /\ batch' = [batch EXCEPT ![w] = @ \ {c}]
          /\ \/ /\ todo' = [todo EXCEPT ![w] = list(c)]
                /\ phase' = [phase EXCEPT ![w] = IF list(c) = {} THEN "skip" ELSE "run"]
             \/ /\ phase' = [phase EXCEPT ![w] = "release"]
                /\ UNCHANGED todo
    BY DEF LoadRules
  <1>3. UNCHANGED <<rows, failed, effectVars, tenantVars>>
    BY DEF LoadRules
  <1>4. c \in Candidate /\ c.id \in Rows /\ Present(c.id)
    BY <1>1 DEF AutomationsTypeOK, Candidate, WorkOK
  <1>5. list(c) \in SUBSET DOMAIN RuleOrder
    BY DEF RulesFor
  <1>6. list(c) # {} => event[c.id].depth < MaxDepth
    <2>1. event[c.id] \in EventType
      BY <1>1, <1>4 DEF AutomationsTypeOK, Present
    <2>2. event[c.id].depth \in Nat
      BY <2>1 DEF EventType
    <2> QED  BY <2>2, AutomationConstants DEF AtDepthLimit
  <1>7. \A i \in DOMAIN RuleOrder :
           RuleOrder[i] \notin EditedRules /\ RuleOrder[i].on = event[c.id].trigger /\ list(c) # {}
              => i \in list(c)
    <2>1. \A i \in DOMAIN RuleOrder : RuleOrder[i] \notin EditedRules => RuleOrder[i] \in enabled
      BY RuleFacts DEF EngineInv
    <2> QED  BY <2>1 DEF RulesFor
  <1> HIDE DEF list
  <1>8. WorkTypes'
    <2>1. cur' \in [Workers -> Candidate \cup {NoCandidate}] /\ batch' \in [Workers -> SUBSET Candidate]
      BY <1>1, <1>2, <1>4 DEF AutomationsTypeOK
    <2>2. todo' \in [Workers -> SUBSET DOMAIN RuleOrder]
      BY <1>1, <1>2, <1>5 DEF AutomationsTypeOK
    <2>3. phase' \in [Workers -> Phases]
      BY <1>1, <1>2 DEF AutomationsTypeOK, Phases
    <2> QED  BY <1>1, <1>3, <2>1, <2>2, <2>3 DEF AutomationsTypeOK, WorkTypes
  <1>9. OthersStay(w)
    BY <1>1, <1>2, <1>3 DEF OthersStay, AutomationsTypeOK
  <1>10. UNCHANGED <<event, receipt>>
    BY <1>3 DEF effectVars
  <1>11. WorkOK(w)'
    <2>1. /\ cur'[w] = c /\ batch'[w] \subseteq batch[w]
          /\ phase'[w] = "run" => list(c) # {} /\ todo'[w] = list(c)
      BY <1>1, <1>2 DEF AutomationsTypeOK
    <2>2. \A e : Present(e)' <=> Present(e)
      BY <1>10 DEF Present
    <2>3. (\A d \in batch[w] : Present(d.id))'
      BY <1>1, <2>1, <2>2 DEF WorkOK
    <2>4. (phase[w] = "run" => event[cur[w].id].depth < MaxDepth)'
      BY <1>6, <1>10, <2>1
    <2>5. (phase[w] = "run" => NoRuleForgotten(w))'
      BY <1>7, <1>10, <2>1 DEF NoRuleForgotten
    <2> QED  BY <1>4, <2>1, <2>2, <2>3, <2>4, <2>5 DEF WorkOK
  <1> QED  BY <1>3, <1>8, <1>9, <1>11, PlaceStep

\* A worker has run a rule, or it failed: the places it has left.
LEMMA DoneStep ==
    ASSUME EngineInv, NEW w \in Workers, todo[w] # {}, NEW error \in BOOLEAN, RuleDone(w, error)
    PROVE  /\ WorkTypes' /\ OthersStay(w)
           /\ todo'[w] = todo[w] \ {First(todo[w])} /\ failed'[w] = (failed[w] \/ error)
           /\ phase'[w] = phase[w] /\ batch'[w] = batch[w] /\ cur'[w] = cur[w]
           /\ First(todo[w]) \in todo[w] /\ First(todo[w]) \in DOMAIN RuleOrder
  <1>1. AutomationsTypeOK /\ todo[w] \in SUBSET DOMAIN RuleOrder
    BY DEF EngineInv, AutomationsInv, AutomationsTypeOK
  <1>2. First(todo[w]) \in todo[w]
    BY <1>1, FirstIsOne
  <1>3. /\ todo' = [todo EXCEPT ![w] = @ \ {First(@)}]
        /\ failed' = [failed EXCEPT ![w] = @ \/ error]
        /\ UNCHANGED <<phase, batch, cur>>
    BY DEF RuleDone
  <1>4. /\ todo' = [todo EXCEPT ![w] = todo[w] \ {First(todo[w])}]
        /\ failed' = [failed EXCEPT ![w] = failed[w] \/ error]
    BY <1>3
  <1>5. todo' \in [Workers -> SUBSET DOMAIN RuleOrder]
    BY <1>1, <1>4 DEF AutomationsTypeOK
  <1>6. failed' \in [Workers -> BOOLEAN]
    BY <1>1, <1>4 DEF AutomationsTypeOK
  <1>7. WorkTypes'
    BY <1>1, <1>3, <1>5, <1>6 DEF AutomationsTypeOK, WorkTypes
  <1>8. OthersStay(w)
    BY <1>1, <1>3, <1>4 DEF AutomationsTypeOK, OthersStay
  <1>9. todo'[w] = todo[w] \ {First(todo[w])} /\ failed'[w] = (failed[w] \/ error)
    BY <1>1, <1>4 DEF AutomationsTypeOK
  <1> QED  BY <1>1, <1>2, <1>3, <1>7, <1>8, <1>9

\* The worker that has run a rule is in place when the rule has its receipt or failed.
LEMMA DoneInPlace ==
    ASSUME EngineInv, Kept, NEW w \in Workers, phase[w] = "run", todo[w] # {},
           NEW error \in BOOLEAN, RuleDone(w, error),
           error \/ receipt'[cur[w].id][RuleOrder[First(todo[w])]] # "none"
    PROVE  WorkOK(w)'
  <1>1. /\ todo'[w] = todo[w] \ {First(todo[w])} /\ failed'[w] = (failed[w] \/ error)
        /\ phase'[w] = phase[w] /\ batch'[w] = batch[w] /\ cur'[w] = cur[w]
    BY DoneStep
  <1>2. WorkOK(w) /\ batch[w] \in SUBSET Candidate /\ cur[w] \in Candidate
    BY DEF EngineInv, WorkInv, WorkOK, AutomationsInv, AutomationsTypeOK
  <1>3. \A e \in Rows : Present(e) => Present(e)' /\ event'[e] = event[e]
    BY DEF Kept, Present
  <1>4. \A c \in Candidate : c.id \in Rows
    BY DEF Candidate
  <1>5. (\A c \in batch[w] : Present(c.id))'
    BY <1>1, <1>2, <1>3, <1>4 DEF WorkOK
  <1>6. (cur[w] \in Candidate /\ Present(cur[w].id))' /\ event'[cur[w].id] = event[cur[w].id]
    BY <1>1, <1>2, <1>3, <1>4 DEF WorkOK
  <1>7. (event[cur[w].id].depth < MaxDepth)'
    BY <1>1, <1>2, <1>6 DEF WorkOK
  <1>8. ASSUME ~ failed'[w] PROVE NoRuleForgotten(w)'
    <2> SUFFICES ASSUME NEW i \in DOMAIN RuleOrder, RuleOrder[i] \notin EditedRules,
                        RuleOrder[i].on = event[cur[w].id].trigger, i \notin todo'[w]
                 PROVE  receipt'[cur[w].id][RuleOrder[i]] # "none"
      BY <1>1, <1>6 DEF NoRuleForgotten
    <2>1. CASE i = First(todo[w])
      BY <1>1, <1>8, <2>1
    <2>2. CASE i # First(todo[w])
      <3>1. receipt[cur[w].id][RuleOrder[i]] # "none"
        BY <1>1, <1>2, <1>8, <2>2 DEF WorkOK, NoRuleForgotten
      <3> QED  BY <1>2, <1>4, <3>1, RuleFacts DEF Kept
    <2> QED  BY <2>1, <2>2
  <1> QED  BY <1>5, <1>6, <1>7, <1>8 DEF WorkOK

\* A worker goes on, without a rule or an event at hand.
LEMMA LeavesEvent ==
    ASSUME EngineInv, NEW w \in Workers, Continue(w), Kept
    PROVE  WorkTypes' /\ OthersStay(w) /\ WorkOK(w)'
  <1>1. AutomationsTypeOK /\ WorkOK(w) /\ batch[w] \in SUBSET Candidate
    BY DEF EngineInv, AutomationsInv, AutomationsTypeOK, WorkInv
  <1>2. /\ phase' = [phase EXCEPT ![w] = IF batch[w] = {} THEN "idle" ELSE "loop"]
        /\ cur' = [cur EXCEPT ![w] = NoCandidate] /\ todo' = [todo EXCEPT ![w] = {}]
        /\ failed' = [failed EXCEPT ![w] = FALSE] /\ UNCHANGED batch
    BY DEF Continue
  <1>3. WorkTypes'
    <2>1. phase' \in [Workers -> Phases]
      BY <1>1, <1>2 DEF AutomationsTypeOK, Phases
    <2>2. failed' \in [Workers -> BOOLEAN]
      BY <1>1, <1>2 DEF AutomationsTypeOK
    <2> QED  BY <1>1, <1>2, <2>1, <2>2 DEF AutomationsTypeOK, WorkTypes
  <1>4. OthersStay(w)
    BY <1>1, <1>2 DEF AutomationsTypeOK, OthersStay
  <1>5. phase'[w] \in {"idle", "loop"}
    BY <1>1, <1>2 DEF AutomationsTypeOK
  <1>6. (\A c \in batch[w] : Present(c.id))'
    <2>1. \A c \in batch[w] : c.id \in Rows /\ Present(c.id)
      BY <1>1 DEF Candidate, WorkOK
    <2>2. \A e \in Rows : Present(e) => Present(e)'
      BY DEF Kept, Present
    <2> QED  BY <1>2, <2>1, <2>2
  <1> QED  BY <1>3, <1>4, <1>5, <1>6 DEF WorkOK

\* A worker goes over to releasing its event.
LEMMA GoesToRelease ==
    ASSUME EngineInv, NEW w \in Workers, phase[w] \in {"run", "skip", "release"}, Goto(w, "release"),
           Kept
    PROVE  WorkTypes' /\ OthersStay(w) /\ WorkOK(w)'
  <1>1. AutomationsTypeOK /\ WorkOK(w) /\ batch[w] \in SUBSET Candidate
    BY DEF EngineInv, AutomationsInv, AutomationsTypeOK, WorkInv
  <1>2. phase' = [phase EXCEPT ![w] = "release"] /\ UNCHANGED <<batch, cur, todo, failed>>
    BY DEF Goto
  <1>3. WorkTypes'
    BY <1>1, <1>2 DEF AutomationsTypeOK, WorkTypes, Phases
  <1>4. OthersStay(w)
    BY <1>1, <1>2 DEF AutomationsTypeOK, OthersStay
  <1>5. phase'[w] = "release"
    BY <1>1, <1>2 DEF AutomationsTypeOK
  <1>6. (\A c \in batch[w] : Present(c.id))' /\ (cur[w] \in Candidate /\ Present(cur[w].id))'
    <2>1. /\ \A c \in batch[w] : c.id \in Rows /\ Present(c.id)
          /\ cur[w] \in Candidate /\ cur[w].id \in Rows /\ Present(cur[w].id)
      BY <1>1 DEF Candidate, WorkOK
    <2>2. \A e \in Rows : Present(e) => Present(e)'
      BY DEF Kept, Present
    <2> QED  BY <1>2, <2>1, <2>2
  <1> QED  BY <1>3, <1>4, <1>5, <1>6 DEF WorkOK

\* A rule whose turn changes nothing but the worker's place.
LEMMA PassStep ==
    ASSUME EngineInv, NEW w \in Workers, RulePasses(w)
    PROVE  EngineInv' /\ [TableNext]_rows
  <1>1. phase[w] = "run" /\ todo[w] # {} /\ UNCHANGED <<rows, effectVars, tenantVars>>
    BY DEF RulePasses
  <1>2. UNCHANGED receipt /\ Kept
    BY <1>1 DEF Kept, effectVars
  <1>3. CASE Goto(w, "release")
    BY <1>1, <1>2, <1>3, GoesToRelease, PlaceStep
  <1>4. ASSUME NEW error \in BOOLEAN, RuleDone(w, error),
               error \/ ~ GateOpen(receipt[cur[w].id][RuleOrder[First(todo[w])]])
        PROVE  EngineInv' /\ [TableNext]_rows
    <2>1. error \/ receipt'[cur[w].id][RuleOrder[First(todo[w])]] # "none"
      BY <1>2, <1>4 DEF GateOpen
    <2>2. WorkOK(w)' /\ WorkTypes' /\ OthersStay(w)
      BY <1>1, <1>2, <1>4, <2>1, DoneInPlace, DoneStep
    <2> QED  BY <1>1, <2>2, PlaceStep
  <1> QED  BY <1>3, <1>4 DEF RulePasses

\* A worker stops.
LEMMA CrashStep ==
    ASSUME EngineInv, NEW w \in Workers, Crash(w)
    PROVE  EngineInv' /\ [TableNext]_rows
  <1>1. AutomationsTypeOK
    BY DEF EngineInv, AutomationsInv
  <1>2. /\ phase' = [phase EXCEPT ![w] = "idle"] /\ batch' = [batch EXCEPT ![w] = {}]
        /\ cur' = [cur EXCEPT ![w] = NoCandidate] /\ todo' = [todo EXCEPT ![w] = {}]
        /\ failed' = [failed EXCEPT ![w] = FALSE] /\ UNCHANGED <<rows, effectVars, tenantVars>>
    BY DEF Crash
  <1>3. WorkTypes'
    <2>1. phase' \in [Workers -> Phases]
      BY <1>1, <1>2 DEF AutomationsTypeOK, Phases
    <2>2. failed' \in [Workers -> BOOLEAN]
      BY <1>1, <1>2 DEF AutomationsTypeOK
    <2> QED  BY <1>1, <1>2, <2>1, <2>2 DEF AutomationsTypeOK, WorkTypes
  <1>4. OthersStay(w)
    BY <1>1, <1>2 DEF AutomationsTypeOK, OthersStay
  <1>5. WorkOK(w)'
    BY <1>1, <1>2 DEF AutomationsTypeOK, WorkOK
  <1> QED  BY <1>2, <1>3, <1>4, <1>5, PlaceStep

\* A worker completes its event: as sent only when all its rules were run.
LEMMA CompleteStep ==
    ASSUME EngineInv, NEW w \in Workers, CompleteEvent(w)
    PROVE  EngineInv' /\ [TableNext]_rows
  <1> DEFINE c == cur[w]
             final == IF phase[w] = "skip" THEN "skipped" ELSE "sent"
  <1>1. phase[w] \in {"run", "skip"} /\ UNCHANGED <<effectVars, tenantVars>>
    BY DEF CompleteEvent
  <1>2. UNCHANGED <<event, task, receipt, comments, applied>> /\ Kept
    BY <1>1 DEF effectVars, Kept
  <1>3. CASE Goto(w, "release") /\ UNCHANGED rows
    BY <1>1, <1>2, <1>3, GoesToRelease, PlaceStep
  <1>4. CASE /\ Owns(rows[c.id], c.token)
             /\ rows' = [rows EXCEPT ![c.id] = Finished(@, final)] /\ Continue(w)
    <2>1. c.id \in Rows /\ rows \in [Rows -> RowType] /\ rows[c.id].status = "processing"
      BY <1>1, <1>4, AtHand DEF EngineInv, TableInv, Owns
    <2>2. final \in DoneStatus /\ final \in {"sent", "skipped"}
      BY DEF DoneStatus
    <2>3. rows' = [rows EXCEPT ![c.id] = Finished(rows[c.id], final)]
      BY <1>4
    <2> HIDE DEF final
    <2>4. [TableNext]_rows
      BY <1>4, <2>1, <2>2 DEF TableNext, Finish
    <2>5. Finished(rows[c.id], final).status = final
      BY <2>1 DEF Finished, RowType
    <2>6. \A e \in Rows : e # c.id => rows'[e] = rows[e]
      BY <2>1, <2>3
    <2>7. rows'[c.id].status = final
      BY <2>1, <2>3, <2>5
    <2>8. \A e \in Rows : rows'[e].status = "absent" <=> rows[e].status = "absent"
      BY <2>1, <2>2, <2>6, <2>7
    <2>9. WorkTypes' /\ WorkInv'
      BY <1>2, <1>4, LeavesEvent, OneWorkerSteps
    <2>10. SentRanEveryRule'
      <3> SUFFICES ASSUME NEW e \in Rows, NEW rule \in Rules \ EditedRules,
                          rows'[e].status = "sent", rule.on = event[e].trigger
                   PROVE  receipt[e][rule] # "none"
        BY <1>2 DEF SentRanEveryRule
      <3>1. CASE e # c.id
        BY <2>6, <3>1 DEF EngineInv, AutomationsInv, SentRanEveryRule
      <3>2. CASE e = c.id
        <4>1. phase[w] = "run" /\ todo[w] = {} /\ ~ failed[w]
          BY <1>1, <2>7, <3>2 DEF CompleteEvent, AllRulesDone, final
        <4>2. NoRuleForgotten(w)
          BY <4>1 DEF EngineInv, WorkInv, WorkOK
        <4>3. PICK i \in DOMAIN RuleOrder : rule = RuleOrder[i]
          BY DEF Rules
        <4> QED  BY <3>2, <4>1, <4>2, <4>3 DEF NoRuleForgotten
      <3> QED  BY <3>1, <3>2
    <2>11. /\ enabled' \subseteq Rules /\ Rules \ EditedRules \subseteq enabled' /\ members' \subseteq Users
           /\ task' \in [status : Statuses, version : Nat, live : BOOLEAN]
      BY <1>1, <1>2 DEF EngineInv, AutomationsInv, AutomationsTypeOK, tenantVars
    <2> QED  BY <1>2, <2>4, <2>8, <2>9, <2>10, <2>11, QuietStepInv
  <1> QED  BY <1>3, <1>4 DEF CompleteEvent

\* A worker gives its event back, or lets the one go that it has lost.
LEMMA ReleaseStep ==
    ASSUME EngineInv, NEW w \in Workers, ReleaseEvent(w)
    PROVE  EngineInv' /\ [TableNext]_rows
  <1> DEFINE c == cur[w]
             new == Fenced(rows[c.id], c.token, Released(rows[c.id]))
  <1>1. phase[w] \in {"run", "release"} /\ Continue(w) /\ UNCHANGED <<effectVars, tenantVars>>
    BY DEF ReleaseEvent
  <1>2. UNCHANGED <<event, task, receipt, comments, applied>> /\ Kept
    BY <1>1 DEF effectVars, Kept
  <1>3. c.id \in Rows /\ rows \in [Rows -> RowType]
    BY <1>1, AtHand DEF EngineInv, TableInv
  <1>4. rows' = [rows EXCEPT ![c.id] = new]
    BY DEF ReleaseEvent
  <1>5. \/ new = rows[c.id]
        \/ rows[c.id].status = "processing" /\ new = Released(rows[c.id])
    BY DEF Fenced, Owns
  <1>6. Released(rows[c.id]).status \in {"dead", "pending"}
    BY <1>3 DEF Released, Finished, RowType
  <1> HIDE DEF new
  <1>7. [TableNext]_rows
    <2>1. CASE new = rows[c.id]
      <3>1. rows' = rows
        BY <1>3, <1>4, <2>1
      <3> QED  BY <3>1
    <2>2. CASE rows[c.id].status = "processing" /\ new = Released(rows[c.id])
      <3>1. GiveBack(c.id)
        BY <1>4, <2>2 DEF GiveBack
      <3> QED  BY <1>3, <3>1 DEF TableNext
    <2> QED  BY <1>5, <2>1, <2>2
  <1>8. \A e \in Rows : /\ rows'[e].status = "absent" <=> rows[e].status = "absent"
                        /\ rows'[e].status = "sent" => rows[e].status = "sent"
    BY <1>3, <1>4, <1>5, <1>6
  <1>9. WorkTypes' /\ WorkInv' /\ SentRanEveryRule'
    BY <1>1, <1>2, <1>8, LeavesEvent, OneWorkerSteps, SentStays
  <1>10. /\ enabled' \subseteq Rules /\ Rules \ EditedRules \subseteq enabled' /\ members' \subseteq Users
         /\ task' \in [status : Statuses, version : Nat, live : BOOLEAN]
    BY <1>1, <1>2 DEF EngineInv, AutomationsInv, AutomationsTypeOK, tenantVars
  <1> QED  BY <1>2, <1>7, <1>8, <1>9, <1>10, QuietStepInv

\* A rule has nothing to do: its receipt says so.
LEMMA SkipStep ==
    ASSUME EngineInv, NEW w \in Workers, RuleSkips(w)
    PROVE  EngineInv' /\ [TableNext]_rows
  <1> DEFINE f == cur[w].id
             i == First(todo[w])
             r == RuleOrder[i]
  <1>1. /\ phase[w] = "run" /\ todo[w] # {} /\ GateOpen(receipt[f][r])
        /\ receipt' = [receipt EXCEPT ![f][r] = "skipped"]
        /\ UNCHANGED <<rows, event, task, comments, applied, tenantVars>>
    BY DEF RuleSkips
  <1>2. PICK error \in BOOLEAN : RuleDone(w, error)
    BY DEF RuleSkips
  <1>3. WorkTypes' /\ OthersStay(w) /\ i \in DOMAIN RuleOrder
    BY <1>1, <1>2, DoneStep
  <1>4. f \in Rows /\ Present(f) /\ r \in Rules
    BY <1>1, <1>3, AtHand, RuleFacts
  <1>5. receipt \in [Rows -> [Rules -> Receipts]] /\ AutomationsTypeOK
    BY DEF EngineInv, AutomationsInv, AutomationsTypeOK
  <1> HIDE DEF f, i, r
  <1>6. receipt[f][r] = "none"
    BY <1>1, <1>4, <1>5 DEF GateOpen, Receipts
  <1>7. /\ receipt' \in [Rows -> [Rules -> Receipts]] /\ receipt'[f][r] = "skipped"
        /\ \A e \in Rows, rule \in Rules :
              receipt'[e][rule] = receipt[e][rule] \/ (e = f /\ rule = r)
    BY <1>1, <1>4, <1>5 DEF Receipts
  <1>8. /\ Kept
        /\ \A e \in Rows, rule \in Rules :
              receipt'[e][rule] = "success" <=> receipt[e][rule] = "success"
    BY <1>1, <1>6, <1>7 DEF Kept
  <1>9. \A e : Present(e)' <=> Present(e)
    BY <1>1 DEF Present
  <1>10. TableInv' /\ AutomationsTypeOK'
    BY <1>1, <1>3, <1>5, <1>7 DEF EngineInv, TableInv, AutomationsTypeOK, WorkTypes, tenantVars
  <1>11. AppliedOnce' /\ ConditionsUseSnapshot'
    BY <1>1, <1>8 DEF EngineInv, AutomationsInv, AppliedOnce, ConditionsUseSnapshot
  <1>12. LoopProtection'
    <2> SUFFICES ASSUME NEW e \in Rows, Present(e)
                 PROVE  /\ event[e].depth =< MaxDepth
                        /\ \A rule \in Rules : receipt'[e][rule] = "success" => event[e].depth < MaxDepth
                        /\ event[e].parent # NoEvent =>
                              /\ event[e].depth = event[event[e].parent].depth + 1
                              /\ \E rule \in Rules : receipt'[event[e].parent][rule] = "success"
      BY <1>1, <1>9 DEF LoopProtection
    <2>1. event[e].parent # NoEvent => event[e].parent \in Rows
      BY <1>5 DEF AutomationsTypeOK, EventType, Present
    <2> QED  BY <1>8, <2>1 DEF EngineInv, AutomationsInv, LoopProtection
  <1>13. SentRanEveryRule' /\ WorkInv'
    <2>1. WorkOK(w)'
      BY <1>1, <1>2, <1>7, <1>8, DoneInPlace DEF f, r, i
    <2> QED  BY <1>1, <1>3, <1>8, <2>1, OneWorkerSteps, SentStays
  <1>14. Changes' = Changes
    BY <1>1, <1>9 DEF Changes
  <1>15. EveryChangeHasItsEvent'
    BY <1>1, <1>14 DEF EngineInv, AutomationsInv, EveryChangeHasItsEvent, Changes
  <1>16. RecordsInv'
    <2>1. \A e \in Rows : ~ Present(e) => e # f
      BY <1>4
    <2> QED  BY <1>1, <1>7, <1>8, <1>9, <1>14, <2>1 DEF EngineInv, RecordsInv
  <1>17. (Rules \ EditedRules \subseteq enabled)' /\ ActorsInherited'
    BY <1>1, <1>9 DEF EngineInv, AutomationsInv, ActorsInherited, tenantVars
  <1> QED  BY <1>1, <1>10, <1>11, <1>12, <1>13, <1>15, <1>16, <1>17 DEF EngineInv, AutomationsInv

-----------------------------------------------------------------------------
\* The receipts that a step may add: a rule succeeds only for an event below the
\* limit whose snapshot meets the rule's conditions, and takes effect with it.
ReceiptsAdded ==
    /\ receipt' \in [Rows -> [Rules -> Receipts]] /\ applied' \in [Rows -> [Rules -> Nat]]
    /\ \A e \in Rows, rule \in Rules :
          /\ receipt[e][rule] # "none" => receipt'[e][rule] = receipt[e][rule]
          /\ receipt'[e][rule] # receipt[e][rule] =>
                Present(e) /\ event[e].depth < MaxDepth /\ event[e].status \in rule.when
          /\ applied'[e][rule] = IF receipt'[e][rule] = "success" /\ Acts(rule) THEN 1 ELSE 0

\* The events that a step may add: those of users, and the children of an event of
\* which a rule succeeded.
ParentsKnown(new) ==
    \A x \in new :
        \/ x.parent = NoEvent
        \/ /\ x.parent \in Rows /\ Present(x.parent) /\ x.depth = event[x.parent].depth + 1
           /\ x.actor = event[x.parent].actor
           /\ \E rule \in Rules : receipt'[x.parent][rule] = "success"

\* A step that writes events with the receipts of their cause.
LEMMA EventfulStep ==
    ASSUME EngineInv, NEW new \in SUBSET EventType, InsertEvents(new),
           ReceiptsAdded, ParentsKnown(new),
           comments' \subseteq Rows \X Rules,
           \A e \in Rows, rule \in Rules :
               /\ <<e, rule>> \in comments' <=> receipt'[e][rule] = "success" /\ rule.comment
               /\ <<e, rule>> \in comments' => event[e].actor # NoActor,
           task' \in [status : Statuses, version : Nat, live : BOOLEAN],
           \/ /\ task'.version = task.version
              /\ \A x \in new : x.trigger # "task_status_changed"
           \/ /\ task'.version = task.version + 1
              /\ \E x \in Emitted(new) :
                    /\ x.trigger = "task_status_changed" /\ x.version = task'.version
                    /\ \A y \in new : y.trigger = "task_status_changed" => y = x,
           UNCHANGED tenantVars,
           Kept => WorkTypes' /\ WorkInv'
    PROVE  EngineInv' /\ [TableNext]_rows
  <1>1. /\ [TableNext]_rows
        /\ event' \in [Rows -> EventType \cup {NoEvent}]
        /\ \A e \in Rows : Present(e) => Present(e)' /\ event'[e] = event[e]
        /\ \A e \in Rows : Present(e)' /\ ~ Present(e) => event'[e] \in Emitted(new)
        /\ \A e \in Rows : rows'[e].status = "absent" <=> ~ Present(e)'
        /\ \A e \in Rows : rows'[e].status = "sent" => rows[e].status = "sent"
    BY EventsJoin
  <1>2. Kept
    BY <1>1 DEF Kept, ReceiptsAdded
  <1>3. WorkTypes' /\ WorkInv' /\ SentRanEveryRule'
    BY <1>1, <1>2, SentStays
  <1>4. TableInv'
    BY <1>1, TableInvStep DEF EngineInv
  <1>5. AutomationsTypeOK'
    BY <1>1, <1>3, <1>4
       DEF AutomationsTypeOK, EngineInv, AutomationsInv, WorkTypes, TableInv, ReceiptsAdded, tenantVars
  <1>6. task'.version \in Nat
    OBVIOUS
  <1>7. EveryChangeHasItsEvent' /\ IsFiniteSet(Changes)'
    BY <1>6, ChangesCounted
  <1>8. AppliedOnce'
    BY DEF AppliedOnce, ReceiptsAdded
  <1>9. \A e \in Rows, rule \in Rules : receipt[e][rule] # "none" => Present(e)
    BY DEF EngineInv, RecordsInv
  <1>10. \A e \in Rows, rule \in Rules : receipt'[e][rule] # "none" => Present(e)
    BY <1>9 DEF ReceiptsAdded
  <1>11. ConditionsUseSnapshot'
    <2> SUFFICES ASSUME NEW e \in Rows, NEW rule \in Rules, receipt'[e][rule] = "success"
                 PROVE  event'[e].status \in rule.when
      BY DEF ConditionsUseSnapshot
    <2>1. event'[e] = event[e]
      BY <1>1, <1>10
    <2>2. event[e].status \in rule.when
      BY DEF ReceiptsAdded, EngineInv, AutomationsInv, ConditionsUseSnapshot
    <2> QED  BY <2>1, <2>2
  <1>12. LoopProtection'
    <2> SUFFICES ASSUME NEW e \in Rows, Present(e)'
                 PROVE  /\ event'[e].depth =< MaxDepth
                        /\ \A rule \in Rules : receipt'[e][rule] = "success" => event'[e].depth < MaxDepth
                        /\ event'[e].parent # NoEvent =>
                              /\ event'[e].depth = event'[event'[e].parent].depth + 1
                              /\ \E rule \in Rules : receipt'[event'[e].parent][rule] = "success"
      BY DEF LoopProtection
    <2>1. CASE Present(e)
      <3>1. event'[e] = event[e]
        BY <1>1, <2>1
      <3>2. event[e].depth =< MaxDepth
        BY <2>1 DEF EngineInv, AutomationsInv, LoopProtection
      <3>3. \A rule \in Rules : receipt'[e][rule] = "success" => event[e].depth < MaxDepth
        BY <2>1 DEF EngineInv, AutomationsInv, LoopProtection, ReceiptsAdded
      <3>4. ASSUME event[e].parent # NoEvent
            PROVE  /\ event[e].depth = event'[event[e].parent].depth + 1
                   /\ \E rule \in Rules : receipt'[event[e].parent][rule] = "success"
        <4>1. event[e].parent \in Rows /\ Present(event[e].parent)
          <5>1. event[e] \in EventType
            BY <2>1 DEF EngineInv, AutomationsInv, AutomationsTypeOK, Present
          <5> QED  BY <2>1, <3>4, <5>1 DEF EngineInv, RecordsInv, EventType
        <4>2. event'[event[e].parent] = event[event[e].parent]
          BY <1>1, <4>1
        <4>3. /\ event[e].depth = event[event[e].parent].depth + 1
              /\ \E rule \in Rules : receipt[event[e].parent][rule] = "success"
          BY <2>1, <3>4 DEF EngineInv, AutomationsInv, LoopProtection
        <4> QED  BY <4>1, <4>2, <4>3 DEF ReceiptsAdded
      <3> QED  BY <3>1, <3>2, <3>3, <3>4
    <2>2. CASE ~ Present(e)
      <3>1. event'[e] \in new /\ event'[e].depth =< MaxDepth
        BY <1>1, <2>2 DEF Emitted
      <3>2. \A rule \in Rules : receipt'[e][rule] # "success"
        BY <1>10, <2>2
      <3>3. event'[e].parent # NoEvent =>
              /\ event'[e].parent \in Rows /\ Present(event'[e].parent)
              /\ event'[e].depth = event[event'[e].parent].depth + 1
              /\ \E rule \in Rules : receipt'[event'[e].parent][rule] = "success"
        BY <3>1 DEF ParentsKnown
      <3> QED  BY <1>1, <3>1, <3>2, <3>3
    <2> QED  BY <2>1, <2>2
  <1>13. RecordsInv'
    <2>1. ASSUME NEW e \in Rows, Present(e)', event'[e].parent # NoEvent
          PROVE  event'[event'[e].parent] # NoEvent
      <3>1. CASE Present(e)
        <4>1. event'[e] = event[e] /\ event[e] \in EventType
          BY <1>1, <3>1 DEF EngineInv, AutomationsInv, AutomationsTypeOK, Present
        <4>2. event[e].parent \in Rows /\ Present(event[e].parent)
          BY <2>1, <3>1, <4>1 DEF EngineInv, RecordsInv, EventType
        <4> QED  BY <1>1, <4>1, <4>2 DEF Present
      <3>2. CASE ~ Present(e)
        <4>1. event'[e] \in new
          BY <1>1, <2>1, <3>2 DEF Emitted
        <4>2. event'[e].parent \in Rows /\ Present(event'[e].parent)
          BY <2>1, <4>1 DEF ParentsKnown
        <4> QED  BY <1>1, <4>2 DEF Present
      <3> QED  BY <3>1, <3>2
    <2>2. \A e \in Rows : ~ Present(e)' => \A rule \in Rules : receipt'[e][rule] = "none"
      BY <1>1, <1>10
    <2>3. \A e \in Rows : (Present(e) /\ event[e].parent # NoEvent => Present(event[e].parent))'
      BY <2>1 DEF Present
    <2> QED  BY <1>1, <1>7, <2>2, <2>3 DEF RecordsInv
  <1>14. (Rules \ EditedRules \subseteq enabled)'
    BY DEF EngineInv, tenantVars
  <1>15. ActorsInherited'
    <2>1. ASSUME NEW e \in Rows, NEW rule \in Rules, <<e, rule>> \in comments'
          PROVE  event'[e].actor # NoActor
      BY <1>1, <1>10, <2>1
    <2>2. ASSUME NEW e \in Rows, Present(e)', event'[e].parent # NoEvent
          PROVE  event'[e].actor = event'[event'[e].parent].actor
      <3>1. CASE Present(e)
        <4>1. event'[e] = event[e] /\ event[e] \in EventType
          BY <1>1, <3>1 DEF EngineInv, AutomationsInv, AutomationsTypeOK, Present
        <4>2. event[e].parent \in Rows /\ Present(event[e].parent)
          BY <2>2, <3>1, <4>1 DEF EngineInv, RecordsInv, EventType
        <4>3. event[e].actor = event[event[e].parent].actor
          BY <2>2, <3>1, <4>1 DEF EngineInv, AutomationsInv, ActorsInherited
        <4> QED  BY <1>1, <4>1, <4>2, <4>3
      <3>2. CASE ~ Present(e)
        <4>1. event'[e] \in new
          BY <1>1, <2>2, <3>2 DEF Emitted
        <4>2. /\ event'[e].parent \in Rows /\ Present(event'[e].parent)
              /\ event'[e].actor = event[event'[e].parent].actor
          BY <2>2, <4>1 DEF ParentsKnown
        <4> QED  BY <1>1, <4>2
      <3> QED  BY <3>1, <3>2
    <2> QED  BY <2>1, <2>2 DEF ActorsInherited
  <1> QED  BY <1>1, <1>3, <1>4, <1>5, <1>7, <1>8, <1>11, <1>12, <1>13, <1>14, <1>15
           DEF EngineInv, AutomationsInv

\* A change of the status makes the next version of the task.
LEMMA NextVersion ==
    ASSUME EngineInv, NEW s \in Statuses
    PROVE  /\ MovedTo(s) \in [status : Statuses, version : Nat, live : BOOLEAN]
           /\ MovedTo(s).version = task.version + 1
  <1>1. task \in [status : Statuses, version : Nat, live : BOOLEAN]
    BY DEF EngineInv, AutomationsInv, AutomationsTypeOK
  <1>2. MovedTo(s) = [status |-> s, version |-> task.version + 1, live |-> task.live]
    BY DEF MovedTo
  <1>3. task.version + 1 \in Nat
    BY <1>1
  <1>4. task.live \in BOOLEAN
    BY <1>1
  <1> QED  BY <1>2, <1>3, <1>4

\* A user changes the status, or the daily job runs.
LEMMA UserStep ==
    ASSUME EngineInv, UserEvent
    PROVE  EngineInv' /\ [TableNext]_rows
  <1>1. AutomationsTypeOK /\ task \in [status : Statuses, version : Nat, live : BOOLEAN]
    BY DEF EngineInv, AutomationsInv, AutomationsTypeOK
  <1>2. UNCHANGED <<workerVars, receipt, comments, applied, tenantVars>>
    BY DEF UserEvent, UserChangesStatus, EnqueueDaily
  <1>3. ReceiptsAdded /\ comments' \subseteq Rows \X Rules
    BY ZenonT(60), <1>1, <1>2 DEF ReceiptsAdded, EngineInv, AutomationsInv, AppliedOnce, AutomationsTypeOK
  <1>4. \A e \in Rows, rule \in Rules :
           /\ <<e, rule>> \in comments' <=> receipt'[e][rule] = "success" /\ rule.comment
           /\ <<e, rule>> \in comments' => event[e].actor # NoActor
    BY <1>2 DEF EngineInv, AutomationsInv, AppliedOnce, ActorsInherited
  <1>5. Kept => WorkTypes' /\ WorkInv'
    BY <1>2, NoWorkerSteps
  <1> DEFINE x(t, a) == EventOf(t, task', a, 0, NoEvent)
  <1>6. ASSUME task' \in [status : Statuses, version : Nat, live : BOOLEAN], NEW t \in Triggers,
               NEW a \in Users \cup {NoActor}
        PROVE  /\ x(t, a) \in EventType /\ {x(t, a)} \in SUBSET EventType /\ x(t, a) \in Emitted({x(t, a)})
               /\ x(t, a).trigger = t /\ x(t, a).version = task'.version /\ ParentsKnown({x(t, a)})
    <2>1. x(t, a) = [trigger |-> t, status |-> task'.status, version |-> task'.version,
                  actor |-> a, depth |-> 0, parent |-> NoEvent]
      BY DEF EventOf
    <2>2. task'.status \in Statuses /\ task'.version \in Nat
      BY <1>6
    <2>3. x(t, a) \in EventType
      BY <2>1, <2>2 DEF EventType
    <2>4. x(t, a).trigger = t /\ x(t, a).version = task'.version /\ x(t, a).depth = 0 /\ x(t, a).parent = NoEvent
      BY <2>1
    <2> HIDE DEF x
    <2> QED  BY <2>3, <2>4, AutomationConstants DEF Emitted, ParentsKnown
  <1> HIDE DEF x
  <1>7. ASSUME NEW u \in Users, NEW s \in Statuses, UserChangesStatus(u, s)
        PROVE  EngineInv' /\ [TableNext]_rows
    <2>1. task' = MovedTo(s) /\ InsertEvents({x("task_status_changed", u)})
      BY <1>7 DEF UserChangesStatus, x
    <2>2. /\ task' \in [status : Statuses, version : Nat, live : BOOLEAN]
          /\ task'.version = task.version + 1
      BY <2>1, NextVersion
    <2>3. /\ {x("task_status_changed", u)} \in SUBSET EventType
          /\ x("task_status_changed", u) \in Emitted({x("task_status_changed", u)})
          /\ x("task_status_changed", u).trigger = "task_status_changed"
          /\ x("task_status_changed", u).version = task'.version
          /\ ParentsKnown({x("task_status_changed", u)})
      BY <1>6, <2>2 DEF Triggers
    <2>4. \E y \in Emitted({x("task_status_changed", u)}) :
             /\ y.trigger = "task_status_changed" /\ y.version = task'.version
             /\ \A z \in {x("task_status_changed", u)} : z.trigger = "task_status_changed" => z = y
      BY <2>3
    <2> QED  BY <1>2, <1>3, <1>4, <1>5, <2>1, <2>2, <2>3, <2>4, EventfulStep
  <1>8. ASSUME EnqueueDaily
        PROVE  EngineInv' /\ [TableNext]_rows
    <2>1. task' = task /\ InsertEvents({x("schedule_daily", NoActor)})
      BY <1>8 DEF EnqueueDaily, x
    <2>2. /\ {x("schedule_daily", NoActor)} \in SUBSET EventType
          /\ x("schedule_daily", NoActor).trigger = "schedule_daily"
          /\ ParentsKnown({x("schedule_daily", NoActor)})
      BY <1>1, <1>6, <2>1 DEF Triggers
    <2>3. \A z \in {x("schedule_daily", NoActor)} : z.trigger # "task_status_changed"
      BY <2>2
    <2>4. task'.version = task.version /\ task' \in [status : Statuses, version : Nat, live : BOOLEAN]
      BY <1>1, <2>1
    <2> QED  BY <1>2, <1>3, <1>4, <1>5, <2>1, <2>2, <2>3, <2>4, EventfulStep
  <1> QED  BY <1>7, <1>8 DEF UserEvent

\* A rule takes effect.
LEMMA ActStep ==
    ASSUME EngineInv, NEW w \in Workers, RuleActs(w)
    PROVE  EngineInv' /\ [TableNext]_rows
  <1> DEFINE f == cur[w].id
             i == First(todo[w])
             r == RuleOrder[i]
             moves == r.set \notin {"keep", task.status}
             newTask == IF moves THEN MovedTo(r.set) ELSE task
             speaks == r.comment /\ <<f, r>> \notin comments
             child(t) == EventOf(t, newTask, event[f].actor, event[f].depth + 1, f)
             new == (IF moves THEN {child("task_status_changed")} ELSE {})
                    \cup (IF speaks THEN {child("comment_added")} ELSE {})
             outcome == Outcome(r, moves)
  <1>1. /\ phase[w] = "run" /\ todo[w] # {} /\ GateOpen(receipt[f][r]) /\ UNCHANGED tenantVars
        /\ RuleApplies(r, f) /\ Effects(r, f)
    BY DEF RuleActs
  <1>2. PICK error \in BOOLEAN : RuleDone(w, error)
    BY DEF RuleActs
  <1>3. WorkTypes' /\ OthersStay(w) /\ i \in DOMAIN RuleOrder
    BY <1>1, <1>2, DoneStep
  <1>4. /\ f \in Rows /\ Present(f) /\ r \in Rules
        /\ r.set \in Statuses \cup {"keep"} /\ r.comment \in BOOLEAN
    BY <1>1, <1>3, AtHand, RuleFacts
  <1>5. AutomationsTypeOK /\ task \in [status : Statuses, version : Nat, live : BOOLEAN]
    BY DEF EngineInv, AutomationsInv, AutomationsTypeOK
  <1>6. /\ event[f].depth \in Nat /\ event[f].depth < MaxDepth /\ event[f].status \in r.when
        /\ event[f].actor \in Users \cup {NoActor}
    <2>1. event[f] \in EventType
      BY <1>4, <1>5 DEF AutomationsTypeOK, Present
    <2>2. event[f].depth \in Nat /\ event[f].actor \in Users \cup {NoActor}
      BY <2>1 DEF EventType
    <2>3. event[f].depth < MaxDepth
      BY <1>1 DEF EngineInv, WorkInv, WorkOK
    <2>4. event[f].status \in r.when
      BY <1>1 DEF RuleApplies, MatchesConditions
    <2> QED  BY <2>2, <2>3, <2>4
  <1>7. /\ task' = newTask
        /\ comments' = IF speaks THEN comments \cup {<<f, r>>} ELSE comments
        /\ InsertEvents(new)
        /\ receipt' = [receipt EXCEPT ![f][r] = outcome]
        /\ applied' = [applied EXCEPT ![f][r] = IF moves \/ speaks THEN @ + 1 ELSE @]
    BY <1>1 DEF Effects
  <1>8. /\ newTask \in [status : Statuses, version : Nat, live : BOOLEAN]
        /\ newTask.version = IF moves THEN task.version + 1 ELSE task.version
    <2>1. CASE moves
      <3>1. r.set \in Statuses
        BY <1>4, <2>1
      <3> QED  BY <2>1, <3>1, NextVersion
    <2>2. CASE ~ moves
      BY <1>5, <2>2
    <2> QED  BY <2>1, <2>2
  <1> HIDE DEF f, i, r
  <1>9. receipt[f][r] = "none"
    BY <1>1, <1>4, <1>5 DEF GateOpen, Receipts, AutomationsTypeOK
  <1>10. applied[f][r] = 0 /\ <<f, r>> \notin comments
    BY <1>4, <1>9 DEF EngineInv, AutomationsInv, AppliedOnce
  <1>11. speaks <=> r.comment
    BY <1>10
  <1>12. child("task_status_changed") \in EventType /\ child("comment_added") \in EventType
    <2>1. /\ newTask = [status |-> newTask.status, version |-> newTask.version, live |-> newTask.live]
          /\ newTask.status \in Statuses /\ newTask.version \in Nat
      BY <1>8
    <2> HIDE DEF newTask
    <2>2. "task_status_changed" \in Triggers /\ "comment_added" \in Triggers
      BY DEF Triggers
    <2>3. event[f].depth + 1 \in Nat /\ event[f].actor \in Users \cup {NoActor}
      BY <1>6
    <2> QED  BY <1>4, <2>1, <2>2, <2>3 DEF EventOf, EventType
  <1>13. \A t \in Triggers : /\ child(t).trigger = t /\ child(t).version = newTask.version
                             /\ child(t).depth = event[f].depth + 1 /\ child(t).parent = f
                             /\ child(t).actor = event[f].actor
    BY DEF EventOf
  <1>14. /\ outcome \in Receipts /\ outcome # "none"
         /\ moves \/ speaks => outcome = "success" /\ Acts(r)
         /\ outcome = "success" /\ Acts(r) => moves \/ speaks
         /\ speaks => event[f].actor # NoActor
    <2>1. MayAct(r, f) /\ members \subseteq Users
      BY <1>1, <1>5 DEF Effects, AutomationsTypeOK
    <2>2. speaks => event[f].actor # NoActor
      BY <2>1, AutomationConstants DEF MayAct
    <2> QED  BY <1>4, <1>11, <2>2 DEF Receipts, Outcome, Acts
  <1> HIDE DEF moves, newTask, speaks, child, outcome
  <1>15. new \in SUBSET EventType
    BY <1>12
  <1>16. /\ receipt' \in [Rows -> [Rules -> Receipts]] /\ receipt'[f][r] = outcome
         /\ \A e \in Rows, rule \in Rules :
               receipt'[e][rule] = receipt[e][rule] \/ (e = f /\ rule = r)
    BY <1>4, <1>5, <1>7, <1>14 DEF AutomationsTypeOK
  <1>17. /\ applied' \in [Rows -> [Rules -> Nat]]
         /\ applied'[f][r] = IF moves \/ speaks THEN 1 ELSE 0
         /\ \A e \in Rows, rule \in Rules :
               applied'[e][rule] = applied[e][rule] \/ (e = f /\ rule = r)
    <2>1. applied' = [applied EXCEPT ![f][r] = IF moves \/ speaks THEN 1 ELSE 0]
      BY <1>7, <1>10
    <2>2. applied \in [Rows -> [Rules -> Nat]]
      BY <1>5 DEF AutomationsTypeOK
    <2> QED  BY <1>4, <2>1, <2>2
  <1>18. ReceiptsAdded
    <2> SUFFICES ASSUME NEW e \in Rows, NEW rule \in Rules
                 PROVE  /\ receipt[e][rule] # "none" => receipt'[e][rule] = receipt[e][rule]
                        /\ receipt'[e][rule] # receipt[e][rule] =>
                              Present(e) /\ event[e].depth < MaxDepth /\ event[e].status \in rule.when
                        /\ applied'[e][rule] = IF receipt'[e][rule] = "success" /\ Acts(rule)
                                                THEN 1 ELSE 0
      BY <1>16, <1>17 DEF ReceiptsAdded
    <2>1. CASE e = f /\ rule = r
      BY <1>4, <1>6, <1>9, <1>14, <1>16, <1>17, <2>1
    <2>2. CASE ~ (e = f /\ rule = r)
      <3>1. receipt'[e][rule] = receipt[e][rule]
        BY <1>16, <2>2
      <3>2. applied'[e][rule] = applied[e][rule]
        BY <1>17, <2>2
      <3> QED  BY <3>1, <3>2 DEF EngineInv, AutomationsInv, AppliedOnce
    <2> QED  BY <2>1, <2>2
  <1>19. ParentsKnown(new)
    <2> SUFFICES ASSUME NEW x \in new
                 PROVE  /\ x.parent \in Rows /\ Present(x.parent) /\ x.depth = event[x.parent].depth + 1
                        /\ x.actor = event[x.parent].actor
                        /\ \E rule \in Rules : receipt'[x.parent][rule] = "success"
      BY DEF ParentsKnown
    <2>1. moves \/ speaks
      OBVIOUS
    <2>2. x.parent = f /\ x.depth = event[f].depth + 1 /\ x.actor = event[f].actor
      BY <1>13 DEF Triggers
    <2> QED  BY <1>4, <1>14, <1>16, <2>1, <2>2
  <1>20. /\ comments' \subseteq Rows \X Rules
         /\ \A e \in Rows, rule \in Rules :
               /\ <<e, rule>> \in comments' <=> receipt'[e][rule] = "success" /\ rule.comment
               /\ <<e, rule>> \in comments' => event[e].actor # NoActor
    <2>1. comments \subseteq Rows \X Rules
      BY <1>5 DEF AutomationsTypeOK
    <2>2. comments' \subseteq Rows \X Rules
      BY <1>4, <1>7, <2>1
    <2>3. ASSUME NEW e \in Rows, NEW rule \in Rules
          PROVE  /\ <<e, rule>> \in comments' <=> receipt'[e][rule] = "success" /\ rule.comment
                 /\ <<e, rule>> \in comments' => event[e].actor # NoActor
      <3>1. CASE e = f /\ rule = r
        <4>1. <<f, r>> \in comments' <=> speaks
          BY <1>7, <1>10
        <4>2. receipt'[f][r] = "success" /\ r.comment <=> speaks
          BY <1>11, <1>14, <1>16
        <4> QED  BY <1>14, <3>1, <4>1, <4>2
      <3>2. CASE ~ (e = f /\ rule = r)
        <4>1. <<e, rule>> \in comments' <=> <<e, rule>> \in comments
          BY <1>7, <3>2
        <4>2. receipt'[e][rule] = receipt[e][rule]
          BY <1>16, <3>2
        <4> QED  BY <4>1, <4>2 DEF EngineInv, AutomationsInv, AppliedOnce, ActorsInherited
      <3> QED  BY <3>1, <3>2
    <2> QED  BY <2>2, <2>3
  <1>21. \/ /\ task'.version = task.version
            /\ \A x \in new : x.trigger # "task_status_changed"
         \/ /\ task'.version = task.version + 1
            /\ \E x \in Emitted(new) :
                  /\ x.trigger = "task_status_changed" /\ x.version = task'.version
                  /\ \A y \in new : y.trigger = "task_status_changed" => y = x
    <2>1. child("comment_added").trigger = "comment_added"
      BY <1>13 DEF Triggers
    <2>2. CASE ~ moves
      BY <1>7, <1>8, <2>1, <2>2
    <2>3. CASE moves
      <3>1. child("task_status_changed") \in Emitted(new)
        <4>1. child("task_status_changed").depth = event[f].depth + 1
          BY <1>13 DEF Triggers
        <4> QED  BY <1>6, <2>3, <4>1, AutomationConstants DEF Emitted
      <3>2. /\ child("task_status_changed").trigger = "task_status_changed"
            /\ child("task_status_changed").version = task'.version
        BY <1>7, <1>13 DEF Triggers
      <3>3. \A y \in new : y.trigger = "task_status_changed" => y = child("task_status_changed")
        BY <2>1
      <3> QED  BY <1>7, <1>8, <2>3, <3>1, <3>2, <3>3
    <2> QED  BY <2>2, <2>3
  <1>22. ASSUME Kept PROVE WorkTypes' /\ WorkInv'
    <2>1. WorkOK(w)'
      BY <1>1, <1>2, <1>14, <1>16, <1>22, DoneInPlace DEF f, r, i
    <2> QED  BY <1>3, <1>22, <2>1, OneWorkerSteps
  <1>23. task' \in [status : Statuses, version : Nat, live : BOOLEAN]
    BY <1>7, <1>8
  <1> HIDE DEF new
  <1> QED  BY <1>1, <1>7, <1>15, <1>18, <1>19, <1>20, <1>21, <1>22, <1>23, EventfulStep

-----------------------------------------------------------------------------
\* A step of the automations keeps the invariant, and is one of the table.
LEMMA EngineStepInv ==
    ASSUME EngineInv, [AutomationsNext]_automationVars
    PROVE  EngineInv' /\ [TableNext]_rows
  <1>1. CASE AutomationsNext
    <2>1. ASSUME NEW w \in Workers, ExecuteRule(w)
          PROVE  EngineInv' /\ [TableNext]_rows
      BY <2>1, RuleOutcomes, ActStep, SkipStep, PassStep
    <2>2. ASSUME NEW w \in Workers, ClaimAutomationEventBatch(w) \/ WorkerStep(w) \/ Crash(w)
          PROVE  EngineInv' /\ [TableNext]_rows
      BY <2>1, <2>2, ClaimStep, LoadStep, CompleteStep, ReleaseStep, CrashStep DEF WorkerStep
    <2>3. CASE UserEvent
      BY <2>3, UserStep
    <2>4. CASE \/ UserDeletesTask \/ \E rule \in EditedRules : EditRule(rule)
               \/ \E u \in Users : MemberLeaves(u)
               \/ \E e \in Rows : RetryDead(e) \/ TimePasses(e)
      BY <2>4, OutsideSteps
    <2> QED  BY <1>1, <2>2, <2>3, <2>4 DEF AutomationsNext, UserEvent
  <1>2. CASE UNCHANGED automationVars
    <2>1. UNCHANGED <<rows, workerVars, event, task, receipt, comments, applied, tenantVars>>
      BY <1>2 DEF automationVars, effectVars
    <2>2. /\ enabled' \subseteq Rules /\ Rules \ EditedRules \subseteq enabled' /\ members' \subseteq Users
          /\ task' \in [status : Statuses, version : Nat, live : BOOLEAN]
      BY <2>1 DEF EngineInv, AutomationsInv, AutomationsTypeOK, tenantVars
    <2>3. Kept
      BY <2>1, QuietStep
    <2>4. WorkTypes' /\ WorkInv' /\ SentRanEveryRule'
      BY <2>1, <2>3, NoWorkerSteps, SentStays
    <2> QED  BY <2>1, <2>2, <2>4, QuietStepInv
  <1> QED  BY <1>1, <1>2

\* However workers, users, managers and time interleave, rules act once per event,
\* on what the event saw and below the limit; no rule is passed over and every
\* change of the status has its event.
THEOREM AutomationsInvariant == AutomationsSpec => []AutomationsInv
  <1>1. AutomationsInit => EngineInv
    BY EngineInitInv
  <1>2. EngineInv /\ [AutomationsNext]_automationVars => EngineInv'
    BY EngineStepInv
  <1>3. EngineInv => AutomationsInv
    BY DEF EngineInv
  <1> QED  BY <1>1, <1>2, <1>3, PTL DEF AutomationsSpec

\* The worker's statements on automation_events, and the inserts of those that
\* write events, do to the rows only what the table promises.
THEOREM AutomationsImplementTable == AutomationsSpec => ImplementsWorkTable
  <1>1. AutomationsInit => EngineInv /\ TableInit
    BY EngineInitInv DEF AutomationsInit
  <1>2. EngineInv /\ [AutomationsNext]_automationVars => EngineInv' /\ [TableNext]_rows
    BY EngineStepInv
  <1> QED  BY <1>1, <1>2, PTL DEF AutomationsSpec, ImplementsWorkTable, TableSpec

\* The triggers of the migration never reject a statement on automation_events.
THEOREM AutomationsTrigger == AutomationsSpec => TriggerNeverFires
  BY AutomationsImplementTable, TableTrigger, PTL DEF ImplementsWorkTable

-----------------------------------------------------------------------------
(* The board.                                                              *)

\* A key tells any two cards apart.
Keys == {key \in [Task -> Nat] : \A t, u \in Task : key[t] = key[u] => t = u}

\* Both sortings of the cards have such a key.
LEMMA BoardKeys == IdRank \in Keys /\ Serial \in Keys
  <1>1. IdRank \in Keys
    BY BoardConstants DEF Keys
  <1>2. Serial \in [Task -> Nat]
    <2>1. Cardinality(Task) \in Nat /\ Task = 1..Cardinality(Task)
      BY BoardConstants, FS_CardinalityType
    <2>2. \A t \in Task : t \in Nat
      BY <2>1
    <2> QED  BY <2>2 DEF Serial
  <1>3. \A t, u \in Task : Serial[t] = Serial[u] => t = u
    BY DEF Serial
  <1> QED  BY <1>1, <1>2, <1>3 DEF Keys

\* Every task has an order, the one it was given or 0.
LEMMA OrdersAreNumbers ==
    ASSUME TypeOK, NEW t \in Task
    PROVE  card[t].order \in Int
  <1>1. card[t] \in Place \cup {Off("new"), Off("gone")}
    BY DEF TypeOK
  <1>2. Order \subseteq Int
    BY BoardConstants DEF Order
  <1>3. CASE card[t] \in Place
    BY <1>2, <1>3 DEF Place
  <1>4. CASE card[t] \in {Off("new"), Off("gone")}
    BY <1>4 DEF Off
  <1> QED  BY <1>1, <1>3, <1>4

\* The cards are sorted: of two of them one precedes the other, and what comes
\* before a card comes before those behind it.
LEMMA SortedCards ==
    ASSUME TypeOK, NEW key \in Keys, NEW t \in Task, NEW u \in Task, NEW v \in Task
    PROVE  /\ ~ Precedes(key, t, t)
           /\ Precedes(key, t, u) => ~ Precedes(key, u, t)
           /\ t # u => Precedes(key, t, u) \/ Precedes(key, u, t)
           /\ Precedes(key, t, u) /\ Precedes(key, u, v) => Precedes(key, t, v)
  <1>1. card[t].order \in Int /\ card[u].order \in Int /\ card[v].order \in Int
    BY OrdersAreNumbers
  <1>2. key[t] \in Nat /\ key[u] \in Nat /\ key[v] \in Nat /\ (key[t] = key[u] => t = u)
    BY DEF Keys
  <1> QED  BY <1>1, <1>2 DEF Precedes

\* The positions of the cards of a column are those from 0 on, each taken once.
LEMMA Positions ==
    ASSUME TypeOK, NEW key \in Keys, NEW S \in SUBSET Task
    PROVE  /\ IsFiniteSet(S) /\ Cardinality(S) \in Nat
           /\ \A t \in S : Position(key, S, t) \in 0..(Cardinality(S) - 1)
           /\ \A t, u \in S : Precedes(key, t, u) <=> Position(key, S, t) < Position(key, S, u)
           /\ \A k \in 0..(Cardinality(S) - 1) : \E t \in S : Position(key, S, t) = k
           /\ \A k \in 0..Cardinality(S) : Cardinality({t \in S : Position(key, S, t) < k}) = k
  <1> DEFINE n == Cardinality(S)
             above(t) == {u \in S : Precedes(key, u, t)}
             p(t) == Position(key, S, t)
  <1>1. IsFiniteSet(S) /\ n \in Nat
    BY BoardConstants, FS_Subset, FS_CardinalityType
  <1>2. \A t : p(t) = Cardinality(above(t))
    BY DEF Position
  <1>3. ASSUME NEW t \in S
        PROVE  IsFiniteSet(above(t)) /\ p(t) \in 0..(n - 1)
    <2>1. above(t) \subseteq S \ {t}
      BY SortedCards
    <2>2. IsFiniteSet(S \ {t}) /\ Cardinality(S \ {t}) = n - 1
      BY <1>1, FS_RemoveElement
    <2>3. IsFiniteSet(above(t)) /\ Cardinality(above(t)) =< n - 1 /\ Cardinality(above(t)) \in Nat
      BY <2>1, <2>2, FS_Subset, FS_CardinalityType
    <2> QED  BY <1>1, <1>2, <2>3
  <1> HIDE DEF p, n
  <1>3a. ASSUME NEW t \in S PROVE p(t) \in Nat /\ p(t) < n
    <2>1. p(t) \in 0..(n - 1)
      BY <1>3
    <2> QED  BY <1>1, <2>1
  <1>4. ASSUME NEW t \in S, NEW u \in S, Precedes(key, t, u)
        PROVE  p(t) < p(u)
    <2>1. above(t) \cup {t} \subseteq above(u) /\ t \notin above(t)
      BY <1>4, SortedCards
    <2>2. IsFiniteSet(above(t)) /\ IsFiniteSet(above(u)) /\ p(t) \in Nat /\ p(u) \in Nat
      BY <1>3, <1>3a
    <2>3. IsFiniteSet(above(t) \cup {t}) /\ Cardinality(above(t) \cup {t}) = p(t) + 1
      BY <1>2, <2>1, <2>2, FS_AddElement
    <2>4. Cardinality(above(t) \cup {t}) =< p(u)
      BY <1>2, <2>1, <2>2, FS_Subset
    <2> QED  BY <2>2, <2>3, <2>4
  <1>5. ASSUME NEW t \in S, NEW u \in S, p(t) < p(u)
        PROVE  Precedes(key, t, u)
    <2>1. p(t) \in Nat /\ p(u) \in Nat
      BY <1>3a
    <2>2. t # u
      BY <1>5, <2>1
    <2>3. CASE Precedes(key, u, t)
      <3>1. p(u) < p(t)
        BY <1>4, <2>3
      <3> QED  BY <1>5, <2>1, <3>1
    <2> QED  BY <2>2, <2>3, SortedCards
  <1>6. ASSUME NEW k \in 0..(n - 1)
        PROVE  \E t \in S : p(t) = k
    <2> DEFINE f == [t \in S |-> p(t)]
               T == {p(t) : t \in S}
    <2>1. f \in Bijection(S, T)
      <3>1. f \in [S -> T] /\ \A y \in T : \E t \in S : f[t] = y
        OBVIOUS
      <3>2. ASSUME NEW t \in S, NEW u \in S, f[t] = f[u] PROVE t = u
        <4>1. p(t) = p(u) /\ p(t) \in Nat
          BY <1>3a, <3>2
        <4>2. ~ (p(t) < p(u)) /\ ~ (p(u) < p(t))
          BY <4>1
        <4> QED  BY <1>4, <4>2, SortedCards
      <3>3. f \in Injection(S, T)
        BY <3>1, <3>2 DEF Injection, IsInjective
      <3>4. f \in Surjection(S, T)
        BY <3>1 DEF Surjection
      <3> QED  BY <3>3, <3>4 DEF Bijection
    <2>2. IsFiniteSet(T) /\ Cardinality(T) = n
      <3> HIDE DEF f, T
      <3> QED  BY <1>1, <2>1, FS_Bijection DEF ExistsBijection, n
    <2>3. T \subseteq 0..(n - 1)
      BY <1>3
    <2>4. IsFiniteSet(0..(n - 1)) /\ Cardinality(0..(n - 1)) = n
      <3>1. 0 \in Int /\ n - 1 \in Int
        BY <1>1
      <3>2. /\ IsFiniteSet(0..(n - 1))
            /\ Cardinality(0..(n - 1)) = IF 0 > n - 1 THEN 0 ELSE (n - 1) - 0 + 1
        BY <3>1, FS_Interval
      <3> QED  BY <1>1, <3>2
    <2>5. T = 0..(n - 1)
      <3> HIDE DEF T, n
      <3> QED  BY <2>2, <2>3, <2>4, FS_Subset
    <2> QED  BY <2>5
  <1>7. ASSUME NEW k \in 0..n
        PROVE  Cardinality({t \in S : p(t) < k}) = k
    <2>1. CASE k = n
      <3>1. {t \in S : p(t) < k} = S
        BY <1>3a, <2>1
      <3> QED  BY <2>1, <3>1 DEF n
    <2>2. CASE k # n
      <3>1. PICK u \in S : p(u) = k
        BY <1>1, <1>6, <2>2
      <3>2. {t \in S : p(t) < k} = above(u)
        BY <1>4, <1>5, <3>1
      <3> QED  BY <1>2, <3>1, <3>2
    <2> QED  BY <2>1, <2>2
  <1> QED  BY <1>1, <1>3, <1>4, <1>5, <1>6, <1>7 DEF p, n

-----------------------------------------------------------------------------
\* The anchors of a move that are not stale are the neighbours, among the cards the
\* client shows, of the place where the card was dropped; once the move has begun, its
\* order is between theirs, and no other card's if only one of them was named.
AnchorsOK(o) ==
    LET rest == Others(o.status, o.task)
        n == <<At(o.seen, o.index - 1), At(o.seen, o.index)>>
    IN  /\ o.seen \subseteq rest /\ o.index =< Cardinality(o.seen)
        /\ o.phase = "ask" => o.before = n[1] /\ o.after = n[2]
        /\ o.phase # "ask" => StrictlyBetween(o.plan[o.task].order, n)
        /\ o.phase # "ask" => BothOrNone(o) \/ \A u \in rest : card[u].order # o.plan[o.task].order

\* A move writes its task into the target column, and with anchors nothing else.
PlanOK(o) ==
    /\ o.task \in DOMAIN o.plan /\ o.plan[o.task].status = o.status
    /\ o.anchored => DOMAIN o.plan = {o.task}

\* A move that is not late would decide the same again.
ReadOK(o) == WithinLimit(o) /\ (~ o.anchored => o.plan = PositionalPlan(o))

MoveOK(c, o) ==
    /\ card[o.task].status = o.from
    /\ o.anchored /\ c \notin stale => AnchorsOK(o)
    /\ o.phase = "move" => PlanOK(o)
    /\ o.phase = "move" /\ c \notin late => ReadOK(o)

MovesInv == \A c \in Client : \A o \in MoveType : op[c] = o => MoveOK(c, o)

BoardInv ==
    /\ TypeOK /\ MovesInv
    /\ \A c, d \in Client : Moving(op[c]) /\ Moving(op[d]) => c = d
    /\ \A c \in stale : op[c] # NoOp
    /\ \A c \in late : Moving(op[c])

\* A column looks as it did.
ColumnKept(s) == Column(s)' = Column(s) /\ \A u \in Column(s) : card'[u] = card[u]

\* A column that a write did not change looks as it did.
LEMMA UnchangedColumn ==
    ASSUME NEW R, NEW s, \A u \in Task \ R : card'[u] = card[u], ~ Changed(R, s)
    PROVE  ColumnKept(s)
  BY DEF Changed, Column, ColumnKept

\* In a column that looks as it did every card has its place.
LEMMA SameColumn ==
    ASSUME NEW s, NEW t, ColumnKept(s)
    PROVE  /\ Others(s, t)' = Others(s, t)
           /\ \A key : \A u \in Others(s, t) :
                 Position(key, Others(s, t), u)' = Position(key, Others(s, t), u)
           /\ \A k : At(Others(s, t), k)' = At(Others(s, t), k)
  <1>1. Others(s, t)' = Others(s, t) /\ \A u \in Others(s, t) : card'[u] = card[u]
    BY DEF ColumnKept, Others
  <1>2. ASSUME NEW key, NEW u \in Others(s, t)
        PROVE  Position(key, Others(s, t), u)' = Position(key, Others(s, t), u)
    <2>1. {v \in Others(s, t) : Precedes(key, v, u)}' = {v \in Others(s, t) : Precedes(key, v, u)}
      BY <1>1 DEF Precedes
    <2> QED  BY <2>1 DEF Position
  <1>3. ASSUME NEW k
        PROVE  At(Others(s, t), k)' = At(Others(s, t), k)
    <2>1. {u \in Others(s, t) : Position(IdRank, Others(s, t), u) = k}'
            = {u \in Others(s, t) : Position(IdRank, Others(s, t), u) = k}
      BY <1>1, <1>2
    <2> QED  BY <2>1 DEF At
  <1> QED  BY <1>1, <1>2, <1>3

\* Among cards that are as they were each has its place.
LEMMA SameCards ==
    ASSUME NEW S, \A u \in S : card'[u] = card[u]
    PROVE  \A k : At(S, k)' = At(S, k)
  <1>1. ASSUME NEW u \in S
        PROVE  Position(IdRank, S, u)' = Position(IdRank, S, u)
    <2>1. {v \in S : Precedes(IdRank, v, u)}' = {v \in S : Precedes(IdRank, v, u)}
      BY DEF Precedes
    <2> QED  BY <2>1 DEF Position
  <1>2. ASSUME NEW k
        PROVE  At(S, k)' = At(S, k)
    <2>1. {u \in S : Position(IdRank, S, u) = k}' = {u \in S : Position(IdRank, S, u) = k}
      BY <1>1
    <2> QED  BY <2>1 DEF At
  <1> QED  BY <1>2

\* The card at a place is one of the column, at that place.
LEMMA AtPlace ==
    ASSUME NEW S, NEW k, At(S, k) # NoTask
    PROVE  At(S, k) \in S /\ Position(IdRank, S, At(S, k)) = k
  BY DEF At, OneOf

\* There is a card at every place of a column.
LEMMA PlaceTaken ==
    ASSUME TypeOK, NEW S \in SUBSET Task, NEW k \in 0..(Cardinality(S) - 1)
    PROVE  At(S, k) # NoTask
  <1>1. PICK t \in S : Position(IdRank, S, t) = k
    BY Positions, BoardKeys
  <1>2. NoTask \notin Task
    BY BoardConstants
  <1> QED  BY <1>1, <1>2 DEF At, OneOf

\* No card is at a place that a column does not have, and a card is at its own.
LEMMA PlaceOf ==
    ASSUME TypeOK, NEW S \in SUBSET Task
    PROVE  /\ At(S, -1) = NoTask /\ At(S, Cardinality(S)) = NoTask
           /\ \A u \in S : At(S, Position(IdRank, S, u)) = u
           /\ \A u \in S : Position(IdRank, S, u) \in Nat /\ Position(IdRank, S, u) < Cardinality(S)
  <1> DEFINE p(t) == Position(IdRank, S, t)
  <1>1. Cardinality(S) \in Nat /\ \A t \in S : p(t) \in 0..(Cardinality(S) - 1)
    BY Positions, BoardKeys
  <1>2. \A t, u \in S : Precedes(IdRank, t, u) <=> p(t) < p(u)
    BY Positions, BoardKeys
  <1>3. \A k : At(S, k) # NoTask => At(S, k) \in S /\ p(At(S, k)) = k
    BY AtPlace
  <1> HIDE DEF p
  <1>4. \A t \in S : p(t) \in Nat /\ p(t) < Cardinality(S)
    BY <1>1
  <1>5. At(S, -1) = NoTask /\ At(S, Cardinality(S)) = NoTask
    <2>1. ASSUME NEW k, At(S, k) # NoTask PROVE k \in Nat /\ k < Cardinality(S)
      BY <1>3, <1>4, <2>1
    <2>2. ~ (-1 \in Nat) /\ ~ (Cardinality(S) < Cardinality(S))
      BY <1>1
    <2> QED  BY <2>1, <2>2
  <1>6. ASSUME NEW u \in S PROVE At(S, p(u)) = u
    <2>1. p(u) \in 0..(Cardinality(S) - 1)
      BY <1>1
    <2>2. PICK v \in S : v = At(S, p(u)) /\ p(v) = p(u)
      BY <1>3, <2>1, PlaceTaken
    <2>3. p(u) \in Nat /\ ~ (p(u) < p(v)) /\ ~ (p(v) < p(u))
      BY <1>4, <2>2
    <2>4. ~ Precedes(IdRank, u, v) /\ ~ Precedes(IdRank, v, u)
      BY <1>2, <2>3
    <2> QED  BY <2>2, <2>4, SortedCards, BoardKeys
  <1> QED  BY <1>4, <1>5, <1>6 DEF p

\* A move whose columns look as they did would be decided the same.
LEMMA SameDecision ==
    ASSUME NEW o \in MoveType, card'[o.task] = card[o.task],
           ColumnKept(o.status), ColumnKept(card[o.task].status)
    PROVE  DropIndex(o)' = DropIndex(o) /\ PositionalPlan(o)' = PositionalPlan(o)
  <1>1. PICK s : s = o.status
    OBVIOUS
  <1>2. PICK r : r = card[o.task].status
    OBVIOUS
  <1>3. PICK t : t = o.task
    OBVIOUS
  <1>4. /\ Others(s, t)' = Others(s, t)
        /\ \A u \in Others(s, t) :
              Position(Serial, Others(s, t), u)' = Position(Serial, Others(s, t), u)
    BY <1>1, SameColumn
  <1>5. /\ Others(r, t)' = Others(r, t)
        /\ \A u \in Others(r, t) :
              Position(Serial, Others(r, t), u)' = Position(Serial, Others(r, t), u)
    BY <1>2, SameColumn
  <1>6. DropIndex(o)' = DropIndex(o)
    BY <1>1, <1>3, <1>4 DEF DropIndex
  <1>7. PositionalPlan(o) =
          [u \in Others(s, t) \cup Others(r, t) \cup {t} |->
            IF u = t THEN Renumbered(s, DropIndex(o))
            ELSE IF u \in Others(s, t)
            THEN Renumbered(s, IF Position(Serial, Others(s, t), u) < DropIndex(o)
                               THEN Position(Serial, Others(s, t), u)
                               ELSE Position(Serial, Others(s, t), u) + 1)
            ELSE Renumbered(r, Position(Serial, Others(r, t), u))]
    BY <1>1, <1>2, <1>3 DEF PositionalPlan
  <1>8. PositionalPlan(o)' =
          [u \in Others(s, t)' \cup Others(r, t)' \cup {t} |->
            IF u = t THEN Renumbered(s, DropIndex(o)')
            ELSE IF u \in Others(s, t)'
            THEN Renumbered(s, IF Position(Serial, Others(s, t), u)' < DropIndex(o)'
                               THEN Position(Serial, Others(s, t), u)'
                               ELSE Position(Serial, Others(s, t), u)' + 1)
            ELSE Renumbered(r, Position(Serial, Others(r, t), u)')]
    BY <1>1, <1>2, <1>3 DEF PositionalPlan, Renumbered
  <1> QED  BY <1>4, <1>5, <1>6, <1>7, <1>8

\* The invariant holds on a board on which nobody moves anything.
LEMMA BoardInitInv ==
    ASSUME Init
    PROVE  BoardInv
  <1>1. card \in [Task -> Place \cup {Off("new"), Off("gone")}]
    <2>1. (CHOOSE s \in Columns : TRUE) \in Columns
      BY BoardConstants
    <2>2. ASSUME NEW t \in Task, t =< Created
          PROVE  [status |-> CHOOSE s \in Columns : TRUE, order |-> Unit * (t - 1)] \in Place
      <3>1. Cardinality(Task) \in Nat /\ Task = 1..Cardinality(Task) /\ Created \in 1..Cardinality(Task)
        BY BoardConstants, FS_CardinalityType
      <3>2. t \in 1..Created
        BY <2>2, <3>1
      <3>3. Unit * (t - 1) \in Order
        BY <3>2, BoardConstants
      <3> QED  BY <2>1, <3>3 DEF Place
    <2> QED  BY <2>2 DEF Init
  <1>2. TypeOK
    BY <1>1, BoardConstants DEF Init, TypeOK
  <1>3. \A c \in Client : op[c] = NoOp
    BY DEF Init
  <1>4. MovesInv
    BY <1>3, NoOpAssumption DEF MovesInv
  <1> QED  BY <1>2, <1>3, <1>4 DEF BoardInv, Init, Moving

\* A move in progress is a move.
LEMMA MoveFacts ==
    ASSUME BoardInv, NEW c \in Client, op[c] # NoOp
    PROVE  /\ op[c] \in MoveType /\ MoveOK(c, op[c])
           /\ op[c].task \in Task /\ op[c].status \in Columns /\ op[c].from \in Columns
           /\ op[c].index \in Nat /\ op[c].anchored \in BOOLEAN /\ op[c].phase \in {"ask", "move"}
  <1>1. op[c] \in MoveType
    BY DEF BoardInv, TypeOK
  <1>2. MoveOK(c, op[c])
    BY <1>1 DEF BoardInv, MovesInv
  <1> QED  BY <1>1, <1>2 DEF MoveType

\* What a move has read holds as long as its columns and their limit are the same.
LEMMA ReadStays ==
    ASSUME NEW o \in MoveType, card'[o.task] = card[o.task], card[o.task].status = o.from,
           ColumnKept(o.status), ColumnKept(o.from), wip'[o.status] = wip[o.status], ReadOK(o)
    PROVE  ReadOK(o)'
  <1>1. PositionalPlan(o)' = PositionalPlan(o)
    BY SameDecision
  <1>2. PICK s : s = o.status
    OBVIOUS
  <1>3. Column(s)' = Column(s)
    BY <1>2 DEF ColumnKept
  <1>4. WithinLimit(o)'
    BY <1>2, <1>3 DEF ReadOK, WithinLimit
  <1> QED  BY <1>1, <1>4 DEF ReadOK

\* Anchors are the neighbours as long as the column is the same.
LEMMA AnchorsStay ==
    ASSUME NEW o \in MoveType, ColumnKept(o.status), AnchorsOK(o)
    PROVE  AnchorsOK(o)'
  <1>1. PICK s, t, S, i, x : /\ s = o.status /\ t = o.task /\ S = o.seen /\ i = o.index
                             /\ x = o.plan[o.task].order
    OBVIOUS
  <1>2. /\ S \subseteq Others(s, t) /\ i =< Cardinality(S)
        /\ o.phase = "ask" => o.before = At(S, i - 1) /\ o.after = At(S, i)
        /\ o.phase # "ask" => StrictlyBetween(x, <<At(S, i - 1), At(S, i)>>)
        /\ o.phase # "ask" => BothOrNone(o) \/ \A u \in Others(s, t) : card[u].order # x
    BY <1>1 DEF AnchorsOK
  <1>3. /\ Others(s, t)' = Others(s, t)
        /\ \A u \in Others(s, t) : card'[u] = card[u]
    BY <1>1 DEF ColumnKept, Others
  <1>4. \A k : At(S, k)' = At(S, k)
    BY <1>2, <1>3, SameCards
  <1>5. PICK a, b : a = At(S, i - 1) /\ b = At(S, i)
    OBVIOUS
  <1>6. /\ At(S, i - 1)' = a /\ At(S, i)' = b
        /\ a # NoTask => card'[a] = card[a]
        /\ b # NoTask => card'[b] = card[b]
    BY <1>2, <1>3, <1>4, <1>5, AtPlace
  <1>7. o.phase # "ask" => StrictlyBetween(x, <<At(S, i - 1), At(S, i)>>)'
    BY <1>2, <1>5, <1>6 DEF StrictlyBetween
  <1>8. o.phase # "ask" => BothOrNone(o) \/ \A u \in Others(s, t)' : card'[u].order # x
    BY <1>2, <1>3
  <1>9. /\ S \subseteq Others(s, t)'
        /\ o.phase = "ask" => o.before = At(S, i - 1)' /\ o.after = At(S, i)'
    BY <1>2, <1>3, <1>5, <1>6
  <1> QED  BY <1>1, <1>2, <1>7, <1>8, <1>9 DEF AnchorsOK

\* What a write makes of the moves in progress.
LEMMA AfterWrite ==
    ASSUME BoardInv, NEW R \in SUBSET Task, NEW done \in SUBSET Client, Touch(R, done),
           card' \in [Task -> Place \cup {Off("new"), Off("gone")}],
           \A u \in Task \ R : card'[u] = card[u],
           \A c \in Client \ done : Moving(op[c]) => op[c].task \notin R,
           UNCHANGED wip, left' \in 0..Requests
    PROVE  BoardInv'
  <1> DEFINE over == done \cup {c \in Client : op[c] # NoOp /\ ~Moving(op[c]) /\ op[c].task \in R}
  <1>1. /\ op' = [c \in Client |-> IF c \in over THEN NoOp ELSE op[c]]
        /\ stale' = {c \in Client \ over :
              c \in stale \/ (op[c] # NoOp /\ op[c].anchored /\ Changed(R, op[c].status))}
        /\ late' = {c \in Client \ over :
              c \in late \/ (Moving(op[c]) /\ (Changed(R, op[c].status) \/ Changed(R, op[c].from)))}
    BY DEF Touch
  <1>2. TypeOK'
    <2>1. op' \in [Client -> MoveType \cup {NoOp}]
      BY <1>1 DEF BoardInv, TypeOK
    <2>2. stale' \subseteq Client /\ late' \subseteq Client
      BY <1>1
    <2>3. wip' \in [Columns -> Limits \cup {NoLimit}]
      BY DEF BoardInv, TypeOK
    <2> QED  BY <2>1, <2>2, <2>3 DEF TypeOK
  <1>3. \A c \in Client : op'[c] # NoOp => c \notin over /\ op'[c] = op[c]
    BY <1>1
  <1>4. \A c \in Client \ over : op'[c] = op[c]
    BY <1>1
  <1> HIDE DEF over
  <1>5. ASSUME NEW c \in Client, NEW o \in MoveType, op'[c] = o
        PROVE  MoveOK(c, o)'
    <2>1. c \notin over /\ op[c] = o /\ op[c] # NoOp
      BY <1>3, <1>5, NoOpAssumption
    <2>2. /\ o.task \in Task /\ o.phase \in {"ask", "move"} /\ card[o.task].status = o.from
          /\ o.anchored /\ c \notin stale => AnchorsOK(o)
          /\ o.phase = "move" => PlanOK(o)
          /\ o.phase = "move" /\ c \notin late => ReadOK(o)
      BY <2>1, MoveFacts DEF MoveOK
    <2>3. o.task \notin R
      BY <2>1, <2>2 DEF Moving, over
    <2>4. card'[o.task] = card[o.task]
      BY <2>2, <2>3
    <2>5. ASSUME o.anchored, c \notin stale'
          PROVE  AnchorsOK(o)'
      <3>1. c \notin stale /\ ~ Changed(R, o.status)
        BY <1>1, <2>1, <2>5
      <3> QED  BY <2>2, <2>5, <3>1, UnchangedColumn, AnchorsStay
    <2>6. ASSUME o.phase = "move", c \notin late'
          PROVE  ReadOK(o)'
      <3>1. c \notin late /\ ~ Changed(R, o.status) /\ ~ Changed(R, o.from)
        BY <1>1, <2>1, <2>6 DEF Moving
      <3>2. ColumnKept(o.status) /\ ColumnKept(o.from)
        BY <3>1, UnchangedColumn
      <3> QED  BY <2>2, <2>4, <2>6, <3>1, <3>2, ReadStays
    <2>7. o.phase = "move" => PlanOK(o)'
      BY <2>2 DEF PlanOK
    <2> QED  BY <2>2, <2>4, <2>5, <2>6, <2>7 DEF MoveOK
  <1>6. MovesInv'
    BY <1>5 DEF MovesInv
  <1>7. (\A c, d \in Client : Moving(op[c]) /\ Moving(op[d]) => c = d)'
    BY <1>3 DEF BoardInv, Moving
  <1>8. (\A c \in stale : op[c] # NoOp)' /\ (\A c \in late : Moving(op[c]))'
    <2>1. \A c \in stale' : c \in Client \ over /\ op[c] # NoOp
      BY <1>1 DEF BoardInv
    <2>2. \A c \in late' : c \in Client \ over /\ Moving(op[c])
      BY <1>1 DEF BoardInv
    <2> QED  BY <1>4, <2>1, <2>2 DEF Moving
  <1> QED  BY <1>2, <1>6, <1>7, <1>8 DEF BoardInv

-----------------------------------------------------------------------------
\* There are fewer requests left.
LEMMA RequestsLeft ==
    ASSUME TypeOK, Request
    PROVE  left' \in 0..Requests
  BY BoardConstants DEF TypeOK, Request

\* A task is created, updated or deleted.
LEMMA BoardWrites ==
    ASSUME BoardInv,
           \/ \E s \in Columns : Create(s) \/ \E t \in Task, o \in Order : Update(t, s, o)
           \/ \E t \in Task : SoftDelete(t)
    PROVE  BoardInv'
  <1>1. TypeOK
    BY DEF BoardInv
  <1>2. ASSUME NEW t \in Task, NEW new \in Place \cup {Off("gone")},
               card' = [card EXCEPT ![t] = new], Request, UNCHANGED wip, Touch({t}, {}),
               \A c \in Client : Moving(op[c]) => op[c].task # t
        PROVE  BoardInv'
    <2>1. /\ card' \in [Task -> Place \cup {Off("new"), Off("gone")}]
          /\ \A u \in Task \ {t} : card'[u] = card[u]
      BY <1>1, <1>2 DEF TypeOK
    <2>2. {t} \in SUBSET Task /\ {} \in SUBSET Client /\ left' \in 0..Requests
      BY <1>1, <1>2, RequestsLeft
    <2> QED  BY <1>2, <2>1, <2>2, AfterWrite
  <1>3. ASSUME NEW s \in Columns, Create(s)
        PROVE  BoardInv'
    <2>1. PICK t \in Task :
             /\ Request /\ card[t] = Off("new") /\ Unit * (t - 1) \in Order
             /\ card' = [card EXCEPT ![t] = [status |-> s, order |-> Unit * (t - 1)]]
             /\ Touch({t}, {}) /\ UNCHANGED wip
      BY <1>3 DEF Create
    <2>2. [status |-> s, order |-> Unit * (t - 1)] \in Place
      BY <2>1 DEF Place
    <2>3. ASSUME NEW c \in Client, Moving(op[c])
          PROVE  op[c].task # t
      <3>1. card[op[c].task].status \in Columns
        BY <2>3, MoveFacts DEF MoveOK, Moving
      <3>2. card[t].status \notin Columns
        BY <2>1, BoardConstants DEF Off
      <3> QED  BY <3>1, <3>2
    <2> QED  BY <1>2, <2>1, <2>2, <2>3
  <1>4. ASSUME NEW s \in Columns, NEW t \in Task, NEW o \in Order, Update(t, s, o)
        PROVE  BoardInv'
    <2>1. /\ Request /\ RowFree(t) /\ card' = [card EXCEPT ![t] = [status |-> s, order |-> o]]
          /\ Touch({t}, {}) /\ UNCHANGED wip
      BY <1>4 DEF Update
    <2>2. [status |-> s, order |-> o] \in Place
      BY DEF Place
    <2>3. \A c \in Client : Moving(op[c]) => op[c].task # t
      BY <2>1 DEF RowFree
    <2> QED  BY <1>2, <2>1, <2>2, <2>3
  <1>5. ASSUME NEW t \in Task, SoftDelete(t)
        PROVE  BoardInv'
    <2>1. /\ Request /\ RowFree(t) /\ card' = [card EXCEPT ![t] = Off("gone")]
          /\ Touch({t}, {}) /\ UNCHANGED wip
      BY <1>5 DEF SoftDelete
    <2>2. \A c \in Client : Moving(op[c]) => op[c].task # t
      BY <2>1 DEF RowFree
    <2> QED  BY <1>2, <2>1, <2>2
  <1> QED  BY <1>3, <1>4, <1>5

\* A step that leaves the board alone, and all moves but those of c.
LEMMA OtherMovesStay ==
    ASSUME BoardInv, UNCHANGED card, NEW d \in Client, NEW o \in MoveType, op'[d] = o, op[d] = o,
           d \in stale => d \in stale',
           d \notin late' => d \notin late /\ wip'[o.status] = wip[o.status]
    PROVE  MoveOK(d, o)'
  <1>1. op[d] # NoOp
    BY NoOpAssumption
  <1>2. MoveOK(d, o)
    BY <1>1, MoveFacts
  <1>3. \A s : ColumnKept(s)
    BY DEF ColumnKept, Column
  <1>4. o.anchored /\ d \notin stale' => AnchorsOK(o)'
    BY <1>2, <1>3, AnchorsStay DEF MoveOK
  <1>5. o.phase = "move" /\ d \notin late' => ReadOK(o)'
    BY <1>2, <1>3, ReadStays DEF MoveOK
  <1> QED  BY <1>2, <1>4, <1>5 DEF MoveOK, PlanOK

\* A limit changes: the moves that have counted with the old one are late.
LEMMA LimitStep ==
    ASSUME BoardInv, NEW s \in Limited, NEW n \in Limits \cup {NoLimit}, SetWipLimit(s, n)
    PROVE  BoardInv'
  <1>1. /\ Request /\ wip' = [wip EXCEPT ![s] = n] /\ UNCHANGED <<card, op, stale>>
        /\ late' = late \cup {c \in Client : Moving(op[c]) /\ op[c].status = s}
    BY DEF SetWipLimit
  <1>2. TypeOK /\ s \in Columns
    BY BoardConstants DEF BoardInv
  <1>3. TypeOK'
    <2>1. wip' \in [Columns -> Limits \cup {NoLimit}]
      BY <1>1, <1>2 DEF TypeOK
    <2>2. left' \in 0..Requests
      BY <1>1, <1>2, RequestsLeft
    <2> QED  BY <1>1, <1>2, <2>1, <2>2 DEF TypeOK
  <1>4. ASSUME NEW d \in Client, NEW o \in MoveType, op'[d] = o
        PROVE  MoveOK(d, o)'
    <2>1. op[d] = o /\ o # NoOp /\ o.status \in Columns
      BY <1>1, <1>4, NoOpAssumption DEF MoveType
    <2>2. CASE Moving(o)
      BY <1>1, <1>2, <1>4, <2>1, <2>2, OtherMovesStay DEF TypeOK
    <2>3. CASE ~ Moving(o)
      <3>1. MoveOK(d, o) /\ o.phase # "move"
        BY <2>1, <2>3, MoveFacts DEF Moving
      <3>2. ColumnKept(o.status)
        BY <1>1 DEF ColumnKept, Column
      <3>3. o.anchored /\ d \notin stale' => AnchorsOK(o)'
        BY <1>1, <3>1, <3>2, AnchorsStay DEF MoveOK
      <3> QED  BY <1>1, <3>1, <3>3 DEF MoveOK
    <2> QED  BY <2>2, <2>3
  <1>5. MovesInv'
    BY <1>4 DEF MovesInv
  <1>6. /\ (\A c, d \in Client : Moving(op[c]) /\ Moving(op[d]) => c = d)'
        /\ (\A c \in stale : op[c] # NoOp)' /\ (\A c \in late : Moving(op[c]))'
    BY <1>1 DEF BoardInv, Moving
  <1> QED  BY <1>3, <1>5, <1>6 DEF BoardInv

\* A client asks for a move.
LEMMA AskStep ==
    ASSUME BoardInv, NEW c \in Client, NEW t \in Task, NEW s \in Columns,
           (\E seen \in SUBSET Task : AskBetween(c, t, s, seen)) \/ AskPlace(c, t, s)
    PROVE  BoardInv'
  <1>1. TypeOK /\ NoTask \notin Task
    BY BoardConstants DEF BoardInv
  <1>2. Request /\ On(t) /\ op[c] = NoOp /\ UNCHANGED <<card, wip, stale, late>>
    BY DEF AskBetween, AskPlace
  <1>3. \A S \in SUBSET Task : Cardinality(S) \in Nat
    BY <1>1, Positions, BoardKeys
  <1>4. PICK anchored \in BOOLEAN, seen \in SUBSET Others(s, t), i \in Nat,
              before \in Task \cup {NoTask}, after \in Task \cup {NoTask} :
           /\ op' = [op EXCEPT ![c] =
                        [phase |-> "ask", task |-> t, from |-> card[t].status, status |-> s,
                         anchored |-> anchored, seen |-> seen, index |-> i,
                         before |-> before, after |-> after, plan |-> <<>>]]
           /\ anchored => /\ i =< Cardinality(seen)
                          /\ before = At(seen, i - 1) /\ after = At(seen, i)
    <2>1. Others(s, t) \in SUBSET Task
      BY DEF Others, Column
    <2>2. CASE AskPlace(c, t, s)
      <3>1. PICK i \in 0..Cardinality(Others(s, t)) :
               op' = [op EXCEPT ![c] =
                        [phase |-> "ask", task |-> t, from |-> card[t].status, status |-> s,
                         anchored |-> FALSE, seen |-> {}, index |-> i,
                         before |-> NoTask, after |-> NoTask, plan |-> <<>>]]
        BY <2>2 DEF AskPlace
      <3>2. i \in Nat
        BY <1>3, <2>1
      <3>3. {} \in SUBSET Others(s, t) /\ NoTask \in Task \cup {NoTask} /\ FALSE \in BOOLEAN
        OBVIOUS
      <3> QED  BY <3>1, <3>2, <3>3
    <2>3. CASE \E seen \in SUBSET Task : AskBetween(c, t, s, seen)
      <3>0. PICK seen \in SUBSET Others(s, t) : AskBetween(c, t, s, seen)
        BY <2>3 DEF AskBetween
      <3>1. PICK i \in 0..Cardinality(seen) :
               op' = [op EXCEPT ![c] =
                        [phase |-> "ask", task |-> t, from |-> card[t].status, status |-> s,
                         anchored |-> TRUE, seen |-> seen, index |-> i,
                         before |-> At(seen, i - 1), after |-> At(seen, i), plan |-> <<>>]]
        BY <3>0 DEF AskBetween
      <3>2. i \in Nat /\ i =< Cardinality(seen)
        BY <1>3, <2>1, <3>1
      <3>3. \A k : At(seen, k) \in Task \cup {NoTask}
        BY <2>1, AtPlace
      <3>4. PICK b \in Task \cup {NoTask}, a \in Task \cup {NoTask} :
               b = At(seen, i - 1) /\ a = At(seen, i)
        BY <3>3
      <3>5. TRUE \in BOOLEAN
        OBVIOUS
      <3> QED  BY <3>1, <3>2, <3>4, <3>5
    <2> QED  BY <2>2, <2>3
  <1>5. PICK new : new = [phase |-> "ask", task |-> t, from |-> card[t].status, status |-> s,
                         anchored |-> anchored, seen |-> seen, index |-> i,
                         before |-> before, after |-> after, plan |-> <<>>]
    OBVIOUS
  <1>6. /\ new.phase = "ask" /\ new.task = t /\ new.from = card[t].status /\ new.status = s
        /\ new.index = i /\ new.anchored = anchored /\ new.seen = seen
        /\ new.before = before /\ new.after = after
    BY <1>5
  <1>7. new \in MoveType
    <2>1. <<>> \in Plans
      <3>1. <<>> \in [{} -> Place]
        OBVIOUS
      <3> QED  BY <3>1 DEF Plans
    <2>2. card[t].status \in Columns /\ seen \in SUBSET Task
      BY <1>2 DEF On, Others, Column
    <2> QED  BY <1>5, <2>1, <2>2 DEF MoveType
  <1>8. op' = [op EXCEPT ![c] = new] /\ op'[c] = new /\ \A d \in Client \ {c} : op'[d] = op[d]
    BY <1>1, <1>4, <1>5 DEF TypeOK
  <1>9. TypeOK'
    <2>1. op' \in [Client -> MoveType \cup {NoOp}]
      BY <1>1, <1>7, <1>8 DEF TypeOK
    <2>2. left' \in 0..Requests
      BY <1>1, <1>2, RequestsLeft
    <2> QED  BY <1>1, <1>2, <2>1, <2>2 DEF TypeOK
  <1>10. MoveOK(c, new)'
    <2>1. (card[new.task].status = new.from)'
      BY <1>2, <1>6
    <2>2. ASSUME anchored
          PROVE  AnchorsOK(new)
      BY <1>4, <1>6, <2>2 DEF AnchorsOK
    <2>3. ColumnKept(new.status)
      BY <1>2 DEF ColumnKept, Column
    <2>4. new.anchored => AnchorsOK(new)'
      BY <1>6, <1>7, <2>2, <2>3, AnchorsStay
    <2> QED  BY <1>6, <2>1, <2>4 DEF MoveOK
  <1>11. ASSUME NEW d \in Client, NEW o \in MoveType, op'[d] = o
         PROVE  MoveOK(d, o)'
    <2>1. CASE d = c
      BY <1>8, <1>10, <1>11, <2>1
    <2>2. CASE d # c
      BY <1>2, <1>8, <1>11, <2>2, OtherMovesStay
    <2> QED  BY <2>1, <2>2
  <1>12. MovesInv'
    BY <1>11 DEF MovesInv
  <1>13. ~ Moving(op[c]) /\ ~ Moving(op'[c])
    BY <1>2, <1>6, <1>8 DEF Moving
  <1>14. (\A b, d \in Client : Moving(op[b]) /\ Moving(op[d]) => b = d)'
    BY <1>8, <1>13 DEF BoardInv, Moving
  <1>15. (\A d \in stale : op[d] # NoOp)' /\ (\A d \in late : Moving(op[d]))'
    <2>1. stale \subseteq Client \ {c} /\ late \subseteq Client \ {c}
      BY <1>1, <1>2, <1>13 DEF BoardInv, TypeOK
    <2> QED  BY <1>2, <1>8, <2>1 DEF BoardInv, Moving
  <1> QED  BY <1>9, <1>12, <1>14, <1>15 DEF BoardInv

\* An order between the neighbours of a place is behind all the cards before the
\* place and before all the others.
LEMMA BetweenNeighbours ==
    ASSUME TypeOK, NEW S \in SUBSET Task, NEW i \in Nat, i =< Cardinality(S), NEW n \in Int,
           StrictlyBetween(n, <<At(S, i - 1), At(S, i)>>), NEW u \in S
    PROVE  /\ Position(IdRank, S, u) < i => card[u].order < n
           /\ ~ (Position(IdRank, S, u) < i) => n < card[u].order
  <1> DEFINE p(t) == Position(IdRank, S, t)
  <1>1. IsFiniteSet(S) /\ Cardinality(S) \in Nat
    BY Positions, BoardKeys
  <1>2. \A t \in S : p(t) \in Nat /\ p(t) < Cardinality(S)
    <2>1. \A t \in S : p(t) \in 0..(Cardinality(S) - 1)
      BY Positions, BoardKeys
    <2> HIDE DEF p
    <2> QED  BY <1>1, <2>1
  <1>3. \A t, v \in S : Precedes(IdRank, t, v) <=> p(t) < p(v)
    BY Positions, BoardKeys
  <1>4. ASSUME NEW t \in S, NEW v \in S, ~ (p(v) < p(t))
        PROVE  card[t].order =< card[v].order
    <2>1. ~ Precedes(IdRank, v, t)
      BY <1>3, <1>4
    <2>2. card[t].order \in Int /\ card[v].order \in Int
      BY OrdersAreNumbers
    <2> QED  BY <2>1, <2>2 DEF Precedes
  <1>5. PICK a, b : a = At(S, i - 1) /\ b = At(S, i)
    OBVIOUS
  <1>6. (a # NoTask => card[a].order < n) /\ (b # NoTask => n < card[b].order)
    BY <1>5 DEF StrictlyBetween
  <1>7. card[u].order \in Int
    BY OrdersAreNumbers
  <1>8. ASSUME p(u) < i PROVE card[u].order < n
    <2>1. i - 1 \in 0..(Cardinality(S) - 1)
      BY <1>1, <1>2, <1>8
    <2>2. a # NoTask
      BY <1>5, <2>1, PlaceTaken
    <2>3. a \in S /\ p(a) = i - 1
      BY <1>5, <2>2, AtPlace
    <2>4. ~ (p(a) < p(u))
      BY <1>2, <1>8, <2>3
    <2>5. card[u].order =< card[a].order /\ card[a].order \in Int
      BY <1>4, <2>3, <2>4, OrdersAreNumbers
    <2> QED  BY <1>6, <1>7, <2>2, <2>5
  <1>9. ASSUME ~ (p(u) < i) PROVE n < card[u].order
    <2>1. i \in 0..(Cardinality(S) - 1)
      BY <1>1, <1>2, <1>9
    <2>2. b # NoTask
      BY <1>5, <2>1, PlaceTaken
    <2>3. b \in S /\ p(b) = i
      BY <1>5, <2>2, AtPlace
    <2>4. ~ (p(u) < p(b))
      BY <1>2, <1>9, <2>3
    <2>5. card[b].order =< card[u].order /\ card[b].order \in Int
      BY <1>4, <2>3, <2>4, OrdersAreNumbers
    <2> QED  BY <1>6, <1>7, <2>2, <2>5
  <1> QED  BY <1>8, <1>9

\* With anchors that are not stale, the server works with them; if there is only one,
\* with two cards of the whole column next to each other.
LEMMA NeighboursFound ==
    ASSUME TypeOK, NEW o \in MoveType, o.phase = "ask", AnchorsOK(o)
    PROVE  /\ o.before # NoTask => Neighbours(o)[1] = o.before
           /\ o.after # NoTask => Neighbours(o)[2] = o.after
           /\ ~ BothOrNone(o) =>
                 LET S == Others(o.status, o.task)
                 IN  \E k \in Nat : k =< Cardinality(S) /\ Neighbours(o) = <<At(S, k - 1), At(S, k)>>
  <1>1. PICK S, rest, i : S = o.seen /\ rest = Others(o.status, o.task) /\ i = o.index
    OBVIOUS
  <1>2. /\ S \subseteq rest /\ i =< Cardinality(S) /\ i \in Nat
        /\ o.before = At(S, i - 1) /\ o.after = At(S, i)
    BY <1>1 DEF AnchorsOK, MoveType
  <1>3. rest \in SUBSET Task /\ S \in SUBSET Task
    BY <1>1, <1>2 DEF Others, Column
  <1>4. Cardinality(S) \in Nat /\ Cardinality(rest) \in Nat
    BY <1>3, Positions, BoardKeys
  <1>5. PICK p, q : p = Position(IdRank, rest, o.before) /\ q = Position(IdRank, rest, o.after)
    OBVIOUS
  <1>6. Neighbours(o) =
           CASE o.before # NoTask /\ o.after = NoTask -> <<o.before, At(rest, p + 1)>>
             [] o.before = NoTask /\ o.after # NoTask -> <<At(rest, q + (-1)), o.after>>
             [] OTHER -> <<o.before, o.after>>
    BY <1>1, <1>5 DEF Neighbours
  <1>7. /\ o.before # NoTask => o.before \in rest /\ p \in Nat /\ p < Cardinality(rest) /\ At(rest, p) = o.before
        /\ o.after # NoTask => o.after \in rest /\ q \in Nat /\ q < Cardinality(rest) /\ At(rest, q) = o.after
    <2>1. (o.before # NoTask => o.before \in rest) /\ (o.after # NoTask => o.after \in rest)
      BY <1>2, AtPlace
    <2> QED  BY <1>3, <1>5, <2>1, PlaceOf
  <1>8. CASE o.before # NoTask /\ o.after = NoTask
    <2>1. Neighbours(o) = <<At(rest, p), At(rest, p + 1)>>
      BY <1>6, <1>7, <1>8
    <2>2. PICK k \in Nat : k = p + 1 /\ k - 1 = p /\ k =< Cardinality(rest)
      BY <1>4, <1>7, <1>8
    <2>3. Neighbours(o) = <<At(rest, k - 1), At(rest, k)>>
      BY <2>1, <2>2
    <2>4. Neighbours(o)[1] = o.before
      BY <1>6, <1>8
    <2> QED  BY <1>1, <1>8, <2>2, <2>3, <2>4
  <1>9. CASE o.before = NoTask /\ o.after # NoTask
    <2>1. Neighbours(o) = <<At(rest, q - 1), At(rest, q)>>
      <3>1. q + (-1) = q - 1
        BY <1>7, <1>9
      <3> QED  BY <1>6, <1>7, <1>9, <3>1
    <2>2. Neighbours(o)[2] = o.after /\ q \in Nat /\ q =< Cardinality(rest)
      BY <1>4, <1>6, <1>7, <1>9
    <2> QED  BY <1>1, <1>9, <2>1, <2>2
  <1>10. CASE o.before # NoTask /\ o.after # NoTask
    <2>1. Neighbours(o) = <<o.before, o.after>>
      BY <1>6, <1>10
    <2>2. i # 0 /\ i # Cardinality(S)
      <3>1. CASE i = 0
        <4>1. i - 1 = -1
          BY <3>1
        <4> QED  BY <1>2, <1>3, <1>10, <4>1, PlaceOf
      <3>2. CASE i = Cardinality(S)
        BY <1>2, <1>3, <1>10, <3>2, PlaceOf
      <3> QED  BY <3>1, <3>2
    <2>3. BothOrNone(o)
      BY <1>1, <1>2, <1>4, <2>2 DEF BothOrNone
    <2> QED  BY <2>1, <2>3
  <1>11. CASE o.before = NoTask /\ o.after = NoTask
    <2>1. Cardinality(S) = 0
      <3>1. CASE i < Cardinality(S)
        <4>1. i \in 0..(Cardinality(S) - 1)
          BY <1>2, <1>4, <3>1
        <4> QED  BY <1>2, <1>3, <1>11, <4>1, PlaceTaken
      <3>2. CASE i = Cardinality(S) /\ i # 0
        <4>1. i - 1 \in 0..(Cardinality(S) - 1)
          BY <1>2, <1>4, <3>2
        <4> QED  BY <1>2, <1>3, <1>11, <4>1, PlaceTaken
      <3> QED  BY <1>2, <1>4, <3>1, <3>2
    <2>2. S = {}
      <3>1. IsFiniteSet(S)
        BY <1>3, Positions, BoardKeys
      <3> QED  BY <2>1, <3>1, FS_EmptySet
    <2> QED  BY <1>1, <1>11, <2>2 DEF BothOrNone
  <1> QED  BY <1>8, <1>9, <1>10, <1>11

\* A move is refused, or the server decides what to write.
LEMMA BeginStep ==
    ASSUME BoardInv, NEW c \in Client, BeginMove(c)
    PROVE  BoardInv'
  <1>1. op[c] # NoOp /\ op[c].phase = "ask" /\ ProjectFree /\ UNCHANGED <<card, wip, left, late>>
    BY DEF BeginMove
  <1>2. TypeOK
    BY DEF BoardInv
  <1>3. late = {}
    BY <1>1, <1>2 DEF BoardInv, ProjectFree, TypeOK
  <1>4. PICK o \in MoveType : o = op[c]
    BY <1>1, MoveFacts
  <1>5. MoveOK(c, o) /\ o.phase = "ask"
    BY <1>1, <1>4, MoveFacts
  <1>6. CASE Refused(o)
    <2>1. op' = [op EXCEPT ![c] = NoOp] /\ stale' = stale \ {c}
      BY <1>4, <1>6 DEF BeginMove
    <2>2. op'[c] = NoOp /\ \A d \in Client \ {c} : op'[d] = op[d]
      BY <1>2, <2>1 DEF TypeOK
    <2>3. TypeOK'
      BY <1>1, <1>2, <2>1 DEF TypeOK
    <2>4. ASSUME NEW d \in Client, NEW p \in MoveType, op'[d] = p
          PROVE  MoveOK(d, p)'
      <3>1. d # c
        BY <2>2, <2>4, NoOpAssumption
      <3> QED  BY <1>1, <2>1, <2>2, <2>4, <3>1, OtherMovesStay
    <2>5. MovesInv'
      BY <2>4 DEF MovesInv
    <2>6. (\A b, d \in Client : Moving(op[b]) /\ Moving(op[d]) => b = d)'
      BY <2>2 DEF BoardInv, Moving
    <2>7. (\A d \in stale : op[d] # NoOp)' /\ (\A d \in late : Moving(op[d]))'
      BY <1>1, <1>2, <1>3, <2>1, <2>2 DEF BoardInv, TypeOK
    <2> QED  BY <2>3, <2>5, <2>6, <2>7 DEF BoardInv
  <1>7. CASE ~ Refused(o)
    <2> DEFINE plan == IF o.anchored THEN AnchoredPlan(o) ELSE PositionalPlan(o)
    <2>1. /\ \A t \in DOMAIN plan : plan[t].order \in Order
          /\ op' = [op EXCEPT ![c] = [o EXCEPT !.phase = "move", !.plan = plan,
                                               !.before = NoTask, !.after = NoTask]]
          /\ UNCHANGED stale
      BY <1>4, <1>7 DEF BeginMove
    <2>2. /\ o.task \in Task /\ o.status \in Columns /\ o.from \in Columns /\ o.index \in Nat
          /\ o.anchored \in BOOLEAN /\ o.seen \in SUBSET Task
      BY DEF MoveType
    <2>3. card[o.task].status = o.from
      BY SMTT(40), <1>5 DEF MoveOK
    <2>4. /\ DOMAIN plan \subseteq Task /\ plan = [t \in DOMAIN plan |-> plan[t]]
          /\ \A t \in DOMAIN plan : plan[t] = [status |-> plan[t].status, order |-> plan[t].order]
          /\ \A t \in DOMAIN plan : plan[t].status \in Columns
      BY <2>2, <2>3 DEF AnchoredPlan, PositionalPlan, Renumbered, Others, Column
    <2>5. o.task \in DOMAIN plan /\ plan[o.task].status = o.status
      BY DEF AnchoredPlan, PositionalPlan, Renumbered
    <2>6. o.anchored => /\ DOMAIN plan = {o.task}
                        /\ plan[o.task].order = TargetOrder(Neighbours(o))
      BY DEF AnchoredPlan
    <2>7. ~ o.anchored => plan = PositionalPlan(o)
      OBVIOUS
    <2> HIDE DEF plan
    <2>8. plan \in Plans
      <3>1. \A t \in DOMAIN plan : plan[t] \in Place
        <4> SUFFICES ASSUME NEW t \in DOMAIN plan PROVE plan[t] \in Place
          OBVIOUS
        <4>1. plan[t].status \in Columns /\ plan[t].order \in Order
          BY <2>1, <2>4
        <4>2. plan[t] = [status |-> plan[t].status, order |-> plan[t].order]
          BY <2>4
        <4>3. PICK s, n : s = plan[t].status /\ n = plan[t].order
          OBVIOUS
        <4>4. [status |-> s, order |-> n] \in Place
          BY <4>1, <4>3 DEF Place
        <4> QED  BY <4>2, <4>3, <4>4
      <3>2. plan \in [DOMAIN plan -> Place]
        BY <2>4, <3>1
      <3> QED  BY <2>4, <3>2 DEF Plans
    <2>9. PICK new : new = [o EXCEPT !.phase = "move", !.plan = plan,
                                     !.before = NoTask, !.after = NoTask]
      OBVIOUS
    <2>10. new = [phase |-> "move", task |-> o.task, from |-> o.from, status |-> o.status,
                  anchored |-> o.anchored, seen |-> o.seen, index |-> o.index,
                  before |-> NoTask, after |-> NoTask,
                  plan |-> plan]
      BY <2>9 DEF MoveType
    <2>11. new \in MoveType
      BY <2>2, <2>8, <2>10 DEF MoveType
    <2>12. /\ new.phase = "move" /\ new.task = o.task /\ new.from = o.from /\ new.status = o.status
           /\ new.anchored = o.anchored /\ new.index = o.index /\ new.plan = plan
           /\ new.seen = o.seen
      BY <2>10
    <2>13. op' = [op EXCEPT ![c] = new] /\ op'[c] = new /\ \A d \in Client \ {c} : op'[d] = op[d]
      BY <1>2, <2>1, <2>9 DEF TypeOK
    <2>14. TypeOK'
      BY <1>1, <1>2, <2>1, <2>11, <2>13 DEF TypeOK
    <2>15. ~ o.anchored => new.plan = PositionalPlan(new)
      BY <2>7, <2>12 DEF PositionalPlan, DropIndex
    <2>16. ReadOK(new)
      <3>1. WithinLimit(o)
        BY <1>7 DEF Refused
      <3>2. WithinLimit(new)
        BY <2>12, <3>1 DEF WithinLimit
      <3> QED  BY <2>12, <2>15, <3>2 DEF ReadOK
    <2>17. ASSUME o.anchored, c \notin stale
           PROVE  AnchorsOK(new)
      <3>1. AnchorsOK(o)
        BY <1>5, <2>17 DEF MoveOK
      <3>2. PICK n, m : n = Neighbours(o) /\ m = <<At(o.seen, o.index - 1), At(o.seen, o.index)>>
        OBVIOUS
      <3>3. /\ o.before = m[1] /\ o.after = m[2] /\ o.seen \subseteq Others(o.status, o.task)
            /\ o.index =< Cardinality(o.seen)
        BY <1>5, <3>1, <3>2 DEF AnchorsOK
      <3>4. AnchorsFound(o)
        BY <1>7, <2>17 DEF Refused
      <3>5. PICK x : x = plan[o.task].order
        OBVIOUS
      <3>6. StrictlyBetween(x, n)
        BY <1>7, <2>6, <2>17, <3>2, <3>4, <3>5 DEF Refused
      <3>7. (m[1] # NoTask => n[1] = m[1]) /\ (m[2] # NoTask => n[2] = m[2])
        BY <1>2, <1>5, <3>1, <3>2, <3>3, NeighboursFound
      <3>8. StrictlyBetween(x, m)
        BY <3>6, <3>7 DEF StrictlyBetween
      <3>9. ASSUME ~ BothOrNone(o), NEW u \in Others(o.status, o.task)
            PROVE  card[u].order # x
        <4>1. PICK S \in SUBSET Task : S = Others(o.status, o.task)
          BY DEF Others, Column
        <4>2. PICK k \in Nat : k =< Cardinality(S) /\ n = <<At(S, k - 1), At(S, k)>>
          BY <1>2, <1>5, <3>1, <3>2, <3>9, <4>1, NeighboursFound
        <4>3. x \in Int
          <5>1. x \in Order
            BY <2>1, <2>5, <3>5
          <5> QED  BY <5>1, BoardConstants DEF Order
        <4>4. card[u].order < x \/ x < card[u].order
          BY <1>2, <3>6, <3>9, <4>1, <4>2, <4>3, BetweenNeighbours
        <4>5. card[u].order \in Int
          BY <1>2, <3>9, <4>1, OrdersAreNumbers
        <4> QED  BY <4>3, <4>4, <4>5
      <3>10. BothOrNone(new) <=> BothOrNone(o)
        BY <2>12 DEF BothOrNone
      <3> QED  BY <2>12, <3>2, <3>3, <3>5, <3>8, <3>9, <3>10 DEF AnchorsOK
    <2>18. PlanOK(new)
      BY <2>5, <2>6, <2>12 DEF PlanOK
    <2>19. MoveOK(c, new)'
      <3>1. \A s : ColumnKept(s)
        BY <1>1 DEF ColumnKept, Column
      <3>2. ReadOK(new)'
        BY <1>1, <2>3, <2>11, <2>12, <2>16, <3>1, ReadStays
      <3>3. new.anchored /\ c \notin stale' => AnchorsOK(new)'
        BY <2>1, <2>11, <2>12, <2>17, <3>1, AnchorsStay
      <3>4. PlanOK(new)' /\ (card[new.task].status = new.from)'
        BY <1>1, <2>3, <2>12, <2>18 DEF PlanOK
      <3> QED  BY <3>2, <3>3, <3>4 DEF MoveOK
    <2>20. ASSUME NEW d \in Client, NEW p \in MoveType, op'[d] = p
           PROVE  MoveOK(d, p)'
      <3>1. CASE d = c
        BY <2>13, <2>19, <2>20, <3>1
      <3>2. CASE d # c
        BY <1>1, <2>1, <2>13, <2>20, <3>2, OtherMovesStay
      <3> QED  BY <3>1, <3>2
    <2>21. MovesInv'
      BY <2>20 DEF MovesInv
    <2>22. (\A b, d \in Client : Moving(op[b]) /\ Moving(op[d]) => b = d)'
      BY <1>1, <2>13 DEF ProjectFree, Moving
    <2>23. (\A d \in stale : op[d] # NoOp)' /\ (\A d \in late : Moving(op[d]))'
      <3>1. new # NoOp
        BY <2>11, NoOpAssumption
      <3> QED  BY <1>1, <1>2, <1>3, <2>1, <2>13, <3>1 DEF BoardInv, TypeOK
    <2> QED  BY <2>14, <2>21, <2>22, <2>23 DEF BoardInv
  <1> QED  BY <1>6, <1>7

\* The plan of a move in progress.
LEMMA PlanFacts ==
    ASSUME BoardInv, NEW c \in Client, Moving(op[c])
    PROVE  /\ op[c] \in MoveType /\ op[c] # NoOp /\ op[c].phase = "move"
           /\ DOMAIN op[c].plan \subseteq Task /\ \A t \in DOMAIN op[c].plan : op[c].plan[t] \in Place
  <1>1. op[c] \in MoveType /\ op[c] # NoOp /\ op[c].phase = "move"
    BY MoveFacts DEF Moving
  <1>2. op[c].plan \in Plans
    BY <1>1 DEF MoveType
  <1>3. PICK R \in SUBSET Task : op[c].plan \in [R -> Place]
    BY <1>2 DEF Plans
  <1> QED  BY <1>1, <1>3

\* The move writes its rows.
LEMMA CommitStep ==
    ASSUME BoardInv, NEW c \in Client, CommitMove(c)
    PROVE  BoardInv'
  <1> DEFINE written == {t \in DOMAIN op[c].plan : On(t)}
  <1>1. /\ Moving(op[c]) /\ card' = [t \in Task |-> IF t \in written THEN op[c].plan[t] ELSE card[t]]
        /\ Touch(written, {c}) /\ UNCHANGED <<wip, left>>
    BY DEF CommitMove
  <1>2. written \in SUBSET Task /\ \A t \in written : op[c].plan[t] \in Place
    BY <1>1, PlanFacts
  <1>3. card' \in [Task -> Place \cup {Off("new"), Off("gone")}]
    BY <1>1, <1>2 DEF BoardInv, TypeOK
  <1>4. \A u \in Task \ written : card'[u] = card[u]
    BY <1>1
  <1>5. \A d \in Client \ {c} : ~ Moving(op[d])
    BY <1>1 DEF BoardInv
  <1>6. left' \in 0..Requests
    BY <1>1 DEF BoardInv, TypeOK
  <1> HIDE DEF written
  <1> QED  BY <1>1, <1>2, <1>3, <1>4, <1>5, <1>6, AfterWrite

\* Every step of the board keeps the invariant.
LEMMA BoardStepInv == BoardInv /\ [Next]_vars => BoardInv'
  <1> SUFFICES ASSUME BoardInv, [Next]_vars PROVE BoardInv'
    OBVIOUS
  <1>1. CASE UNCHANGED vars
    <2>1. UNCHANGED <<card, wip, op, left, stale, late>>
      BY <1>1 DEF vars
    <2>2. ASSUME NEW d \in Client, NEW o \in MoveType, op'[d] = o
          PROVE  MoveOK(d, o)'
      BY <2>1, <2>2, OtherMovesStay
    <2>3. MovesInv'
      BY <2>2 DEF MovesInv
    <2> QED  BY <2>1, <2>3 DEF BoardInv, TypeOK, Moving
  <1>2. CASE Next
    BY <1>2, BoardWrites, LimitStep, AskStep, BeginStep, CommitStep DEF Next
  <1> QED  BY <1>1, <1>2

\* The invariant of the board holds in every reachable state.
LEMMA BoardInvHolds == Spec => []BoardInv
  <1>1. Init => BoardInv
    BY BoardInitInv
  <1> QED  BY <1>1, BoardStepInv, PTL DEF Spec

\* Every variable of the board has its type.
THEOREM BoardTypes == Spec => []TypeOK
  <1>1. BoardInv => TypeOK
    BY DEF BoardInv
  <1> QED  BY <1>1, BoardInvHolds, PTL

\* A move ends when it commits, and in no other step.
LEMMA OnlyCommitsEnd ==
    ASSUME BoardInv, [Next]_vars, NEW c \in Client, Commits(c)
    PROVE  CommitMove(c)
  <1>1. Moving(op[c]) /\ op'[c] = NoOp /\ op[c] # NoOp
    BY DEF Commits, Moving
  <1>2. op \in [Client -> MoveType \cup {NoOp}]
    BY DEF BoardInv, TypeOK
  <1>3. op' # op
    BY <1>1
  <1>4. ASSUME NEW R, Touch(R, {}) PROVE FALSE
    BY <1>1, <1>4 DEF Touch
  <1>5. ASSUME NEW d \in Client, BeginMove(d) PROVE FALSE
    <2>1. d # c
      BY <1>1, <1>5 DEF BeginMove, Moving
    <2>2. op'[c] = op[c]
      BY <1>2, <1>5, <2>1 DEF BeginMove
    <2> QED  BY <1>1, <2>2
  <1>6. ASSUME NEW d \in Client, NEW t \in Task, NEW s \in Columns,
               (\E seen \in SUBSET Task : AskBetween(d, t, s, seen)) \/ AskPlace(d, t, s)
        PROVE  FALSE
    <2>1. d # c
      BY <1>1, <1>6 DEF AskBetween, AskPlace
    <2>2. op'[c] = op[c]
      BY <1>2, <1>6, <2>1 DEF AskBetween, AskPlace
    <2> QED  BY <1>1, <2>2
  <1>7. ASSUME NEW d \in Client, CommitMove(d) PROVE d = c
    <2>1. CASE d # c
      <3>1. ~ Moving(op[d])
        BY <1>1, <2>1 DEF BoardInv
      <3> QED  BY <1>7, <3>1 DEF CommitMove
    <2> QED  BY <2>1
  <1>8. ASSUME NEW s \in Columns, Create(s) PROVE FALSE
    BY <1>4, <1>8 DEF Create
  <1>9. ASSUME NEW t \in Task, NEW s \in Columns, NEW o \in Order, Update(t, s, o) PROVE FALSE
    BY <1>4, <1>9 DEF Update
  <1>10. ASSUME NEW t \in Task, SoftDelete(t) PROVE FALSE
    BY <1>4, <1>10 DEF SoftDelete
  <1>11. ASSUME NEW s \in Limited, NEW n \in Limits \cup {NoLimit}, SetWipLimit(s, n) PROVE FALSE
    BY <1>3, <1>11 DEF SetWipLimit
  <1> QED  BY <1>3, <1>5, <1>6, <1>7, <1>8, <1>9, <1>10, <1>11 DEF Next, vars

-----------------------------------------------------------------------------
\* What a commit does to the cards: a move that is not late, or has anchors, takes
\* none but its own to another column.
LEMMA Committed ==
    ASSUME BoardInv, NEW c \in Client, CommitMove(c), NEW o \in MoveType, o = op[c]
    PROVE  /\ o.task \in Task /\ card[o.task].status = o.from /\ card'[o.task] = o.plan[o.task]
           /\ card'[o.task].status = o.status
           /\ \A u \in Task : card'[u] = IF u \in DOMAIN o.plan /\ On(u) THEN o.plan[u] ELSE card[u]
           /\ o.anchored => \A u \in Task \ {o.task} : card'[u] = card[u]
           /\ o.anchored /\ c \notin stale => AnchorsOK(o)
           /\ c \notin late => ReadOK(o)
           /\ o.anchored \/ c \notin late =>
                 \A u \in Task \ {o.task} : card'[u].status = card[u].status
           /\ o.phase = "move"
  <1>1. Moving(op[c]) /\ o # NoOp /\ o.phase = "move" /\ DOMAIN o.plan \subseteq Task
    BY PlanFacts DEF CommitMove
  <1>2. /\ o.task \in Task /\ o.from \in Columns /\ card[o.task].status = o.from /\ PlanOK(o)
        /\ o.anchored /\ c \notin stale => AnchorsOK(o)
        /\ c \notin late => ReadOK(o)
    BY <1>1, MoveFacts DEF MoveOK
  <1>3. \A u \in Task : card'[u] = IF u \in DOMAIN o.plan /\ On(u) THEN o.plan[u] ELSE card[u]
    BY DEF CommitMove
  <1>4. card'[o.task] = o.plan[o.task] /\ card'[o.task].status = o.status
    BY <1>2, <1>3 DEF PlanOK, On
  <1>5. o.anchored => \A u \in Task \ {o.task} : card'[u] = card[u]
    BY <1>2, <1>3 DEF PlanOK
  <1>6. ASSUME ~ o.anchored, c \notin late, NEW u \in Task \ {o.task}
        PROVE  card'[u].status = card[u].status
    <2>1. o.plan = PositionalPlan(o)
      BY <1>2, <1>6 DEF ReadOK
    <2>2. CASE u \notin DOMAIN o.plan
      BY <1>3, <2>2
    <2>3. CASE u \in DOMAIN o.plan
      <3>1. o.plan[u].status = card[u].status
        <4>1. CASE u \in Others(o.status, o.task)
          <5>1. card[u].status = o.status
            BY <4>1 DEF Others, Column
          <5>2. PositionalPlan(o)[u].status = o.status
            BY <1>6, <4>1 DEF PositionalPlan, Renumbered
          <5> QED  BY <2>1, <5>1, <5>2
        <4>2. CASE u \notin Others(o.status, o.task)
          <5>1. u \in Others(card[o.task].status, o.task)
            BY <1>6, <2>1, <2>3, <4>2 DEF PositionalPlan
          <5>2. card[u].status = card[o.task].status
            BY <5>1 DEF Others, Column
          <5>3. PositionalPlan(o)[u].status = card[o.task].status
            BY <1>6, <4>2, <5>1 DEF PositionalPlan, Renumbered
          <5> QED  BY <2>1, <5>2, <5>3
        <4> QED  BY <4>1, <4>2
      <3> QED  BY <1>3, <3>1
    <2> QED  BY <2>2, <2>3
  <1>7. o.anchored \/ c \notin late => \A u \in Task \ {o.task} : card'[u].status = card[u].status
    BY <1>5, <1>6
  <1> QED  BY <1>1, <1>2, <1>3, <1>4, <1>5, <1>7

\* The task leaves its column for the other one, and the columns have their cards
\* otherwise.
LEMMA ColumnsAfter ==
    ASSUME BoardInv, NEW c \in Client, CommitMove(c), NEW o \in MoveType, o = op[c],
           o.anchored \/ c \notin late
    PROVE  \A s : Column(s)' = IF s = o.status THEN Others(s, o.task) \cup {o.task}
                               ELSE Others(s, o.task)
  <1> SUFFICES ASSUME NEW s
               PROVE  Column(s)' = IF s = o.status THEN Others(s, o.task) \cup {o.task}
                                   ELSE Others(s, o.task)
    OBVIOUS
  <1>1. /\ o.task \in Task /\ card'[o.task].status = o.status
        /\ \A u \in Task \ {o.task} : card'[u].status = card[u].status
    BY Committed
  <1> QED  BY <1>1 DEF Column, Others

\* A move changes the status of no task but its own, unless it renumbers columns
\* that were changed after it had read them.
THEOREM OthersKeepTheirStatus == Spec => OnlyLateRenumberingRevertsStatus
  <1>1. ASSUME BoardInv, [Next]_vars, NEW c \in Client, Commits(c), NEW u \in Task \ {op[c].task},
               card'[u].status # card[u].status
        PROVE  ~ op[c].anchored /\ c \in late
    <2>1. CommitMove(c)
      BY <1>1, OnlyCommitsEnd
    <2>2. PICK o \in MoveType : o = op[c]
      BY <1>1, PlanFacts DEF Commits
    <2> QED  BY <1>1, <2>1, <2>2, Committed
  <1>2. BoardInv /\ [Next]_vars =>
          [\A c \in Client : Commits(c) =>
             \A u \in Task \ {op[c].task} :
                card'[u].status # card[u].status => ~op[c].anchored /\ c \in late]_vars
    BY <1>1
  <1> QED  BY <1>2, BoardInvHolds, PTL DEF Spec, OnlyLateRenumberingRevertsStatus

\* A move takes a column over its limit only if the column or the limit was changed
\* after the move had counted.
THEOREM MovesKeepLimits == Spec => OnlyLateMovesExceedWip
  <1>1. ASSUME BoardInv, [Next]_vars, NEW c \in Client, NEW s \in Columns, Commits(c),
               Cardinality(Column(s)') > Cardinality(Column(s)),
               wip[s] # NoLimit, Cardinality(Column(s)') > wip[s], c \notin late
        PROVE  FALSE
    <2>1. CommitMove(c)
      BY <1>1, OnlyCommitsEnd
    <2>2. PICK o \in MoveType : o = op[c]
      BY <1>1, PlanFacts DEF Commits
    <2>3. Column(s)' = IF s = o.status THEN Others(s, o.task) \cup {o.task} ELSE Others(s, o.task)
      BY <1>1, <2>1, <2>2, ColumnsAfter
    <2>4. o.task \in Task /\ card[o.task].status = o.from /\ WithinLimit(o)
      BY <1>1, <2>1, <2>2, Committed DEF ReadOK
    <2>5. /\ IsFiniteSet(Column(s)) /\ Cardinality(Column(s)) \in Nat
      BY BoardConstants, FS_Subset, FS_CardinalityType DEF Column
    <2>6. CASE s # o.status
      <3>1. Column(s)' \subseteq Column(s)
        BY <2>3, <2>6 DEF Others
      <3>2. Cardinality(Column(s)') =< Cardinality(Column(s)) /\ Cardinality(Column(s)') \in Nat
        BY <2>5, <3>1, FS_Subset, FS_CardinalityType
      <3> QED  BY <1>1, <2>5, <3>2
    <2>7. CASE s = o.status /\ o.task \in Column(s)
      <3>1. Column(s)' = Column(s)
        BY <2>3, <2>7 DEF Others
      <3> QED  BY <1>1, <2>5, <3>1
    <2>8. CASE s = o.status /\ o.task \notin Column(s)
      <3>1. Column(s)' = Column(s) \cup {o.task}
        BY <2>3, <2>8 DEF Others
      <3>2. Cardinality(Column(s)') = Cardinality(Column(s)) + 1
        BY <2>5, <2>8, <3>1, FS_AddElement
      <3>3. card[o.task].status # s
        BY <2>4, <2>8 DEF Column
      <3>4. Cardinality(Column(s)) + 1 =< wip[s]
        BY <1>1, <2>4, <2>8, <3>3 DEF WithinLimit
      <3>5. wip[s] \in Nat
        BY <1>1, BoardConstants DEF BoardInv, TypeOK
      <3> QED  BY <1>1, <2>5, <3>2, <3>4, <3>5
    <2> QED  BY <2>6, <2>7, <2>8
  <1>2. BoardInv /\ [Next]_vars =>
          [\A c \in Client, s \in Columns :
            /\ Commits(c)
            /\ Cardinality(Column(s)') > Cardinality(Column(s))
            /\ wip[s] # NoLimit /\ Cardinality(Column(s)') > wip[s]
            => c \in late]_vars
    BY <1>1
  <1> QED  BY <1>2, BoardInvHolds, PTL DEF Spec, OnlyLateMovesExceedWip

-----------------------------------------------------------------------------
\* Orders are spaced alike.
LEMMA Spacing ==
    ASSUME NEW a \in Nat, NEW b \in Nat
    PROVE  /\ Unit * a \in Int /\ Unit * b \in Int
           /\ Unit * a < Unit * b <=> a < b
           /\ Unit * a = Unit * b <=> a = b
  <1>1. Unit \in Nat /\ Unit > 0
    BY BoardConstants
  <1>2. ASSUME NEW x \in Nat, NEW y \in Nat, x < y PROVE Unit * x < Unit * y
    <2>1. PICK d \in Nat : y = x + d /\ d > 0
      <3>1. y - x \in Nat /\ y = x + (y - x) /\ y - x > 0
        BY <1>2
      <3> QED  BY <3>1
    <2>2. Unit * y = Unit * x + Unit * d
      BY <1>1, <2>1
    <2>3. Unit * d > 0 /\ Unit * d \in Nat /\ Unit * x \in Nat
      BY <1>1, <2>1
    <2> QED  BY <2>2, <2>3
  <1>3. Unit * a \in Nat /\ Unit * b \in Nat
    BY <1>1
  <1>4. CASE a < b
    BY <1>2, <1>3, <1>4
  <1>5. CASE b < a
    <2>1. Unit * b < Unit * a
      BY <1>2, <1>5
    <2> QED  BY <1>3, <1>5, <2>1
  <1>6. CASE a = b
    BY <1>3, <1>6
  <1> QED  BY <1>3, <1>4, <1>5, <1>6

\* Renumbering opens a gap at the place of the drop.
LEMMA GapOpened ==
    ASSUME TypeOK, NEW o \in MoveType, NEW u \in Others(o.status, o.task)
    PROVE  LET S == Others(o.status, o.task)
               d == DropIndex(o)
               p == Position(Serial, S, u)
           IN  /\ S \in SUBSET Task /\ d \in Nat /\ d =< Cardinality(S) /\ p \in Nat
               /\ u \in DOMAIN PositionalPlan(o) /\ u # o.task
               /\ PositionalPlan(o)[o.task].order = Unit * d
               /\ PositionalPlan(o)[u].order = Unit * (IF p < d THEN p ELSE p + 1)
  <1> DEFINE S == Others(o.status, o.task)
             d == DropIndex(o)
             p == Position(Serial, S, u)
  <1>1. S \in SUBSET Task /\ u # o.task
    BY DEF Others, Column
  <1>2. Cardinality(S) \in Nat /\ p \in 0..(Cardinality(S) - 1)
    BY <1>1, Positions, BoardKeys
  <1>3. d \in Nat /\ d =< Cardinality(S)
    BY <1>2 DEF DropIndex, MoveType
  <1>4. p \in Nat
    <2> HIDE DEF p, S
    <2> QED  BY <1>2
  <1>5. u \in DOMAIN PositionalPlan(o)
    BY DEF PositionalPlan
  <1>6. PositionalPlan(o)[o.task].order = Unit * d
    BY DEF PositionalPlan, Renumbered
  <1>7. PositionalPlan(o)[u].order = Unit * (IF p < d THEN p ELSE p + 1)
    BY <1>1 DEF PositionalPlan, Renumbered
  <1> QED  BY <1>1, <1>3, <1>4, <1>5, <1>6, <1>7

\* The orders in the target column after a move that was not overtaken: those of the
\* cards before the place where the task was dropped are smaller than that of the
\* task, those of the others larger; key is what its place was counted by.
LEMMA TaskInPlace ==
    ASSUME BoardInv, NEW c \in Client, CommitMove(c), NEW o \in MoveType, o = op[c], ~ Overtaken(c),
           NEW key, key = IF o.anchored THEN IdRank ELSE Serial,
           NEW u \in Shown(o)
    PROVE  /\ Shown(o) \subseteq Others(o.status, o.task)
           /\ card'[u].order \in Int /\ card'[o.task].order \in Int
           /\ Position(key, Shown(o), u) < DropIndex(o)
                 => card'[u].order < card'[o.task].order
           /\ ~ (Position(key, Shown(o), u) < DropIndex(o))
                 => card'[o.task].order < card'[u].order
  <1> DEFINE S == Shown(o)
             d == DropIndex(o)
             p == Position(key, S, u)
  <1>0. /\ S \subseteq Others(o.status, o.task)
        /\ ~ o.anchored => S = Others(o.status, o.task)
        /\ o.anchored => S = o.seen /\ AnchorsOK(o)
    BY Committed DEF Overtaken, Shown, AnchorsOK
  <1>1. TypeOK /\ S \in SUBSET Task /\ u \in Task \ {o.task}
    BY <1>0 DEF BoardInv, Others, Column
  <1> HIDE DEF S
  <1>2. /\ card'[o.task] = o.plan[o.task] /\ o.phase = "move" /\ o.task \in Task
        /\ \A v \in Task : card'[v] = IF v \in DOMAIN o.plan /\ On(v) THEN o.plan[v] ELSE card[v]
    BY Committed
  <1>3. TypeOK'
    BY CommitStep DEF BoardInv
  <1>4. card'[u].order \in Int /\ card'[o.task].order \in Int
    <2>1. card' \in [Task -> Place \cup {Off("new"), Off("gone")}]
      BY <1>3 DEF TypeOK
    <2>2. Order \subseteq Int
      BY BoardConstants DEF Order
    <2>3. \A x \in Place \cup {Off("new"), Off("gone")} : x.order \in Int
      <3>1. \A x \in Place : x.order \in Int
        BY <2>2 DEF Place
      <3>2. \A x \in {Off("new"), Off("gone")} : x.order \in Int
        BY DEF Off
      <3> QED  BY <3>1, <3>2
    <2> QED  BY <1>1, <1>2, <2>1, <2>3
  <1>5. CASE o.anchored
    <2>1. c \notin stale /\ AnchorsOK(o) /\ card'[u] = card[u] /\ key = IdRank
      BY <1>1, <1>5, Committed DEF Overtaken
    <2>2. /\ o.index \in Nat /\ o.index =< Cardinality(S)
          /\ StrictlyBetween(card'[o.task].order, <<At(S, o.index - 1), At(S, o.index)>>)
      BY <1>0, <1>2, <1>5, <2>1 DEF AnchorsOK, MoveType
    <2>3. /\ Cardinality(Others(o.status, o.task)) \in Nat /\ Cardinality(S) \in Nat
          /\ Cardinality(S) =< Cardinality(Others(o.status, o.task))
      <3>1. Others(o.status, o.task) \in SUBSET Task
        BY DEF Others, Column
      <3>2. IsFiniteSet(Others(o.status, o.task))
        BY <1>1, <3>1, Positions, BoardKeys
      <3> QED  BY <1>0, <3>2, FS_Subset, FS_CardinalityType
    <2>4. d = o.index
      <3>1. o.index =< Cardinality(Others(o.status, o.task))
        BY <2>2, <2>3
      <3> QED  BY <2>2, <2>3, <3>1 DEF DropIndex
    <2>5. PICK n \in Int : n = card'[o.task].order
      BY <1>4
    <2>6. /\ Position(IdRank, S, u) < o.index => card[u].order < n
          /\ ~ (Position(IdRank, S, u) < o.index) => n < card[u].order
      <3>1. StrictlyBetween(n, <<At(S, o.index - 1), At(S, o.index)>>)
        BY <2>2, <2>5 DEF StrictlyBetween
      <3>2. u \in S
        BY DEF S
      <3> QED  BY <1>1, <2>2, <3>1, <3>2, BetweenNeighbours
    <2> QED  BY <1>0, <1>4, <2>1, <2>4, <2>5, <2>6 DEF S
  <1>6. CASE ~ o.anchored
    <2>1. c \notin late /\ o.plan = PositionalPlan(o) /\ key = Serial
      BY <1>6, Committed DEF Overtaken, ReadOK
    <2>2. /\ d \in Nat /\ p \in Nat /\ u \in DOMAIN o.plan
          /\ o.plan[o.task].order = Unit * d
          /\ o.plan[u].order = Unit * (IF p < d THEN p ELSE p + 1)
      BY <1>0, <1>1, <1>6, <2>1, GapOpened DEF S
    <2>3. card'[u] = o.plan[u]
      <3>1. On(u)
        BY <1>0 DEF On, Others, Column, MoveType, S
      <3> QED  BY <1>1, <1>2, <2>2, <3>1
    <2> HIDE DEF d, p
    <2>4. PICK k \in Nat : k = IF p < d THEN p ELSE p + 1
      BY <2>2
    <2>5. /\ Unit * k < Unit * d <=> k < d
          /\ Unit * d < Unit * k <=> d < k
      BY <2>2, Spacing
    <2>6. (p < d => k < d) /\ (~ (p < d) => d < k)
      BY <2>2, <2>4
    <2>7. card'[u].order = Unit * k /\ card'[o.task].order = Unit * d
      BY <1>2, <2>2, <2>3, <2>4
    <2>8. /\ p < d => card'[u].order < card'[o.task].order
          /\ ~ (p < d) => card'[o.task].order < card'[u].order
      BY <2>5, <2>6, <2>7
    <2> QED  BY <1>0, <1>4, <2>8 DEF d, p, S
  <1> QED  BY <1>0, <1>5, <1>6 DEF S

\* Moves make two orders equal only when they were overtaken, or with a card that the
\* client did not show.
THEOREM MovesDoNotTie == Spec => OnlyOvertakenOrHiddenTie
  <1>1. ASSUME BoardInv, [Next]_vars, NEW c \in Client, NEW t \in Task, NEW s \in Columns,
               Commits(c), op[c].task = t, op[c].status = s, ~ Overtaken(c),
               NEW u \in Column(s)' \ {t}, card'[u].order = card'[t].order
        PROVE  op[c].anchored /\ u \notin op[c].seen /\ BothOrNone(op[c])
    <2>1. CommitMove(c)
      BY <1>1, OnlyCommitsEnd
    <2>2. PICK o \in MoveType : o = op[c]
      BY <1>1, PlanFacts DEF Commits
    <2>3. o.anchored \/ c \notin late
      BY <1>1, <2>2 DEF Overtaken
    <2>4. u \in Others(o.status, o.task)
      BY <1>1, <2>1, <2>2, <2>3, ColumnsAfter
    <2>5. u \notin Shown(o)
      <3>1. CASE u \in Shown(o)
        <4>1. /\ card'[u].order \in Int /\ card'[t].order \in Int
              /\ card'[u].order < card'[t].order \/ card'[t].order < card'[u].order
          BY <1>1, <2>1, <2>2, <3>1, TaskInPlace
        <4> QED  BY <1>1, <4>1
      <3> QED  BY <3>1
    <2>6. o.anchored /\ u \notin o.seen
      BY <2>4, <2>5 DEF Shown
    <2>7. /\ AnchorsOK(o) /\ o.phase = "move" /\ card'[t].order = o.plan[o.task].order
          /\ card'[u] = card[u]
      <3>1. u \in Task /\ u # o.task
        BY <2>4 DEF Others, Column
      <3> QED  BY <1>1, <2>1, <2>2, <2>6, <3>1, Committed DEF Overtaken
    <2>8. BothOrNone(o)
      BY <1>1, <2>4, <2>7 DEF AnchorsOK
    <2> QED  BY <2>2, <2>6, <2>8
  <1>2. BoardInv /\ [Next]_vars =>
          [\A c \in Client, t \in Task, s \in Columns :
             Commits(c) /\ op[c].task = t /\ op[c].status = s /\ ~Overtaken(c) =>
                \A u \in Column(s)' \ {t} : card'[u].order = card'[t].order =>
                    op[c].anchored /\ u \notin op[c].seen /\ BothOrNone(op[c])]_vars
    BY <1>1
  <1> QED  BY <1>2, BoardInvHolds, PTL DEF Spec, OnlyOvertakenOrHiddenTie

-----------------------------------------------------------------------------
\* In a column without equal orders the server sorts the cards as the board shows them.
LEMMA UntiedOrder ==
    ASSUME TypeOK, NEW s, ~ Tied(s), NEW u \in Column(s), NEW v \in Column(s)
    PROVE  Precedes(IdRank, u, v) <=> Precedes(Serial, u, v)
  <1>1. u \in Task /\ v \in Task
    BY DEF Column
  <1>2. CASE u = v
    BY <1>1, <1>2, SortedCards, BoardKeys
  <1>3. CASE u # v
    <2>1. card[u].order # card[v].order
      BY <1>3 DEF Tied
    <2> QED  BY <2>1 DEF Precedes
  <1> QED  BY <1>2, <1>3

\* Cards of such a column that are given numbers in the server's order are shown in
\* the order they had.
LEMMA RenumberedInOrder ==
    ASSUME TypeOK, NEW s, ~ Tied(s), NEW S \in SUBSET Column(s), NEW f \in [S -> Nat],
           \A u, v \in S : Position(Serial, S, u) < Position(Serial, S, v) => f[u] < f[v],
           \A u \in S : card'[u].order = Unit * f[u]
    PROVE  OrderKept(S)
  <1> DEFINE q(t) == Position(Serial, S, t)
  <1>1. S \in SUBSET Task
    BY DEF Column
  <1>2. \A u, v \in S : Precedes(Serial, u, v) <=> q(u) < q(v)
    BY <1>1, Positions, BoardKeys
  <1> SUFFICES ASSUME NEW u \in S, NEW v \in S
               PROVE  Precedes(IdRank, u, v)' <=> Precedes(IdRank, u, v)
    BY DEF OrderKept
  <1>3. Precedes(IdRank, u, v) <=> q(u) < q(v)
    BY <1>2, UntiedOrder
  <1>4. IdRank[u] \in Nat /\ IdRank[v] \in Nat
    BY <1>1, BoardConstants
  <1>5. PICK a \in Nat, b \in Nat : a = f[u] /\ b = f[v]
    OBVIOUS
  <1>6. card'[u].order = Unit * a /\ card'[v].order = Unit * b
    BY <1>5
  <1>7. PICK m \in Int, n \in Int :
            /\ card'[u].order = m /\ card'[v].order = n
            /\ (m < n <=> a < b) /\ (m = n <=> a = b)
    BY <1>6, Spacing
  <1>8. Precedes(IdRank, u, v)' <=> m < n \/ (m = n /\ IdRank[u] < IdRank[v])
    BY <1>7 DEF Precedes
  <1>9. CASE u = v
    <2>1. ~ Precedes(IdRank, u, v)
      BY <1>1, <1>9, SortedCards, BoardKeys
    <2>2. m = n
      BY <1>7, <1>9
    <2> QED  BY <1>4, <1>8, <1>9, <2>1, <2>2
  <1>10. CASE q(u) < q(v)
    <2>1. a < b
      BY <1>5, <1>10
    <2> QED  BY <1>3, <1>7, <1>8, <1>10, <2>1
  <1>11. CASE q(v) < q(u)
    <2>1. b < a
      BY <1>5, <1>11
    <2>2. ~ (m < n) /\ m # n
      BY <1>7, <2>1
    <2>3. ~ Precedes(Serial, u, v)
      BY <1>1, <1>2, <1>11, SortedCards, BoardKeys
    <2> QED  BY <1>2, <1>3, <1>8, <2>2, <2>3
  <1>12. u = v \/ q(u) < q(v) \/ q(v) < q(u)
    BY <1>1, <1>2, SortedCards, BoardKeys
  <1> QED  BY <1>9, <1>10, <1>11, <1>12

\* The orders that a move without anchors gives to the column that the task leaves.
LEMMA GapClosed ==
    ASSUME TypeOK, NEW o \in MoveType, card[o.task].status # o.status,
           NEW u \in Others(card[o.task].status, o.task)
    PROVE  LET S == Others(card[o.task].status, o.task)
           IN  /\ Position(Serial, S, u) \in Nat
               /\ u \in DOMAIN PositionalPlan(o)
               /\ PositionalPlan(o)[u].order = Unit * Position(Serial, S, u)
  <1> DEFINE S == Others(card[o.task].status, o.task)
             p == Position(Serial, S, u)
  <1>1. S \in SUBSET Task /\ u # o.task /\ u \notin Others(o.status, o.task)
    BY DEF Others, Column
  <1>2. Cardinality(S) \in Nat /\ p \in 0..(Cardinality(S) - 1)
    BY <1>1, Positions, BoardKeys
  <1>3. p \in Nat
    <2> HIDE DEF p, S
    <2> QED  BY <1>2
  <1>4. u \in DOMAIN PositionalPlan(o)
    BY DEF PositionalPlan
  <1>5. PositionalPlan(o)[u].order = Unit * p
    BY <1>1 DEF PositionalPlan, Renumbered
  <1> QED  BY <1>3, <1>4, <1>5

\* The cards that stay in the target column are shown in the order they had.
LEMMA TargetKept ==
    ASSUME BoardInv, NEW c \in Client, CommitMove(c), NEW o \in MoveType, o = op[c], c \notin late,
           ~ o.anchored => ~ Tied(o.status)
    PROVE  OrderKept(Others(o.status, o.task))
  <1> DEFINE S == Others(o.status, o.task)
  <1>1. TypeOK /\ S \in SUBSET Task /\ o.task \notin S /\ S \in SUBSET Column(o.status)
    BY DEF BoardInv, Others, Column
  <1>2. CASE o.anchored
    <2>1. \A u \in S : card'[u] = card[u]
      BY <1>1, <1>2, Committed
    <2> QED  BY <2>1 DEF OrderKept, Precedes
  <1>3. CASE ~ o.anchored
    <2> DEFINE d == DropIndex(o)
               q(u) == Position(Serial, S, u)
               f == [u \in S |-> IF q(u) < d THEN q(u) ELSE q(u) + 1]
    <2>1. o.plan = PositionalPlan(o)
      BY <1>3, Committed DEF ReadOK
    <2>2. ASSUME NEW u \in S
          PROVE  /\ d \in Nat /\ q(u) \in Nat /\ u \in DOMAIN o.plan
                 /\ o.plan[u].order = Unit * (IF q(u) < d THEN q(u) ELSE q(u) + 1)
      BY <1>1, <2>1, GapOpened
    <2>3. ASSUME NEW u \in S PROVE card'[u] = o.plan[u]
      <3>1. On(u) /\ u \in Task
        BY DEF On, Others, Column, MoveType
      <3> QED  BY <2>2, <3>1, Committed
    <2> HIDE DEF d, q, S
    <2>4. f \in [S -> Nat]
      BY <2>2
    <2>5. \A u, v \in S : q(u) < q(v) => f[u] < f[v]
      BY <2>2
    <2>6. \A u \in S : card'[u].order = Unit * f[u]
      BY <2>2, <2>3
    <2> HIDE DEF f
    <2>7. \A u, v \in S : Position(Serial, S, u) < Position(Serial, S, v) => f[u] < f[v]
      BY <2>5 DEF q
    <2>8. OrderKept(S)
      BY <1>1, <1>3, <2>4, <2>6, <2>7, RenumberedInOrder
    <2> QED  BY <2>8 DEF S
  <1> QED  BY <1>2, <1>3

\* So are those of the column that the task leaves.
LEMMA SourceKept ==
    ASSUME BoardInv, NEW c \in Client, CommitMove(c), NEW o \in MoveType, o = op[c], c \notin late,
           ~ o.anchored => ~ Tied(o.from), o.from # o.status
    PROVE  OrderKept(Others(o.from, o.task))
  <1> DEFINE S == Others(o.from, o.task)
  <1>1. TypeOK /\ S \in SUBSET Task /\ o.task \notin S /\ S \in SUBSET Column(o.from)
    BY DEF BoardInv, Others, Column
  <1>2. CASE o.anchored
    <2>1. \A u \in S : card'[u] = card[u]
      BY <1>1, <1>2, Committed
    <2> QED  BY <2>1 DEF OrderKept, Precedes
  <1>3. CASE ~ o.anchored
    <2> DEFINE q(u) == Position(Serial, S, u)
               f == [u \in S |-> q(u)]
    <2>1. o.plan = PositionalPlan(o) /\ card[o.task].status = o.from
      BY <1>3, Committed DEF ReadOK
    <2>2. ASSUME NEW u \in S
          PROVE  q(u) \in Nat /\ u \in DOMAIN o.plan /\ o.plan[u].order = Unit * q(u)
      BY <1>1, <2>1, GapClosed
    <2>3. ASSUME NEW u \in S PROVE card'[u] = o.plan[u]
      <3>1. On(u) /\ u \in Task
        BY DEF On, Others, Column, MoveType
      <3> QED  BY <2>2, <3>1, Committed
    <2> HIDE DEF q, S
    <2>4. f \in [S -> Nat]
      BY <2>2
    <2>5. \A u, v \in S : q(u) < q(v) => f[u] < f[v]
      OBVIOUS
    <2>6. \A u \in S : card'[u].order = Unit * f[u]
      BY <2>2, <2>3
    <2> HIDE DEF f
    <2>7. \A u, v \in S : Position(Serial, S, u) < Position(Serial, S, v) => f[u] < f[v]
      BY <2>5 DEF q
    <2>8. OrderKept(S)
      BY <1>1, <1>3, <2>4, <2>6, <2>7, RenumberedInOrder
    <2> QED  BY <2>8 DEF S
  <1> QED  BY <1>2, <1>3

\* As many cards are shown before the task as there were before the place where it
\* was dropped.
LEMMA DroppedAtIndex ==
    ASSUME BoardInv, NEW c \in Client, CommitMove(c), NEW o \in MoveType, o = op[c], ~ Overtaken(c)
    PROVE  Cardinality({u \in Shown(o) : Precedes(IdRank, u, o.task)'}) = DropIndex(o)
  <1> DEFINE S == Shown(o)
             d == DropIndex(o)
  <1>1. TypeOK /\ S \in SUBSET Task
    BY DEF BoardInv, Others, Column, Shown, MoveType
  <1>2. PICK key \in Keys : key = IF o.anchored THEN IdRank ELSE Serial
    BY BoardKeys
  <1>3. /\ Cardinality(S) \in Nat
        /\ \A k \in 0..Cardinality(S) : Cardinality({u \in S : Position(key, S, u) < k}) = k
    BY <1>1, Positions
  <1>4. d \in 0..Cardinality(S)
    <2>1. CASE o.anchored
      <3>1. AnchorsOK(o) /\ S = o.seen /\ S \subseteq Others(o.status, o.task)
        BY <2>1, Committed DEF Overtaken, Shown, AnchorsOK
      <3>2. o.index \in Nat /\ o.index =< Cardinality(S)
        BY <3>1 DEF AnchorsOK, MoveType
      <3>3. Others(o.status, o.task) \in SUBSET Task
        BY DEF Others, Column
      <3>4. IsFiniteSet(Others(o.status, o.task)) /\ Cardinality(Others(o.status, o.task)) \in Nat
        BY <1>1, <3>3, Positions, BoardKeys
      <3>5. Cardinality(S) =< Cardinality(Others(o.status, o.task))
        BY <3>1, <3>4, FS_Subset
      <3> HIDE DEF S
      <3>6. d = o.index
        BY <1>3, <3>2, <3>4, <3>5 DEF DropIndex
      <3> QED  BY <1>3, <3>2, <3>6
    <2>2. CASE ~ o.anchored
      <3>1. S = Others(o.status, o.task) /\ o.index \in Nat
        BY <2>2 DEF Shown, MoveType
      <3> HIDE DEF S
      <3> QED  BY <1>3, <3>1 DEF DropIndex
    <2> QED  BY <2>1, <2>2
  <1>5. ASSUME NEW u \in S
        PROVE  Precedes(IdRank, u, o.task)' <=> Position(key, S, u) < d
    <2>1. /\ card'[u].order \in Int /\ card'[o.task].order \in Int
          /\ Position(key, S, u) < d => card'[u].order < card'[o.task].order
          /\ ~ (Position(key, S, u) < d) => card'[o.task].order < card'[u].order
      BY <1>2, TaskInPlace
    <2> QED  BY <2>1 DEF Precedes
  <1>6. {u \in S : Precedes(IdRank, u, o.task)'} = {u \in S : Position(key, S, u) < d}
    BY <1>5
  <1> QED  BY <1>3, <1>4, <1>6

\* A move that was not overtaken takes the task out of one column and puts it into the
\* other where it was dropped, and all other cards are shown in the order they had.
THEOREM MovesAreInsertions == Spec => MoveIsInsertion
  <1>1. ASSUME BoardInv, [Next]_vars, NEW c \in Client, NEW t \in Task, NEW s \in Columns,
               NEW r \in Columns, Commits(c), op[c].task = t, op[c].status = s, op[c].from = r,
               ~ Overtaken(c), c \notin late, ~ op[c].anchored => ~ Tied(s) /\ ~ Tied(r)
        PROVE  /\ Column(s)' = Others(s, t) \cup {t} /\ OrderKept(Others(s, t))
               /\ Cardinality({u \in Shown(op[c]) : Precedes(IdRank, u, t)'}) = DropIndex(op[c])
               /\ r # s => Column(r)' = Others(r, t) /\ OrderKept(Others(r, t))
    <2>1. CommitMove(c)
      BY <1>1, OnlyCommitsEnd
    <2>2. PICK o \in MoveType : o = op[c]
      BY <1>1, PlanFacts DEF Commits
    <2>3. o.task = t /\ o.status = s /\ o.from = r
      BY <1>1, <2>2
    <2>4. Column(s)' = Others(s, t) \cup {t} /\ (r # s => Column(r)' = Others(r, t))
      BY <1>1, <2>1, <2>2, <2>3, ColumnsAfter
    <2>5. OrderKept(Others(s, t))
      BY <1>1, <2>1, <2>2, <2>3, TargetKept
    <2>6. r # s => OrderKept(Others(r, t))
      BY <1>1, <2>1, <2>2, <2>3, SourceKept
    <2>7. Cardinality({u \in Shown(op[c]) : Precedes(IdRank, u, t)'}) = DropIndex(op[c])
      <3>1. Cardinality({u \in Shown(o) : Precedes(IdRank, u, o.task)'}) = DropIndex(o)
        BY <1>1, <2>1, <2>2, DroppedAtIndex
      <3> QED  BY <2>2, <2>3, <3>1
    <2> QED  BY <2>4, <2>5, <2>6, <2>7
  <1>2. BoardInv /\ [Next]_vars =>
          [\A c \in Client, t \in Task, s, r \in Columns :
             /\ Commits(c) /\ op[c].task = t /\ op[c].status = s /\ op[c].from = r
             /\ ~Overtaken(c) /\ c \notin late
             /\ ~op[c].anchored => ~Tied(s) /\ ~Tied(r)
             => /\ Column(s)' = Others(s, t) \cup {t} /\ OrderKept(Others(s, t))
                /\ Cardinality({u \in Shown(op[c]) : Precedes(IdRank, u, t)'}) = DropIndex(op[c])
                /\ r # s => Column(r)' = Others(r, t) /\ OrderKept(Others(r, t))]_vars
    BY <1>1
  <1> QED  BY <1>2, BoardInvHolds, PTL DEF Spec, MoveIsInsertion
=============================================================================
