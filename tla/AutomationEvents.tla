-------------------------- MODULE AutomationEvents --------------------------
(***************************************************************************)
(* Automation rules over transactional task events                          *)
(* (apps/worker/src/automation-events.ts over automation_events and          *)
(* automation_runs).  A status change or a comment writes an event in its    *)
(* own transaction; the worker claims events and runs every matching rule of *)
(* an event, each in one transaction that holds the event, the rule and the  *)
(* task locked, so executeRule is one step.  What a rule does to the task    *)
(* writes child events one level deeper.                                     *)
(*                                                                           *)
(* One task is modelled.  A rule is a record: its trigger (on), the statuses  *)
(* its conditions accept (when), the status it sets ("keep": it has no action *)
(* on the task) and whether it adds a comment, in the name of the user who    *)
(* caused the event; RuleOrder lists the rules by created_at.  A rule that    *)
(* does neither stands for one that only notifies.  EditedRules are the rules *)
(* managers switch on and off meanwhile.                                      *)
(***************************************************************************)
EXTENDS WorkTable, FiniteSets, Sequences

CONSTANTS Workers, BatchSize, NoCandidate, NoEvent,
          Statuses, RuleOrder, EditedRules,
          Users, NoActor, \* actor_id, null for the events of the daily job
          MaxDepth,     \* MAX_AUTOMATION_DEPTH
          RootEvents    \* bound on the events that no rule has caused

Rules == {RuleOrder[i] : i \in DOMAIN RuleOrder}
Triggers == {"task_status_changed", "comment_added", "schedule_daily"}
Candidate == [id : Rows, token : Nat]

ASSUME AutomationConstants ==
    /\ BatchSize \in Nat \ {0} /\ MaxDepth \in Nat /\ RootEvents \in Nat
    /\ NoCandidate \notin Candidate
    /\ "keep" \notin Statuses
    /\ RuleOrder \in Seq([on : Triggers, when : SUBSET Statuses,
                          set : Statuses \cup {"keep"}, comment : BOOLEAN])
    /\ EditedRules \subseteq Rules
    /\ NoActor \notin Users

VARIABLES
    phase, batch, cur,
    todo, failed, \* places in RuleOrder of the rules yet to run; one rule failed
    event,        \* trigger, status snapshot, task version, actor, depth, parent
    task,         \* status, version (counting the updates of the status) and
                  \* whether it is not deleted
    enabled,      \* rules that are enabled
    members,      \* users whose membership is active
    receipt,      \* status of automation_runs per event and rule
    comments,     \* automation comments by deduplication key (event, rule)
    applied       \* times a rule took effect for an event (automations.runs)

workerVars == <<phase, batch, cur, todo, failed>>
effectVars == <<event, task, receipt, comments, applied>>
tenantVars == <<enabled, members>>
automationVars == <<rows, workerVars, effectVars, tenantVars>>

Phases == {"idle", "loop", "run", "skip", "release"}
Receipts == {"none", "success", "skipped"}
EventType == [trigger : Triggers, status : Statuses, version : Nat,
              actor : Users \cup {NoActor}, depth : Nat, parent : Rows \cup {NoEvent}]
ASSUME NoEventAssumption == NoEvent \notin EventType \cup Rows

Present(e) == event[e] # NoEvent
Roots == {e \in Rows : Present(e) /\ event[e].depth = 0}

\* Every variable has its type.
AutomationsTypeOK ==
    /\ rows \in [Rows -> RowType]
    /\ phase \in [Workers -> Phases]
    /\ batch \in [Workers -> SUBSET Candidate]
    /\ cur \in [Workers -> Candidate \cup {NoCandidate}]
    /\ todo \in [Workers -> SUBSET DOMAIN RuleOrder]
    /\ failed \in [Workers -> BOOLEAN]
    /\ event \in [Rows -> EventType \cup {NoEvent}]
    /\ task \in [status : Statuses, version : Nat, live : BOOLEAN]
    /\ enabled \subseteq Rules /\ members \subseteq Users
    /\ receipt \in [Rows -> [Rules -> Receipts]]
    /\ comments \subseteq Rows \X Rules
    /\ applied \in [Rows -> [Rules -> Nat]]

AutomationsInit ==
    /\ TableInit
    /\ phase = [w \in Workers |-> "idle"]
    /\ batch = [w \in Workers |-> {}]
    /\ cur = [w \in Workers |-> NoCandidate]
    /\ todo = [w \in Workers |-> {}]
    /\ failed = [w \in Workers |-> FALSE]
    /\ event = [e \in Rows |-> NoEvent]
    /\ task \in [status : Statuses, version : {0}, live : {TRUE}]
    /\ enabled = Rules /\ members = Users
    /\ receipt = [e \in Rows |-> [rule \in Rules |-> "none"]]
    /\ comments = {}
    /\ applied = [e \in Rows |-> [rule \in Rules |-> 0]]

-----------------------------------------------------------------------------
\* Mutant: an off-by-one in the limit of the repositories.
EmittedBelowLimit(new) == {x \in new : x.depth < MaxDepth}

\* The repositories write no event below the deepest level.
Emitted(new) == {x \in new : x.depth =< MaxDepth}

\* Insert the events of a transaction under fresh ids (any will do).
InsertEvents(new) ==
    LET Injections == {place \in [Emitted(new) -> {e \in Rows : ~ Present(e)}] :
                          \A x, y \in DOMAIN place : x # y => place[x] # place[y]}
        place == CHOOSE p \in Injections : TRUE
        ids == {place[x] : x \in DOMAIN place}
    IN  /\ Injections # {}
        /\ event' = [e \in Rows |-> IF e \in ids
                                    THEN CHOOSE x \in DOMAIN place : place[x] = e
                                    ELSE event[e]]
        /\ InsertAll(ids)

\* Mutant: the tenant context of a rule does not say how deep its event was.
EventOfAtTheTop(trigger, t, actor, depth, parent) ==
    [trigger |-> trigger, status |-> t.status, version |-> t.version,
     actor |-> actor, depth |-> 0, parent |-> parent]

EventOf(trigger, t, actor, depth, parent) ==
    [trigger |-> trigger, status |-> t.status, version |-> t.version,
     actor |-> actor, depth |-> depth, parent |-> parent]

MovedTo(s) == [status |-> s, version |-> task.version + 1, live |-> task.live]

\* update / move of the tasks repository, called by a user.
UserChangesStatus(u, s) ==
    /\ u \in members
    /\ task.live /\ s # task.status
    /\ Cardinality(Roots) < RootEvents
    /\ task' = MovedTo(s)
    /\ InsertEvents({EventOf("task_status_changed", task', u, 0, NoEvent)})
    /\ UNCHANGED <<workerVars, receipt, comments, applied, tenantVars>>

UserDeletesTask ==
    /\ task.live
    /\ task' = [task EXCEPT !.live = FALSE]
    /\ UNCHANGED <<rows, workerVars, event, receipt, comments, applied, tenantVars>>

\* enqueueDailyAutomationEvents on the one day modelled: the deduplication key
\* lets the repeated job insert one event.
EnqueueDaily ==
    /\ task.live
    /\ \E rule \in enabled : rule.on = "schedule_daily"
    /\ \A e \in Rows : Present(e) => event[e].trigger # "schedule_daily"
    /\ Cardinality(Roots) < RootEvents
    /\ InsertEvents({EventOf("schedule_daily", task, NoActor, 0, NoEvent)})
    /\ UNCHANGED <<workerVars, task, receipt, comments, applied, tenantVars>>

\* update of the automations repository.
EditRule(rule) ==
    /\ enabled' = IF rule \in enabled THEN enabled \ {rule} ELSE enabled \cup {rule}
    /\ UNCHANGED <<rows, workerVars, effectVars, members>>

\* The deletion of an account ends its memberships; its events stay.
MemberLeaves(u) ==
    /\ u \in members
    /\ members' = members \ {u}
    /\ UNCHANGED <<rows, workerVars, effectVars, enabled>>

RetryDead(e) ==
    /\ RetryDeadLetter(e)
    /\ UNCHANGED <<workerVars, effectVars, tenantVars>>

TimePasses(e) ==
    /\ ClaimTimesOut(e) \/ BackoffElapses(e)
    /\ UNCHANGED <<workerVars, effectVars, tenantVars>>

-----------------------------------------------------------------------------
Goto(w, p) == phase' = [phase EXCEPT ![w] = p] /\ UNCHANGED <<batch, cur, todo, failed>>

\* Forget the event and go to the next candidate, or end the job.
Continue(w) ==
    /\ phase' = [phase EXCEPT ![w] = IF batch[w] = {} THEN "idle" ELSE "loop"]
    /\ cur' = [cur EXCEPT ![w] = NoCandidate]
    /\ todo' = [todo EXCEPT ![w] = {}]
    /\ failed' = [failed EXCEPT ![w] = FALSE]
    /\ UNCHANGED batch

ClaimAutomationEventBatch(w) ==
    /\ phase[w] = "idle"
    /\ \E S \in (SUBSET Rows) \ {{}} :
          /\ Cardinality(S) =< BatchSize
          /\ ClaimBatch(S)
          /\ batch' = [batch EXCEPT ![w] =
                {[id |-> e, token |-> Claimed(rows[e]).token] : e \in S}]
    /\ phase' = [phase EXCEPT ![w] = "loop"]
    /\ UNCHANGED <<cur, todo, failed, effectVars, tenantVars>>

\* Mutant: no loop protection.
AtDepthLimitNever(depth) == FALSE

AtDepthLimit(depth) == depth >= MaxDepth

\* The rules the worker selects for an event, by their places in the order.
RulesFor(trigger) ==
    {i \in DOMAIN RuleOrder : RuleOrder[i] \in enabled /\ RuleOrder[i].on = trigger}

\* Take the next candidate: too deep or without rules it is skipped; the query
\* for the rules may fail.
LoadRules(w) ==
    /\ phase[w] = "loop"
    /\ \E c \in batch[w] :
          LET list == IF AtDepthLimit(event[c.id].depth)
                      THEN {} ELSE RulesFor(event[c.id].trigger)
          IN  /\ cur' = [cur EXCEPT ![w] = c]
              /\ batch' = [batch EXCEPT ![w] = @ \ {c}]
              /\ \/ /\ todo' = [todo EXCEPT ![w] = list]
                    /\ phase' = [phase EXCEPT ![w] = IF list = {} THEN "skip" ELSE "run"]
                 \/ /\ phase' = [phase EXCEPT ![w] = "release"]
                    /\ UNCHANGED todo
    /\ UNCHANGED <<rows, failed, effectVars, tenantVars>>

\* The loop takes the rules in order.
First(places) == CHOOSE i \in places : \A j \in places : i =< j

\* The loop over the rules goes on, remembering an error.
RuleDone(w, error) ==
    /\ todo' = [todo EXCEPT ![w] = @ \ {First(@)}]
    /\ failed' = [failed EXCEPT ![w] = @ \/ error]
    /\ UNCHANGED <<phase, batch, cur>>

\* Mutant: the conditions are evaluated on the task as it is now.
MatchesConditionsNow(rule, e) == task.status \in rule.when

\* matchesConditions, on the snapshot in the event.
MatchesConditions(rule, e) == event[e].status \in rule.when

RuleApplies(rule, e) ==
    /\ task.live /\ rule \in enabled
    /\ MatchesConditions(rule, e)

\* Mutant: the rule comments in the name of whoever it was, a member or not.
MayActAlways(rule, e) == TRUE

\* A comment needs an actor who still is an active member: without one the rule
\* throws, and with it the transaction.
MayAct(rule, e) == rule.comment => event[e].actor \in members

\* The receipt: skipped only if the one thing the rule does was done already.
Outcome(rule, moves) ==
    IF ~ moves /\ rule.set # "keep" /\ ~ rule.comment THEN "skipped" ELSE "success"

\* The actions of a rule: task update, comment (once per deduplication key), the
\* child events of both on behalf of the same actor, and the receipt.
Effects(rule, e) ==
    LET moves    == rule.set \notin {"keep", task.status}
        newTask  == IF moves THEN MovedTo(rule.set) ELSE task
        speaks   == rule.comment /\ <<e, rule>> \notin comments
        child(t) == EventOf(t, newTask, event[e].actor, event[e].depth + 1, e)
    IN  /\ MayAct(rule, e)
        /\ task' = newTask
        /\ comments' = IF speaks THEN comments \cup {<<e, rule>>} ELSE comments
        /\ InsertEvents((IF moves THEN {child("task_status_changed")} ELSE {})
                        \cup (IF speaks THEN {child("comment_added")} ELSE {}))
        /\ receipt' = [receipt EXCEPT ![e][rule] = Outcome(rule, moves)]
        /\ applied' = [applied EXCEPT ![e][rule] = IF moves \/ speaks THEN @ + 1 ELSE @]

\* Mutant: the idempotency gate lets a finished rule run again.
GateAlwaysOpen(run) == TRUE

\* on conflict (event_id, automation_id): a finished run is not started again.
GateOpen(run) == run \notin {"success", "skipped"}

\* What the transaction of a rule commits while the event is still the worker's.
RuleTransaction(rule, e) ==
    IF ~ GateOpen(receipt[e][rule]) THEN UNCHANGED <<rows, effectVars>>
    ELSE IF RuleApplies(rule, e) THEN Effects(rule, e)
    ELSE /\ receipt' = [receipt EXCEPT ![e][rule] = "skipped"]
         /\ UNCHANGED <<rows, event, task, comments, applied>>

\* executeRule: a lost claim ends the event's turn; otherwise the transaction
\* commits, commits with its answer lost, or rolls back (the only way out for a
\* rule that throws).
ExecuteRule(w) ==
    LET c == cur[w]
    IN  /\ phase[w] = "run" /\ todo[w] # {}
        /\ IF ~ Owns(rows[c.id], c.token)
           THEN Goto(w, "release") /\ UNCHANGED <<rows, effectVars>>
           ELSE \/ /\ RuleTransaction(RuleOrder[First(todo[w])], c.id)
                   /\ \E error \in BOOLEAN : RuleDone(w, error)
                \/ RuleDone(w, TRUE) /\ UNCHANGED <<rows, effectVars>>
        /\ UNCHANGED tenantVars

\* Mutant: the event is completed although one of its rules failed.
AllRulesDoneIgnoringErrors(w) == todo[w] = {}

\* The event counts as sent when the loop ended without an error.
AllRulesDone(w) == todo[w] = {} /\ ~ failed[w]

\* completeEvent throws when the claim is lost; so may the query.
CompleteEvent(w) ==
    LET c == cur[w]
    IN  /\ phase[w] = "skip" \/ (phase[w] = "run" /\ AllRulesDone(w))
        /\ \/ /\ Owns(rows[c.id], c.token)
              /\ rows' = [rows EXCEPT ![c.id] =
                             Finished(@, IF phase[w] = "skip" THEN "skipped" ELSE "sent")]
              /\ Continue(w)
           \/ Goto(w, "release") /\ UNCHANGED rows
        /\ UNCHANGED <<effectVars, tenantVars>>

ReleaseEvent(w) ==
    LET c == cur[w]
    IN  /\ phase[w] = "release" \/ (phase[w] = "run" /\ todo[w] = {} /\ failed[w])
        /\ rows' = [rows EXCEPT ![c.id] = Fenced(@, c.token, Released(@))]
        /\ Continue(w)
        /\ UNCHANGED <<effectVars, tenantVars>>

Crash(w) ==
    /\ phase[w] # "idle"
    /\ phase' = [phase EXCEPT ![w] = "idle"]
    /\ batch' = [batch EXCEPT ![w] = {}]
    /\ cur' = [cur EXCEPT ![w] = NoCandidate]
    /\ todo' = [todo EXCEPT ![w] = {}]
    /\ failed' = [failed EXCEPT ![w] = FALSE]
    /\ UNCHANGED <<rows, effectVars, tenantVars>>

WorkerStep(w) ==
    LoadRules(w) \/ ExecuteRule(w) \/ CompleteEvent(w) \/ ReleaseEvent(w)

AutomationsNext ==
    \/ \E u \in Users, s \in Statuses : UserChangesStatus(u, s)
    \/ UserDeletesTask \/ EnqueueDaily
    \/ \E u \in Users : MemberLeaves(u)
    \/ \E rule \in EditedRules : EditRule(rule)
    \/ \E e \in Rows : RetryDead(e) \/ TimePasses(e)
    \/ \E w \in Workers : ClaimAutomationEventBatch(w) \/ WorkerStep(w) \/ Crash(w)

AutomationsSpec == AutomationsInit /\ [][AutomationsNext]_automationVars

\* The scheduler re-runs the job; time passes; a started job goes on.
Fairness ==
    /\ \A e \in Rows : WF_automationVars(TimePasses(e))
    /\ \A w \in Workers : WF_automationVars(WorkerStep(w))
    /\ WF_automationVars(\E w \in Workers : ClaimAutomationEventBatch(w))

FairAutomationsSpec == AutomationsSpec /\ Fairness

-----------------------------------------------------------------------------
\* The worker's statements on automation_events keep to the table's promise.
ImplementsWorkTable == TableSpec

\* A rule that changes the task or comments (and does not only notify).
Acts(rule) == rule.set # "keep" \/ rule.comment

\* "Database effects and the successful run receipt commit atomically" and
\* "Reprocessing skips successful or skipped rule receipts" (ADR 0005): a rule
\* has taken effect for an event exactly once if its receipt says success and
\* not at all otherwise, over takeovers, lost commits, failures, rules that throw
\* for want of an actor and retries; and it has its comment exactly then.
AppliedOnce ==
    \A e \in Rows, rule \in Rules :
        /\ applied[e][rule] = IF receipt[e][rule] = "success" /\ Acts(rule) THEN 1 ELSE 0
        /\ <<e, rule>> \in comments <=> receipt[e][rule] = "success" /\ rule.comment

\* "A failing rule must not starve the rules after it": an event is recorded as
\* sent only after every rule of its trigger that nobody edited has a receipt.
SentRanEveryRule ==
    \A e \in Rows, rule \in Rules \ EditedRules :
        rows[e].status = "sent" /\ rule.on = event[e].trigger => receipt[e][rule] # "none"

\* "Child depth is limited to five": no event is deeper than the limit, one on
\* the limit changes nothing, and a child is one deeper than its parent, a rule of
\* which succeeded.
LoopProtection ==
    \A e \in Rows : Present(e) =>
        /\ event[e].depth =< MaxDepth
        /\ \A rule \in Rules : receipt[e][rule] = "success" => event[e].depth < MaxDepth
        /\ event[e].parent # NoEvent =>
              /\ event[e].depth = event[event[e].parent].depth + 1
              /\ \E rule \in Rules : receipt[event[e].parent][rule] = "success"

\* "Committed task changes cannot lose their automation intent": every version
\* of the task has its own one status event, those rules produce included.
EveryChangeHasItsEvent ==
    LET changes == {e \in Rows : Present(e) /\ event[e].trigger = "task_status_changed"}
    IN  /\ {event[e].version : e \in changes} = 1..task.version
        /\ Cardinality(changes) = task.version

\* "Conditions use the event-time snapshot": a rule succeeds only for an event
\* whose own snapshot met its conditions, however far the task has moved since.
ConditionsUseSnapshot ==
    \A e \in Rows, rule \in Rules :
        receipt[e][rule] = "success" => event[e].status \in rule.when

\* Nobody speaks for no one: a comment is of an event with an actor, and so is all
\* that follows from an event; what the daily job started never has one.
ActorsInherited ==
    /\ \A e \in Rows, rule \in Rules : <<e, rule>> \in comments => event[e].actor # NoActor
    /\ \A e \in Rows : Present(e) /\ event[e].parent # NoEvent =>
          event[e].actor = event[event[e].parent].actor

\* The state stays well formed; rules act once, on the snapshot, below the limit;
\* no rule is passed over and no change goes unnoticed.
AutomationsInv ==
    /\ AutomationsTypeOK /\ AppliedOnce /\ LoopProtection /\ ConditionsUseSnapshot
    /\ SentRanEveryRule /\ EveryChangeHasItsEvent /\ ActorsInherited

Held(w) == batch[w] \cup ({cur[w]} \ {NoCandidate})

Stranded(e) == /\ rows[e].status = "processing"
               /\ rows[e].attempts = rows[e].maxAttempts
               /\ \A w \in Workers : [id |-> e, token |-> rows[e].token] \notin Held(w)

\* Rules that trigger one another never keep the worker busy for ever: what the
\* root events set off ends by itself, with Rows to spare (so that it is the depth
\* limit that ends it and not the bound on the model's events), and from some time
\* on every event is sent, skipped or dead (or was stranded by a worker that
\* stopped on its last attempt), provided users stop changing the task.
CascadeQuiesces ==
    /\ [](\E e \in Rows : ~ Present(e))
    /\ <>[](\A e \in Rows : rows[e].status \in FinalStatus \cup {"absent"} \/ Stranded(e))
=============================================================================
