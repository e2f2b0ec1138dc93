# CalmBoard: TLA+ specifications, model checks and proofs

CalmBoard is a multi-tenant project management system: a NestJS API
(`apps/api`), a BullMQ worker (`apps/worker`), a Next.js front end (`apps/web`)
and shared packages, of which `packages/database` holds every repository over
one PostgreSQL schema. Nearly all of its coordination goes through the database:
tenant transactions, row locks, unique indexes, triggers, and tables of work
that worker processes lease from. That coordination is what this project
models. Paths below are relative to `src/`.

Contents: [1 inventory](#1-inventory), [2 plan](#2-plan),
[3 modules and code](#3-modules-and-the-code-they-model),
[4 runs and bounds](#4-runs-and-bounds), [5 fairness](#5-fairness),
[6 proofs](#6-proofs), [7 divergences](#7-where-code-and-documents-disagree),
[8 not modelled](#8-what-is-not-modelled).

## 1. Inventory

`PROJECT.json` lists every component with its sources and status, and under
`hazards` each place, at its line, where a test would hardly reach the failure.

| Component | State | Operations | What is hard | What makes it correct |
|---|---|---|---|---|
| Leased work tables (`notification_email_outbox`, `auth_email_outbox`, `automation_events`, `export_jobs`, `form_responses`, …) | status, attempts, max_attempts, available_at, claimed_at, claim_token | insert, claim batch with `SKIP LOCKED`, fenced finish, release with backoff, dead-letter retry | a worker slower than its lease; a crash between claim and result; the last attempt | rows well-formed, one owner per claim, final rows stay final |
| Notification email worker | outbox rows; the worker's batch; the provider's idempotency keys | claim, load recipient, skip, send, mark sent, release | lost provider answers, takeovers, members leaving meanwhile | one email per row, "sent" was delivered |
| Authentication and invitation email | outboxes of the same shape | the same statements, and token/invitation checks | the same | the same |
| Workspace exports | export_jobs; objects in the bucket; retention | request, claim, build, upload, complete and notify, fail, sweep | object store and database do not commit together; sweep against retry | a downloadable artifact is the one that was recorded |
| Form submissions and serial numbers | form_responses; task_serial_sequences; tasks; events | submit, claim, create the task, release; the API's own creations | commit with a lost answer, takeovers, deletion of the project | one task per response, dense serials |
| Automation engine | events with snapshots; receipts (`automation_runs`); rules; the task | task changes emit events; claim, run each rule, complete, release; daily events; rule edits | cascades, re-processing, rules edited meanwhile | effects once per event and rule, bounded cascades, no lost event |
| Billing | subscriptions, organization plan (trigger), invoices, idempotency keys | webhook deliveries, lifecycle events, updates, grace expiry | at-least-once delivery in any order and concurrently; an unlocked read | applied once, no plan without subscription, ended stays ended |
| Sprints | sprint status; `tasks.sprint_id`; `task_sprint_assignments`; snapshots and events | create, start, complete, cancel; assign, move, remove; status change and deletion of tasks | membership is stored twice and the timeline a third time; decisions on unlocked reads | the records agree; the timeline adds up |
| Dead-letter administration | the work tables | list, retry | a retry races a sweep or a late worker | reopens dead rows only |
| Tasks and board | status, order and version of tasks; WIP limits; parents | create, update, move between anchors or by position, delete, set a limit | renumbering from unlocked reads, anchors of a board that has changed, limits checked under a lock others do not take | a move is an insertion; it changes no other task |
| Task dependencies and subtasks | dependency edges, parents | replace dependencies (checks, search, trigger), re-parent, delete with one level of subtasks | every check reads committed rows without a lock | both graphs stay acyclic, nothing refers to a deleted task |
| Memberships | roles, invitations, seat limit | invite, resend, revoke, decline, accept, change a role, change of plan | last-owner check without a lock, seats counted in a trigger | an owner remains, seats are not oversold |
| Sessions | sessions, refresh tokens, row locks | login, rotate, revoke one, others or all, reset the password | opposite lock orders, reuse of tokens, expiry during a request | one good token per live session, none after its end |
| Attachments | rows, objects in the bucket, cleanup claims | upload, complete and scan, delete, clean up | the store and the database do not commit together; a claim fenced by a rounded timestamp | what is offered can be downloaded; orphans go |
| Data lifecycle | deletion requests; checkpoints per domain; purge items; rows, objects and grants | schedule, cancel, claim, purge a domain, verify, close, retry | claims are never renewed and checkpoints not fenced; objects and grants do not commit with the database; writes into a frozen tenant | a receipt is true; what can be canceled is intact; a deletion ends |
| The rest (reports, portability content, workflows, comments, documents, AI, realtime, licensing, search, authorization matrix, web) | | | CRUD in one transaction, formatting, or external services | not modelled, section 8 |

How the parts meet:

* the API writes work in the *same transaction* as the change that causes it
  (outbox pattern): a status change and its automation event, a notification and
  its outbox row, a form response that is itself the work item;
* the scheduler (`apps/worker/src/job-scheduler.ts`) runs every processor again
  and again; two processes may run the same processor at the same time, and meet
  only through claim tokens and row locks;
* automation rules change tasks, which writes further automation events;
* form submissions and the API draw serial numbers from one locked counter;
* billing webhooks and the grace-period worker write the same subscription row,
  from which a trigger derives the organization's plan;
* task updates and deletions append to the timeline of the task's sprint, and a
  trigger closes the dependencies of deleted tasks;
* a change of subscription moves the seat limit that the trigger on memberships
  counts against;
* deleting a task or a project makes its attachments orphans for the cleanup
  worker, which shares rows and objects with the API's own requests;
* an account can be deleted only when the organizations it owns are being deleted,
  and the purge meets the API's late requests and the worker's other jobs.

## 2. Plan

Modules are written in the order of how much of the system rests on them.

1. `LeaseQueue`, `WorkTable`: the statements all processors share, and the
   abstract table they implement. **Done, proved.**
2. `NotificationEmail`: the reference processor, refining `WorkTable`. **Done, proved.**
3. `WorkspaceExports`, `FormSubmissions`, `AutomationEvents`: processors whose
   work has effects elsewhere, composed with the table by extending it, each
   checked as a refinement of `WorkTable`. **Done, proved but for liveness.**
4. `BillingWebhooks`: deliveries, subscriptions, plan projection, grace periods.
   **Done, safety proved.**
5. `Sprints`: membership and timeline under concurrent requests. **Done, proved.**
6. `TaskGraph`: subtasks and dependencies under concurrent requests. **Done, proved.**
7. `SessionFamilies`, `AuthSessions`: refresh-token families, abstractly and down
   to row locks. **Done, safety and refinement proved.**
8. `Memberships`: roles, invitations and seats. **Done, proved.**
9. `TaskBoard`: order between anchors, renumbering, WIP limits. **Done, proved.**
10. `Attachments`: uploads, deletion and cleanup over the object store. **Done,
    safety proved.**
11. `DataLifecycle`: checkpointed deletion with takeover and cancellation. **Done,
    safety proved.**

Next would come the document versions (`documents.ts`), the AI usage reservation
(`ai-usage.ts`) and the checks of the authentication and invitation emails.

Abstract specifications: `WorkTable` for every leased table, implemented by four
processors; `SessionFamilies` for sessions, implemented by `AuthSessions` under a
refinement mapping. For the board, `MoveIsInsertion` plays that part: it states
each move as an insertion into the column as the user sees it.

Every invariant, action property and refinement that a run checks is proved as
well (section 6); what is left to TLC alone is liveness. With the next modules would
come their own theorems.

## 3. Modules and the code they model

`PROJECT.json` maps each definition to its lines. The general conventions:

* A transaction, or a statement outside one, is one step, unless it decides on
  something it read without a lock; then the read and the write are two steps.
  A transaction that commits may lose its answer: the caller sees an error for
  work that was done.
* A worker is a small program counter (`phase`) over its claimed `batch` and its
  current candidate `cur`. `Crash` forgets them and leaves the database alone.
* Definitions marked "Mutant" are plausible mistakes in the definition that
  follows; each checked property is violated when its mutant replaces that
  definition (`PROJECT.json`, `mutants`). Nothing else uses them.

**LeaseQueue** is one row and the SQL applied to it. Time is two booleans, the
only comparisons with `now()`: `due` (`available_at <= now()`) and `stale`
(`claimed_at` before the claim timeout). A claim increments `attempts`, which
nothing decreases, so the attempt number stands for the claim's random UUID.

**WorkTable** is the abstract table: batches are inserted and claimed, a
processing row is finished or given back, time passes, an administrator revives
a dead row. It also states what the `BEFORE UPDATE` triggers accept.

**NotificationEmail** (`apps/worker/src/notification-email.ts`): one action per
statement of `deliverNotificationEmails`; `reachable` is the member and
preference check, which may change at any time; the provider
(external) accepts or refuses, and its answer may be lost. An `Idempotency-Key`
it has seen sends nothing. The provider is assumed to remember keys as long as
the row may be retried.

**WorkspaceExports** (`workspace-exports.ts`, `export-jobs.ts`): claim, build,
upload, complete and notify in one transaction, release; then the retention sweep: an
unlocked select, delete, existence check and marker per artifact. The object
key is the same for every attempt and the bytes differ, so a token names bytes
and checksum. The store (external) may fail or lose answers, and so may the
statements of the sweep.

**FormSubmissions** (`form-submissions.ts`, `task-serials.ts`, `forms.ts`):
`createTaskForResponse` holds the response and the serial counter locked, so it
is one step with three outcomes: committed, committed with a lost answer, rolled
back. The API creates tasks from the same counter, and the project may be deleted
(which keeps the worker, but not the API's repository, from creating tasks in it).

**AutomationEvents** (`automation-events.ts`, `automations.ts`, parts of
`tasks.ts`): an event carries its trigger, the status snapshot, the task version,
its actor, its depth and its parent. `ExecuteRule` is one transaction holding event, rule
and task: gate (`on conflict` on the receipt), conditions on the snapshot,
effects, child events (with the same actor), receipt. A failed rule rolls back its `running` receipt
with everything else. A rule that comments needs an actor who is an active member
(`MayAct`, `automation-events.ts:397`), and members leave (`MemberLeaves`); the daily
job writes events without one (`:666`), so such a rule always throws there. `todo` holds the places of the selected rules in `RuleOrder`
(`created_at, id`) that are still to be run; the loop takes the least. One task is
modelled; effects are a status change and a comment, the two kinds that raise
further events. A rule with neither stands for one that only notifies.

**BillingWebhooks** (`billing.service.ts`, `billing.controller.ts`, `billing.ts`,
`idempotency.ts`, `billing-grace-periods.ts`, migration 0049): a delivery is one
tenant transaction around its idempotency key. `applyLifecycleEvent` locks the
current row; `updateSubscription` does not, so it is `ReadSubscription` and
`WriteSubscription`. `Write` includes the trigger that projects the plan. The unique
index is on provider and provider's id together: the internal row that an organization
starts with gets a Stripe id by a lifecycle event and stays internal, so that a
Stripe row with the same id may be inserted beside it. Keys
are kept for 30 days (`billing.controller.ts:29`); the model assumes that no
delivery is repeated after that.

**Sprints** (`sprints.ts`, `sprint-analytics.ts`, and `softDelete` and the status
changes of `tasks.ts`): `tasks[t].sprint` is `sprint_id`, `assignment[t]` the one
open assignment, `timeline[s]` the sums that the start snapshot and the
events of an active sprint give (task counts; story points follow the same
events and are left out). Start, cancel, remove and status change lock
what they decide on and are single steps. Assign, move, complete and delete are
two steps, with what they read kept in `op`, and so is the board's move to a position
(`BeginRenumber`, `Renumber`): it writes every card of the columns back with the status
it was read with, and an event for the moved task only. Foreign keys matter: inserting an
assignment or an event takes a key-share lock on its sprint, and therefore waits
for a transaction that holds the sprint `FOR UPDATE`.

**TaskGraph** (`tasks.ts`, `task-dependencies.ts`, migration 0008): a request is one
READ COMMITTED transaction of four steps (input checks, versioned write and
search for cycles, insert through the trigger, commit), and its changes become
visible with the last. `overtaken` is a history variable: which of the things a
request has looked at (parents, the search, the trigger's rows) another one
changed before it committed. The chain of parents is read in one step (the code
loads ancestor after ancestor), type and lag of a dependency are left out, and
so are updates that name neither a parent nor dependencies. `Reachable` is
defined by closed sets instead of recursion, which keeps the module provable.

**SessionFamilies** says what rotation promises: a live session has one good
token, a rotation trades it for its successor, sessions end once. **AuthSessions**
(`auth-sessions.ts`, `auth-tokens.ts`, migration 0011) is the detailed one: a
refresh locks its token and then the session; a revocation or password reset goes
through the sessions in any order, locking each and, by the trigger, its tokens. Locks are
read off the program counters, writes show at commit, and PostgreSQL (external)
breaks a cycle of waiting requests by rolling one back. One user is
modelled; the reset's own token is folded into `BeginReset`, and what a login
checks before it creates the session is left out.

**Memberships** (`memberships.ts`, migration 0050): `updateRole` and `invite` are two
steps, the unlocked checks and the write; `acceptInvitation` is three, because it
keeps the usage row locked from its count to its commit. The seat trigger runs on
every write of a membership, also on a change of role. One organization with one
workspace is modelled; roles below admin are one, mail and token versions are left out, and the manager check
of resend and revoke is one step with the write.

**TaskBoard** (`tasks.ts`, `project-workflow.ts`, the web client's drag handler): a
client asks with anchors, the neighbours of the drop among the cards it showed
(`AskBetween`: on the project's board all of the column, on a sprint's board some of it),
or, as older clients do, with a place only (`AskPlace`); the server locks and decides
(`BeginMove`), writes and commits (`CommitMove`). A column is the set of its cards, and
sorting it is a relation (`Precedes`): by order, and among equal orders by id where the
board is shown and anchors are looked up, by creation where the server renumbers. The index of a
card is the number of those before it (`Position`). Orders are integers on a grid of `Unit`
steps per whole number, so that means run out of room as doubles do, only
sooner. A request waiting with an old version is dropped when its task changes,
which is what the version check does to it. `stale` and `late`, history variables, hold the clients whose anchors, or whose
columns as the server read them, have changed since. Re-parenting onto or
off the board is left out.

**Attachments** (`attachment.service.ts`, `attachments.ts`, `attachment-cleanup.ts`):
a request is one transaction, but its effects on the object store happen at once
and stay when it is rolled back. The cleanup's claim is named by its attempt;
`exact` says whether the claim's time is a whole number of milliseconds, since the
worker's copy of the fence is rounded to them and otherwise matches no row.
`aborted` and `late` record requests that lost an object or came after a claim.
Previews are left out, and a deleted task or project is not restored.

**DataLifecycle** (`repositories/data-lifecycle.ts`, `worker/src/data-lifecycle.ts`,
`organization-purge.ts`, migration 0062): one account and the organization it owns.
A domain of the account is one transaction, a domain of the organization a loop of
single statements (`Scan`, `Pick`, `Operate`, `Settle`, `Record`, `Drop`, `Finish`), between
which a slow worker can be overtaken (`Overtake`), crash, or lose an answer. Only the
item's last update and the closing transactions are fenced; the account is counted and
closed in two steps (`AccountCount`, `AccountClose`). `blank` are the rows that are dropped
without a look: an export listed before it got its `object_key` (`Upload` stores the object,
`Name` records the key), a subscription of the internal provider, and every grant of a
domain whose policy is `PURGE` instead of `EXTERNAL_REVOCATION`. Grants also end
otherwise, before the deletion or during it (`EndElsewhere`), and their rows stay.
The history variables: `late`, rows written into a frozen subject; `stray`,
objects stored after they had been seen absent; `passed`, rows dropped while blank;
`ended`, grants that ended otherwise; `missed`, rows of the account written after the
count; `spared`, an organization whose deletion was canceled while its owner's was on its
way; `seen`, the kinds of accidents so far. The attachment's original and its preview are
one object, the two attachment domains one domain. Providers that always refuse
(`OAUTH_ACCESS_TOKEN_UNAVAILABLE`, Microsoft) are left out, as is the retention policy,
which stops a purge before it does anything.

## 4. Runs and bounds

| Run | Distinct states | What it shows |
|---|---|---|
| `notification_email` | 119,769 | one owner per claim, one email per row, `WorkTable` is implemented |
| `workspace_exports` | 197,089 | a completion notifies once; a first-attempt export keeps its bytes; an export nobody retried keeps an artifact until it expires; `WorkTable` is implemented |
| `form_submissions` | 88,416 | one task and one event exactly for completed responses, dense serials, `WorkTable` is implemented; every response settles unless a worker stopped on its last attempt |
| `automations` | 383,348 | a rule that undoes changes, edited meanwhile, rules that comment on changes and on comments, daily rules with and without a comment, a user who may leave, two workers: effects once and on behalf of the event's actor, snapshots used, every change has its event, every rule ran before "sent", `WorkTable` is implemented; the cascade ends at the depth limit, with events to spare, and the worker comes to rest |
| `billing_webhooks` | 25,958 | applied once, no plan without a subscription, ended stays ended, grace periods end, and only an overtaken unlocked read or an internal row can revert |
| `sprints` | 744,759 | both membership records agree for live tasks; only assignments, deletions and late renumberings let a timeline drift |
| `task_graph` | 584,313 | cycles, dangling dependencies, orphans and trees too deep come only of the named overlaps; a cycle blocks further dependencies |
| `auth_sessions` | 176,459 | `SessionFamilies` is implemented, answers are true, every request ends |
| `memberships` | 658,496 | seats are not oversold, accepted invitations made members; owners are lost or made by others only through overtaken checks |
| `task_board` | 1,774,955 | a move is an insertion; exceeded limits and reverted statuses only from overtaken moves, ties only from these and with cards the client did not show |
| `attachments` | 333,026 | clean attachments have their object but in the named cases; only orphans are purged, by the last claim; every orphan is purged or runs out of attempts |
| `data_lifecycle` | 560,628 | a purged organization has left nothing behind but objects stored afterwards and what its blank rows stood for, an anonymized account nothing but rows written after the count, an active subject has lost nothing; no organization outlives its owner unless its deletion alone was canceled; what strands a deletion is an accident, a late row or a grant that had ended already; every other deletion ends |

The properties named `Only...` deserve a word. Much of this code checks without a
lock and writes later, so the plain promise ("dependencies are acyclic") is
false. Each of these properties states the promise together with the one way in
which it fails, recorded by a history variable; a mutant shows that the property
fails when the check itself is wrong, and section 7 lists the exceptions as
divergences. The invariants `ExportsInv`, `SubmissionsInv`, `AutomationsInv`,
`BillingInv`, `MembershipsInv`, `AttachmentsInv` and `LifecycleInv` are the conjunction of the
type invariant and the named invariants of their module, with a mutant
for more than one conjunct where they differ.

Bounds, and why they suffice for the cases of interest:

* *Two workers, two rows.* The races are between the worker that lost a claim
  and the one that took it over; a second row makes batches and their
  interleaving visible. Exports use batches of one, so that a sweep
  and an export of two processes overlap without multiplying equal batches.
* *MaxAttempts = 2, ExtraAttempts = 1, AttemptCap = 3* (code: 5 extra attempts,
  no cap): a first attempt, a takeover, death, one revival and a last attempt.
  The cap bounds administrators' retries and is the only reason rows stop changing.
  Automations use 1, 2 and 3: death, a revival, a takeover and a last attempt.
* *Automations:* three event slots, one root event (`RootEvents`: a user's change or the
  daily event) and depth limit 1 (code: 5): an event and its child, which is skipped at
  the limit. A transaction that finds no free slot is not taken; `CascadeQuiesces`
  states that one is always left, so that what ends the cascade is the limit and not
  the bound: the rules answer every change and every comment, and with a child whose
  depth is not counted the slots run out. A fresh id is chosen arbitrarily but once, since
  ids carry no meaning. One user, who may leave between an event and its rules.
* *Billing:* six events of two subscriptions, chosen so that a failure, a recovery with
  the timestamp of an update, a deletion and a second purchase occur; two
  concurrent deliveries, each event retried until it commits. A lifecycle event that
  comes first finds the internal row.
* *Sprints:* two concurrent requests, two sprints, and two cards of the board or a task and its subtask;
  `MaxDrift = 1`: no request begins while the timeline of the active sprint is off by more,
  which stops a leaking timeline from counting for ever; nothing in the model
  depends on the timeline otherwise.
* *Task graph:* three tasks and two requests: two can close a cycle, and the third
  is the bystander whose dependency is blocked afterwards, or the grandchild that
  a deletion forgets. `MaxDepth = 1` (code: 5) makes "too deep" a chain of three,
  `MaxDeps = 1` and `Combine = FALSE` keep requests to one parent or one dependency.
* *Sessions:* two sessions, two requests and three tokens per family: a token, its
  successor and the successor's reuse; one of the sessions may expire.
* *Memberships:* the founder and two more users, two invitations, limits of two
  and three seats, so that the last seat is contended and a downgrade leaves too
  many members.
* *Board:* three cards, two columns, a limit of one, two steps between whole orders
  (one halving, then no room) and five requests in all. A tie with a hidden card is
  reached when the client shows no card of the column; a hidden card
  between two shown ones takes a fourth card, and is left to the theorem.
* *Attachments:* one attachment (attachments share nothing), two requests of which one may
  delete, two attempts: an original claim and its takeover.
* *Data lifecycle:* an export, a subscription and a plain row of the organization, one row
  of the account, two workers, two accidents in all and three attempts (code: 8), so
  that accidents alone do not use up the attempts. The export and the subscription are
  both blank or both not (the theorems let any set of rows be blank). The plain row is
  the one that is written late.

Symmetry is declared over workers, rows, deliveries, clients, tasks, users and sprints where a
run checks no liveness property. Deadlock is checked where members may always
change or jobs always run; the other runs may stop because their finitely many
rows, events, sprints or tasks are all used up.

## 5. Fairness

The fair specification of a processor (forms, automations) assumes exactly three things, each weakly fair:

* time passes (`TimePasses`: leases and backoffs end);
* some worker runs the claim query again and again: the scheduler registers each
  processor as a repeatable job (`job-scheduler.ts`);
* a job that has started goes on to its next statement, unless it crashes.

For the attachments' cleanup: time passes, requests end, jobs that have started go
on (all weakly fair), and the claim is strongly fair: requests that lock the row
again and again make `SKIP LOCKED` pass it over, but the scheduler comes back
every few minutes for as long as the row exists and a request holds it for
milliseconds. For sessions each request's next step is strongly
fair: PostgreSQL queues the waiters of a row lock in order, so that a request
is not passed over for ever, and its deadlock detection, part of the same step,
always runs.

For the data lifecycle, some worker claims what is due and what a stopped worker left
(the job is repeatable, and leases end), and a worker that has not crashed goes on;
overtaking a slow worker, canceling and the operator's retry are never forced.

For billing: grace periods elapse, and the expiry job, repeatable as well, runs.
Nothing forces a producer, a user, an administrator, the provider, a success or
a crash: a fair behaviour may crash for ever, and failing outcomes are
alternatives of the same actions as the successful ones. That rows settle all
the same comes from the bounded attempts.

## 6. Proofs

All obligations of the eight proof modules are discharged by TLAPS (SMT, Zenon,
LS4 for the temporal steps), for every value of the constants that satisfies the
named assumptions. Two components share a proof module where they meet: the
members and the subscription of an organization, the graphs and the origin of tasks,
the sprints and the attachments of a project, the board and the rules that its moves
set off, the sessions of an account and the mail sent to it. To be
named side by side, the specifications of one of each are `BillingSpec`, `FormsSpec`,
`AttachmentsSpec`, `AutomationsSpec` and `SessionsSpec`; every theorem is about one
specification.

**WorkTableProofs** (assumes `TableConstants`). `TableInv` is inductive: rows
have their type, attempts stay within the limit, and a row carries a token
exactly while it is processing, namely its latest attempt's. The proof shows
that every step of the table moves each row by one of a list of row moves
(`RowMoves`, `TableStepMoves`), and reasons about one row from there
(`RowSteps`). `TableTrigger`: no statement is rejected by the table's trigger,
so final rows stay final but for a retry.

**WorkspaceExportsProofs** (adds `ExportConstants`). `ExportsInvariant`,
`ExportsFirstAttempt`, and, by `RowMoves` of the table again, the refinement
`ExportsImplementTable` and `ExportsTrigger`. The promise is about a completed row
and its object, which workers reach with claims and selections that may be long out of date.
`Inv == TypeOK /\ TableInv /\ HistoryInv /\ HandInv /\ UploadInv /\ ResultInv`:

* `HistoryInv`: what a row tells about its past. A dead row has used its attempts
  up, a retried one has used up its first allowance; so a row on its first attempt
  never was dead.
* `HandInv`: whatever a worker holds, however late, carries a token that was handed out,
  or an artifact whose row has expired, is still dead, or was retried.
* `UploadInv`: an owner about to complete has its artifact in the bucket.
* `ResultInv`: completed means notified once, with the checksum of the last attempt
  and, while it can be downloaded, the object there.

**OrganizationProofs** (assumes `FounderAssumption`, `LimitsAssumption`,
`NoOpAssumption` for the members, `BillingConstants` for the subscription).

*Members.* `MembershipsInvariant`, `MembershipsSeats`, `MembershipsOwners` and
`MembershipsEscalation`, from
`Inv == MembershipsInv /\ InvitedInv /\ RoleInv /\ SeatInv`. `RoleInv` says that a change
of role which nothing overtook would still pass its checks, so that its write leaves an
owner. `SeatInv` says that one acceptance at a time is between count and commit,
and that its seat stays within the limit until then: both the other
writers of memberships and the subscription wait for the usage row. Members are
shown to be finitely many, since seats are cardinalities.

*Subscription.* `BillingInvariant`, `BillingEnded` and `BillingReverts`, from
`SubscriptionInv == BillingTypeOK /\ EventAppliedOnce /\ HandlingInv /\ ReadInv /\ CurrentInv`:
an event in progress is handled by one delivery and not yet completed, hence applied
once; a row that an update has read without a lock stays in the table, though it may
end; at most one row is current, and the plan is its own or free. `RowWrites` says
what a write does to the current row, in each of the three ways in which rows are written.
For `BillingReverts` the index excludes a second Stripe row of the subscription, and the
staleness check everything else but the two named exceptions.

**ProjectProofs** (assumes `SprintConstants`, `AttachmentConstants`, `NoJobAssumption`).

*Sprints.* `SprintsTypeOK`, and `MembershipAgrees`: `LiveMembershipAgrees` is
inductive given the types, because each transaction changes both records of a task
to the same sprint or ends the task's life, and `RemoveTaskFromSprint` relies on the
agreement it preserves. `TimelineFollowsMembers`: every step but the leaking
assignments, deletions and renumberings changes the timeline of the active sprint by as much as
the counts of its members. It needs `LockInv`: an assignment or move finds its task as
it read it because it holds the row, no two hold the same, a sprint being completed stays active, and only
one sprint is active. The counts are cardinalities of sets in which
one task changes, or, for completion, that are emptied with the sprint.

*Attachments.* `AttachmentsInvariant` (an attachment offered for download has its
object but in the named cases) and `AttachmentsPurges`, from
`StorageInv == AttachmentsInv /\ ClaimsInv /\ VerdictsInv`. `ClaimsInv`: the cleanup has
claimed nothing that is offered unless the verdict came late, and every job is at a claim
counted in its row; so no late job reaches an object on offer. `VerdictsInv`: a scan
deletes only what it found unfit.

**TaskProofs** (assumes `GraphConstants`, in which the tasks are finitely many;
`TableConstants` and `FormConstants` for the forms).

*Graphs.* `GraphTypes`; `DependenciesAcyclicUnlessOvertaken` and
`ParentsAcyclicUnlessOvertaken`; `DeletionsComplete`, `CyclesFreezeDependencies` and
`DepthLimited`; for any number of tasks and clients. The inductive
invariant is `Inv == TypeOK /\ Reliance /\ Findings /\ LocksDisjoint`.
`Reliance` and `Findings`: as long as a request was not overtaken, what it found when
it looked is still true of the committed graph (no new edge's head leads to its
tail; the task is not among its new parent's ancestors; the tasks it links to are
live; a deletion takes along every subtask and dependency there is; the search finds
no cycle). `LocksDisjoint` keeps two requests from
writing the same task. A cycle after a commit must use one of the new edges, and
following it around contradicts what was found; since `Reachable` is defined by
closed sets, the argument shows a closed set that leaves the tail out and needs no
induction. `DetectComplete` says that `detectDependencyCycle` misses no cycle: of the tasks
of a cycle take one that leads to the fewest others (the only use of finiteness), and the next one leads to fewer.

*Forms.* `FormsInvariant` (one task and one event exactly for completed responses,
dense serials) and the refinement `FormsImplementTable`, from
`FormsInv == FormsTypeOK /\ TableInv /\ ResponseAtHand /\ ResponseTasks /\ SerialsDense`. A commit
needs the row in the owner's hands, hence not completed, hence without a task; it
draws the number after the last, which by density no task has.

**DataLifecycleProofs** (assumes `LifecycleConstants`, `IdleAssumption`).
`LifecycleInvariant` (a receipt is true but for what is `stray`, `passed` or `missed`, an active
subject intact, no organization outlives its owner unless it was spared) and `LifecycleCauses`
(`StrandedHasItsCause`), for any number of workers, resources, domains, attempts and
accidents, and any choice of blank rows. Beyond `LifecycleInv` the inductive invariant says:

* `RequestInv`, `PlaceInv`, `ItemInv`: where a worker can be; in particular whoever works on a
  subject has locked it for good, which keeps active subjects intact.
* `OutsideInv`: an object or grant that is still outside has a row or an open item by which the purge
  finds it, or is stray, or was passed over. `CountInv`: after a count, the rows of the account are those
  that were missed. Together they give `DeletedMeansGone`, although the
  closing transaction counts rows and items and never looks outside.
* `SoloInv`, `ShadowInv`, `RevokedInv`: as long as no worker was overtaken, claims and rows
  agree and each worker finds what it relies on (`Undisturbed`); rows behind a verified checkpoint
  came late; without any accident a grant that is gone ended otherwise or is recorded as
  revoked. These exclude every cause of a stranded deletion but the named ones.

**AccountProofs** (assumes the constants of `AuthSessions`, and `TableConstants` and
`EmailConstants` for the mail).

*Sessions.* `LockInvariant` says that locks exclude one another and that what a request has read under a
lock still holds, together with the facts on families: one good token while live, none
after. From it follow `AnswersAreTrue` and `SessionsImplementFamilies`, the
refinement under the mapping of `Families`: every step of the row-lock level is
`Open`, `Rotate` or `End` of `SessionFamilies`, or a stutter.

*Mail.* The properties are not inductive; the strengthening is
`Inv == TypeOK /\ TableInv /\ ClaimsInv /\ MailInv`:

* `ClaimsInv`: workers remember only tokens that were handed out, and no two
  remember the same claim. This makes `SingleOwner` inductive: a takeover draws
  a token above all remembered ones, because attempts only grow (`AttemptsGrow`).
* `MailInv`: the provider sent one email per accepted key, and whoever records
  "sent" used an accepted key.

From `Inv` follow `EmailTypeOK`, `EmailSingleOwner`, `EmailAtMostOnce`,
`EmailSentDelivered` and `EmailOnlyOwnerFinishes`; `StepImplementsTable` shows
that each step is a step of the table or a stutter, hence the refinement
`EmailImplementsTable`, through which `EmailTrigger` inherits the table's theorem.

**BoardProofs** (assumes `AutomationConstants`, `NoEventAssumption` and
`TableConstants` for the rules; `BoardConstants`, in which the tasks are finitely many,
and `NoOpAssumption` for the board).

*Automations.* `AutomationsInvariant` (all of `AutomationsInv`), the refinement
`AutomationsImplementTable` and, through it, `AutomationsTrigger`, for any rules,
workers, events and depth limit, from
`EngineInv == AutomationsInv /\ TableInv /\ RecordsInv /\ WorkInv /\ Rules \ EditedRules \subseteq enabled`:

* `RecordsInv`: an event exists exactly when its row does, has receipts and children only
  from then on, and a comment stands for a rule that succeeded. So a fresh event has nothing to be
  repeated, and a rule whose gate is open has not commented.
* `WorkInv`: a worker is at events that were written, runs rules only below the limit
  and, while no rule has failed, has each rule of the event either still in `todo` or
  with a receipt (`NoRuleForgotten`). This gives `SentRanEveryRule`, although a takeover
  starts the list over and rules are switched on and off meanwhile.

`EventfulStep` treats all steps that write events alike: each change of the task draws the next
version and one event for it (`ChangesCounted`), a child is one deeper than its parent. The
rows may be infinitely many; that the changes are finitely many is part of the invariant.

*Board.* `BoardTypes`, `MovesAreInsertions`, `MovesDoNotTie`, `MovesKeepLimits` and
`OthersKeepTheirStatus`, for any number of tasks, columns and clients and any `Unit`. `Positions`
is the lemma the rest leans on: the positions of the cards of a sorted column are
0, 1, ... up to their number, each taken once, and `k` of them are below `k`. It is proved by
counting (an injection into an interval of the same size), without induction. `BoardInv` says of every move in progress:

* the task is still where it was when the client asked;
* `AnchorsOK`: unless they are stale, the anchors are the cards on both sides of the place of
  the drop among those the client showed, and from `BeginMove` on the new order lies strictly between theirs;
* `PlanOK` and `ReadOK`: a move writes its own task to the target column, with anchors
  nothing else, and unless it is late it would decide the same again (`SameDecision`);
* at most one move is between its read and its commit, since the project is locked.

A commit then finds the columns it decided on. With anchors the other cards keep their orders, and the
new order is above exactly those before the drop (`BetweenNeighbours`); without, the new
orders grow with the positions and leave the gap at the index (`GapOpened`, `GapClosed`),
and in a column without equal orders the server's sorting is the one on the screen (`UntiedOrder`).

Only model-checked: liveness (`EventuallySettledOrStranded`, `CascadeQuiesces`,
`GraceIsBounded`, `RequestsEnd`, `CleanupEnds`, `DeletionEnds`), because fairness and
`ENABLED` are beyond this prover.

## 7. Where code and documents disagree

The models reach the following states. Where a property of a run is named, it
states the promise with exactly this exception.

* **Stranded last attempt** (`notification-email.ts:75`). The claim query takes a
  stale row only while `attempts < max_attempts`, and only `releaseFailed`
  writes `dead`. A worker that stops during the last attempt leaves the row
  `processing` for ever, and the dead-letter list does not show it. ADR 0003:18:
  "exhausted items move to `dead`". `Stranded` names these rows in
  `EventuallySettledOrStranded` and `CascadeQuiesces`.
* **Artifact of another attempt** (`workspace-exports.ts:449`). Every attempt
  uploads to the same key before its fenced completion, so a worker slower than
  its lease replaces the bytes of the completed attempt, whose checksum is
  recorded (`docs/m4-1-organization-export-0063-schema-review.md:33`).
  `FirstAttemptIntact` is what remains.
* **Late billing event** (`billing.ts:115`). The staleness check uses a row read
  without a lock and the update is by id; a concurrent newer event is overwritten,
  against `docs/remediation-plan.md:1362`. And a lifecycle event leaves an internal row
  internal (`billing.ts:231`): once it has ended that row, an older update finds neither a
  current row nor a conflict in the index and starts a new subscription. See
  `OnlyOvertakenOrInternalRevert`.
* **Paid invoice fails again** (`billing.service.ts:279`). The invoice is written
  even when the lifecycle event was found stale (same passage of the plan).
* **Deleted task stays assigned** (`tasks.ts:2079`). `softDelete` closes the
  assignment of the sprint it read before its transaction, and of no subtask
  (`docs/m1-p0-release-safety-gate.md:60`); `verifySprintMembershipConsistency`
  then blocks the sprint's start and completion. See `OnlyNamedRequestsLeak`.
* **Dependency and parent cycles** (migration 0008:102, `tasks.ts:806`). Two
  requests that overlap between check and commit close a cycle. See
  `OnlyOverlapsCloseCycle`, `OnlyOverlapsCloseParents`; once closed, the search over the
  workspace refuses every other new dependency (`CycleFreezesDependencies`).
* **Orphaned grandchildren** (`tasks.ts:2075`). `softDelete` deletes direct
  subtasks only (`OnlyOverlapsDangle`), and moving a subtree can exceed the depth
  limit (`OnlySubtreesExceedDepth`).
* **No owner left** (`memberships.ts:363`, "must keep at least one active owner"):
  two owners who demote each other (`OnlyOverlapsLoseOwners`).
* **Downgrade blocks role changes** (migration 0050:134). The seat trigger counts on
  every update, so that with more members than seats not even a role can be
  changed; `docs/remediation-plan.md:1380` speaks of refusing additions.
* **WIP limits** (`tasks.ts:1492`, `:1598`). ADR 0009:34 has them "enforced even
  outside the web UI"; create and update do not look at them, and may come between a
  move's count and its commit (`OnlyLateMovesExceedWip`).
* **Renumbering puts an old status back** (`tasks.ts:1628`), without an automation
  event, when a task of the column was updated after the column had been read
  (`OnlyLateRenumberingRevertsStatus`), and without a sprint event, so that the timeline of
  its sprint drifts (`OnlyNamedRequestsLeak`).
* **Equal orders** (`tasks.ts:1489`). Once there they are never rebalanced: "requires
  maintenance" is all the user gets. Overtaken moves make them, and so does a single user
  on a sprint's board: the anchors are neighbours among the cards shown, the server does
  not look whether others lie between, and the mean may be the order of a hidden one
  (`OnlyOvertakenOrHiddenTie`).
* **Daily rules that comment** (`automation-events.ts:397`). A daily event has no actor, so
  the rule throws, the event is retried and dies; the other rules of the event have run
  by then, but it is never recorded as sent.
* **Attachments** (`attachment.service.ts:149`, `:181`). A verdict recorded after the
  cleanup's claim, or a deletion rolled back after the object went, leave a clean
  attachment without its object (`CleanHasObject`). The rounded fence
  (`attachment-cleanup.ts:155`) usually matches no row: the row stays until the
  attempts run out (`CleanupEnds`).

* **Deletions that no retry completes** (`StrandedHasItsCause`, `DeletionEnds`).
  `docs/m4-data-lifecycle-saas-operations.md:348`: "only the controlled purge path can
  mutate a frozen tenant", but the trigger of migration 0062 lets every role with
  `BYPASSRLS` pass, and a transaction that wrote before the freeze may commit after it;
  a row that comes after its domain was verified (`organization-purge.ts:394`) is found
  only by the final verification, again and again. Line 377 asks for "an idempotent action", but
  revoking at Slack or Stripe what is revoked already is an error
  (`organization-purge.ts:201`); this needs no accident, since rows of subscriptions that
  ended before the deletion are revoked like the others (`:643`). And a worker that was overtaken drops the row of an
  item it could not verify (`:315`). An overtaken worker can also use up its successor's
  attempts: of two that run the final verification, the second finds the checkpoint
  verified instead of processing, and throws.
* **Receipts that say too much** (`DeletedMeansGone`, a conjunct of `LifecycleInv`). An export
  whose `object_key` is not yet recorded is dropped although its object may be stored
  (`organization-purge.ts:505`); a subscription under the internal provider is not revoked,
  also if it has a Stripe id (`:650`); and a row of the account written between
  the last count and the anonymization stays (`worker/src/data-lifecycle.ts:234`).
* **An organization without an owner** (`repositories/data-lifecycle.ts:89`). "schedule
  deletion for every Organization you solely own before deleting the account" is checked
  once; canceling the organization's deletion afterwards leaves it with an anonymized
  owner (`OwnerLeavesLast`, a conjunct of `LifecycleInv`).

Further: the sweep deletes the artifact of an export that was retried after it was
selected (`workspace-exports.ts:519`), and a late upload re-creates an object
already marked as cleaned (`:521`); a late `updateSubscription` writes a row that
has ended and drops the plan to free while the next subscription is current
(`billing.ts:170`); unfinished tasks may move into a sprint that was cancelled
meanwhile (`sprints.ts:213`), and a task into a sprint that ended after it was read;
`assignTaskToSprint` out of an active sprint emits no `task_removed`
(`sprints.ts:398`), which `OnlyNamedRequestsLeak` names as one of its exceptions.

One promise rests on how the API is called. That a reused refresh token revokes its
session although the answer is an error (`AuthSessions`) needs the revocation to be
committed before the error is thrown. The route is public, and no client of the
repository sends tenant fields with it; a request that named an organization or an actor
would be wrapped into one transaction (`tenant-database.interceptor.ts:45`), and the error would
roll the revocation back.

## 8. What is not modelled

* *Open:* the modules section 2 names as next, and the checks of the authentication and
  invitation emails that go beyond the shared statements.
* *Content and formatting:* archives, reports, emails, rendering, advanced
  filters, search. Nothing about them is a protocol.
* *Single-transaction CRUD:* comments, goals, workflows, time logs, custom
  fields, saved views. The models cover the coordination, which is a small part
  of the repository's lines; most of the rest is user interface, query
  construction, validation and formatting, about which a state machine
  says nothing.
* *External services:* PostgreSQL's row-level security, BullMQ and Redis,
  Socket.IO, the identity, AI, email and payment providers and the object store
  appear only as the answers that the code has to cope with.
* *Within the modelled parts:* story points and the daily series of the
  burndown, deletion of projects with sprints, the HTTP replay of idempotent responses,
  checkout and portal sessions, the automation actions that raise no event,
  previews of attachments, account lockout, MFA and OAuth identities, assignees and
  labels of tasks, and whatever section 3 names as left out.
* *Web application:* user interface.
