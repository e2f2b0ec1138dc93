-------------------------- MODULE BillingWebhooks --------------------------
(***************************************************************************)
(* Stripe webhooks and the subscription of one organization                 *)
(* (apps/api/src/billing.service.ts, packages/database billing and           *)
(* idempotency repositories, apps/worker/src/billing-grace-periods.ts).      *)
(* The provider delivers every event at least once, in any order, and may    *)
(* deliver several at the same time.  One delivery is one transaction: it    *)
(* inserts the event id as an idempotency key, which blocks until a          *)
(* concurrent delivery of the same event has ended, and applies the event.   *)
(* Only updateSubscription reads the subscription without locking it, so its *)
(* read and its write are two steps.                                         *)
(***************************************************************************)
EXTENDS Naturals, FiniteSets

CONSTANTS Deliveries,  \* requests that may be in progress at the same time
          Events,      \* the provider's events, see EventType
          Rows,        \* subscription rows, one of which every organization starts with
          FirstRow, SubscriptionIds, NoSubscription, Plans, NoEvent, NoRow

Kinds == {"updated", "payment_failed", "payment_succeeded", "deleted"}
Statuses == {"active", "grace_period", "canceled"}

\* created has a resolution of one second, so two events may share it.  An
\* updated event carries the status and the plan the provider saw.
EventType == [id : Nat, kind : Kinds, created : Nat, sub : SubscriptionIds,
              status : Statuses, plan : Plans]

ASSUME BillingConstants ==
    /\ Events \subseteq EventType
    /\ FirstRow \in Rows /\ NoRow \notin Rows
    /\ NoSubscription \notin SubscriptionIds
    /\ NoEvent \notin Events
    /\ "free" \in Plans

VARIABLES
    subscriptions, \* the rows; "absent" until inserted
    orgPlan,       \* organizations.plan and usage_limits, kept by the trigger
    invoice,       \* status of the invoice of each provider subscription
    completedKeys, \* idempotency keys stored as completed
    handling,      \* the event a delivery is in the middle of
    read,          \* the current row as updateSubscription read it
    applications   \* times an event was really applied

billingVars == <<subscriptions, orgPlan, invoice, completedKeys, handling, read, applications>>

RowType == [row : Rows, status : Statuses \cup {"absent"}, ended : BOOLEAN, created : Nat,
            provider : {"internal", "stripe"}, sub : SubscriptionIds \cup {NoSubscription},
            plan : Plans, graceOver : BOOLEAN]

Absent(r) == [row |-> r, status |-> "absent", ended |-> FALSE, created |-> 0,
              provider |-> "internal", sub |-> NoSubscription,
              plan |-> "free", graceOver |-> FALSE]

\* Every variable has its type.
BillingTypeOK ==
    /\ subscriptions \in [Rows -> RowType]
    /\ orgPlan \in Plans
    /\ invoice \in [SubscriptionIds -> {"none", "failed", "paid"}]
    /\ completedKeys \subseteq Events
    /\ handling \in [Deliveries -> Events \cup {NoEvent}]
    /\ read \in [Deliveries -> RowType \cup {NoRow}]
    /\ applications \in [Events -> Nat]

\* create_default_organization_subscription: an internal free subscription.
BillingInit ==
    /\ subscriptions = [r \in Rows |-> IF r = FirstRow
                                       THEN [Absent(r) EXCEPT !.status = "active"]
                                       ELSE Absent(r)]
    /\ orgPlan = "free"
    /\ invoice = [s \in SubscriptionIds |-> "none"]
    /\ completedKeys = {}
    /\ handling = [d \in Deliveries |-> NoEvent]
    /\ read = [d \in Deliveries |-> NoRow]
    /\ applications = [e \in Events |-> 0]

-----------------------------------------------------------------------------
Present(r) == subscriptions[r].status # "absent"
Current == {r \in Rows : Present(r) /\ ~ subscriptions[r].ended}

\* Mutant: the trigger of migration 0012, which did not look at ended_at.
WriteKeepingPlan(new) ==
    /\ subscriptions' = [subscriptions EXCEPT ![new.row] = new]
    /\ orgPlan' = new.plan

\* sync_current_subscription_projection, after every write of a row.
Write(new) ==
    /\ subscriptions' = [subscriptions EXCEPT ![new.row] = new]
    /\ orgPlan' = IF new.ended THEN "free" ELSE new.plan

\* Mutant: the index covers the subscriptions that have not ended.
UniqueProviderIdOfCurrent(new) ==
    \A r \in Current \ {new.row} :
        ~ (subscriptions[r].provider = new.provider /\ subscriptions[r].sub = new.sub)

\* The unique index on (provider, provider_subscription_id), ended rows included.
UniqueProviderId(new) ==
    \A r \in Rows \ {new.row} :
        ~ (subscriptions[r].provider = new.provider /\ subscriptions[r].sub = new.sub)

Release(d) == handling' = [handling EXCEPT ![d] = NoEvent]

\* Mutant: the key is not consulted.
KeyFreeAlways(e) == TRUE

\* execute: the key of an event is free if no delivery has completed it.
KeyFree(e) == e \notin completedKeys

\* The transaction commits: the event is applied and its key completed.
Commit(d) ==
    LET e == handling[d]
    IN  /\ completedKeys' = completedKeys \cup {e}
        /\ applications' = [applications EXCEPT ![e] = @ + 1]
        /\ Release(d)
        /\ read' = [read EXCEPT ![d] = NoRow]

\* A delivery starts; the insert of the key waits for a concurrent delivery of
\* the same event.  A completed key replays the stored answer and does nothing.
Deliver(d, e) ==
    /\ handling[d] = NoEvent
    /\ \A o \in Deliveries : handling[o] # e
    /\ KeyFree(e)
    /\ handling' = [handling EXCEPT ![d] = e]
    /\ UNCHANGED <<subscriptions, orgPlan, invoice, completedKeys, read, applications>>

\* An error or a crash rolls the transaction back; the provider will retry.
Abort(d) ==
    /\ handling[d] # NoEvent
    /\ Release(d)
    /\ read' = [read EXCEPT ![d] = NoRow]
    /\ UNCHANGED <<subscriptions, orgPlan, invoice, completedKeys, applications>>

-----------------------------------------------------------------------------
\* A canceled status arrives as an updated event but is a lifecycle event.
IsUpdate(e) == e.kind = "updated" /\ e.status # "canceled"

\* Mutant: the provider's own status is stored.
LifecycleStatusOfProvider(e) ==
    CASE e.kind = "payment_failed" -> "past_due"
      [] e.kind = "payment_succeeded" -> "active"
      [] OTHER -> "canceled"

LifecycleStatus(e) ==
    CASE e.kind = "payment_failed" -> "grace_period"
      [] e.kind = "payment_succeeded" -> "active"
      [] OTHER -> "canceled"

\* Mutant: a lifecycle event does not look at the time of the event before it.
NotOlderAlways(e, row) == TRUE

\* current.providerEventCreatedAt > input.providerEventCreatedAt is a stale event.
NotOlder(e, row) == row.created =< e.created

\* The provider is not among the values: an internal row stays internal although
\* it takes the provider's subscription id.
LifecycleRow(e, row) ==
    [row EXCEPT !.status = LifecycleStatus(e), !.created = e.created, !.sub = e.sub,
                !.ended = LifecycleStatus(e) = "canceled", !.graceOver = FALSE]

\* createInvoice: the same invoice, whatever its status was, for payment events.
InvoiceOf(e) ==
    CASE e.kind = "payment_failed" -> [invoice EXCEPT ![e.sub] = "failed"]
      [] e.kind = "payment_succeeded" -> [invoice EXCEPT ![e.sub] = "paid"]
      [] OTHER -> invoice

\* applyLifecycleEvent reads the current row FOR UPDATE; another provider
\* subscription is an error, an older event or no current row changes nothing.
ApplyLifecycleEvent(d) ==
    LET e == handling[d]
    IN  /\ e # NoEvent /\ ~ IsUpdate(e)
        /\ \A r \in Current : subscriptions[r].sub \in {e.sub, NoSubscription}
        /\ IF \E r \in Current : NotOlder(e, subscriptions[r])
           THEN \E r \in Current : /\ UniqueProviderId(LifecycleRow(e, subscriptions[r]))
                                   /\ Write(LifecycleRow(e, subscriptions[r]))
           ELSE UNCHANGED <<subscriptions, orgPlan>>
        /\ invoice' = InvoiceOf(e)
        /\ Commit(d)

\* updateSubscription, first step: the current row, or an absent one to insert,
\* is read without a lock.
ReadSubscription(d) ==
    /\ handling[d] # NoEvent /\ IsUpdate(handling[d]) /\ read[d] = NoRow
    /\ \/ \E r \in Current : read' = [read EXCEPT ![d] = subscriptions[r]]
       \/ /\ Current = {}
          /\ \E r \in Rows : ~ Present(r) /\ read' = [read EXCEPT ![d] = Absent(r)]
    /\ UNCHANGED <<subscriptions, orgPlan, invoice, completedKeys, handling, applications>>

UpdatedRow(e, row) ==
    [row EXCEPT !.status = e.status, !.created = e.created, !.provider = "stripe",
                !.sub = e.sub, !.plan = e.plan, !.graceOver = FALSE]

\* Mutant: the write clears ended_at, and the row is current again.
UpdateTargetReopening(old) == [old EXCEPT !.ended = FALSE]

\* The UPDATE by id finds the row as it is now; ended_at is not among its values.
UpdateTarget(old) == old

\* Second step: an event older than the row read changes nothing; else the row
\* is written, inserted when there was none (the unique indexes permitting).
WriteSubscription(d) ==
    LET e == handling[d]
        r == read[d].row
        new == UpdatedRow(e, UpdateTarget(subscriptions[r]))
    IN  /\ read[d] # NoRow
        /\ IF NotOlder(e, read[d])
           THEN /\ UniqueProviderId(new)
                /\ read[d].status = "absent" => Current = {} /\ ~ Present(r)
                /\ Write(new)
           ELSE UNCHANGED <<subscriptions, orgPlan>>
        /\ UNCHANGED invoice
        /\ Commit(d)

-----------------------------------------------------------------------------
GraceElapses(r) ==
    /\ r \in Current /\ subscriptions[r].status = "grace_period"
    /\ ~ subscriptions[r].graceOver
    /\ subscriptions' = [subscriptions EXCEPT ![r].graceOver = TRUE]
    /\ UNCHANGED <<orgPlan, invoice, completedKeys, handling, read, applications>>

\* Mutant: the worker looks for the status the provider uses.
ExpirablePastDue(row) == row.status = "past_due" /\ ~ row.ended /\ row.graceOver

Expirable(row) == row.status = "grace_period" /\ ~ row.ended /\ row.graceOver

\* expireBillingGracePeriods.
ExpireGracePeriods(r) ==
    /\ Present(r) /\ Expirable(subscriptions[r])
    /\ Write([subscriptions[r] EXCEPT !.status = "canceled", !.ended = TRUE])
    /\ UNCHANGED <<invoice, completedKeys, handling, read, applications>>

BillingNext ==
    \/ \E d \in Deliveries :
          \/ \E e \in Events : Deliver(d, e)
          \/ ApplyLifecycleEvent(d) \/ ReadSubscription(d) \/ WriteSubscription(d)
          \/ Abort(d)
    \/ \E r \in Rows : GraceElapses(r) \/ ExpireGracePeriods(r)

BillingSpec == BillingInit /\ [][BillingNext]_billingVars

\* The scheduler runs the expiry job and time passes; nothing forces a delivery.
Fairness == \A r \in Rows : WF_billingVars(GraceElapses(r)) /\ WF_billingVars(ExpireGracePeriods(r))

FairSpec == BillingSpec /\ Fairness

-----------------------------------------------------------------------------
\* However often the provider delivers an event, concurrently or after a lost
\* answer, its effects (subscription, invoice, activity) happen once, and exactly
\* when its key is stored as completed.
EventAppliedOnce ==
    \A e \in Events : applications[e] = IF e \in completedKeys THEN 1 ELSE 0

\* The organization never has a plan it does not subscribe to: what it may use
\* is the plan of the current subscription or the free plan, and the free plan
\* when there is no current subscription.  (A late write to an ended row sets the
\* free plan even when another subscription is current by then.)
NoPlanWithoutSubscription ==
    /\ Cardinality(Current) =< 1
    /\ orgPlan \in {"free"} \cup {subscriptions[r].plan : r \in Current}

\* The state stays well formed, events are applied once and plans are paid for.
BillingInv == BillingTypeOK /\ EventAppliedOnce /\ NoPlanWithoutSubscription

\* A subscription that ended, by cancellation or by the end of its grace period,
\* is never current again, whichever late or concurrent event still writes to it.
EndedStaysEnded ==
    [][\A r \in Rows : subscriptions[r].ended => subscriptions'[r].ended]_billingVars

\* An event replaces what a newer one left, in the row it writes or in any row of
\* its own subscription, in two ways only: by an unlocked read of updateSubscription
\* that the newer event overtook; or because the newer event ended a row that was
\* still internal, which neither the search for a current row nor the unique index
\* on the provider's id finds again, so that the older one starts a new row.
OnlyOvertakenOrInternalRevert ==
    [][\A d \in Deliveries, q \in Rows :
          /\ handling[d] # NoEvent /\ handling'[d] = NoEvent
          /\ subscriptions' # subscriptions
          /\ handling[d].created < subscriptions[q].created
          /\ subscriptions[q].sub = handling[d].sub \/ subscriptions'[q] # subscriptions[q]
          => \/ /\ read[d] # NoRow /\ read[d].row = q
                /\ read[d].created < subscriptions[q].created
             \/ /\ subscriptions[q].ended /\ subscriptions[q].provider = "internal"
                /\ subscriptions'[q] = subscriptions[q]]_billingVars

InGracePeriod(r) == r \in Current /\ subscriptions[r].status = "grace_period"

\* A current subscription leaves its grace period: by a payment, an update or a
\* cancellation of the provider, or the worker ends it once the period is over.
GraceIsBounded == \A r \in Rows : InGracePeriod(r) ~> ~ InGracePeriod(r)
=============================================================================
