---------------------------- MODULE DataLifecycle ----------------------------
(***************************************************************************)
(* Deletion of an account and of the organization it owns: the requests    *)
(* (repositories/data-lifecycle.ts) and the worker that carries them out   *)
(* (worker/src/data-lifecycle.ts and organization-purge.ts).               *)
(*                                                                         *)
(* A due request is claimed under a token; the account can no longer log   *)
(* in, the organization is frozen.  Then one domain after the other is     *)
(* purged and its checkpoint verified.  A domain of an account is one      *)
(* transaction.  A domain of an organization is many statements:           *)
(*   Scan      lists the rows of the domain (plain tables: deletes them)   *)
(*   Pick      inserts and claims the purge item of a row                  *)
(*   Operate   deletes the object, or revokes the grant at the provider    *)
(*   Settle    checks that the object is absent                            *)
(*   Record    verifies the item                                           *)
(*   Drop      deletes the row                                             *)
(*   Finish    verifies the checkpoint                                     *)
(* Neither checkpoints nor rows are fenced by the token of the request,    *)
(* and its heartbeat is never renewed, so that a slow worker is overtaken  *)
(* and goes on.  A row that was listed without its key, or that the policy *)
(* or an internal provider keeps from revocation, is dropped unlooked at.  *)
(*                                                                         *)
(* Time is left open: a request may be due, and a claim may have expired,  *)
(* at any moment.  A token is the worker that holds it: a worker has one   *)
(* request at a time.  States that differ only in what operators read are  *)
(* one: retry_wait and failed of items; of checkpoints all but verified,    *)
(* except that the final verification looks for its own as processing.     *)
(***************************************************************************)
EXTENDS Naturals, Sequences, FiniteSets

CONSTANTS
    Worker,
    Resource,        \* rows, numbered in the order of their ids
    Domains,         \* of each subject, in the order they are purged
    DomainOf,        \* of each resource
    ObjectDomains,   \* rows that own an object in the store
    ProviderDomains, \* rows that stand for a grant of a provider
    Tolerant,        \* grants whose revocation may be repeated
    Initial,         \* the rows there are when deletion begins
    Blanks,          \* the sets of them that may be blank then
    MaxAttempts,     \* maxAttempts
    Mishaps,         \* bound: crashes, errors, overtakings, late writes, in all
    Idle, NoWorker

Subject == {"account", "organization"}
Final == "final_verification"
Listed(s) == {Domains[s][i] : i \in DOMAIN Domains[s]}
Checkpoints == Listed("account") \cup Listed("organization") \cup {Final}
Of(s) == {r \in Resource : DomainOf[r] \in Listed(s)}
In(d) == {r \in Resource : DomainOf[r] = d}
Objects == {r \in Resource : DomainOf[r] \in ObjectDomains}
Grants == {r \in Resource : DomainOf[r] \in ProviderDomains}

ASSUME LifecycleConstants ==
    /\ Resource \subseteq Nat /\ Initial \subseteq Resource
    /\ \A b \in Blanks : b \subseteq Initial \cap (Objects \cup Grants)
    /\ MaxAttempts \in Nat \ {0} /\ Mishaps \in Nat
    /\ \A s \in Subject : Domains[s] \in Seq(Listed(s))
    /\ Resource = Of("account") \cup Of("organization")
    /\ Listed("account") \cap (Listed("organization") \cup ObjectDomains \cup ProviderDomains) = {}
    /\ ObjectDomains \cap ProviderDomains = {}
    /\ Final \notin Listed("account") \cup Listed("organization")
    /\ NoWorker \notin Worker

VARIABLES
    user, org,  \* lifecycle_state of the account and of the organization
    req,        \* the deletion request of each, none if there was none or it was
                \* canceled: status, claim, attempts
    cp,         \* checkpoints by domain
    rows,       \* the rows that exist
    outside,    \* the objects and grants that exist
    blank,      \* rows without object_key, subscriptions of the internal provider,
                \* grants of a domain whose policy is PURGE
    item,       \* purge items by row
    work,       \* what each worker is doing
    left, seen, \* mishaps that may still happen; the kinds that have
    late,       \* history: rows written to a frozen subject
    stray,      \* history: objects stored after they had been purged
    passed,     \* history: rows that were dropped without a look at what they own
    ended,      \* history: grants that ended otherwise than by the purge
    missed,     \* history: rows of the account written after a worker counted none
    spared      \* history: the organization's deletion was canceled while the
                \* account's was on its way

vars == <<user, org, req, cp, rows, outside, blank, item, work, left, seen,
          late, stray, passed, ended, missed, spared>>
lifecycle == <<user, org, req, spared>>
history == <<late, stray, passed, ended, missed>>
data == <<cp, rows, outside, blank, item, history>>
bounds == <<left, seen>>

Unresolved == {"scheduled", "processing", "retry_wait", "failed"}
NoItem == [status |-> "none", claim |-> NoWorker]

Init ==
    /\ user = "active" /\ org = "active"
    /\ req = [s \in Subject |-> [status |-> "none", claim |-> NoWorker, attempts |-> 0]]
    /\ cp = [d \in Checkpoints |-> "open"]
    /\ rows = Initial
    /\ blank \in Blanks
    /\ outside = (Initial \cap (Objects \cup Grants)) \ (blank \cap Objects)
    /\ item = [r \in Resource |-> NoItem]
    /\ work = [w \in Worker |-> Idle]
    /\ left = Mishaps /\ seen = {}
    /\ late = {} /\ stray = {} /\ passed = {} /\ ended = {} /\ missed = {}
    /\ spared = FALSE

Mishap(kind) == left > 0 /\ left' = left - 1 /\ seen' = seen \cup {kind}

-----------------------------------------------------------------------------
(* Requests.                                                               *)

LoggedIn == user \in {"active", "deletion_pending"}
Request(s, status) ==
    req' = [req EXCEPT ![s] = [status |-> status, claim |-> NoWorker, attempts |-> 0]]

\* schedule of the organization's repository, by its owner.
ScheduleOrganization ==
    /\ org = "active" /\ LoggedIn
    /\ Request("organization", "scheduled")
    /\ org' = "deletion_pending"
    /\ UNCHANGED <<user, spared, data, work, bounds>>

CancelOrganization ==
    /\ req["organization"].status = "scheduled" /\ LoggedIn
    /\ Request("organization", "none")
    /\ org' = "active"
    /\ spared' = (spared \/ req["account"].status \in Unresolved)
    /\ UNCHANGED <<user, data, work, bounds>>

\* Mutant: the organizations of the account are not looked at.
OwnerMayLeaveAlways == TRUE

\* The organization of the account is being deleted as well, or is gone.
OwnerMayLeave == org = "purged" \/ req["organization"].status \in Unresolved

\* schedule of the account's repository.
ScheduleAccount ==
    /\ user = "active" /\ OwnerMayLeave
    /\ Request("account", "scheduled")
    /\ user' = "deletion_pending"
    /\ spared' = FALSE
    /\ UNCHANGED <<org, data, work, bounds>>

\* Mutant: a deletion that waits for its retry may be canceled.
AccountCancelableLate == req["account"].status \in {"scheduled", "retry_wait"}

AccountCancelable == req["account"].status = "scheduled"

CancelAccount ==
    /\ AccountCancelable
    /\ Request("account", "none")
    /\ user' = "active"
    /\ UNCHANGED <<org, spared, data, work, bounds>>

\* retryFailedDataLifecycleRequest: the operator's retry, which keeps the
\* checkpoints that are verified and the number of attempts.
RetryFailed(s) ==
    /\ req[s].status = "failed"
    /\ req' = [req EXCEPT ![s].status = "retry_wait"]
    /\ UNCHANGED <<user, org, spared, data, work, bounds>>

-----------------------------------------------------------------------------
(* The others.                                                             *)

Frozen(s) == IF s = "account" THEN user = "auth_disabled" ELSE org = "write_frozen"
Gone(s) == IF s = "account" THEN user = "anonymized" ELSE org = "purged"

\* A worker has counted the rows of the account, or the account is gone.
Counted ==
    \/ Gone("account")
    \/ \E w \in Worker : work[w] # Idle /\ work[w].subject = "account" /\ work[w].step = "close"

\* A row is written late: by a request of the API, which checked the freeze
\* before it came, or by a job of the worker, which the freeze does not stop; for
\* an account, by others who mention it, even when it is gone.
Write(s, r) ==
    /\ Frozen(s) \/ (s = "account" /\ Gone(s))
    /\ r \in Of(s) \ (rows \cup passed) /\ item[r] = NoItem
    /\ rows' = rows \cup {r}
    /\ outside' = outside \cup ({r} \cap Grants)
    /\ \E b \in SUBSET ({r} \cap (Objects \cup Grants)) : blank' = blank \cup b
    /\ late' = late \cup {r}
    /\ missed' = IF s = "account" /\ Counted THEN missed \cup {r} ELSE missed
    /\ Mishap("late_write")
    /\ UNCHANGED <<lifecycle, cp, item, work, stray, passed, ended>>

\* A worker has seen the object absent, and is about to say so.
SeenAbsent(r) == \E w \in Worker : work[w] # Idle /\ work[w].step = "record" /\ work[w].row = r

\* The object of a row is stored, with the URL its owner was given or by the job
\* that exports, which holds its row since before.
Upload(r) ==
    /\ r \in Objects \ outside
    /\ r \in rows \cup passed \/ item[r] # NoItem \/ Gone("organization")
    /\ outside' = outside \cup {r}
    /\ stray' = IF r \notin rows \/ item[r].status = "verified" \/ SeenAbsent(r)
                THEN stray \cup {r} ELSE stray
    /\ Mishap("upload")
    /\ UNCHANGED <<lifecycle, cp, rows, blank, item, work, late, passed, ended, missed>>

\* markCompleted of an export: its object is stored, now the row tells its key.
Name(r) ==
    /\ r \in blank \cap Objects \cap rows \cap outside
    /\ blank' = blank \ {r}
    /\ UNCHANGED <<lifecycle, cp, rows, outside, item, work, history, bounds>>

\* A grant ends before the purge comes to it, and its row remains: its owner
\* revoked it, or the subscription was canceled.
EndElsewhere(r) ==
    /\ r \in outside \cap Grants
    /\ outside' = outside \ {r}
    /\ ended' = ended \cup {r}
    /\ Mishap("ended")
    /\ UNCHANGED <<lifecycle, cp, rows, blank, item, work, late, stray, passed, missed>>

-----------------------------------------------------------------------------
(* The worker.                                                             *)

Start(s) == [subject |-> s, step |-> "domain", at |-> 1, todo |-> {}, blind |-> {},
             row |-> 0]
Busy(w, s) == work[w] # Idle /\ work[w].subject = s
Holder(s) == {w \in Worker : Busy(w, s) /\ req[s].claim = w}

\* Mutant: a claim never expires.
ClaimableNever(s) == req[s].status \in {"scheduled", "retry_wait"}

Claimable(s) == req[s].status \in {"scheduled", "retry_wait", "processing"}

\* claimAccountDeletion and claimOrganizationDeletion, which also lock the
\* subject out.  A claim of a worker that is only slow expires like any other.
Claim(w, s) ==
    /\ work[w] = Idle /\ Claimable(s)
    /\ req' = [req EXCEPT ![s] =
          [status |-> "processing", claim |-> w,
           attempts |-> IF @.attempts < MaxAttempts THEN @.attempts + 1 ELSE MaxAttempts]]
    /\ user' = IF s = "account" THEN "auth_disabled" ELSE user
    /\ org' = IF s = "organization" THEN "write_frozen" ELSE org
    /\ work' = [work EXCEPT ![w] = Start(s)]
    /\ UNCHANGED <<data, spared>>

ClaimDue(w, s) == Holder(s) = {} /\ Claim(w, s) /\ UNCHANGED bounds
Overtake(w, s) == Holder(s) # {} /\ Claim(w, s) /\ Mishap("overlap")

Throw(w) == work' = [work EXCEPT ![w] = [Start(@.subject) EXCEPT !.step = "throw"]]
Goto(w, step) == work' = [work EXCEPT ![w].step = step]
At(w, s, step) == Busy(w, s) /\ work[w].step = step /\ ~Gone(s)
Domain(w) == Domains[work[w].subject][work[w].at]
Last(w) == work[w].at > Len(Domains[work[w].subject])
NextDomain(w) == work' = [work EXCEPT ![w].step = "domain", ![w].at = @ + 1]

\* markCheckpointProcessing, the purge of the domain and verifyCheckpoint, in
\* one transaction; a verified domain is skipped.
AccountDomain(w) ==
    /\ At(w, "account", "domain") /\ ~Last(w)
    /\ IF cp[Domain(w)] = "verified" THEN UNCHANGED <<cp, rows>>
       ELSE /\ cp' = [cp EXCEPT ![Domain(w)] = "verified"]
            /\ rows' = rows \ In(Domain(w))
    /\ NextDomain(w)
    /\ UNCHANGED <<lifecycle, outside, blank, item, history, bounds>>

\* Mutant: the rows of the account are not counted.
NoneRemainsUncounted == TRUE

\* remainingAccountPersonalRows.
NoneRemains == rows \cap Of("account") = {}

\* The last transaction counts what remains,
AccountCount(w) ==
    /\ At(w, "account", "domain") /\ Last(w)
    /\ IF NoneRemains THEN Goto(w, "close") ELSE Throw(w)
    /\ UNCHANGED <<lifecycle, data, bounds>>

\* and then, if the claim is still ours, anonymizes the account: nothing keeps
\* rows from being written in between.
AccountClose(w) ==
    /\ At(w, "account", "close")
    /\ IF req["account"].claim = w /\ \A d \in Listed("account") : cp[d] = "verified"
       THEN /\ user' = "anonymized"
            /\ req' = [req EXCEPT !["account"].status = "completed",
                                  !["account"].claim = NoWorker]
            /\ work' = [work EXCEPT ![w] = Idle]
       ELSE Throw(w) /\ UNCHANGED <<user, req>>
    /\ UNCHANGED <<org, spared, data, bounds>>

\* runDomain: begin the checkpoint unless it is verified.
BeginDomain(w) ==
    /\ At(w, "organization", "domain") /\ ~Last(w)
    /\ IF cp[Domain(w)] = "verified" THEN NextDomain(w) ELSE Goto(w, "scan")
    /\ UNCHANGED <<lifecycle, data, bounds>>

\* The rows of the domain: deleted at once by deleteKeysetTable, else listed.
Scan(w) ==
    LET found == rows \cap In(Domain(w))
        plain == Domain(w) \notin ObjectDomains \cup ProviderDomains
    IN  /\ At(w, "organization", "scan")
        /\ rows' = IF plain THEN rows \ found ELSE rows
        /\ work' = IF plain \/ found = {} THEN [work EXCEPT ![w].step = "finish"]
                   ELSE [work EXCEPT ![w].step = "pick", ![w].todo = found,
                                     ![w].blind = blank \cap found]
        /\ UNCHANGED <<lifecycle, cp, outside, blank, item, history, bounds>>

\* Mutant: only an item that was never tried is claimed.
SkippedUnlessPending(r) == item[r].status # "none"

\* processItem claims every item that is not verified.
Skipped(r) == item[r].status = "verified"

\* insertItem and the claim in processItem; a row listed blank has no item.
Pick(w) ==
    LET r == CHOOSE r \in work[w].todo : \A q \in work[w].todo : r =< q
        skip == r \in work[w].blind \/ Skipped(r)
    IN  /\ At(w, "organization", "pick")
        /\ work' = [work EXCEPT ![w].step = IF skip THEN "drop" ELSE "operate", ![w].row = r]
        /\ item' = IF skip THEN item
                   ELSE [item EXCEPT ![r] = [status |-> "processing", claim |-> w]]
        /\ UNCHANGED <<lifecycle, cp, rows, outside, blank, history, bounds>>

\* deleteReference, deleteObject; revokeIntegration, revokeBilling: of the
\* providers, some refuse to revoke what is revoked.
Operate(w) ==
    LET r == work[w].row IN
    /\ At(w, "organization", "operate")
    /\ outside' = outside \ {r}
    /\ Goto(w, IF r \in Grants \ (outside \cup Tolerant) THEN "catch" ELSE "settle")
    /\ UNCHANGED <<lifecycle, cp, rows, blank, item, history, bounds>>

\* The call fails, or only its answer is lost.
OperateFails(w) ==
    /\ At(w, "organization", "operate")
    /\ \/ UNCHANGED outside
       \/ outside' = outside \ {work[w].row}
    /\ Goto(w, "catch") /\ Mishap("lost_answer")
    /\ UNCHANGED <<lifecycle, cp, rows, blank, item, history>>

\* Mutant: the answer of the store is trusted.
AbsentTrusted(r) == TRUE

\* verify: an object must be absent; a revocation was acknowledged.
Absent(r) == r \notin outside \/ r \in Grants

Settle(w) ==
    /\ At(w, "organization", "settle")
    /\ Goto(w, IF Absent(work[w].row) THEN "record" ELSE "catch")
    /\ UNCHANGED <<lifecycle, data, bounds>>

\* The last update of processItem, fenced by the token of the item; nobody
\* looks whether it found the row.
Verified(w, r) ==
    IF item[r].claim = w THEN [item EXCEPT ![r] = [status |-> "verified", claim |-> NoWorker]]
    ELSE item

Record(w) ==
    /\ At(w, "organization", "record")
    /\ item' = Verified(w, work[w].row)
    /\ Goto(w, "drop")
    /\ UNCHANGED <<lifecycle, cp, rows, outside, blank, history, bounds>>

Drop(w) ==
    LET r == work[w].row
        todo == work[w].todo \ {r}
    IN  /\ At(w, "organization", "drop")
        /\ rows' = rows \ {r}
        /\ passed' = IF r \in work[w].blind THEN passed \cup {r} ELSE passed
        /\ work' = [work EXCEPT ![w].todo = todo, ![w].row = 0, ![w].blind = @ \ {r},
                                ![w].step = IF todo = {} THEN "scan" ELSE "pick"]
        /\ UNCHANGED <<lifecycle, cp, outside, blank, item, late, stray, ended, missed, bounds>>

\* finishCheckpoint, whoever has begun it.
Finish(w) ==
    /\ At(w, "organization", "finish")
    /\ cp' = [cp EXCEPT ![Domain(w)] = "verified"]
    /\ NextDomain(w)
    /\ UNCHANGED <<lifecycle, rows, outside, blank, item, history, bounds>>

\* The error leaves processItem (its item, if still ours, waits) and runDomain
\* (failCheckpoint, which leaves a verified one alone).
Catch(w) ==
    LET r == work[w].row IN
    /\ At(w, "organization", "catch")
    /\ item' = IF item[r].claim # w THEN item
               ELSE [item EXCEPT ![r] = [status |-> "waiting", claim |-> NoWorker]]
    /\ Throw(w)
    /\ UNCHANGED <<lifecycle, cp, rows, outside, blank, history, bounds>>

\* Mutant: items that are not verified do not matter.
NothingLeftButItems ==
    /\ rows \cap Of("organization") = {}
    /\ \A d \in Listed("organization") : cp[d] = "verified"

\* finalOrganizationVerification, but for its own checkpoint.
NothingLeft ==
    /\ rows \cap Of("organization") = {}
    /\ \A d \in Listed("organization") : cp[d] = "verified"
    /\ \A r \in Resource : item[r].status \in {"none", "verified"}

BeginFinal(w) ==
    /\ At(w, "organization", "domain") /\ Last(w)
    /\ IF cp[Final] = "verified" THEN Goto(w, "close") /\ UNCHANGED cp
       ELSE Goto(w, "verify") /\ cp' = [cp EXCEPT ![Final] = "processing"]
    /\ UNCHANGED <<lifecycle, rows, outside, blank, item, history, bounds>>

VerifyFinal(w) ==
    /\ At(w, "organization", "verify")
    /\ IF NothingLeft /\ cp[Final] = "processing"
       THEN Goto(w, "close") /\ cp' = [cp EXCEPT ![Final] = "verified"]
       ELSE Throw(w) /\ cp' = [cp EXCEPT ![Final] = IF @ = "verified" THEN @ ELSE "open"]
    /\ UNCHANGED <<lifecycle, rows, outside, blank, item, history, bounds>>

\* The closing transaction: the organization, and with it its request, its
\* checkpoints and its items, are deleted; the receipt stays.
Close(w) ==
    /\ At(w, "organization", "close")
    /\ IF req["organization"].claim = w /\ org = "write_frozen"
          /\ NothingLeft /\ cp[Final] = "verified"
       THEN /\ org' = "purged"
            /\ req' = [req EXCEPT !["organization"].status = "completed",
                                  !["organization"].claim = NoWorker]
            /\ cp' = [d \in Checkpoints |-> IF d \in Listed("account") THEN cp[d] ELSE "open"]
            /\ item' = [r \in Resource |-> NoItem]
            /\ work' = [work EXCEPT ![w] = Idle]
       ELSE Throw(w) /\ UNCHANGED <<org, req, cp, item>>
    /\ UNCHANGED <<user, spared, rows, outside, blank, history, bounds>>

\* failOrRetryAccount and failOrRetryOrganization, fenced by the token; a worker
\* whose subject is gone ends here too.
FailOrRetry(w) ==
    /\ work[w] # Idle
    /\ work[w].step = "throw" \/ Gone(work[w].subject)
    /\ LET s == work[w].subject IN
        req' = IF req[s].claim # w THEN req
               ELSE [req EXCEPT ![s].claim = NoWorker, ![s].status =
                        IF req[s].attempts >= MaxAttempts THEN "failed" ELSE "retry_wait"]
    /\ work' = [work EXCEPT ![w] = Idle]
    /\ UNCHANGED <<user, org, spared, data, bounds>>

Crash(w) ==
    /\ work[w] # Idle
    /\ work' = [work EXCEPT ![w] = Idle]
    /\ Mishap("crash")
    /\ UNCHANGED <<lifecycle, data>>

Step(w) ==
    \/ AccountDomain(w) \/ AccountCount(w) \/ AccountClose(w)
    \/ BeginDomain(w) \/ Scan(w) \/ Pick(w) \/ Operate(w) \/ Settle(w) \/ Record(w) \/ Drop(w)
    \/ Finish(w) \/ Catch(w) \/ BeginFinal(w) \/ VerifyFinal(w) \/ Close(w)
    \/ FailOrRetry(w)

Next ==
    \/ ScheduleOrganization \/ CancelOrganization \/ ScheduleAccount \/ CancelAccount
    \/ \E s \in Subject : RetryFailed(s) \/ \E r \in Resource : Write(s, r)
    \/ \E r \in Resource : Upload(r) \/ Name(r) \/ EndElsewhere(r)
    \/ \E w \in Worker :
        \/ \E s \in Subject : ClaimDue(w, s) \/ Overtake(w, s)
        \/ Step(w) \/ OperateFails(w) \/ Crash(w)

\* The job is scheduled again and again, time passes, and a worker that has not
\* crashed goes on.
Fairness ==
    /\ \A s \in Subject : WF_vars(\E w \in Worker : ClaimDue(w, s))
    /\ \A w \in Worker : WF_vars(Step(w))

Spec == Init /\ [][Next]_vars /\ Fairness
-----------------------------------------------------------------------------
(* Properties.                                                             *)

Steps == {"domain", "scan", "pick", "operate", "settle", "record", "drop", "finish",
          "catch", "verify", "close", "throw"}

Job == [subject : Subject, step : Steps, at : Nat \ {0}, todo : SUBSET Resource,
        blind : SUBSET Resource, row : Nat]

ASSUME IdleAssumption == Idle \notin Job

\* Every variable has its type.
TypeOK ==
    /\ user \in {"active", "deletion_pending", "auth_disabled", "anonymized"}
    /\ org \in {"active", "deletion_pending", "write_frozen", "purged"}
    /\ req \in [Subject -> [status : Unresolved \cup {"none", "completed"},
                            claim : Worker \cup {NoWorker}, attempts : 0..MaxAttempts]]
    /\ cp \in [Checkpoints -> {"open", "processing", "verified"}]
    /\ rows \subseteq Resource /\ outside \subseteq Objects \cup Grants
    /\ item \in [Resource -> [status : {"none", "processing", "waiting", "verified"},
                              claim : Worker \cup {NoWorker}]]
    /\ work \in [Worker -> Job \cup {Idle}]
    /\ left \in 0..Mishaps
    /\ seen \subseteq {"late_write", "upload", "overlap", "lost_answer", "crash", "ended"}
    /\ late \subseteq Resource /\ stray \subseteq Objects /\ spared \in BOOLEAN
    /\ blank \subseteq Objects \cup Grants /\ passed \subseteq Objects \cup Grants
    /\ ended \subseteq Grants
    /\ missed \subseteq Of("account")

\* The status of a request and the lifecycle_state of its subject are written in
\* the same transactions and always tell the same.
StatesAgree ==
    LET locked == {"processing", "retry_wait", "failed"} IN
    /\ (user = "deletion_pending") = (req["account"].status = "scheduled")
    /\ (user = "auth_disabled") = (req["account"].status \in locked)
    /\ (user = "anonymized") = (req["account"].status = "completed")
    /\ (org = "deletion_pending") = (req["organization"].status = "scheduled")
    /\ (org = "write_frozen") = (req["organization"].status \in locked)
    /\ (org = "purged") = (req["organization"].status = "completed")

\* What is not locked has lost nothing: a deletion that can still be canceled, or
\* has been, purged no row, no object and no grant, whatever workers are on their
\* way.
ActiveIsIntact ==
    \A s \in Subject : ~Frozen(s) /\ ~Gone(s) =>
        /\ Initial \cap Of(s) \subseteq rows
        /\ Initial \cap Of(s) \cap (Objects \cup Grants) 
              \subseteq outside \cup ended \cup (blank \cap Objects)
        /\ passed \cap Of(s) = {}
        /\ \A d \in Listed(s) : cp[d] = "open"
        /\ \A r \in Of(s) : item[r] = NoItem

\* How far a receipt is true.  When the organization is purged, none of its rows
\* remains, and of what they stood for only this: objects stored after the purge
\* had seen them absent or had dropped their row, and what a row stood for that
\* was listed blank and dropped without a look.  When the account is anonymized,
\* only rows remain that were written after they had been counted.
DeletedMeansGone ==
    \A s \in Subject : Gone(s) =>
        /\ rows \cap Of(s) \subseteq missed
        /\ outside \cap Of(s) \subseteq stray \cup passed

\* "schedule deletion for every Organization you solely own before deleting the
\* account": an organization outlives the account of its owner only if its own
\* deletion was canceled while the account's was on its way.
OwnerLeavesLast ==
    user = "anonymized" /\ org # "purged" /\ req["organization"].status \notin Unresolved
        => spared

\* Deletion is all or nothing as far as its subject can tell, and an organization
\* is not left behind.
LifecycleInv ==
    TypeOK /\ StatesAgree /\ ActiveIsIntact /\ DeletedMeansGone /\ OwnerLeavesLast

\* A row behind a verified checkpoint: no later attempt looks at the domain again,
\* and the final verification counts the row.
Shadowed(r) == r \in rows /\ cp[DomainOf[r]] = "verified"

\* An item that will not be verified, for its row is gone.
Orphaned(r) ==
    /\ item[r].status \in {"processing", "waiting"} /\ r \notin rows
    /\ \A w \in Worker : ~(/\ Busy(w, "organization") /\ work[w].row = r
                            /\ item[r].claim = w
                            /\ work[w].step \in {"operate", "settle", "record"})

\* A grant that is revoked already but not verified, and whose provider refuses
\* to revoke it again, as the purge will ask.
Refused(r) ==
    /\ r \in (rows \cap Grants) \ (outside \cup Tolerant \cup blank)
    /\ item[r].status # "verified"
    /\ \A w \in Worker : ~(/\ Busy(w, "organization") /\ work[w].row = r
                            /\ item[r].claim = w /\ work[w].step \in {"settle", "record"})

\* A deletion that no retry can complete is the mark of one of these: a row
\* written into the frozen subject after its domain was done; a worker that was
\* overtaken while it held the item and dropped the row anyway; a grant that had
\* ended before it was revoked, or a revocation the worker did not live, or was
\* not told, to record.
StrandedHasItsCause ==
    \A r \in Resource :
        /\ Shadowed(r) => r \in late
        /\ Orphaned(r) => "overlap" \in seen
        /\ Refused(r) => r \in ended \/ seen \cap {"overlap", "crash", "lost_answer"} # {}

Stranded(s) == \E r \in Of(s) : Shadowed(r) \/ Orphaned(r) \/ Refused(r)

\* A deletion ends: while fewer accidents hurt it than it has attempts, no request
\* stays open for ever; again and again it is found completed or canceled (or not
\* made), or one of its resources is stranded, or it was given up, and that only
\* if a slow worker, overtaken, went on and cost its successor an attempt.
DeletionEnds ==
    \A s \in Subject :
        []<>(\/ req[s].status \in {"completed", "none"}
             \/ Stranded(s)
             \/ req[s].status = "failed" /\ "overlap" \in seen)
=============================================================================
