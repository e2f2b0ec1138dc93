------------------------ MODULE DataLifecycleProofs ------------------------
(***************************************************************************)
(* The deletion of an account and of the organization it owns, for any     *)
(* workers, resources, domains, attempts and number of mishaps.            *)
(***************************************************************************)
EXTENDS DataLifecycle, WellFoundedInduction, TLAPS

External == Objects \cup Grants
Purging(w) == Busy(w, "organization") /\ ~Gone("organization")
OnItem == {"operate", "settle", "record", "drop", "catch"}

\* Only a request that is being processed has a claim; whoever works on a subject
\* has locked it for good; an account on its way out owns an active organization
\* only if that was spared.
RequestInv ==
    /\ \A s \in Subject : req[s].claim # NoWorker => req[s].status = "processing"
    /\ \A w \in Worker, s \in Subject : Busy(w, s) => Frozen(s) \/ Gone(s)
    /\ org = "active" /\ user # "active" => spared

\* Where a worker of the organization is: in a domain, with the rows it still has
\* to see to, which are rows with something outside; one listed blank is only
\* dropped.
PlaceInv ==
    \A w \in Worker : Busy(w, "organization") =>
        /\ work[w].step \in {"scan", "pick", "finish"} \cup OnItem => ~Last(w)
        /\ work[w].blind \subseteq work[w].todo /\ work[w].todo \subseteq External
        /\ work[w].step = "pick" => work[w].todo # {}
        /\ work[w].step \in OnItem => work[w].row \in work[w].todo
        /\ work[w].step \in OnItem \ {"drop"} => work[w].row \notin work[w].blind

\* Only an item in process has a claim, only rows with something outside have
\* items, and the one a worker is busy with exists until the organization is gone,
\* unless it dropped the row of it blindly.
ItemInv ==
    /\ \A r \in Resource : item[r].claim # NoWorker => item[r].status = "processing"
    /\ \A r \in Resource \ External : item[r].status = "none"
    /\ \A w \in Worker : Purging(w) /\ work[w].step \in OnItem =>
          work[w].row \in work[w].blind \/ item[work[w].row].status # "none"

\* An object outside that its item calls absent is a stray one; one without row or
\* open item is stray or was passed over.  A grant outside has no verified item, and
\* its row unless it was passed over; a worker that got past its revocation has
\* seen it go, and one about to record an object as absent knows it so.
OutsideInv ==
    /\ \A r \in Objects \cap outside :
          /\ item[r].status = "verified" => r \in stray
          /\ \/ r \in rows \cup stray \cup passed
             \/ item[r].status \in {"processing", "waiting"}
    /\ \A r \in Grants \cap outside : r \in rows \cup passed /\ item[r].status # "verified"
    /\ \A w \in Worker : Purging(w) /\ work[w].step \in {"settle", "record", "drop"} =>
          work[w].row \in work[w].blind \/ work[w].row \notin Grants \cap outside
    /\ \A w \in Worker : Purging(w) /\ work[w].step = "record" =>
          work[w].row \notin outside \ stray

\* Once a worker has counted the rows of the account, those there are were missed.
CountInv ==
    \A w \in Worker : Busy(w, "account") /\ work[w].step = "close" =>
        rows \cap Of("account") \subseteq missed

\* What a worker of the organization that nobody disturbs can rely on: its rows are
\* where it saw them, those it saw blank have no item, the item it is busy with is
\* its own, and verified when it drops the row.
Undisturbed(w) ==
    /\ work[w].step \in {"pick"} \cup OnItem =>
          /\ work[w].todo \subseteq rows
          /\ work[w].todo \cap blank \subseteq work[w].blind
          /\ \A r \in work[w].blind : item[r].status = "none"
    /\ work[w].step \in {"operate", "settle", "record"} => item[work[w].row].claim = w
    /\ work[w].step = "drop" =>
          work[w].row \in work[w].blind \/ item[work[w].row].status = "verified"

\* Until one worker overtakes another, a busy worker holds the claim of its
\* request, is undisturbed, blank rows have no items and open items have rows.
SoloInv ==
    "overlap" \notin seen =>
        /\ \A w \in Worker, s \in Subject : Busy(w, s) => req[s].claim = w
        /\ \A w \in Worker : Purging(w) => Undisturbed(w)
        /\ \A r \in Resource : item[r].status \in {"processing", "waiting"} => r \in rows
        /\ \A r \in blank : item[r].status = "none"

\* The rows behind a checkpoint that is verified, or about to be, came late.
ShadowInv ==
    /\ \A r \in rows : cp[DomainOf[r]] = "verified" => r \in late
    /\ \A w \in Worker : Purging(w) /\ work[w].step = "finish" =>
          rows \cap In(Domain(w)) \subseteq late

\* Without accident, a grant that is revoked by the purge is recorded as such, or
\* its worker is about to do so.
Recording(w, r) ==
    Purging(w) /\ work[w].row = r /\ work[w].step \in {"settle", "record"} /\ item[r].claim = w

RevokedInv ==
    seen \cap {"overlap", "crash", "lost_answer"} = {} =>
        \A r \in (rows \cap Grants) \ outside :
            r \in ended \/ item[r].status = "verified" \/ \E w \in Worker : Recording(w, r)

Inv ==
    /\ LifecycleInv /\ RequestInv /\ PlaceInv /\ ItemInv /\ OutsideInv /\ CountInv
    /\ SoloInv /\ ShadowInv /\ RevokedInv
-----------------------------------------------------------------------------
(* The constants, and what a worker is doing.                              *)

\* The domains divide the resources between the account and the organization.
LEMMA DomainFacts ==
    /\ Objects \cap Grants = {}
    /\ External \subseteq Of("organization")
    /\ External \cap Of("account") = {}
    /\ Of("account") \cap Of("organization") = {}
    /\ \A r \in Resource : r \in Of("account") \/ r \in Of("organization")
    /\ \A r \in Resource : DomainOf[r] \in Checkpoints \ {Final}
    /\ \A d \in Listed("account") :
          In(d) \subseteq Of("account") /\ In(d) \cap External = {}
    /\ \A d \in Listed("organization") : In(d) \subseteq Of("organization")
    /\ \A d : d \notin ObjectDomains \cup ProviderDomains => In(d) \cap External = {}
    /\ \A d \in ObjectDomains \cup ProviderDomains : In(d) \subseteq External
  BY LifecycleConstants DEF Objects, Grants, External, Of, In, Checkpoints

\* A set of row numbers has a least one.
LEMMA LeastRow ==
    ASSUME NEW T, T \subseteq Nat, T # {}
    PROVE  \E r \in T : \A q \in T : r =< q
  <1>1. PICK r \in T : \A q \in T : ~(<<q, r>> \in OpToRel(<, Nat))
    BY NatLessThanWellFounded, WFMin
  <1>2. \A q \in T : ~(q < r)
    BY <1>1 DEF OpToRel
  <1> QED  BY <1>2

\* What a busy worker carries.
LEMMA JobFields ==
    ASSUME TypeOK, NEW w \in Worker, work[w] # Idle
    PROVE  /\ work[w] \in Job
           /\ work[w].subject \in Subject /\ work[w].step \in Steps
           /\ work[w].at \in Nat \ {0} /\ work[w].todo \subseteq Resource
           /\ work[w].blind \subseteq Resource /\ work[w].row \in Nat
  <1>1. work[w] \in Job
    BY DEF TypeOK
  <1> QED  BY <1>1 DEF Job

\* The domain a worker is in is one of its subject.
LEMMA DomainListed ==
    ASSUME TypeOK, NEW w \in Worker, work[w] # Idle, ~Last(w)
    PROVE  Domain(w) \in Listed(work[w].subject)
  <1>1. work[w].subject \in Subject /\ work[w].at \in Nat \ {0}
    BY JobFields
  <1>2. Domains[work[w].subject] \in Seq(Listed(work[w].subject))
    BY <1>1, LifecycleConstants
  <1>3. work[w].at \in 1..Len(Domains[work[w].subject])
    BY <1>1, <1>2 DEF Last
  <1> QED  BY <1>2, <1>3 DEF Domain

\* The moves of a worker, each to another job.
Moves(w, j) == j \in Job /\ work' = [work EXCEPT ![w] = j]

\* The ways a worker moves on: to another step of the same domain,
LEMMA GotoMoves ==
    ASSUME TypeOK, NEW w \in Worker, work[w] # Idle, NEW x \in Steps, Goto(w, x)
    PROVE  \E j : /\ Moves(w, j)
                  /\ j.subject = work[w].subject /\ j.step = x /\ j.at = work[w].at
                  /\ j.todo = work[w].todo /\ j.row = work[w].row /\ j.blind = work[w].blind
  <1> DEFINE j == [work[w] EXCEPT !.step = x]
  <1>1. work[w] \in Job
    BY JobFields
  <1>2. /\ j \in Job /\ j.subject = work[w].subject /\ j.step = x
        /\ j.at = work[w].at /\ j.todo = work[w].todo /\ j.row = work[w].row
        /\ j.blind = work[w].blind
    BY <1>1 DEF Job
  <1>3. work' = [work EXCEPT ![w] = j]
    BY DEF Goto
  <1> QED  BY <1>2, <1>3 DEF Moves

\* to the handling of an error,
LEMMA ThrowMoves ==
    ASSUME TypeOK, NEW w \in Worker, work[w] # Idle, Throw(w)
    PROVE  \E j : /\ Moves(w, j)
                  /\ j.subject = work[w].subject /\ j.step = "throw" /\ j.todo = {}
                  /\ j.blind = {}
  <1> DEFINE j == [Start(work[w].subject) EXCEPT !.step = "throw"]
  <1>1. work[w].subject \in Subject
    BY JobFields
  <1>2. /\ j \in Job /\ j.subject = work[w].subject /\ j.step = "throw" /\ j.todo = {}
        /\ j.blind = {}
    BY <1>1 DEF Job, Start, Steps
  <1>3. work' = [work EXCEPT ![w] = j]
    BY DEF Throw
  <1> QED  BY <1>2, <1>3 DEF Moves

\* and to the next domain.
LEMMA NextDomainMoves ==
    ASSUME TypeOK, NEW w \in Worker, work[w] # Idle, NextDomain(w)
    PROVE  \E j : /\ Moves(w, j)
                  /\ j.subject = work[w].subject /\ j.step = "domain"
                  /\ j.todo = work[w].todo /\ j.row = work[w].row /\ j.blind = work[w].blind
  <1>1. work[w] \in Job /\ work[w].at + 1 \in Nat \ {0}
    BY JobFields
  <1>2. PICK n : n = work[w].at + 1
    OBVIOUS
  <1> DEFINE j == [work[w] EXCEPT !.step = "domain", !.at = n]
  <1>3. /\ j \in Job /\ j.subject = work[w].subject /\ j.step = "domain"
        /\ j.todo = work[w].todo /\ j.row = work[w].row /\ j.blind = work[w].blind
    BY <1>1, <1>2 DEF Job, Steps
  <1>4. work' = [work EXCEPT ![w] = j]
    BY <1>2 DEF NextDomain
  <1> QED  BY <1>3, <1>4 DEF Moves

\* Scan either has nothing to list, and then leaves no row of the domain, or lists
\* the rows, which are then rows with something outside.
LEMMA ScanMoves ==
    ASSUME TypeOK, PlaceInv, NEW w \in Worker, Scan(w)
    PROVE  /\ Purging(w) /\ Domain(w) \in Listed("organization") /\ ~Last(w)
           /\ \E j : /\ Moves(w, j)
                     /\ j.subject = work[w].subject /\ j.at = work[w].at
                     /\ j.row = work[w].row
                     /\ \/ /\ j.step = "finish" /\ j.todo = work[w].todo
                           /\ j.blind = work[w].blind
                           /\ rows' \subseteq rows /\ rows' \cap In(Domain(w)) = {}
                           /\ rows \ rows' \subseteq Of("organization") \ External
                        \/ /\ j.step = "pick" /\ j.todo # {} /\ rows' = rows
                           /\ j.todo \subseteq External \cap rows
                           /\ j.blind = blank \cap j.todo /\ blank' = blank
  <1>1. /\ work[w] # Idle /\ work[w].subject = "organization" /\ work[w].step = "scan"
        /\ Purging(w) /\ ~Last(w)
    BY DEF Scan, At, Busy, Purging, PlaceInv
  <1>2. Domain(w) \in Listed("organization")
    BY <1>1, DomainListed
  <1>3. work[w] \in Job /\ rows \subseteq Resource
    BY <1>1, JobFields DEF TypeOK
  <1> DEFINE found == rows \cap In(Domain(w))
             plain == Domain(w) \notin ObjectDomains \cup ProviderDomains
  <1>4. CASE plain \/ found = {}
    <2>1. Goto(w, "finish") /\ "finish" \in Steps
      BY <1>4 DEF Scan, Goto, Steps
    <2>2. PICK j : /\ Moves(w, j)
                   /\ j.subject = work[w].subject /\ j.step = "finish" /\ j.at = work[w].at
                   /\ j.todo = work[w].todo /\ j.row = work[w].row /\ j.blind = work[w].blind
      BY <2>1, <1>1, GotoMoves
    <2>3. rows' \subseteq rows /\ rows' \cap In(Domain(w)) = {}
      BY <1>4 DEF Scan
    <2>4. rows \ rows' \subseteq Of("organization") \ External
      BY <1>2, <1>4, DomainFacts DEF Scan
    <2> QED  BY <1>1, <1>2, <2>2, <2>3, <2>4
  <1>5. CASE ~(plain \/ found = {})
    <2>1. found \in SUBSET Resource /\ found \subseteq External \cap rows
      BY <1>3, <1>5, DomainFacts
    <2>2. PICK f, g : f = found /\ g = blank \cap found
      OBVIOUS
    <2> DEFINE j == [work[w] EXCEPT !.step = "pick", !.todo = f, !.blind = g]
    <2>3. /\ j \in Job /\ j.subject = work[w].subject /\ j.step = "pick"
          /\ j.at = work[w].at /\ j.todo = f /\ j.blind = g /\ j.row = work[w].row
      BY <1>3, <2>1, <2>2 DEF Job, Steps
    <2>4. work' = [work EXCEPT ![w] = j] /\ rows' = rows /\ blank' = blank
      BY <1>5, <2>2 DEF Scan
    <2>5. f # {} /\ f \subseteq External \cap rows /\ g = blank \cap f
      BY <1>5, <2>1, <2>2
    <2> HIDE DEF j
    <2> QED  BY <1>1, <1>2, <2>3, <2>4, <2>5 DEF Moves
  <1> QED  BY <1>4, <1>5

\* Pick takes one of the rows listed.
LEMMA PickMoves ==
    ASSUME TypeOK, PlaceInv, NEW w \in Worker, Pick(w)
    PROVE  /\ Purging(w) /\ work[w].step = "pick" /\ ~Last(w)
           /\ \E j : /\ Moves(w, j)
                     /\ j.subject = work[w].subject /\ j.at = work[w].at
                     /\ j.row \in work[w].todo /\ j.todo = work[w].todo
                     /\ j.blind = work[w].blind
                     /\ \/ /\ j.step = "drop" /\ item' = item
                           /\ j.row \in j.blind \/ item[j.row].status = "verified"
                        \/ /\ j.step = "operate" /\ item[j.row].status # "verified"
                           /\ j.row \notin j.blind
                           /\ item' = [item EXCEPT ![j.row] =
                                          [status |-> "processing", claim |-> w]]
  <1>1. /\ work[w] # Idle /\ work[w].subject = "organization" /\ work[w].step = "pick"
        /\ Purging(w) /\ ~Last(w) /\ work[w].todo # {}
    BY DEF Pick, At, Busy, Purging, PlaceInv
  <1>2. work[w] \in Job /\ work[w].todo \subseteq Nat
    BY <1>1, JobFields, LifecycleConstants
  <1>3. PICK r : r = CHOOSE q \in work[w].todo : \A p \in work[w].todo : q =< p
    OBVIOUS
  <1>4. r \in work[w].todo
    <2>1. \E q \in work[w].todo : \A p \in work[w].todo : q =< p
      BY <1>1, <1>2, LeastRow
    <2> QED  BY <1>3, <2>1
  <1>5. r \in Nat
    BY <1>2, <1>4
  <1>6. /\ work' = [work EXCEPT ![w].step = IF r \in work[w].blind \/ Skipped(r)
                                             THEN "drop" ELSE "operate",
                                ![w].row = r]
        /\ item' = IF r \in work[w].blind \/ Skipped(r) THEN item
                   ELSE [item EXCEPT ![r] = [status |-> "processing", claim |-> w]]
    BY <1>3 DEF Pick
  <1>7. ASSUME NEW x \in {"drop", "operate"},
               work' = [work EXCEPT ![w].step = x, ![w].row = r]
        PROVE  \E j : /\ Moves(w, j)
                      /\ j.subject = work[w].subject /\ j.at = work[w].at
                      /\ j.row = r /\ j.todo = work[w].todo /\ j.step = x
                      /\ j.blind = work[w].blind
    <2> DEFINE j == [work[w] EXCEPT !.step = x, !.row = r]
    <2>1. /\ j \in Job /\ j.subject = work[w].subject /\ j.at = work[w].at
          /\ j.row = r /\ j.todo = work[w].todo /\ j.step = x /\ j.blind = work[w].blind
      BY <1>2, <1>5 DEF Job, Steps
    <2>2. work' = [work EXCEPT ![w] = j]
      BY <1>7
    <2> QED  BY <2>1, <2>2 DEF Moves
  <1>8. CASE r \in work[w].blind \/ Skipped(r)
    <2>1. work' = [work EXCEPT ![w].step = "drop", ![w].row = r] /\ item' = item
      BY <1>6, <1>8
    <2>2. PICK j : /\ Moves(w, j)
                   /\ j.subject = work[w].subject /\ j.at = work[w].at
                   /\ j.row = r /\ j.todo = work[w].todo /\ j.step = "drop"
                   /\ j.blind = work[w].blind
      BY <2>1, <1>7
    <2> QED  BY <2>1, <2>2, <1>1, <1>4, <1>8 DEF Skipped
  <1>9. CASE ~(r \in work[w].blind \/ Skipped(r))
    <2>1. /\ work' = [work EXCEPT ![w].step = "operate", ![w].row = r]
          /\ item' = [item EXCEPT ![r] = [status |-> "processing", claim |-> w]]
      BY <1>6, <1>9
    <2>2. PICK j : /\ Moves(w, j)
                   /\ j.subject = work[w].subject /\ j.at = work[w].at
                   /\ j.row = r /\ j.todo = work[w].todo /\ j.step = "operate"
                   /\ j.blind = work[w].blind
      BY <2>1, <1>7
    <2> QED  BY <2>1, <2>2, <1>1, <1>4, <1>9 DEF Skipped
  <1> QED  BY <1>8, <1>9

\* Drop deletes the row and crosses it off.
LEMMA DropMoves ==
    ASSUME TypeOK, PlaceInv, NEW w \in Worker, Drop(w)
    PROVE  /\ Purging(w) /\ work[w].step = "drop" /\ ~Last(w) /\ work[w].row \in External
           /\ rows' = rows \ {work[w].row} /\ blank' = blank /\ item' = item
           /\ passed' = IF work[w].row \in work[w].blind THEN passed \cup {work[w].row} ELSE passed
           /\ \E j : /\ Moves(w, j)
                     /\ j.subject = work[w].subject /\ j.at = work[w].at
                     /\ j.todo = work[w].todo \ {work[w].row}
                     /\ j.blind = work[w].blind \ {work[w].row}
                     /\ j.step = "scan" \/ (j.step = "pick" /\ j.todo # {})
  <1>1. /\ work[w] # Idle /\ work[w].subject = "organization" /\ work[w].step = "drop"
        /\ Purging(w) /\ ~Last(w) /\ work[w].row \in External
    BY DEF Drop, At, Busy, Purging, PlaceInv, OnItem
  <1>2. work[w] \in Job /\ work[w].todo \subseteq Resource /\ work[w].blind \subseteq Resource
    BY <1>1, JobFields
  <1>3. PICK t, u : t = work[w].todo \ {work[w].row} /\ u = work[w].blind \ {work[w].row}
    OBVIOUS
  <1>4. PICK x : x = IF t = {} THEN "scan" ELSE "pick"
    OBVIOUS
  <1> DEFINE j == [work[w] EXCEPT !.todo = t, !.row = 0, !.blind = u, !.step = x]
  <1>5. /\ j \in Job /\ j.subject = work[w].subject /\ j.at = work[w].at
        /\ j.todo = t /\ j.blind = u /\ j.step = x
    BY <1>2, <1>3, <1>4 DEF Job, Steps
  <1>6. /\ work' = [work EXCEPT ![w] = j] /\ rows' = rows \ {work[w].row}
        /\ blank' = blank /\ item' = item
        /\ passed' = IF work[w].row \in work[w].blind THEN passed \cup {work[w].row} ELSE passed
    BY <1>3, <1>4 DEF Drop
  <1>7. Moves(w, j) /\ (j.step = "scan" \/ (j.step = "pick" /\ j.todo # {}))
    BY <1>4, <1>5, <1>6 DEF Moves
  <1> HIDE DEF j
  <1> QED  BY <1>1, <1>3, <1>5, <1>6, <1>7

\* A worker that moves to a place as PlaceInv has them keeps all in their places.
LEMMA MoveKeepsPlaces ==
    ASSUME TypeOK, PlaceInv, NEW w \in Worker, NEW j, Moves(w, j),
           j.subject = "organization" =>
               /\ j.step \in {"scan", "pick", "finish"} \cup OnItem =>
                     ~(j.at > Len(Domains["organization"]))
               /\ j.blind \subseteq j.todo /\ j.todo \subseteq External
               /\ j.step = "pick" => j.todo # {}
               /\ j.step \in OnItem => j.row \in j.todo
               /\ j.step \in OnItem \ {"drop"} => j.row \notin j.blind
    PROVE  work' \in [Worker -> Job \cup {Idle}] /\ PlaceInv'
  <1>1. work' \in [Worker -> Job \cup {Idle}]
    BY DEF TypeOK, Moves
  <1>2. work'[w] = j /\ \A v \in Worker \ {w} : work'[v] = work[v]
    BY DEF TypeOK, Moves
  <1>3. ASSUME NEW v \in Worker, Busy(v, "organization")'
        PROVE  (/\ work[v].step \in {"scan", "pick", "finish"} \cup OnItem => ~Last(v)
                /\ work[v].blind \subseteq work[v].todo /\ work[v].todo \subseteq External
                /\ work[v].step = "pick" => work[v].todo # {}
                /\ work[v].step \in OnItem => work[v].row \in work[v].todo
                /\ work[v].step \in OnItem \ {"drop"} => work[v].row \notin work[v].blind)'
    <2>1. CASE v = w
      BY <1>2, <1>3, <2>1 DEF Busy, Last
    <2>2. CASE v # w
      BY <1>2, <1>3, <2>2 DEF Busy, Last, PlaceInv
    <2> QED  BY <2>1, <2>2
  <1> QED  BY <1>1, <1>3 DEF PlaceInv

\* So does a worker that comes to rest.
LEMMA RestKeepsPlaces ==
    ASSUME TypeOK, PlaceInv, NEW w \in Worker, work' = [work EXCEPT ![w] = Idle]
    PROVE  work' \in [Worker -> Job \cup {Idle}] /\ PlaceInv'
  <1>1. work' \in [Worker -> Job \cup {Idle}]
    BY DEF TypeOK
  <1>2. work'[w] = Idle /\ \A v \in Worker \ {w} : work'[v] = work[v]
    BY DEF TypeOK
  <1> QED  BY <1>1, <1>2 DEF PlaceInv, Busy, Last

\* Every worker stays in its place.
LEMMA PlaceStep ==
    ASSUME TypeOK, PlaceInv, [Next]_vars
    PROVE  work' \in [Worker -> Job \cup {Idle}] /\ PlaceInv'
  <1>1. CASE UNCHANGED work
    BY <1>1 DEF TypeOK, PlaceInv, Busy, Last
  <1>2. ASSUME NEW w \in Worker, NEW s \in Subject, Claim(w, s)
        PROVE  work' \in [Worker -> Job \cup {Idle}] /\ PlaceInv'
    <2>1. /\ Start(s) \in Job /\ Start(s).step = "domain" /\ Start(s).todo = {}
          /\ Start(s).blind = {}
      BY DEF Start, Job, Steps
    <2>2. Moves(w, Start(s))
      BY <1>2, <2>1 DEF Claim, Moves
    <2>3. "domain" \notin {"scan", "pick", "finish"} \cup OnItem /\ "domain" # "pick"
      BY DEF OnItem
    <2> HIDE DEF Start
    <2> QED  BY <2>1, <2>2, <2>3, MoveKeepsPlaces
  <1>3. ASSUME NEW w \in Worker, Step(w) \/ OperateFails(w) \/ Crash(w)
        PROVE  work' \in [Worker -> Job \cup {Idle}] /\ PlaceInv'
    <2>1. work[w] # Idle
      BY <1>3 DEF Step, OperateFails, Crash, AccountDomain, AccountCount, AccountClose,
           BeginDomain, Scan, Pick, Operate, Settle, Record, Drop, Finish, Catch, BeginFinal,
           VerifyFinal, Close, FailOrRetry, At, Busy
    <2>2. "pick" \notin OnItem
      BY DEF OnItem
    <2>3. CASE work' = [work EXCEPT ![w] = Idle]
      BY <2>3, RestKeepsPlaces
    <2>4. CASE Throw(w)
      BY <2>1, <2>4, ThrowMoves, MoveKeepsPlaces DEF OnItem
    <2>5. CASE NextDomain(w)
      <3>1. PICK j : /\ Moves(w, j)
                     /\ j.subject = work[w].subject /\ j.step = "domain"
                     /\ j.todo = work[w].todo /\ j.blind = work[w].blind
        BY <2>1, <2>5, NextDomainMoves
      <3>2. j.subject = "organization" => j.blind \subseteq j.todo /\ j.todo \subseteq External
        BY <2>1, <3>1 DEF PlaceInv, Busy
      <3> QED  BY <3>1, <3>2, MoveKeepsPlaces DEF OnItem
    <2>6. CASE Scan(w)
      <3>1. /\ Busy(w, "organization") /\ ~Last(w) /\ work[w].todo \subseteq External
            /\ work[w].blind \subseteq work[w].todo
        BY <2>6, ScanMoves DEF Purging, PlaceInv
      <3>2. PICK j : /\ Moves(w, j) /\ j.subject = work[w].subject /\ j.at = work[w].at
                     /\ \/ /\ j.step = "finish" /\ j.todo = work[w].todo
                           /\ j.blind = work[w].blind
                        \/ /\ j.step = "pick" /\ j.todo # {} /\ j.todo \subseteq External
                           /\ j.blind = blank \cap j.todo
        BY <2>6, ScanMoves
      <3>3. ~(j.at > Len(Domains["organization"]))
        BY <3>1, <3>2 DEF Last, Busy
      <3> QED  BY <3>1, <3>2, <3>3, MoveKeepsPlaces DEF OnItem
    <2>7. CASE Pick(w)
      <3>1. /\ Busy(w, "organization") /\ ~Last(w) /\ work[w].todo \subseteq External
            /\ work[w].blind \subseteq work[w].todo
        BY <2>7, PickMoves DEF Purging, PlaceInv
      <3>2. PICK j : /\ Moves(w, j) /\ j.subject = work[w].subject /\ j.at = work[w].at
                     /\ j.row \in work[w].todo /\ j.todo = work[w].todo
                     /\ j.blind = work[w].blind
                     /\ j.step = "drop" \/ (j.step = "operate" /\ j.row \notin j.blind)
        BY <2>7, PickMoves
      <3>3. ~(j.at > Len(Domains["organization"]))
        BY <3>1, <3>2 DEF Last, Busy
      <3> QED  BY <3>1, <3>2, <3>3, MoveKeepsPlaces DEF OnItem
    <2>8. CASE Drop(w)
      <3>1. /\ Busy(w, "organization") /\ ~Last(w) /\ work[w].todo \subseteq External
            /\ work[w].blind \subseteq work[w].todo
        BY <2>8, DropMoves DEF Purging, PlaceInv
      <3>2. PICK j : /\ Moves(w, j) /\ j.subject = work[w].subject /\ j.at = work[w].at
                     /\ j.todo = work[w].todo \ {work[w].row}
                     /\ j.blind = work[w].blind \ {work[w].row}
                     /\ j.step = "scan" \/ (j.step = "pick" /\ j.todo # {})
        BY <2>8, DropMoves
      <3>3. ~(j.at > Len(Domains["organization"]))
        BY <3>1, <3>2 DEF Last, Busy
      <3>4. j.blind \subseteq j.todo /\ j.todo \subseteq External
        BY <3>1, <3>2
      <3> QED  BY <3>2, <3>3, <3>4, MoveKeepsPlaces DEF OnItem
    <2>9. ASSUME NEW x \in {"close", "verify"}, Goto(w, x)
          PROVE  work' \in [Worker -> Job \cup {Idle}] /\ PlaceInv'
      <3>1. PICK j : /\ Moves(w, j) /\ j.subject = work[w].subject /\ j.step = x
                     /\ j.todo = work[w].todo /\ j.blind = work[w].blind
        BY <2>1, <2>9, GotoMoves DEF Steps
      <3>2. j.subject = "organization" => j.blind \subseteq j.todo /\ j.todo \subseteq External
        BY <2>1, <3>1 DEF PlaceInv, Busy
      <3> QED  BY <3>1, <3>2, MoveKeepsPlaces DEF OnItem
    <2>10. CASE Goto(w, "scan") /\ ~Last(w)
      <3>1. PICK j : /\ Moves(w, j) /\ j.subject = work[w].subject /\ j.step = "scan"
                     /\ j.at = work[w].at /\ j.todo = work[w].todo /\ j.blind = work[w].blind
        BY <2>1, <2>10, GotoMoves DEF Steps
      <3>2. j.subject = "organization" =>
               /\ j.blind \subseteq j.todo /\ j.todo \subseteq External
               /\ ~(j.at > Len(Domains["organization"]))
        BY <2>1, <2>10, <3>1 DEF PlaceInv, Busy, Last
      <3> QED  BY <3>1, <3>2, MoveKeepsPlaces DEF OnItem
    <2>11. ASSUME NEW x \in OnItem, Goto(w, x), work[w].step \in OnItem \ {"drop"}
           PROVE  work' \in [Worker -> Job \cup {Idle}] /\ PlaceInv'
      <3>1. PICK j : /\ Moves(w, j) /\ j.subject = work[w].subject /\ j.step = x
                     /\ j.at = work[w].at /\ j.todo = work[w].todo /\ j.row = work[w].row
                     /\ j.blind = work[w].blind
        BY <2>1, <2>11, GotoMoves DEF Steps, OnItem
      <3>2. j.subject = "organization" =>
               /\ j.blind \subseteq j.todo /\ j.todo \subseteq External
               /\ ~(j.at > Len(Domains["organization"]))
               /\ j.row \in j.todo /\ j.row \notin j.blind
        BY <2>1, <2>11, <3>1 DEF PlaceInv, Busy, Last
      <3> QED  BY <2>2, <3>1, <3>2, MoveKeepsPlaces
    <2>12. CASE AccountDomain(w) \/ AccountCount(w) \/ AccountClose(w)
      BY <2>12, <2>3, <2>4, <2>5, <2>9 DEF AccountDomain, AccountCount, AccountClose
    <2>13. CASE BeginDomain(w)
      BY <2>13, <2>5, <2>10 DEF BeginDomain
    <2>14. CASE Operate(w) \/ OperateFails(w) \/ Settle(w) \/ Record(w)
      <3>1. work[w].step \in OnItem \ {"drop"} /\ \E x \in OnItem : Goto(w, x)
        BY <2>14 DEF Operate, OperateFails, Settle, Record, At, OnItem
      <3> QED  BY <3>1, <2>11
    <2>15. CASE BeginFinal(w) \/ VerifyFinal(w)
      BY <2>15, <2>4, <2>9 DEF BeginFinal, VerifyFinal
    <2>16. CASE Finish(w) \/ Catch(w) \/ Close(w) \/ FailOrRetry(w) \/ Crash(w)
      BY <2>16, <2>3, <2>4, <2>5 DEF Finish, Catch, Close, FailOrRetry, Crash
    <2> QED  BY SMTT(40), <1>3, <2>6, <2>7, <2>8, <2>12, <2>13, <2>14, <2>15, <2>16 DEF Step
  <1>4. CASE Next
    <2>1. CASE \E w \in Worker, s \in Subject : Claim(w, s)
      BY <2>1, <1>2
    <2>2. CASE \E w \in Worker : Step(w) \/ OperateFails(w) \/ Crash(w)
      BY <2>2, <1>3
    <2>3. CASE UNCHANGED work
      BY SMTT(40), <2>3, <1>1
    <2> QED  BY <1>4, <2>1, <2>2, <2>3 DEF Next, ScheduleOrganization, CancelOrganization,
               ScheduleAccount, CancelAccount, RetryFailed, Write, Upload, Name, EndElsewhere,
               ClaimDue, Overtake
  <1> QED  BY <1>1, <1>4 DEF vars

\* The type of the lifecycle: the states, the requests and the flag.
LifecycleType ==
    /\ user \in {"active", "deletion_pending", "auth_disabled", "anonymized"}
    /\ org \in {"active", "deletion_pending", "write_frozen", "purged"}
    /\ req \in [Subject -> [status : Unresolved \cup {"none", "completed"},
                            claim : Worker \cup {NoWorker}, attempts : 0..MaxAttempts]]
    /\ spared \in BOOLEAN

\* No step breaks the types of the requests and of the states.
LEMMA LifecycleTypeStep ==
    ASSUME TypeOK, [Next]_vars
    PROVE  LifecycleType'
  <1>1. LifecycleType
    BY DEF TypeOK, LifecycleType
  <1>2. MaxAttempts \in Nat \ {0}
    BY LifecycleConstants
  <1>3. CASE ScheduleOrganization \/ CancelOrganization \/ ScheduleAccount \/ CancelAccount
    <2>1. PICK s \in Subject, x \in {"scheduled", "none"} : Request(s, x)
      BY <1>3 DEF ScheduleOrganization, CancelOrganization, ScheduleAccount, CancelAccount, Subject
    <2>2. [status |-> x, claim |-> NoWorker, attempts |-> 0]
             \in [status : Unresolved \cup {"none", "completed"},
                  claim : Worker \cup {NoWorker}, attempts : 0..MaxAttempts]
      BY <1>2 DEF Unresolved
    <2>3. req' \in [Subject -> [status : Unresolved \cup {"none", "completed"},
                               claim : Worker \cup {NoWorker}, attempts : 0..MaxAttempts]]
      BY <1>1, <2>1, <2>2 DEF LifecycleType, Request
    <2>4. spared' \in BOOLEAN
      BY <1>1, <1>3, Zenon DEF LifecycleType, ScheduleOrganization, CancelOrganization,
           ScheduleAccount, CancelAccount
    <2> QED  BY <1>1, <1>3, <2>3, <2>4 DEF LifecycleType, ScheduleOrganization, CancelOrganization,
               ScheduleAccount, CancelAccount
  <1>4. ASSUME NEW s \in Subject, RetryFailed(s)
        PROVE  LifecycleType'
    BY <1>1, <1>4 DEF LifecycleType, RetryFailed, Unresolved
  <1>5. ASSUME NEW w \in Worker, NEW s \in Subject, Claim(w, s)
        PROVE  LifecycleType'
    <2>1. req[s].attempts \in 0..MaxAttempts
      BY <1>1 DEF LifecycleType
    <2>2. PICK n : n = IF req[s].attempts < MaxAttempts THEN req[s].attempts + 1 ELSE MaxAttempts
      OBVIOUS
    <2>3. n \in 0..MaxAttempts
      BY <1>2, <2>1, <2>2
    <2>4. req' = [req EXCEPT ![s] = [status |-> "processing", claim |-> w, attempts |-> n]]
      BY <1>5, <2>2 DEF Claim
    <2> QED  BY <1>1, <1>5, <2>3, <2>4 DEF LifecycleType, Claim, Unresolved
  <1>6. ASSUME NEW w \in Worker, AccountClose(w) \/ Close(w)
        PROVE  LifecycleType'
    BY <1>1, <1>6 DEF LifecycleType, AccountClose, Close, Subject
  <1>7. ASSUME NEW w \in Worker, FailOrRetry(w)
        PROVE  LifecycleType'
    <2>1. PICK s \in Subject : s = work[w].subject
      BY <1>7, JobFields DEF FailOrRetry
    <2>2. PICK x \in {"failed", "retry_wait"} :
             \/ req' = req
             \/ req' = [req EXCEPT ![s].claim = NoWorker, ![s].status = x]
      BY <1>7, <2>1 DEF FailOrRetry
    <2>3. req[s] \in [status : Unresolved \cup {"none", "completed"},
                      claim : Worker \cup {NoWorker}, attempts : 0..MaxAttempts]
      BY <1>1 DEF LifecycleType
    <2>4. [req[s] EXCEPT !.claim = NoWorker, !.status = x]
             \in [status : Unresolved \cup {"none", "completed"},
                  claim : Worker \cup {NoWorker}, attempts : 0..MaxAttempts]
      BY <2>3 DEF Unresolved
    <2>5. req' = req \/ req' = [req EXCEPT ![s] = [req[s] EXCEPT !.claim = NoWorker, !.status = x]]
      BY <2>2
    <2>6. req' \in [Subject -> [status : Unresolved \cup {"none", "completed"},
                               claim : Worker \cup {NoWorker}, attempts : 0..MaxAttempts]]
      BY <1>1, <2>4, <2>5 DEF LifecycleType
    <2> QED  BY <1>1, <1>7, <2>6 DEF LifecycleType, FailOrRetry
  <1>8. CASE UNCHANGED lifecycle
    BY <1>1, <1>8 DEF LifecycleType, lifecycle
  <1>9. CASE UNCHANGED vars
    BY <1>8, <1>9 DEF vars, lifecycle
  <1> QED  BY ZenonT(60), <1>3, <1>4, <1>5, <1>6, <1>7, <1>8, <1>9 DEF Next, Step, ClaimDue, Overtake, Write,
             Upload, Name, EndElsewhere, AccountDomain, AccountCount, BeginDomain, Scan, Pick,
             Operate, OperateFails, Settle, Record, Drop, Finish, Catch, BeginFinal, VerifyFinal,
             Crash

Accidents == {"late_write", "upload", "overlap", "lost_answer", "crash", "ended"}

ItemType == [status : {"none", "processing", "waiting", "verified"},
             claim : Worker \cup {NoWorker}]

\* The type of what is purged, its checkpoints and items, and the history.
DataType ==
    /\ cp \in [Checkpoints -> {"open", "processing", "verified"}]
    /\ rows \subseteq Resource /\ outside \subseteq Objects \cup Grants
    /\ item \in [Resource -> ItemType]
    /\ left \in 0..Mishaps
    /\ seen \subseteq Accidents
    /\ late \subseteq Resource /\ stray \subseteq Objects
    /\ blank \subseteq Objects \cup Grants /\ passed \subseteq Objects \cup Grants
    /\ ended \subseteq Grants /\ missed \subseteq Of("account")

\* A mishap is counted and remembered.
LEMMA MishapType ==
    ASSUME DataType, NEW kind \in Accidents,
           Mishap(kind)
    PROVE  /\ left' \in 0..Mishaps
           /\ seen' \subseteq Accidents
  BY LifecycleConstants DEF DataType, Mishap, Accidents

\* No step breaks the types of what the deletions work on.
LEMMA DataTypeStep ==
    ASSUME TypeOK, PlaceInv, [Next]_vars
    PROVE  DataType'
  <1>1. DataType
    BY DEF TypeOK, DataType, ItemType, Accidents
  <1>0. /\ \A w \in Worker : [status |-> "processing", claim |-> w] \in ItemType
        /\ [status |-> "verified", claim |-> NoWorker] \in ItemType
        /\ [status |-> "waiting", claim |-> NoWorker] \in ItemType
        /\ NoItem \in ItemType
    BY DEF ItemType, NoItem
  <1>2. CASE UNCHANGED <<data, bounds>>
    BY <1>1, <1>2 DEF DataType, data, bounds, history
  <1>3. ASSUME NEW s \in Subject, NEW r \in Resource, Write(s, r)
        PROVE  DataType'
    <2>1. left' \in 0..Mishaps /\ seen' \subseteq Accidents
      BY <1>1, <1>3, MishapType DEF Write, Accidents
    <2>2. blank' \subseteq Objects \cup Grants /\ missed' \subseteq Of("account")
      BY <1>1, <1>3 DEF DataType, Write
    <2> QED  BY <1>1, <1>3, <2>1, <2>2 DEF DataType, Write
  <1>4. ASSUME NEW r \in Resource, Upload(r)
        PROVE  DataType'
    <2>1. left' \in 0..Mishaps /\ seen' \subseteq Accidents
      BY <1>1, <1>4, MishapType DEF Upload, Accidents
    <2> QED  BY <1>1, <1>4, <2>1 DEF DataType, Upload
  <1>15. ASSUME NEW r \in Resource, Name(r)
         PROVE  DataType'
    BY <1>1, <1>15 DEF DataType, Name, history, bounds
  <1>16. ASSUME NEW r \in Resource, EndElsewhere(r)
         PROVE  DataType'
    <2>1. left' \in 0..Mishaps /\ seen' \subseteq Accidents
      BY <1>1, <1>16, MishapType DEF EndElsewhere, Accidents
    <2> QED  BY <1>1, <1>16, <2>1 DEF DataType, EndElsewhere
  <1>5. ASSUME NEW w \in Worker, NEW s \in Subject, Overtake(w, s)
        PROVE  DataType'
    BY <1>1, <1>5, MishapType DEF DataType, Overtake, Claim, data, history, Accidents
  <1>6. ASSUME NEW w \in Worker, Crash(w)
        PROVE  DataType'
    BY <1>1, <1>6, MishapType DEF DataType, Crash, data, history, Accidents
  <1>7. ASSUME NEW w \in Worker, OperateFails(w)
        PROVE  DataType'
    BY <1>1, <1>7, MishapType DEF DataType, OperateFails, history, Accidents
  <1>8. ASSUME NEW w \in Worker, AccountDomain(w) \/ Finish(w)
        PROVE  DataType'
    BY <1>1, <1>8 DEF DataType, AccountDomain, Finish, history, bounds
  <1>9. ASSUME NEW w \in Worker, Scan(w) \/ Operate(w)
        PROVE  DataType'
    BY <1>1, <1>9 DEF DataType, Scan, Operate, history, bounds
  <1>17. ASSUME NEW w \in Worker, Drop(w)
         PROVE  DataType'
    <2>1. work[w].row \in Objects \cup Grants
      BY <1>17, DropMoves DEF External
    <2> QED  BY <1>1, <1>17, <2>1 DEF DataType, Drop, bounds
  <1>10. ASSUME NEW w \in Worker, Pick(w)
         PROVE  DataType'
    <2>1. PICK r \in Resource :
             \/ item' = item
             \/ item' = [item EXCEPT ![r] = [status |-> "processing", claim |-> w]]
      BY ZenonT(60), <1>10, PickMoves, JobFields DEF Purging, Busy
    <2>2. item' \in [Resource -> ItemType]
      BY <1>0, <1>1, <2>1 DEF DataType
    <2> QED  BY <1>1, <1>10, <2>2 DEF DataType, Pick, history, bounds
  <1>11. ASSUME NEW w \in Worker, Record(w) \/ Catch(w)
         PROVE  DataType'
    <2>0. work[w].row \in Resource
      BY <1>11, JobFields DEF Record, Catch, At, Busy, PlaceInv, OnItem
    <2>1. PICK r \in Resource :
             \/ item' = item
             \/ item' = [item EXCEPT ![r] = [status |-> "verified", claim |-> NoWorker]]
             \/ item' = [item EXCEPT ![r] = [status |-> "waiting", claim |-> NoWorker]]
      BY <1>11, <2>0 DEF Record, Catch, Verified
    <2>2. item' \in [Resource -> ItemType]
      BY <1>0, <1>1, <2>1 DEF DataType
    <2> QED  BY <1>1, <1>11, <2>2 DEF DataType, Record, Catch, history, bounds
  <1>12. ASSUME NEW w \in Worker, BeginFinal(w) \/ VerifyFinal(w)
         PROVE  DataType'
    BY <1>1, <1>12 DEF DataType, BeginFinal, VerifyFinal, history, bounds
  <1>13. ASSUME NEW w \in Worker, Close(w)
         PROVE  DataType'
    <2>1. cp' = cp \/ cp' = [d \in Checkpoints |-> IF d \in Listed("account") THEN cp[d] ELSE "open"]
      BY <1>13 DEF Close
    <2>2. item' = item \/ item' = [r \in Resource |-> NoItem]
      BY <1>13 DEF Close
    <2>3. cp' \in [Checkpoints -> {"open", "processing", "verified"}]
      BY <1>1, <2>1 DEF DataType
    <2>4. item' \in [Resource -> ItemType]
      BY <1>0, <1>1, <2>2 DEF DataType
    <2> QED  BY <1>1, <1>13, <2>3, <2>4 DEF DataType, Close, history, bounds
  <1>14. CASE UNCHANGED vars
    BY <1>2, <1>14 DEF vars, data, bounds, history
  <1> QED  BY <1>2, <1>3, <1>4, <1>5, <1>6, <1>7, <1>8, <1>9, <1>10, <1>11, <1>12, <1>13, <1>14,
             <1>15, <1>16, <1>17
           DEF Next, Step, Settle, ClaimDue, Claim, ScheduleOrganization, CancelOrganization,
             ScheduleAccount, CancelAccount, RetryFailed, AccountCount, AccountClose, BeginDomain,
             FailOrRetry

\* No step breaks a type.
LEMMA TypeStep ==
    ASSUME TypeOK, PlaceInv, [Next]_vars
    PROVE  TypeOK'
  BY PlaceStep, LifecycleTypeStep, DataTypeStep
     DEF TypeOK, LifecycleType, DataType, ItemType, Accidents
-----------------------------------------------------------------------------
(* Requests and the states of their subjects.                              *)

\* What becomes of the lifecycle in a step, action by action.
LEMMA RequestStep ==
    ASSUME TypeOK, StatesAgree, RequestInv, [Next]_vars
    PROVE  StatesAgree' /\ RequestInv'
  <1> DEFINE Claims == \A s \in Subject : req[s].claim # NoWorker => req[s].status = "processing"
             Locks == \A w \in Worker, s \in Subject : Busy(w, s) => Frozen(s) \/ Gone(s)
             Spares == org = "active" /\ user # "active" => spared
  <1>0. /\ req \in [Subject -> [status : Unresolved \cup {"none", "completed"},
                                claim : Worker \cup {NoWorker}, attempts : 0..MaxAttempts]]
        /\ "account" \in Subject /\ "organization" \in Subject
        /\ \A s \in Subject : s = "account" \/ s = "organization"
        /\ NoWorker \notin Worker
    BY LifecycleConstants DEF TypeOK, Subject
  <1>1. Claims /\ Locks /\ Spares
    BY DEF RequestInv
  <1>2. ASSUME UNCHANGED <<work, user, org>>
        PROVE  Locks'
    BY <1>1, <1>2 DEF Busy, Frozen, Gone
  <1>3. CASE ScheduleOrganization
    <2>1. StatesAgree' /\ Claims' /\ Spares'
      BY <1>0, <1>1, <1>3 DEF StatesAgree, ScheduleOrganization, Request
    <2>2. Locks'
      BY <1>0, <1>1, <1>3 DEF ScheduleOrganization, Busy, Frozen, Gone
    <2> QED  BY <2>1, <2>2 DEF RequestInv
  <1>4. CASE CancelOrganization
    <2>1. StatesAgree' /\ Claims'
      BY <1>0, <1>1, <1>4 DEF StatesAgree, CancelOrganization, Request
    <2>2. req["account"].status = "scheduled" \/ user = "active"
      BY <1>4 DEF CancelOrganization, LoggedIn, StatesAgree
    <2>3. Spares'
      BY <1>4, <2>2 DEF CancelOrganization, Unresolved
    <2>4. Locks'
      BY <1>0, <1>1, <1>4 DEF CancelOrganization, Busy, Frozen, Gone, StatesAgree
    <2> QED  BY <2>1, <2>3, <2>4 DEF RequestInv
  <1>5. CASE ScheduleAccount
    <2>1. StatesAgree' /\ Claims'
      BY <1>0, <1>1, <1>5 DEF StatesAgree, ScheduleAccount, Request
    <2>2. org # "active"
      BY <1>5 DEF ScheduleAccount, OwnerMayLeave, Unresolved, StatesAgree
    <2>3. Spares'
      BY <1>5, <2>2 DEF ScheduleAccount
    <2>4. Locks'
      BY <1>0, <1>1, <1>5 DEF ScheduleAccount, Busy, Frozen, Gone
    <2> QED  BY <2>1, <2>3, <2>4 DEF RequestInv
  <1>6. CASE CancelAccount
    <2>1. StatesAgree' /\ Claims' /\ Spares'
      BY <1>0, <1>1, <1>6 DEF StatesAgree, CancelAccount, AccountCancelable, Request
    <2>2. Locks'
      BY <1>0, <1>1, <1>6 DEF CancelAccount, AccountCancelable, Busy, Frozen, Gone, StatesAgree
    <2> QED  BY <2>1, <2>2 DEF RequestInv
  <1>7. ASSUME NEW s \in Subject, RetryFailed(s)
        PROVE  StatesAgree' /\ RequestInv'
    <2>1. StatesAgree' /\ Claims' /\ Spares'
      BY <1>0, <1>1, <1>7 DEF StatesAgree, RetryFailed
    <2> QED  BY <1>2, <1>7, <2>1 DEF RequestInv, RetryFailed
  <1>8. ASSUME NEW w \in Worker, NEW s \in Subject, Claim(w, s)
        PROVE  StatesAgree' /\ RequestInv'
    <2>1. PICK n : req' = [req EXCEPT ![s] = [status |-> "processing", claim |-> w, attempts |-> n]]
      BY <1>8 DEF Claim
    <2>2. StatesAgree' /\ Claims'
      BY <1>0, <1>1, <1>8, <2>1 DEF StatesAgree, Claim, Claimable
    <2>3. Spares'
      BY <1>0, <1>1, <1>8 DEF StatesAgree, Claim, Claimable
    <2>4. Locks'
      <3>1. work' = [work EXCEPT ![w] = Start(s)] /\ Start(s).subject = s
        BY <1>8 DEF Claim, Start
      <3>2. work \in [Worker -> Job \cup {Idle}]
        BY DEF TypeOK
      <3>3. \A v \in Worker, t \in Subject : Busy(v, t)' => Busy(v, t) \/ t = s
        BY <3>1, <3>2 DEF Busy
      <3>4. Frozen(s)' /\ \A t \in Subject : Frozen(t) \/ Gone(t) => Frozen(t)' \/ Gone(t)'
        BY <1>0, <1>8 DEF Claim, Frozen, Gone
      <3> QED  BY <1>1, <3>3, <3>4
    <2> QED  BY <2>2, <2>3, <2>4 DEF RequestInv
  <1>9. ASSUME NEW w \in Worker, AccountClose(w) \/ Close(w) \/ FailOrRetry(w)
        PROVE  StatesAgree' /\ RequestInv'
    <2>1. work[w] # Idle /\ work[w].subject \in Subject
      BY <1>9, JobFields DEF AccountClose, Close, FailOrRetry, At, Busy
    <2>2. \A v \in Worker, t \in Subject : Busy(v, t)' => Busy(v, t)
      <3>1. work \in [Worker -> Job \cup {Idle}]
        BY DEF TypeOK
      <3>2. CASE work' = [work EXCEPT ![w] = Idle]
        BY <3>1, <3>2 DEF Busy
      <3>3. CASE Throw(w)
        <4>1. PICK j : Moves(w, j) /\ j.subject = work[w].subject
          BY <2>1, <3>3, ThrowMoves
        <4> QED  BY <2>1, <3>1, <4>1 DEF Moves, Busy
      <3> QED  BY <1>9, <3>2, <3>3 DEF AccountClose, Close, FailOrRetry
    <2>3. CASE AccountClose(w)
      <3>1. Frozen("account")
        BY <1>0, <1>1, <2>3 DEF AccountClose, At
      <3>2. StatesAgree' /\ Claims' /\ Spares'
        BY <1>0, <1>1, <2>3, <3>1 DEF StatesAgree, AccountClose, Frozen
      <3>3. \A t \in Subject : Frozen(t) \/ Gone(t) => Frozen(t)' \/ Gone(t)'
        BY <1>0, <2>3 DEF AccountClose, Frozen, Gone
      <3> QED  BY <1>1, <2>2, <3>2, <3>3 DEF RequestInv
    <2>4. CASE Close(w)
      <3>1. StatesAgree' /\ Claims' /\ Spares'
        BY <1>0, <1>1, <2>4 DEF StatesAgree, Close
      <3>2. \A t \in Subject : Frozen(t) \/ Gone(t) => Frozen(t)' \/ Gone(t)'
        BY <1>0, <2>4 DEF Close, Frozen, Gone
      <3> QED  BY <1>1, <2>2, <3>1, <3>2 DEF RequestInv
    <2>5. CASE FailOrRetry(w)
      <3>1. PICK s \in Subject : s = work[w].subject
        BY <2>1
      <3>2. \/ req' = req
            \/ /\ req[s].claim = w
               /\ \E x \in {"failed", "retry_wait"} :
                    req' = [req EXCEPT ![s].claim = NoWorker, ![s].status = x]
        BY <2>5, <3>1 DEF FailOrRetry
      <3>3. req' = req \/ req[s].status = "processing"
        BY <1>0, <1>1, <3>2
      <3>4. StatesAgree' /\ Claims' /\ Spares'
        BY SMTT(40), <1>0, <1>1, <2>5, <3>2, <3>3 DEF StatesAgree, FailOrRetry
      <3> QED  BY <1>1, <2>2, <2>5, <3>4 DEF RequestInv, FailOrRetry, Frozen, Gone
    <2> QED  BY <1>9, <2>3, <2>4, <2>5
  <1>10. ASSUME UNCHANGED lifecycle, \A v \in Worker, t \in Subject : Busy(v, t)' => Busy(v, t)
         PROVE  StatesAgree' /\ RequestInv'
    BY <1>1, <1>10 DEF lifecycle, StatesAgree, RequestInv, Frozen, Gone
  <1>11. CASE UNCHANGED lifecycle /\ UNCHANGED work
    BY <1>10, <1>11 DEF Busy
  <1>12. ASSUME NEW w \in Worker, Crash(w)
         PROVE  StatesAgree' /\ RequestInv'
    BY <1>10, <1>12 DEF Crash, TypeOK, Busy
  <1>13. ASSUME NEW w \in Worker,
                \/ AccountDomain(w) \/ AccountCount(w) \/ BeginDomain(w) \/ Scan(w)
                \/ Pick(w) \/ Operate(w) \/ OperateFails(w) \/ Settle(w) \/ Record(w)
                \/ Drop(w) \/ Finish(w) \/ Catch(w)
                \/ BeginFinal(w) \/ VerifyFinal(w)
         PROVE  StatesAgree' /\ RequestInv'
    <2>1. work \in [Worker -> Job \cup {Idle}] /\ work[w] \in Job /\ UNCHANGED lifecycle
      BY <1>13, JobFields DEF TypeOK, AccountDomain, AccountCount, BeginDomain, Scan, Pick,
           Operate, OperateFails, Settle, Record, Drop, Finish, Catch, BeginFinal, VerifyFinal,
           At, Busy
    <2>2. /\ \A v \in Worker \ {w} : work'[v] = work[v]
          /\ work'[w] # Idle => work'[w].subject = work[w].subject
      BY <1>13, <2>1 DEF AccountDomain, AccountCount, BeginDomain, Scan, Pick, Operate,
           OperateFails, Settle, Record, Drop, Finish, Catch, BeginFinal, VerifyFinal, NextDomain,
           Goto, Throw, Start, Job
    <2>3. \A v \in Worker, t \in Subject : Busy(v, t)' => Busy(v, t)
      BY <2>1, <2>2, IdleAssumption DEF Busy
    <2> QED  BY <1>10, <2>1, <2>3
  <1> QED  BY <1>3, <1>4, <1>5, <1>6, <1>7, <1>8, <1>9, <1>11, <1>12, <1>13
           DEF Next, Step, ClaimDue, Overtake, Write, Upload, Name, EndElsewhere, vars, lifecycle
-----------------------------------------------------------------------------
(* What a step can change, and which action it takes.                      *)

\* What is gone stays gone, and only the closing transactions make it so.
LEMMA GoneStep ==
    ASSUME TypeOK, StatesAgree, [Next]_vars
    PROVE  /\ \A s \in Subject : Gone(s) => Gone(s)'
           /\ Gone("account")' => Gone("account") \/ \E w \in Worker : AccountClose(w)
           /\ Gone("organization")' => Gone("organization") \/ \E w \in Worker : Close(w)
  <1>1. \/ UNCHANGED <<user, org>>
        \/ user # "anonymized" /\ user' # "anonymized" /\ org # "purged" /\ org' # "purged"
        \/ user # "anonymized" /\ user' # "anonymized" /\ org' = org
        \/ org # "purged" /\ org' # "purged" /\ user' = user
        \/ \E w \in Worker : AccountClose(w) /\ user' = "anonymized"
        \/ \E w \in Worker : Close(w) /\ org' = "purged"
    <2>1. CASE ScheduleOrganization \/ CancelOrganization \/ ScheduleAccount \/ CancelAccount
      BY <2>1 DEF ScheduleOrganization, CancelOrganization, ScheduleAccount, CancelAccount,
           AccountCancelable, StatesAgree
    <2>2. ASSUME NEW w \in Worker, NEW s \in Subject, Claim(w, s)
          PROVE  \/ UNCHANGED <<user, org>>
                 \/ user # "anonymized" /\ user' # "anonymized" /\ org' = org
                 \/ org # "purged" /\ org' # "purged" /\ user' = user
      BY <2>2 DEF Claim, Claimable, StatesAgree, Subject
    <2>3. ASSUME NEW w \in Worker, AccountClose(w) \/ Close(w)
          PROVE  \/ UNCHANGED <<user, org>>
                 \/ AccountClose(w) /\ user' = "anonymized"
                 \/ Close(w) /\ org' = "purged"
      BY <2>3 DEF AccountClose, Close
    <2>4. CASE UNCHANGED <<user, org>>
      BY <2>4
    <2>5. ASSUME NEW w \in Worker, Step(w) \/ OperateFails(w) \/ Crash(w)
          PROVE  UNCHANGED <<user, org>> \/ AccountClose(w) \/ Close(w)
      BY <2>5 DEF Step, AccountDomain, AccountCount, BeginDomain, Scan, Pick, Operate,
           OperateFails, Settle, Record, Drop, Finish, Catch, BeginFinal, VerifyFinal,
           FailOrRetry, Crash, lifecycle
    <2>6. CASE \E w \in Worker : Step(w) \/ OperateFails(w) \/ Crash(w)
      BY <2>3, <2>5, <2>6
    <2>7. CASE \E w \in Worker, s \in Subject : Claim(w, s)
      BY <2>2, <2>7
    <2> QED  BY <2>1, <2>4, <2>6, <2>7
             DEF Next, ClaimDue, Overtake, RetryFailed, Write, Upload, Name, EndElsewhere, vars,
               lifecycle
  <1>2. \/ UNCHANGED <<user, org>>
        \/ user # "anonymized" /\ user' # "anonymized" /\ org # "purged" /\ org' # "purged"
        \/ user # "anonymized" /\ user' # "anonymized" /\ org' = org
        \/ org # "purged" /\ org' # "purged" /\ user' = user
        \/ \E w \in Worker : AccountClose(w) /\ user' = "anonymized" /\ org' = org
        \/ \E w \in Worker : Close(w) /\ org' = "purged" /\ user' = user
    BY <1>1 DEF AccountClose, Close
  <1> QED  BY <1>2 DEF Gone, Subject

\* How a worker of the organization comes to the step it is at.
LEMMA Arrival ==
    ASSUME TypeOK, StatesAgree, PlaceInv, [Next]_vars, NEW v \in Worker, Purging(v)',
           work'[v].step \in {"pick", "finish"} \cup OnItem
    PROVE  /\ Purging(v)
           /\ \/ work'[v] = work[v]
              \/ work'[v].step = "finish" /\ Scan(v)
              \/ work'[v].step = "pick" /\ (Scan(v) \/ Drop(v))
              \/ work'[v].step = "operate" /\ Pick(v)
              \/ work'[v].step = "settle" /\ Operate(v)
              \/ work'[v].step = "record" /\ Settle(v)
              \/ work'[v].step = "drop" /\ (Pick(v) \/ Record(v))
              \/ work'[v].step = "catch" /\ (Operate(v) \/ OperateFails(v) \/ Settle(v))
  <1>1. ~Gone("organization") /\ work'[v] # Idle /\ work'[v].subject = "organization"
    BY GoneStep DEF Purging, Busy, Subject
  <1>2. work \in [Worker -> Job \cup {Idle}]
    BY DEF TypeOK
  <1>3. CASE work'[v] = work[v]
    BY <1>1, <1>3 DEF Purging, Busy
  <1>4. ASSUME NEW w \in Worker, Step(w) \/ OperateFails(w) \/ Crash(w), work'[v] # work[v]
        PROVE  w = v /\ work[v] \in Job /\ work[v].subject = "organization"
    <2>1. work[w] # Idle
      BY <1>4 DEF Step, AccountDomain, AccountCount, AccountClose, BeginDomain, Scan, Pick,
           Operate, OperateFails, Settle, Record, Drop, Finish, Catch, BeginFinal, VerifyFinal,
           Close, FailOrRetry, Crash, At, Busy
    <2>2. work[w] \in Job
      BY SMTT(40), <2>1, JobFields
    <2>3. /\ \A u \in Worker \ {w} : work'[u] = work[u]
          /\ work'[w] # Idle => work'[w].subject = work[w].subject
      BY <1>2, <1>4, <2>2 DEF Step, AccountDomain, AccountCount, AccountClose, BeginDomain, Scan,
           Pick, Operate, OperateFails, Settle, Record, Drop, Finish, Catch, BeginFinal,
           VerifyFinal, Close, FailOrRetry, Crash, NextDomain, Goto, Throw, Start, Job
    <2> QED  BY SMTT(40), <1>1, <1>4, <2>2, <2>3
  <1>5. ASSUME NEW w \in Worker, Step(w) \/ OperateFails(w) \/ Crash(w), work'[v] # work[v]
        PROVE  /\ Purging(v)
               /\ \/ work'[v].step = "finish" /\ Scan(v)
                  \/ work'[v].step = "pick" /\ (Scan(v) \/ Drop(v))
                  \/ work'[v].step = "operate" /\ Pick(v)
                  \/ work'[v].step = "settle" /\ Operate(v)
                  \/ work'[v].step = "record" /\ Settle(v)
                  \/ work'[v].step = "drop" /\ (Pick(v) \/ Record(v))
                  \/ work'[v].step = "catch" /\ (Operate(v) \/ OperateFails(v) \/ Settle(v))
    <2>1. w = v /\ work[v] \in Job /\ work[v].subject = "organization"
      BY <1>4, <1>5
    <2>2. Purging(v)
      BY <1>1, <2>1, IdleAssumption DEF Purging, Busy
    <2>3. work'[v].step \notin {"domain", "throw", "verify", "close", "scan"}
      BY DEF OnItem
    <2>4. CASE AccountDomain(v) \/ AccountCount(v) \/ BeginDomain(v) \/ Finish(v) \/ Catch(v)
               \/ BeginFinal(v) \/ VerifyFinal(v)
      BY <1>1, <1>2, <2>1, <2>3, <2>4 DEF AccountDomain, AccountCount, BeginDomain, Finish, Catch,
           BeginFinal, VerifyFinal, NextDomain, Goto, Throw, Start, Job
    <2>5. CASE AccountClose(v) \/ Close(v) \/ FailOrRetry(v) \/ Crash(v)
      BY <1>1, <1>2, <2>1, <2>3, <2>5 DEF AccountClose, Close, FailOrRetry, Crash, Throw, Start, Job
    <2>6. CASE Scan(v)
      <3>1. work'[v].step \in {"finish", "pick"}
        BY <1>2, <2>1, <2>6 DEF Scan, Job
      <3> QED  BY <2>2, <2>6, <3>1
    <2>7. CASE Pick(v)
      <3>1. work'[v].step \in {"operate", "drop"}
        BY ZenonT(60), <1>2, <2>7, PickMoves DEF Moves
      <3> QED  BY <2>2, <2>7, <3>1
    <2>8. CASE Operate(v) \/ OperateFails(v)
      <3>0. PICK x \in {"catch", "settle"} : Goto(v, x) /\ (x = "settle" => Operate(v))
        BY <2>8 DEF Operate, OperateFails
      <3>1. work'[v].step = x
        BY <1>2, <2>1, <3>0 DEF Goto, Job
      <3> QED  BY <2>2, <2>8, <3>0, <3>1
    <2>9. CASE Settle(v)
      <3>1. work'[v].step \in {"catch", "record"}
        BY <1>2, <2>1, <2>9 DEF Settle, Goto, Job
      <3> QED  BY <2>2, <2>9, <3>1
    <2>11. CASE Record(v)
      <3>1. work'[v].step = "drop"
        BY <1>2, <2>1, <2>11 DEF Record, Goto, Job
      <3> QED  BY <2>2, <2>11, <3>1
    <2>10. CASE Drop(v)
      <3>1. work'[v].step \in {"scan", "pick"}
        BY <1>2, <2>10, DropMoves DEF Moves
      <3> QED  BY <2>2, <2>3, <2>10, <3>1
    <2> QED  BY <1>5, <2>1, <2>4, <2>5, <2>6, <2>7, <2>8, <2>9, <2>10, <2>11 DEF Step
  <1>6. ASSUME NEW w \in Worker, NEW s \in Subject, Claim(w, s)
        PROVE  work'[v] = work[v]
    <2>1. Start(s).step = "domain"
      BY DEF Start
    <2> QED  BY <1>2, <1>6, <2>1 DEF Claim, OnItem
  <1> QED  BY <1>3, <1>5, <1>6 DEF Next, ClaimDue, Overtake, ScheduleOrganization,
             CancelOrganization, ScheduleAccount, CancelAccount, RetryFailed, Write, Upload, Name,
             EndElsewhere, vars

\* How an item changes: claimed, verified after its object was seen absent, left
\* to wait, or deleted with the organization.
Taken(w, r) ==
    /\ Pick(w) /\ r \in work[w].todo \ work[w].blind /\ item[r].status # "verified"
    /\ item'[r] = [status |-> "processing", claim |-> w]
    /\ work'[w].row = r /\ work'[w].step = "operate"
Checked(w, r) ==
    /\ Record(w) /\ work[w].row = r /\ item[r].claim = w
    /\ item'[r] = [status |-> "verified", claim |-> NoWorker]
Released(w, r) ==
    /\ Catch(w) /\ work[w].row = r /\ item[r].claim = w
    /\ item'[r] = [status |-> "waiting", claim |-> NoWorker]
Closed(w) ==
    /\ Close(w) /\ NothingLeft /\ org' = "purged" /\ ~Gone("organization")
    /\ item' = [r \in Resource |-> NoItem]
    /\ \A d \in Checkpoints : cp'[d] = "verified" => d \in Listed("account") /\ cp[d] = "verified"

\* The final transaction purges the organization or throws.
LEMMA CloseCases ==
    ASSUME NEW w \in Worker, Close(w)
    PROVE  Closed(w) \/ (Throw(w) /\ UNCHANGED <<org, req, cp, item>>)
  BY DEF Close, Closed, At

\* An item changes only by the hand of a worker of the organization.
LEMMA ItemChange ==
    ASSUME TypeOK, PlaceInv, [Next]_vars, NEW r \in Resource, item'[r] # item[r]
    PROVE  \E w \in Worker :
              \/ Purging(w) /\ (Taken(w, r) \/ Checked(w, r) \/ Released(w, r))
              \/ Closed(w)
  <1>1. item \in [Resource -> ItemType] /\ work \in [Worker -> Job \cup {Idle}]
    BY DEF TypeOK, ItemType
  <1>2. ASSUME NEW w \in Worker, Pick(w)
        PROVE  Purging(w) /\ Taken(w, r)
    <2>1. PICK j : /\ Moves(w, j) /\ j.row \in work[w].todo
                   /\ \/ item' = item
                      \/ /\ j.step = "operate" /\ item[j.row].status # "verified"
                         /\ j.row \notin work[w].blind
                         /\ item' = [item EXCEPT ![j.row] =
                                        [status |-> "processing", claim |-> w]]
      BY <1>2, PickMoves
    <2>2. Purging(w)
      BY <1>2, PickMoves
    <2> QED  BY <1>1, <1>2, <2>1, <2>2 DEF Moves, Taken
  <1>3. ASSUME NEW w \in Worker, Record(w)
        PROVE  Purging(w) /\ Checked(w, r)
    BY <1>1, <1>3 DEF Record, Verified, Checked, At, Purging
  <1>4. ASSUME NEW w \in Worker, Catch(w)
        PROVE  Purging(w) /\ Released(w, r)
    BY <1>1, <1>4 DEF Catch, Released, At, Purging
  <1>5. ASSUME NEW w \in Worker, Close(w)
        PROVE  Closed(w)
    BY <1>5, CloseCases
  <1>6. ~UNCHANGED item
    OBVIOUS
  <1> QED  BY ZenonT(60), <1>2, <1>3, <1>4, <1>5, <1>6
           DEF Next, Step, ClaimDue, Overtake, Claim, ScheduleOrganization, CancelOrganization,
             ScheduleAccount, CancelAccount, RetryFailed, Write, Upload, Name, EndElsewhere,
             AccountDomain, AccountCount, AccountClose, BeginDomain, Scan, Operate, OperateFails,
             Settle, Drop, Finish, BeginFinal, VerifyFinal, FailOrRetry, Crash, vars, data

\* How the rows change: late writes add some; the purge of a domain of the account,
\* of a plain domain, or the drop of a row with something outside, remove some.
LEMMA RowChange ==
    ASSUME TypeOK, PlaceInv, [Next]_vars
    PROVE  /\ \A r \in rows' \ rows : \E s \in Subject : r \in Resource /\ Write(s, r)
           /\ \A r \in rows \ rows' : \E w \in Worker :
                 \/ AccountDomain(w) /\ r \in Of("account")
                 \/ Purging(w) /\ Scan(w) /\ r \in Of("organization") \ External
                 \/ Purging(w) /\ Drop(w) /\ r = work[w].row /\ r \in External
  <1>0. rows \subseteq Resource
    BY DEF TypeOK
  <1>1. CASE UNCHANGED rows
    BY <1>1
  <1>2. ASSUME NEW s \in Subject, NEW r \in Resource, Write(s, r)
        PROVE  rows' \ rows \subseteq {r} /\ rows \ rows' = {}
    BY <1>2 DEF Write
  <1>3. ASSUME NEW w \in Worker, AccountDomain(w)
        PROVE  rows' \ rows = {} /\ rows \ rows' \subseteq Of("account")
    <2>1. work[w] # Idle /\ work[w].subject = "account" /\ ~Last(w)
      BY <1>3 DEF AccountDomain, At, Busy
    <2>2. Domain(w) \in Listed("account")
      BY <2>1, DomainListed
    <2> QED  BY <1>3, <2>2, DomainFacts DEF AccountDomain
  <1>4. ASSUME NEW w \in Worker, Scan(w)
        PROVE  /\ Purging(w) /\ rows' \ rows = {}
               /\ rows \ rows' \subseteq Of("organization") \ External
    BY <1>4, ScanMoves
  <1>5. ASSUME NEW w \in Worker, Drop(w)
        PROVE  /\ Purging(w) /\ rows' \ rows = {} /\ rows \ rows' \subseteq {work[w].row}
               /\ work[w].row \in External
    BY <1>5, DropMoves
  <1>6. CASE \E w \in Worker : AccountDomain(w) \/ Scan(w) \/ Drop(w)
    BY <1>3, <1>4, <1>5, <1>6
  <1>7. CASE \E s \in Subject, r \in Resource : Write(s, r)
    BY SMTT(40), <1>2, <1>7
  <1> QED  BY ZenonT(60), <1>1, <1>6, <1>7
           DEF Next, Step, ClaimDue, Overtake, Claim, ScheduleOrganization, CancelOrganization,
             ScheduleAccount, CancelAccount, RetryFailed, Upload, Name, EndElsewhere,
             AccountCount, AccountClose, BeginDomain, Pick, Operate, OperateFails, Settle, Record,
             Finish, Catch, BeginFinal, VerifyFinal, Close, FailOrRetry, Crash, vars, data

\* How objects and grants change: late writes and uploads add some; a worker
\* removes the one its item is for, and a grant may end elsewhere.
LEMMA OutsideChange ==
    ASSUME TypeOK, [Next]_vars
    PROVE  /\ \A r \in outside' \ outside :
                 r \in Resource /\ (Upload(r) \/ (r \in Grants /\ \E s \in Subject : Write(s, r)))
           /\ \A r \in outside \ outside' :
                 \/ EndElsewhere(r)
                 \/ \E w \in Worker :
                       Purging(w) /\ r = work[w].row /\ (Operate(w) \/ OperateFails(w))
  <1>1. CASE UNCHANGED outside
    BY <1>1
  <1>2. ASSUME NEW s \in Subject, NEW r \in Resource, Write(s, r)
        PROVE  outside' \ outside \subseteq {r} \cap Grants /\ outside \ outside' = {}
    BY <1>2 DEF Write
  <1>3. ASSUME NEW r \in Resource, Upload(r)
        PROVE  outside' \ outside \subseteq {r} /\ outside \ outside' = {}
    BY <1>3 DEF Upload
  <1>4. ASSUME NEW w \in Worker, Operate(w) \/ OperateFails(w)
        PROVE  /\ Purging(w) /\ outside' \ outside = {}
               /\ outside \ outside' \subseteq {work[w].row}
    BY <1>4 DEF Operate, OperateFails, At, Purging
  <1>5. CASE \E s \in Subject, r \in Resource : Write(s, r)
    BY <1>2, <1>5
  <1>6. CASE \E r \in Resource : Upload(r)
    <2>1. PICK r \in Resource : Upload(r)
      BY <1>6
    <2>2. \A q \in outside' \ outside : q = r
      BY <1>3, <2>1
    <2>3. outside \ outside' = {}
      BY <1>3, <2>1
    <2> QED  BY <2>1, <2>2, <2>3
  <1>7. CASE \E w \in Worker : Operate(w) \/ OperateFails(w)
    BY <1>4, <1>7
  <1>8. CASE \E r \in Resource : EndElsewhere(r)
    <2>1. PICK r \in Resource : EndElsewhere(r)
      BY <1>8
    <2>2. outside' \ outside = {} /\ \A q \in outside \ outside' : q = r
      BY <2>1 DEF EndElsewhere
    <2> QED  BY <2>1, <2>2
  <1> QED  BY ZenonT(60), <1>1, <1>5, <1>6, <1>7, <1>8
           DEF Next, Step, ClaimDue, Overtake, Claim, ScheduleOrganization, CancelOrganization,
             ScheduleAccount, CancelAccount, RetryFailed, Name, AccountDomain, AccountCount,
             AccountClose, BeginDomain, Scan, Pick, Settle, Record, Drop, Finish, Catch,
             BeginFinal, VerifyFinal, Close, FailOrRetry, Crash, vars, data

\* How blank rows change: a late row may be blank, and an export gets its key.
LEMMA BlankChange ==
    ASSUME TypeOK, [Next]_vars
    PROVE  /\ \A r \in blank' \ blank : \E s \in Subject : r \in Resource /\ Write(s, r)
           /\ \A r \in blank \ blank' : r \in outside \cap outside' \cap Objects
  <1>1. CASE UNCHANGED blank
    BY <1>1
  <1>2. ASSUME NEW s \in Subject, NEW r \in Resource, Write(s, r)
        PROVE  blank' \ blank \subseteq {r} /\ blank \ blank' = {}
    BY <1>2 DEF Write
  <1>3. CASE \E s \in Subject, r \in Resource : Write(s, r)
    <2>1. PICK s \in Subject, r \in Resource : Write(s, r)
      BY <1>3
    <2>2. \A q \in blank' \ blank : q = r
      BY <1>2, <2>1
    <2>3. blank \ blank' = {}
      BY <1>2, <2>1
    <2> QED  BY <2>1, <2>2, <2>3
  <1>4. CASE \E r \in Resource : Name(r)
    <2>1. PICK r \in Resource : Name(r)
      BY <1>4
    <2>2. blank' \ blank = {} /\ (\A q \in blank \ blank' : q = r) /\ outside' = outside
      BY <2>1 DEF Name
    <2> QED  BY <2>1, <2>2 DEF Name
  <1> QED  BY ZenonT(60), <1>1, <1>3, <1>4
           DEF Next, Step, ClaimDue, Overtake, Claim, ScheduleOrganization, CancelOrganization,
             ScheduleAccount, CancelAccount, RetryFailed, Upload, EndElsewhere, AccountDomain,
             AccountCount, AccountClose, BeginDomain, Scan, Pick, Operate, OperateFails, Settle,
             Record, Drop, Finish, Catch, BeginFinal, VerifyFinal, Close, FailOrRetry, Crash,
             vars, data

\* A row is passed over only by the worker that drops it blindly.
LEMMA PassedChange ==
    ASSUME TypeOK, PlaceInv, [Next]_vars, NEW r \in passed' \ passed
    PROVE  \E w \in Worker : Purging(w) /\ Drop(w) /\ r = work[w].row /\ r \in External
  <1>1. ~UNCHANGED passed
    OBVIOUS
  <1>2. ASSUME NEW w \in Worker, Drop(w)
        PROVE  Purging(w) /\ r = work[w].row /\ r \in External
    BY <1>2, DropMoves
  <1> QED  BY ZenonT(60), <1>1, <1>2
           DEF Next, Step, ClaimDue, Overtake, Claim, ScheduleOrganization, CancelOrganization,
             ScheduleAccount, CancelAccount, RetryFailed, Write, Upload, Name, EndElsewhere,
             AccountDomain, AccountCount, AccountClose, BeginDomain, Scan, Pick, Operate,
             OperateFails, Settle, Record, Finish, Catch, BeginFinal, VerifyFinal, Close,
             FailOrRetry, Crash, vars, data, history

\* Histories and the kinds of mishaps only grow.
LEMMA HistoryGrows ==
    ASSUME TypeOK, [Next]_vars
    PROVE  /\ late \subseteq late' /\ stray \subseteq stray' /\ seen \subseteq seen'
           /\ passed \subseteq passed' /\ ended \subseteq ended' /\ missed \subseteq missed'
  <1> DEFINE Grown == /\ late \subseteq late' /\ stray \subseteq stray' /\ seen \subseteq seen'
                      /\ passed \subseteq passed' /\ ended \subseteq ended'
                      /\ missed \subseteq missed'
  <1>1. CASE UNCHANGED <<history, seen>>
    BY <1>1 DEF history
  <1>2. ASSUME NEW s \in Subject, NEW r \in Resource, Write(s, r)
        PROVE  Grown
    BY <1>2 DEF Write, Mishap
  <1>3. ASSUME NEW r \in Resource, Upload(r) \/ EndElsewhere(r)
        PROVE  Grown
    BY <1>3 DEF Upload, EndElsewhere, Mishap
  <1>4. ASSUME NEW w \in Worker, NEW s \in Subject, Overtake(w, s)
        PROVE  Grown
    BY <1>4 DEF Overtake, Claim, Mishap, data, history
  <1>5. ASSUME NEW w \in Worker, OperateFails(w) \/ Crash(w)
        PROVE  Grown
    BY <1>5 DEF OperateFails, Crash, Mishap, data, history
  <1>6. ASSUME NEW w \in Worker, Drop(w)
        PROVE  Grown
    BY <1>6 DEF Drop, bounds
  <1> QED  BY ZenonT(60), <1>1, <1>2, <1>3, <1>4, <1>5, <1>6
           DEF Next, Step, ClaimDue, Claim, ScheduleOrganization, CancelOrganization,
             ScheduleAccount, CancelAccount, RetryFailed, Name, AccountDomain, AccountCount,
             AccountClose, BeginDomain, Scan, Pick, Operate, Settle, Record, Finish, Catch,
             BeginFinal, VerifyFinal, Close, FailOrRetry, vars, data, history, bounds

\* On its way through an item a worker keeps its row and its list.
LEMMA SameRow ==
    ASSUME TypeOK, NEW w \in Worker, Operate(w) \/ OperateFails(w) \/ Settle(w) \/ Record(w)
    PROVE  /\ work[w].step \in OnItem /\ Purging(w)
           /\ work'[w].row = work[w].row /\ work'[w].todo = work[w].todo
           /\ work'[w].blind = work[w].blind
  <1>1. /\ work[w] # Idle /\ work[w].step \in OnItem /\ Purging(w)
        /\ \E x \in OnItem : Goto(w, x)
    BY DEF Operate, OperateFails, Settle, Record, At, Busy, OnItem, Purging
  <1>2. PICK j : /\ Moves(w, j)
                 /\ j.todo = work[w].todo /\ j.row = work[w].row /\ j.blind = work[w].blind
    BY <1>1, GotoMoves DEF OnItem, Steps
  <1> QED  BY <1>1, <1>2 DEF Moves, TypeOK

\* The row a worker is busy with is one with something outside.
LEMMA RowKinds ==
    ASSUME TypeOK, PlaceInv, NEW w \in Worker, Purging(w), work[w].step \in OnItem
    PROVE  work[w].row \in work[w].todo /\ work[w].row \in External /\ work[w].row \in Resource
  BY JobFields DEF PlaceInv, Purging, Busy
-----------------------------------------------------------------------------
(* The items.                                                              *)

\* ItemInv is inductive.
LEMMA ItemStep ==
    ASSUME TypeOK, StatesAgree, PlaceInv, ItemInv, [Next]_vars
    PROVE  ItemInv'
  <1>1. ASSUME NEW r \in Resource
        PROVE  /\ item'[r].claim # NoWorker => item'[r].status = "processing"
               /\ r \notin External => item'[r].status = "none"
    <2>1. CASE item'[r] = item[r]
      BY <2>1 DEF ItemInv
    <2>2. CASE item'[r] # item[r]
      <3>1. PICK w \in Worker :
               \/ Purging(w) /\ (Taken(w, r) \/ Checked(w, r) \/ Released(w, r))
               \/ Closed(w)
        BY <2>2, ItemChange
      <3>2. CASE Closed(w)
        BY <3>2 DEF Closed, NoItem
      <3>3. CASE Purging(w) /\ Taken(w, r)
        BY <3>3 DEF Taken, PlaceInv, Purging
      <3>4. CASE Purging(w) /\ Checked(w, r)
        BY <3>4, RowKinds DEF Checked, Record, At, OnItem
      <3>5. CASE Purging(w) /\ Released(w, r)
        BY <3>5, RowKinds DEF Released, Catch, At, OnItem
      <3> QED  BY <3>1, <3>2, <3>3, <3>4, <3>5
    <2> QED  BY <2>1, <2>2
  <1>2. ASSUME NEW v \in Worker, Purging(v)', work'[v].step \in OnItem,
               work'[v].row \notin work'[v].blind
        PROVE  item'[work'[v].row].status # "none"
    <2>0. item \in [Resource -> ItemType]
      BY DEF TypeOK, ItemType
    <2>1. CASE /\ Purging(v) /\ work[v].step \in OnItem
               /\ work'[v].row = work[v].row /\ work'[v].blind = work[v].blind
      <3>1. PICK r \in Resource : r = work[v].row
        BY <2>1, RowKinds
      <3>2. CASE item'[r] = item[r]
        BY <1>2, <2>1, <3>1, <3>2 DEF ItemInv
      <3>3. CASE item'[r] # item[r]
        <4>1. PICK w \in Worker :
                 \/ Purging(w) /\ (Taken(w, r) \/ Checked(w, r) \/ Released(w, r))
                 \/ Closed(w)
          BY <3>3, ItemChange
        <4>2. ~Closed(w)
          BY <1>2 DEF Closed, Purging, Gone
        <4> QED  BY <2>1, <3>1, <4>1, <4>2 DEF Taken, Checked, Released
      <3> QED  BY <3>2, <3>3
    <2>2. CASE Pick(v)
      <3>1. PICK j : /\ Moves(v, j) /\ j.row \in work[v].todo
                     /\ \/ j.row \in j.blind
                        \/ item' = item /\ item[j.row].status = "verified"
                        \/ item' = [item EXCEPT ![j.row] = [status |-> "processing", claim |-> v]]
        BY <2>2, PickMoves
      <3>2. j.row \in Resource
        BY <2>2, <3>1, PickMoves, JobFields DEF Purging, Busy
      <3>3. work'[v] = j
        BY <3>1 DEF Moves, TypeOK
      <3> QED  BY <1>2, <2>0, <3>1, <3>2, <3>3
    <2>3. CASE Operate(v) \/ OperateFails(v) \/ Settle(v) \/ Record(v)
      BY <2>1, <2>3, SameRow
    <2>4. \/ work'[v] = work[v] /\ Purging(v)
          \/ Pick(v) \/ Operate(v) \/ OperateFails(v) \/ Settle(v) \/ Record(v)
      BY <1>2, Arrival DEF OnItem
    <2> QED  BY <1>2, <2>1, <2>2, <2>3, <2>4
  <1> QED  BY <1>1, <1>2 DEF ItemInv
-----------------------------------------------------------------------------
(* Objects and grants.                                                     *)

\* OutsideInv is inductive: what is outside has a record of it, is stray or was
\* passed over.
LEMMA OutsideStep ==
    ASSUME TypeOK, StatesAgree, PlaceInv, ItemInv, OutsideInv, [Next]_vars
    PROVE  OutsideInv'
  <1>0. /\ rows \subseteq Resource /\ outside \subseteq External
        /\ External \subseteq Resource /\ stray \subseteq stray' /\ passed \subseteq passed'
    BY HistoryGrows DEF TypeOK, External, Objects, Grants
  <1>1. ASSUME NEW r \in External, r \in rows \ rows'
        PROVE  r \in passed' \/ (/\ item[r].status # "none"
                                 /\ r \notin Grants \cap outside)
    <2>1. PICK w \in Worker :
             \/ AccountDomain(w) /\ r \in Of("account")
             \/ Purging(w) /\ Scan(w) /\ r \in Of("organization") \ External
             \/ Purging(w) /\ Drop(w) /\ r = work[w].row /\ r \in External
      BY <1>1, RowChange
    <2>2. Purging(w) /\ Drop(w) /\ r = work[w].row /\ work[w].step = "drop"
      BY <1>1, <2>1, DomainFacts DEF Drop, At
    <2>3. CASE r \in work[w].blind
      BY <2>2, <2>3, DropMoves
    <2>4. CASE r \notin work[w].blind
      BY <2>2, <2>4 DEF ItemInv, OutsideInv, OnItem
    <2> QED  BY <2>3, <2>4
  <1>2. ASSUME NEW r \in Objects, r \in outside'
        PROVE  /\ item'[r].status = "verified" => r \in stray'
               /\ \/ r \in rows' \cup stray' \cup passed'
                  \/ item'[r].status \in {"processing", "waiting"}
    <2>0. r \in Resource /\ r \notin Grants /\ item[r] \in ItemType /\ r \in External
      BY DomainFacts DEF Objects, External, TypeOK, ItemType
    <2>1. CASE r \notin outside
      <3>1. Upload(r)
        BY <1>2, <2>0, <2>1, OutsideChange
      <3> QED  BY <2>0, <3>1 DEF Upload
    <2>2. CASE r \in outside
      <3>0. /\ item[r].status = "verified" => r \in stray
            /\ r \in rows \cup stray \cup passed \/ item[r].status \in {"processing", "waiting"}
        BY <2>2 DEF OutsideInv
      <3>1. CASE item'[r] # item[r]
        <4>1. PICK w \in Worker :
                 \/ Purging(w) /\ (Taken(w, r) \/ Checked(w, r) \/ Released(w, r))
                 \/ Closed(w)
          BY <2>0, <3>1, ItemChange
        <4>2. CASE Purging(w) /\ Checked(w, r)
          <5>1. r \in stray
            BY <2>2, <4>2 DEF Checked, Record, At, OutsideInv
          <5> QED  BY <1>0, <5>1
        <4>3. CASE Closed(w)
          <5>1. item'[r].status = "none"
            BY <2>0, <4>3 DEF Closed, NoItem
          <5>2. r \notin rows /\ item[r].status \in {"none", "verified"}
            BY <2>0, <4>3, DomainFacts DEF Closed, NothingLeft, External
          <5> QED  BY <1>0, <3>0, <5>1, <5>2
        <4> QED  BY <4>1, <4>2, <4>3 DEF Taken, Released
      <3>2. CASE item'[r] = item[r]
        <4>1. CASE r \in rows \ rows'
          BY <1>0, <1>1, <2>0, <3>0, <3>2, <4>1 DEF ItemType
        <4>2. CASE r \notin rows \ rows'
          BY <1>0, <3>0, <3>2, <4>2
        <4> QED  BY <4>1, <4>2
      <3> QED  BY <3>1, <3>2
    <2> QED  BY <2>1, <2>2
  <1>3. ASSUME NEW r \in Grants, r \in outside'
        PROVE  r \in rows' \cup passed' /\ item'[r].status # "verified"
    <2>0. r \in Resource /\ r \notin Objects /\ r \in External
      BY DomainFacts DEF Grants, External
    <2>1. CASE r \notin outside
      <3>1. PICK s \in Subject : Write(s, r)
        BY <1>3, <2>0, <2>1, OutsideChange DEF Upload
      <3> QED  BY <3>1 DEF Write, NoItem
    <2>2. CASE r \in outside
      <3>0. r \in rows \cup passed /\ item[r].status # "verified"
        BY <2>2 DEF OutsideInv
      <3>1. r \in rows' \cup passed'
        BY <1>0, <1>1, <2>0, <2>2, <3>0
      <3>2. item'[r].status # "verified"
        <4>1. SUFFICES ASSUME item'[r] # item[r]
                       PROVE  item'[r].status # "verified"
          BY <3>0
        <4>2. PICK w \in Worker :
                 \/ Purging(w) /\ (Taken(w, r) \/ Checked(w, r) \/ Released(w, r))
                 \/ Closed(w)
          BY <2>0, <4>1, ItemChange
        <4>3. ~(Purging(w) /\ Checked(w, r))
          <5>1. Purging(w) /\ Record(w) /\ work[w].row = r => work[w].row \notin work[w].blind
            BY DEF Record, At, PlaceInv, Purging, OnItem
          <5> QED  BY <2>2, <5>1 DEF Checked, OutsideInv, Record, At
        <4>4. Closed(w) => item'[r].status = "none"
          BY <2>0 DEF Closed, NoItem
        <4> QED  BY <4>2, <4>3, <4>4 DEF Taken, Released
      <3> QED  BY <3>1, <3>2
    <2> QED  BY <2>1, <2>2
  <1>4. ASSUME NEW r \in Resource, item[r].status # "none", r \in outside'
        PROVE  r \in outside \/ Upload(r)
    BY <1>4, OutsideChange DEF Write, NoItem
  <1>5. ASSUME NEW v \in Worker, Purging(v)', work'[v].step \in {"settle", "record", "drop"},
               work'[v].row \notin work'[v].blind,
               work'[v].row \in Grants, work'[v].row \in outside'
        PROVE  FALSE
    <2>0. PICK r \in Grants : r = work'[v].row /\ r \in Resource /\ r \in outside'
      BY <1>5 DEF Grants
    <2>1. /\ Purging(v)
          /\ \/ work'[v] = work[v]
             \/ work'[v].step = "settle" /\ Operate(v)
             \/ work'[v].step = "record" /\ Settle(v)
             \/ work'[v].step = "drop" /\ (Pick(v) \/ Record(v))
      BY <1>5, Arrival DEF OnItem
    <2>2. item[r].status # "none" => r \in outside
      <3>1. r \notin Objects
        BY DomainFacts
      <3> QED  BY <1>4, <2>0, <3>1 DEF Upload
    <2>3. CASE work'[v] = work[v]
      <3>1. item[r].status # "none"
        BY <1>5, <2>0, <2>1, <2>3 DEF ItemInv, OnItem
      <3> QED  BY <1>5, <2>0, <2>1, <2>2, <2>3, <3>1 DEF OutsideInv
    <2>4. CASE Operate(v)
      <3>1. r = work[v].row
        BY <2>0, <2>4, SameRow
      <3> QED  BY <2>0, <2>4, <3>1 DEF Operate
    <2>5. CASE work'[v].step = "drop" /\ Pick(v)
      <3>1. PICK j : /\ Moves(v, j)
                     /\ j.step = "drop" => j.row \in j.blind \/ item[j.row].status = "verified"
        BY ZenonT(60), <2>5, PickMoves
      <3>2. work'[v] = j
        BY <3>1 DEF Moves, TypeOK
      <3>3. item[r].status = "verified"
        BY <1>5, <2>0, <2>5, <3>1, <3>2
      <3> QED  BY <2>0, <2>2, <3>3 DEF OutsideInv
    <2>6. CASE Settle(v) \/ Record(v)
      <3>1. /\ r = work[v].row /\ work[v].step \in {"settle", "record"}
            /\ r \notin work[v].blind
        BY <1>5, <2>0, <2>6, SameRow DEF Settle, Record, At
      <3>2. r \in outside
        BY <2>0, <2>6 DEF Settle, Record, data
      <3> QED  BY <2>1, <3>1, <3>2 DEF OutsideInv
    <2> QED  BY <2>1, <2>3, <2>4, <2>5, <2>6
  <1>6. ASSUME NEW v \in Worker, Purging(v)', work'[v].step = "record",
               work'[v].row \in outside'
        PROVE  work'[v].row \in stray'
    <2>0. PICK r \in Resource : r = work'[v].row /\ r \in outside'
      BY <1>6, DataTypeStep DEF DataType, Objects, Grants
    <2>1. Purging(v) /\ (work'[v] = work[v] \/ Settle(v))
      BY <1>6, Arrival DEF OnItem
    <2>2. CASE work'[v] = work[v]
      <3>1. r \notin outside \ stray /\ item[r].status # "none"
        BY <1>6, <2>0, <2>1, <2>2 DEF OutsideInv, ItemInv, PlaceInv, Purging, OnItem
      <3>2. CASE r \in outside
        BY <1>0, <2>0, <3>1, <3>2
      <3>3. CASE Upload(r)
        <4>1. SeenAbsent(r)
          BY <1>6, <2>0, <2>1, <2>2 DEF SeenAbsent, Purging, Busy
        <4> QED  BY <2>0, <3>3, <4>1 DEF Upload
      <3> QED  BY <1>4, <2>0, <3>1, <3>2, <3>3
    <2>3. CASE Settle(v)
      <3>1. r = work[v].row /\ work[v].step = "settle" /\ outside' = outside
        BY <2>0, <2>3, SameRow DEF Settle, At, data
      <3>2. Absent(r)
        <4>1. SUFFICES ASSUME Goto(v, "catch") PROVE FALSE
          BY <2>3, <3>1 DEF Settle
        <4>2. work \in [Worker -> Job \cup {Idle}] /\ work[v] \in Job
          BY <2>1, JobFields DEF TypeOK, Purging, Busy
        <4> QED  BY <1>6, <4>1, <4>2 DEF Goto, Job
      <3>3. r \notin work[v].blind
        BY <2>1, <3>1 DEF PlaceInv, Purging, OnItem
      <3>4. r \notin Grants \cap outside
        BY <2>1, <3>1, <3>3 DEF OutsideInv
      <3> QED  BY <2>0, <3>1, <3>2, <3>4 DEF Absent
    <2> QED  BY <2>1, <2>2, <2>3
  <1> QED  BY <1>2, <1>3, <1>5, <1>6 DEF OutsideInv

\* A worker is about to close the account because it has counted no row.
LEMMA CountArrival ==
    ASSUME TypeOK, [Next]_vars, NEW v \in Worker, Busy(v, "account")', work'[v].step = "close"
    PROVE  \/ work'[v] = work[v] /\ Busy(v, "account")
           \/ AccountCount(v) /\ NoneRemains
  <1>1. work'[v] # Idle /\ work'[v].subject = "account"
    BY DEF Busy
  <1>2. work \in [Worker -> Job \cup {Idle}]
    BY DEF TypeOK
  <1>3. CASE work'[v] = work[v]
    BY <1>1, <1>3 DEF Busy
  <1>4. ASSUME NEW w \in Worker, Step(w) \/ OperateFails(w) \/ Crash(w), work'[v] # work[v]
        PROVE  AccountCount(v) /\ NoneRemains
    <2>1. work[w] # Idle
      BY <1>4 DEF Step, AccountDomain, AccountCount, AccountClose, BeginDomain, Scan, Pick,
           Operate, OperateFails, Settle, Record, Drop, Finish, Catch, BeginFinal, VerifyFinal,
           Close, FailOrRetry, Crash, At, Busy
    <2>2. work[w] \in Job
      BY <2>1, JobFields
    <2>3. /\ \A u \in Worker \ {w} : work'[u] = work[u]
          /\ work'[w] # Idle => work'[w].subject = work[w].subject
      BY <1>2, <1>4, <2>2 DEF Step, AccountDomain, AccountCount, AccountClose, BeginDomain, Scan,
           Pick, Operate, OperateFails, Settle, Record, Drop, Finish, Catch, BeginFinal,
           VerifyFinal, Close, FailOrRetry, Crash, NextDomain, Goto, Throw, Start, Job
    <2>4. w = v /\ work[v] \in Job /\ work[v].subject = "account"
      BY <1>1, <1>4, <2>2, <2>3
    <2>5. AccountDomain(v) \/ AccountCount(v) \/ AccountClose(v) \/ FailOrRetry(v) \/ Crash(v)
      BY <1>4, <2>4 DEF Step, BeginDomain, Scan, Pick, Operate, OperateFails, Settle, Record,
           Drop, Finish, Catch, BeginFinal, VerifyFinal, Close, At, Busy
    <2>6. ~Throw(v) /\ ~NextDomain(v) /\ ~(work' = [work EXCEPT ![v] = Idle])
      BY <1>1, <1>2, <2>4 DEF Throw, NextDomain, Start, Job
    <2> QED  BY SMTT(40), <2>5, <2>6 DEF AccountDomain, AccountCount, AccountClose, FailOrRetry, Crash
  <1>5. ASSUME NEW w \in Worker, NEW s \in Subject, Claim(w, s)
        PROVE  work'[v] = work[v]
    <2>1. Start(s).step = "domain"
      BY DEF Start
    <2> QED  BY <1>2, <1>5, <2>1 DEF Claim
  <1> QED  BY <1>3, <1>4, <1>5
           DEF Next, ClaimDue, Overtake, ScheduleOrganization, CancelOrganization, ScheduleAccount,
             CancelAccount, RetryFailed, Write, Upload, Name, EndElsewhere, vars

\* CountInv is inductive: what is written after the count is missed.
LEMMA CountStep ==
    ASSUME TypeOK, PlaceInv, CountInv, [Next]_vars
    PROVE  CountInv'
  <1> SUFFICES ASSUME NEW v \in Worker, Busy(v, "account")', work'[v].step = "close",
                      NEW r \in rows' \cap Of("account")
               PROVE  r \in missed'
    BY DEF CountInv
  <1>0. missed \subseteq missed'
    BY HistoryGrows
  <1>1. \/ work'[v] = work[v] /\ Busy(v, "account")
        \/ AccountCount(v) /\ NoneRemains
    BY CountArrival
  <1>2. CASE AccountCount(v) /\ NoneRemains
    BY <1>2 DEF AccountCount, NoneRemains, data
  <1>3. CASE work'[v] = work[v] /\ Busy(v, "account")
    <2>1. rows \cap Of("account") \subseteq missed
      BY <1>3 DEF CountInv
    <2>2. CASE r \in rows
      BY <1>0, <2>1, <2>2
    <2>3. CASE r \notin rows
      <3>1. PICK s \in Subject : Write(s, r)
        BY <2>3, RowChange
      <3>2. s = "account"
        BY <3>1, DomainFacts DEF Write, Subject
      <3>3. Counted
        BY SMTT(40), <1>3 DEF Counted, Busy
      <3> QED  BY <3>1, <3>2, <3>3 DEF Write
    <2> QED  BY <2>2, <2>3
  <1> QED  BY <1>1, <1>2, <1>3
-----------------------------------------------------------------------------
(* Checkpoints, and what is locked.                                        *)

\* How the checkpoint of a domain changes: with the purge of the account's domain,
\* when a worker has finished the organization's, or with the organization.
LEMMA CheckpointChange ==
    ASSUME TypeOK, PlaceInv, [Next]_vars, NEW d \in Checkpoints \ {Final}, cp'[d] # cp[d]
    PROVE  \E w \in Worker :
              \/ /\ AccountDomain(w) /\ Busy(w, "account") /\ d \in Listed("account")
                 /\ rows' \cap In(d) = {}
              \/ /\ Finish(w) /\ Purging(w) /\ d \in Listed("organization")
                 /\ d = Domain(w) /\ rows' = rows
              \/ /\ Closed(w) /\ Busy(w, "organization") /\ d \in Listed("organization")
  <1>0. cp \in [Checkpoints -> {"open", "processing", "verified"}]
    BY DEF TypeOK
  <1>1. ASSUME NEW w \in Worker, AccountDomain(w)
        PROVE  /\ Busy(w, "account") /\ d \in Listed("account")
               /\ rows' \cap In(d) = {}
    <2>1. Busy(w, "account") /\ ~Last(w)
      BY <1>1 DEF AccountDomain, At
    <2>2. Domain(w) \in Listed("account")
      BY <2>1, DomainListed DEF Busy
    <2> QED  BY <1>0, <1>1, <2>1, <2>2 DEF AccountDomain
  <1>2. ASSUME NEW w \in Worker, Finish(w)
        PROVE  Purging(w) /\ d \in Listed("organization") /\ d = Domain(w) /\ rows' = rows
    <2>1. Purging(w) /\ ~Last(w)
      BY <1>2 DEF Finish, At, Purging, PlaceInv
    <2>2. Domain(w) \in Listed("organization")
      BY <2>1, DomainListed DEF Busy, Purging
    <2> QED  BY <1>0, <1>2, <2>1, <2>2 DEF Finish
  <1>3. ASSUME NEW w \in Worker, Close(w)
        PROVE  Closed(w) /\ Busy(w, "organization") /\ d \in Listed("organization")
    BY <1>0, <1>3, CloseCases DEF Close, At, Closed, Checkpoints
  <1>4. ~\E w \in Worker : BeginFinal(w) \/ VerifyFinal(w)
    BY <1>0 DEF BeginFinal, VerifyFinal
  <1>5. ~UNCHANGED cp
    OBVIOUS
  <1> QED  BY ZenonT(60), <1>1, <1>2, <1>3, <1>4, <1>5
           DEF Next, Step, ClaimDue, Overtake, Claim, ScheduleOrganization, CancelOrganization,
             ScheduleAccount, CancelAccount, RetryFailed, Write, Upload, Name, EndElsewhere,
             AccountCount, AccountClose, BeginDomain, Scan, Pick, Operate, OperateFails, Settle,
             Record, Drop, Catch, FailOrRetry, Crash, vars, data

\* What is locked is unlocked only by its end.
LEMMA LockStep ==
    ASSUME TypeOK, StatesAgree, RequestInv, [Next]_vars, NEW s \in Subject, Frozen(s) \/ Gone(s)
    PROVE  Frozen(s)' \/ Gone(s)'
  <1>0. s = "account" \/ s = "organization"
    BY DEF Subject
  <1>1. CASE ScheduleOrganization \/ CancelOrganization
    BY <1>0, <1>1 DEF ScheduleOrganization, CancelOrganization, StatesAgree, Frozen, Gone
  <1>2. CASE ScheduleAccount \/ CancelAccount
    BY <1>0, <1>2 DEF ScheduleAccount, CancelAccount, AccountCancelable, StatesAgree, Frozen, Gone
  <1>3. ASSUME NEW w \in Worker, NEW t \in Subject, Claim(w, t)
        PROVE  Frozen(s)' \/ Gone(s)'
    BY <1>0, <1>3 DEF Claim, Frozen, Gone
  <1>4. ASSUME NEW w \in Worker, AccountClose(w) \/ Close(w)
        PROVE  Frozen(s)' \/ Gone(s)'
    BY <1>0, <1>4 DEF AccountClose, Close, Frozen, Gone
  <1>5. CASE UNCHANGED <<user, org>>
    BY <1>5 DEF Frozen, Gone
  <1> QED  BY ZenonT(60), <1>1, <1>2, <1>3, <1>4, <1>5
           DEF Next, Step, ClaimDue, Overtake, RetryFailed, Write, Upload, Name, EndElsewhere,
             AccountDomain, AccountCount, BeginDomain, Scan, Pick, Operate, OperateFails, Settle,
             Record, Drop, Finish, Catch, BeginFinal, VerifyFinal, FailOrRetry, Crash, vars,
             lifecycle

\* Nothing happens to what is not locked, for no worker works on it.
LEMMA IntactStep ==
    ASSUME TypeOK, StatesAgree, RequestInv, PlaceInv, ItemInv, ActiveIsIntact, [Next]_vars
    PROVE  ActiveIsIntact'
  <1> SUFFICES ASSUME NEW s \in Subject, ~Frozen(s)', ~Gone(s)'
               PROVE  /\ Initial \cap Of(s) \subseteq rows'
                      /\ Initial \cap Of(s) \cap (Objects \cup Grants)
                            \subseteq outside' \cup ended' \cup (blank' \cap Objects)
                      /\ passed' \cap Of(s) = {}
                      /\ \A d \in Listed(s) : cp'[d] = "open"
                      /\ \A r \in Of(s) : item'[r] = NoItem
    BY DEF ActiveIsIntact
  <1>1. ~Frozen(s) /\ ~Gone(s)
    BY LockStep
  <1>2. /\ Initial \cap Of(s) \subseteq rows
        /\ Initial \cap Of(s) \cap (Objects \cup Grants)
              \subseteq outside \cup ended \cup (blank \cap Objects)
        /\ passed \cap Of(s) = {}
        /\ \A d \in Listed(s) : cp[d] = "open"
        /\ \A r \in Of(s) : item[r] = NoItem
    BY <1>1 DEF ActiveIsIntact
  <1>3. \A w \in Worker : ~Busy(w, s)
    BY <1>1 DEF RequestInv
  <1>4. s = "account" \/ s = "organization"
    BY DEF Subject
  <1>5. ASSUME NEW r \in Of(s), r \in rows
        PROVE  r \in rows'
    BY <1>3, <1>4, <1>5, RowChange, DomainFacts DEF AccountDomain, At, Purging
  <1>6. ASSUME NEW r \in Of(s), r \in outside \cup ended \cup (blank \cap Objects)
        PROVE  r \in outside' \cup ended' \cup (blank' \cap Objects)
    <2>1. CASE r \in ended
      BY <2>1, HistoryGrows
    <2>2. CASE r \in blank \cap Objects
      BY <2>2, BlankChange
    <2>3. CASE r \in outside
      <3>1. s = "organization"
        BY <1>4, <2>3, DomainFacts DEF TypeOK, External
      <3>2. CASE EndElsewhere(r)
        BY <3>2 DEF EndElsewhere
      <3> QED  BY <1>3, <2>3, <3>1, <3>2, OutsideChange DEF Purging
    <2> QED  BY <1>6, <2>1, <2>2, <2>3
  <1>9. ASSUME NEW r \in passed' \cap Of(s)
        PROVE  FALSE
    <2>1. r \in passed' \ passed
      BY <1>2, <1>9
    <2>2. PICK w \in Worker : Purging(w) /\ r \in External
      BY <2>1, PassedChange
    <2> QED  BY <1>3, <1>4, <1>9, <2>2, DomainFacts DEF Purging
  <1>7. ASSUME NEW d \in Listed(s)
        PROVE  cp'[d] = "open"
    <2>1. d \in Checkpoints \ {Final}
      BY <1>4, LifecycleConstants DEF Checkpoints
    <2>2. Listed("account") \cap Listed("organization") = {}
      BY LifecycleConstants
    <2> QED  BY <1>2, <1>3, <1>4, <2>1, <2>2, CheckpointChange DEF Purging
  <1>8. ASSUME NEW r \in Of(s)
        PROVE  item'[r] = NoItem
    <2>1. r \in Resource
      BY DEF Of
    <2>2. SUFFICES ASSUME item'[r] # item[r]
                   PROVE  item'[r] = NoItem
      BY <1>2
    <2>3. PICK w \in Worker :
             \/ Purging(w) /\ (Taken(w, r) \/ Checked(w, r) \/ Released(w, r))
             \/ Closed(w)
      BY <2>1, <2>2, ItemChange
    <2>4. CASE Closed(w)
      BY <2>1, <2>4 DEF Closed
    <2>5. CASE Purging(w) /\ (Taken(w, r) \/ Checked(w, r) \/ Released(w, r))
      <3>1. s = "account"
        BY <1>3, <1>4, <2>5 DEF Purging
      <3>2. r \in External
        <4>1. CASE Taken(w, r)
          BY <2>5, <4>1 DEF Taken, PlaceInv, Purging
        <4>2. CASE Checked(w, r) \/ Released(w, r)
          BY <2>5, <4>2, RowKinds DEF Checked, Released, Record, Catch, At, OnItem
        <4> QED  BY <2>5, <4>1, <4>2
      <3> QED  BY <3>1, <3>2, DomainFacts
    <2> QED  BY <2>3, <2>4, <2>5
  <1> QED  BY <1>2, <1>5, <1>6, <1>7, <1>8, <1>9

\* The receipt is as true when it is written as it says, and stays so.
LEMMA DeletedStep ==
    ASSUME TypeOK, StatesAgree, PlaceInv, ItemInv, OutsideInv, CountInv, DeletedMeansGone,
           [Next]_vars
    PROVE  DeletedMeansGone'
  <1> SUFFICES ASSUME NEW s \in Subject, Gone(s)'
               PROVE  /\ rows' \cap Of(s) \subseteq missed'
                      /\ outside' \cap Of(s) \subseteq stray' \cup passed'
    BY DEF DeletedMeansGone
  <1>0. s = "account" \/ s = "organization"
    BY DEF Subject
  <1>1. /\ stray \subseteq stray' /\ passed \subseteq passed' /\ missed \subseteq missed'
        /\ outside \subseteq External /\ missed \subseteq Of("account")
    BY HistoryGrows DEF TypeOK, External
  <1>2. ASSUME NEW r \in Of(s), NEW t \in Subject, Write(t, r), Gone(s)
        PROVE  s = "account" /\ t = s
    <2>1. t = s
      BY <1>0, <1>2, DomainFacts DEF Write, Subject
    <2>2. ~Frozen(s)
      BY <1>0, <1>2 DEF Frozen, Gone
    <2> QED  BY <1>2, <2>1, <2>2 DEF Write
  <1>3. CASE Gone(s)
    <2>1. ASSUME NEW r \in rows' \cap Of(s)
          PROVE  r \in missed'
      <3>1. CASE r \in rows
        BY <1>1, <1>3, <2>1, <3>1 DEF DeletedMeansGone
      <3>2. CASE r \notin rows
        <4>1. PICK t \in Subject : Write(t, r)
          BY <2>1, <3>2, RowChange
        <4>2. s = "account" /\ t = s
          BY <1>2, <1>3, <2>1, <4>1
        <4>3. Counted
          BY <1>3, <4>2 DEF Counted
        <4> QED  BY <4>1, <4>2, <4>3 DEF Write
      <3> QED  BY <3>1, <3>2
    <2>2. ASSUME NEW r \in outside' \cap Of(s)
          PROVE  r \in stray' \cup passed'
      <3>1. CASE r \in outside
        BY <1>1, <1>3, <2>2, <3>1 DEF DeletedMeansGone
      <3>2. CASE r \notin outside
        <4>1. CASE Upload(r)
          <5>1. r \in Of("organization")
            BY <4>1, DomainFacts DEF Upload, External
          <5>2. s = "organization"
            BY <1>0, <2>2, <5>1, DomainFacts
          <5>3. r \notin rows
            BY <1>1, <1>3, <2>2, <5>2, DomainFacts DEF DeletedMeansGone
          <5> QED  BY <4>1, <5>3 DEF Upload
        <4>2. CASE r \in Grants /\ \E t \in Subject : Write(t, r)
          <5>1. s = "account"
            BY <1>2, <1>3, <2>2, <4>2
          <5> QED  BY <2>2, <4>2, <5>1, DomainFacts DEF External
        <4> QED  BY <2>2, <3>2, <4>1, <4>2, OutsideChange
      <3> QED  BY <3>1, <3>2
    <2> QED  BY <2>1, <2>2
  <1>4. CASE ~Gone(s) /\ s = "account"
    <2>1. PICK w \in Worker : AccountClose(w)
      BY <1>4, GoneStep
    <2>2. rows' = rows /\ outside' = outside /\ Busy(w, "account") /\ work[w].step = "close"
      BY <2>1 DEF AccountClose, data, At
    <2>3. rows \cap Of("account") \subseteq missed
      BY <2>2 DEF CountInv
    <2> QED  BY <1>1, <1>4, <2>2, <2>3, DomainFacts
  <1>5. CASE ~Gone(s) /\ s = "organization"
    <2>1. PICK w \in Worker : Close(w)
      BY <1>5, GoneStep
    <2>2. Closed(w)
      BY <1>5, <2>1, CloseCases DEF Gone
    <2>3. rows' = rows /\ outside' = outside /\ rows \cap Of("organization") = {}
      BY <2>1, <2>2 DEF Close, Closed, NothingLeft
    <2>4. ASSUME NEW r \in outside \cap Of("organization")
          PROVE  r \in stray \cup passed
      <3>1. r \in Resource /\ r \notin rows /\ item[r].status \in {"none", "verified"}
        BY <2>2, <2>3, <2>4 DEF Closed, NothingLeft, Of
      <3>2. CASE r \in Objects
        BY <2>4, <3>1, <3>2 DEF OutsideInv
      <3>3. CASE r \in Grants
        BY <2>4, <3>1, <3>3 DEF OutsideInv
      <3> QED  BY <1>1, <2>4, <3>2, <3>3 DEF External
    <2> QED  BY <1>1, <1>5, <2>3, <2>4
  <1> QED  BY <1>0, <1>3, <1>4, <1>5
-----------------------------------------------------------------------------
(* Why deletions are stranded.                                             *)

\* A worker takes up a subject only by claiming its request.
LEMMA BusyStep ==
    ASSUME TypeOK, [Next]_vars, NEW v \in Worker, NEW s \in Subject, Busy(v, s)'
    PROVE  Busy(v, s) \/ Claim(v, s)
  <1>1. work \in [Worker -> Job \cup {Idle}]
    BY DEF TypeOK
  <1>2. CASE UNCHANGED work
    BY <1>2 DEF Busy
  <1>3. ASSUME NEW w \in Worker, NEW t \in Subject, Claim(w, t)
        PROVE  Busy(v, s) \/ Claim(v, s)
    <2>1. work' = [work EXCEPT ![w] = Start(t)] /\ Start(t).subject = t
      BY <1>3 DEF Claim, Start
    <2>2. CASE v = w
      <3>1. t = s
        BY <1>1, <2>1, <2>2 DEF Busy
      <3> QED  BY <1>3, <2>2, <3>1
    <2>3. CASE v # w
      BY <1>1, <2>1, <2>3 DEF Busy
    <2> QED  BY <2>2, <2>3
  <1>4. ASSUME NEW w \in Worker, Step(w) \/ OperateFails(w) \/ Crash(w)
        PROVE  Busy(v, s)
    <2>1. work[w] # Idle
      BY <1>4 DEF Step, AccountDomain, AccountCount, AccountClose, BeginDomain, Scan, Pick,
           Operate, OperateFails, Settle, Record, Drop, Finish, Catch, BeginFinal, VerifyFinal,
           Close, FailOrRetry, Crash, At, Busy
    <2>2. work[w] \in Job
      BY <2>1, JobFields
    <2>3. /\ \A u \in Worker \ {w} : work'[u] = work[u]
          /\ work'[w] # Idle => work'[w].subject = work[w].subject
      BY <1>1, <1>4, <2>2 DEF Step, AccountDomain, AccountCount, AccountClose, BeginDomain, Scan,
           Pick, Operate, OperateFails, Settle, Record, Drop, Finish, Catch, BeginFinal,
           VerifyFinal, Close, FailOrRetry, Crash, NextDomain, Goto, Throw, Start, Job
    <2> QED  BY SMTT(40), <2>1, <2>3 DEF Busy
  <1> QED  BY <1>2, <1>3, <1>4 DEF Next, ClaimDue, Overtake, ScheduleOrganization,
             CancelOrganization, ScheduleAccount, CancelAccount, RetryFailed, Write, Upload, Name,
             EndElsewhere, vars

\* A worker about to record a revocation does so, unless it crashes.
LEMMA Departure ==
    ASSUME TypeOK, [Next]_vars, NEW v \in Worker, Purging(v),
           work[v].step \in {"settle", "record"}
    PROVE  work'[v] = work[v] \/ Settle(v) \/ Record(v) \/ Crash(v)
  <1>1. work \in [Worker -> Job \cup {Idle}] /\ work[v] # Idle /\ work[v].subject = "organization"
    BY DEF TypeOK, Purging, Busy
  <1>2. CASE UNCHANGED work
    BY <1>2
  <1>3. ASSUME NEW w \in Worker, NEW s \in Subject, Claim(w, s)
        PROVE  work'[v] = work[v]
    BY <1>1, <1>3 DEF Claim
  <1>4. ASSUME NEW w \in Worker, Step(w) \/ OperateFails(w) \/ Crash(w)
        PROVE  work'[v] = work[v] \/ Settle(v) \/ Record(v) \/ Crash(v)
    <2>1. CASE w = v
      BY SMTT(40), <1>1, <1>4, <2>1 DEF Step, AccountDomain, AccountCount, AccountClose, BeginDomain, Scan,
           Pick, Operate, OperateFails, Drop, Finish, Catch, BeginFinal, VerifyFinal, Close,
           FailOrRetry, At, Busy, Purging
    <2>2. CASE w # v
      BY <1>1, <1>4, <2>2 DEF Step, AccountDomain, AccountCount, AccountClose, BeginDomain, Scan,
           Pick, Operate, OperateFails, Settle, Record, Drop, Finish, Catch, BeginFinal,
           VerifyFinal, Close, FailOrRetry, Crash, NextDomain, Goto, Throw
    <2> QED  BY <2>1, <2>2
  <1> QED  BY <1>2, <1>3, <1>4 DEF Next, ClaimDue, Overtake, ScheduleOrganization,
             CancelOrganization, ScheduleAccount, CancelAccount, RetryFailed, Write, Upload, Name,
             EndElsewhere, vars

\* Until one worker overtakes another, whoever works on a subject holds its claim.
LEMMA HolderStep ==
    ASSUME TypeOK, StatesAgree, RequestInv, SoloInv, [Next]_vars, "overlap" \notin seen'
    PROVE  \A v \in Worker, s \in Subject : Busy(v, s)' => req'[s].claim = v
  <1>0. "overlap" \notin seen
    BY HistoryGrows
  <1>1. \A v \in Worker, s \in Subject : Busy(v, s) => req[s].claim = v
    BY <1>0 DEF SoloInv
  <1>2. /\ req \in [Subject -> [status : Unresolved \cup {"none", "completed"},
                                claim : Worker \cup {NoWorker}, attempts : 0..MaxAttempts]]
        /\ work \in [Worker -> Job \cup {Idle}]
    BY DEF TypeOK
  <1> SUFFICES ASSUME NEW v \in Worker, NEW s \in Subject, Busy(v, s)'
               PROVE  req'[s].claim = v
    OBVIOUS
  <1>3. s = "account" \/ s = "organization"
    BY DEF Subject
  <1>4. ASSUME NEW w \in Worker, NEW t \in Subject, Claim(w, t), Holder(t) = {}
        PROVE  req'[s].claim = v
    <2>1. \A u \in Worker : ~Busy(u, t)
      BY <1>1, <1>4 DEF Holder
    <2>2. work' = [work EXCEPT ![w] = Start(t)] /\ Start(t).subject = t
      BY <1>4 DEF Claim, Start
    <2>3. PICK n : req' = [req EXCEPT ![t] = [status |-> "processing", claim |-> w, attempts |-> n]]
      BY <1>4 DEF Claim
    <2>4. CASE v = w
      <3>1. s = t
        BY <1>2, <2>2, <2>4 DEF Busy
      <3> QED  BY <1>2, <2>3, <2>4, <3>1
    <2>5. CASE v # w
      <3>1. Busy(v, s)
        BY <1>2, <2>2, <2>5 DEF Busy
      <3>2. s # t
        BY <2>1, <3>1
      <3> QED  BY <1>1, <1>2, <2>3, <3>1, <3>2
    <2> QED  BY <2>4, <2>5
  <1>5. ASSUME NEW w \in Worker, NEW t \in Subject, Overtake(w, t)
        PROVE  FALSE
    BY SMTT(40), <1>5 DEF Overtake, Mishap
  <1>6. CASE ~\E w \in Worker, t \in Subject : Claim(w, t)
    <2>1. Busy(v, s) /\ req[s].claim = v /\ (Frozen(s) \/ Gone(s))
      BY <1>1, <1>6, BusyStep DEF RequestInv
    <2>2. SUFFICES req'[s].claim = req[s].claim
      BY <2>1
    <2>3. CASE ScheduleOrganization \/ CancelOrganization
      <3>1. s # "organization"
        BY <2>1, <2>3 DEF ScheduleOrganization, CancelOrganization, Frozen, Gone, StatesAgree
      <3> QED  BY <1>2, <2>3, <3>1 DEF ScheduleOrganization, CancelOrganization, Request
    <2>4. CASE ScheduleAccount \/ CancelAccount
      <3>1. s # "account"
        BY <2>1, <2>4 DEF ScheduleAccount, CancelAccount, AccountCancelable, Frozen, Gone,
             StatesAgree
      <3> QED  BY <1>2, <2>4, <3>1 DEF ScheduleAccount, CancelAccount, Request
    <2>5. ASSUME NEW t \in Subject, RetryFailed(t)
          PROVE  req'[s].claim = req[s].claim
      BY <1>2, <2>5 DEF RetryFailed
    <2>6. ASSUME NEW w \in Worker, AccountClose(w)
          PROVE  req'[s].claim = req[s].claim
      <3>1. CASE UNCHANGED req
        BY <3>1
      <3>2. CASE ~UNCHANGED req
        <4>1. /\ req["account"].claim = w /\ work' = [work EXCEPT ![w] = Idle]
              /\ req' = [req EXCEPT !["account"].status = "completed",
                                    !["account"].claim = NoWorker]
          BY <2>6, <3>2 DEF AccountClose
        <4>2. v # w
          BY <1>2, <4>1 DEF Busy
        <4>3. s # "account"
          BY <2>1, <4>1, <4>2
        <4> QED  BY <1>2, <4>1, <4>3
      <3> QED  BY <3>1, <3>2
    <2>7. ASSUME NEW w \in Worker, Close(w)
          PROVE  req'[s].claim = req[s].claim
      <3>1. CASE UNCHANGED req
        BY <3>1
      <3>2. CASE ~UNCHANGED req
        <4>1. /\ req["organization"].claim = w /\ work' = [work EXCEPT ![w] = Idle]
              /\ req' = [req EXCEPT !["organization"].status = "completed",
                                    !["organization"].claim = NoWorker]
          BY <2>7, <3>2 DEF Close
        <4>2. v # w
          BY <1>2, <4>1 DEF Busy
        <4>3. s # "organization"
          BY <2>1, <4>1, <4>2
        <4> QED  BY <1>2, <4>1, <4>3
      <3> QED  BY <3>1, <3>2
    <2>8. ASSUME NEW w \in Worker, FailOrRetry(w)
          PROVE  req'[s].claim = req[s].claim
      <3>1. PICK t \in Subject : t = work[w].subject
        BY <2>8, JobFields DEF FailOrRetry
      <3>2. \/ req' = req
            \/ /\ req[t].claim = w
               /\ \E x \in {"failed", "retry_wait"} :
                    req' = [req EXCEPT ![t].claim = NoWorker, ![t].status = x]
        BY <2>8, <3>1 DEF FailOrRetry
      <3>3. v # w
        BY <1>2, <2>8 DEF FailOrRetry, Busy
      <3>4. req' = req \/ s # t
        BY <2>1, <3>2, <3>3
      <3> QED  BY <1>2, <3>2, <3>4
    <2>9. CASE UNCHANGED req
      BY <2>9
    <2> QED  BY ZenonT(60), <1>6, <2>3, <2>4, <2>5, <2>6, <2>7, <2>8, <2>9
             DEF Next, Step, ClaimDue, Overtake, Write, Upload, Name, EndElsewhere, AccountDomain,
               AccountCount, BeginDomain, Scan, Pick, Operate, OperateFails, Settle, Record, Drop,
               Finish, Catch, BeginFinal, VerifyFinal, Crash, vars, lifecycle
  <1>7. CASE \E w \in Worker, t \in Subject : Claim(w, t)
    <2>1. \E w \in Worker, t \in Subject : ClaimDue(w, t) \/ Overtake(w, t)
      <3>1. ~UNCHANGED work
        <4>1. PICK w \in Worker, t \in Subject : Claim(w, t)
          BY <1>7
        <4>2. Start(t) \in Job /\ work[w] = Idle /\ work' = [work EXCEPT ![w] = Start(t)]
          BY <4>1 DEF Claim, Start, Job, Steps
        <4> QED  BY <1>2, <4>2, IdleAssumption
      <3>2. ASSUME NEW w \in Worker, Step(w) \/ OperateFails(w) \/ Crash(w)
            PROVE  FALSE
        <4>1. work[w] # Idle
          BY SMTT(40), <3>2 DEF Step, AccountDomain, AccountCount, AccountClose, BeginDomain, Scan, Pick,
               Operate, OperateFails, Settle, Record, Drop, Finish, Catch, BeginFinal,
               VerifyFinal, Close, FailOrRetry, Crash, At, Busy
        <4>2. \A u \in Worker : work[u] = Idle => work'[u] = work[u]
          BY <1>2, <3>2, <4>1 DEF Step, AccountDomain, AccountCount, AccountClose, BeginDomain,
               Scan, Pick, Operate, OperateFails, Settle, Record, Drop, Finish, Catch, BeginFinal,
               VerifyFinal, Close, FailOrRetry, Crash, NextDomain, Goto, Throw
        <4>3. PICK u \in Worker, t \in Subject : Claim(u, t)
          BY <1>7
        <4>4. Start(t) \in Job /\ work[u] = Idle /\ work'[u] = Start(t)
          BY <1>2, <4>3 DEF Claim, Start, Job, Steps
        <4> QED  BY <4>2, <4>4, IdleAssumption
      <3> QED  BY <3>1, <3>2 DEF Next, ScheduleOrganization, CancelOrganization, ScheduleAccount,
                 CancelAccount, RetryFailed, Write, Upload, Name, EndElsewhere, vars
    <2> QED  BY <1>4, <1>5, <2>1 DEF ClaimDue
  <1> QED  BY <1>6, <1>7

\* SoloInv is inductive: an undisturbed worker stays so until another overtakes it.
LEMMA SoloStep ==
    ASSUME TypeOK, StatesAgree, RequestInv, PlaceInv, ItemInv, SoloInv, [Next]_vars
    PROVE  SoloInv'
  <1> SUFFICES ASSUME "overlap" \notin seen'
               PROVE  /\ \A v \in Worker, s \in Subject : Busy(v, s)' => req'[s].claim = v
                      /\ \A v \in Worker : Purging(v)' => Undisturbed(v)'
                      /\ \A r \in Resource :
                            item'[r].status \in {"processing", "waiting"} => r \in rows'
                      /\ \A r \in blank' : item'[r].status = "none"
    BY DEF SoloInv
  <1>0. "overlap" \notin seen
    BY HistoryGrows
  <1>1. \A v, w \in Worker : Purging(v) /\ Purging(w) => v = w
    BY <1>0 DEF SoloInv, Purging, Subject
  <1>2. item \in [Resource -> ItemType] /\ work \in [Worker -> Job \cup {Idle}]
    BY DEF TypeOK, ItemType
  <1>3. ASSUME NEW v \in Worker, Purging(v), work[v].step \in {"pick"} \cup OnItem
        PROVE  /\ work[v].todo \subseteq rows /\ work[v].todo \cap blank \subseteq work[v].blind
               /\ work[v].todo \subseteq External /\ work[v].blind \subseteq Resource
               /\ \A r \in work[v].blind : item[r].status = "none"
    BY <1>0, <1>3, JobFields DEF SoloInv, Undisturbed, PlaceInv, Purging, Busy
  <1>4. ASSUME NEW v \in Worker, Purging(v), work[v].step \in {"pick"} \cup OnItem
        PROVE  /\ work[v].todo \cap blank' \subseteq work[v].blind
               /\ \A r \in work[v].blind : item'[r].status = "none"
    <2>1. ASSUME NEW r \in work[v].todo, r \in blank'
          PROVE  r \in blank
      <3>1. r \in rows
        BY <1>3, <1>4, <2>1
      <3> QED  BY <2>1, <3>1, BlankChange DEF Write
    <2>2. ASSUME NEW r \in work[v].blind
          PROVE  item'[r].status = "none"
      <3>1. r \in Resource /\ item[r].status = "none" /\ item[r].claim = NoWorker
        BY <1>3, <1>4, <2>2 DEF ItemInv
      <3>2. SUFFICES ASSUME item'[r] # item[r]
                     PROVE  item'[r].status = "none"
        BY <3>1
      <3>3. PICK w \in Worker :
               \/ Purging(w) /\ (Taken(w, r) \/ Checked(w, r) \/ Released(w, r))
               \/ Closed(w)
        BY <3>1, <3>2, ItemChange
      <3>4. CASE Closed(w)
        BY <3>1, <3>4 DEF Closed, NoItem
      <3>5. ~(Purging(w) /\ Taken(w, r))
        BY <1>1, <1>4, <2>2 DEF Taken
      <3>6. ~Checked(w, r) /\ ~Released(w, r)
        BY <3>1, LifecycleConstants DEF Checked, Released
      <3> QED  BY <3>3, <3>4, <3>5, <3>6
    <2> QED  BY <1>3, <1>4, <2>1, <2>2
  <1>5. ASSUME NEW v \in Worker, Purging(v)', work'[v].step \in {"pick"} \cup OnItem
        PROVE  /\ work'[v].todo \subseteq rows'
               /\ work'[v].todo \cap blank' \subseteq work'[v].blind
               /\ \A r \in work'[v].blind : item'[r].status = "none"
    <2>1. Purging(v)
      BY <1>5, Arrival DEF OnItem
    <2>2. CASE work'[v] = work[v]
      <3>1. /\ work[v].step \in {"pick"} \cup OnItem
            /\ work[v].todo \subseteq rows /\ work[v].todo \subseteq External
        BY <1>3, <1>5, <2>1, <2>2
      <3>2. ASSUME NEW r \in work[v].todo, r \notin rows'
            PROVE  FALSE
        <4>1. PICK w \in Worker :
                 \/ AccountDomain(w) /\ r \in Of("account")
                 \/ Purging(w) /\ Scan(w) /\ r \in Of("organization") \ External
                 \/ Purging(w) /\ Drop(w) /\ r = work[w].row /\ r \in External
          BY <3>1, <3>2, RowChange
        <4>2. Purging(w) /\ Drop(w)
          BY <3>1, <3>2, <4>1, DomainFacts
        <4>3. PICK j : Moves(w, j) /\ j.step # "drop"
          BY <4>2, DropMoves
        <4>4. work[v].step = "drop" /\ work'[v] = j
          BY <1>1, <1>2, <2>1, <4>2, <4>3 DEF Moves, Drop, At
        <4> QED  BY <2>2, <4>3, <4>4
      <3>3. work'[v].todo \subseteq rows'
        BY <2>2, <3>1, <3>2
      <3> QED  BY <1>4, <2>1, <2>2, <3>1, <3>3
    <2>3. CASE Scan(v)
      <3>1. PICK j : /\ Moves(v, j)
                     /\ j.step = "pick" => /\ j.todo \subseteq rows /\ rows' = rows
                                           /\ j.blind = blank \cap j.todo /\ blank' = blank
                     /\ j.step \in {"finish", "pick"}
        BY <2>3, ScanMoves
      <3>2. work'[v] = j /\ item' = item
        BY <1>2, <2>3, <3>1 DEF Moves, Scan
      <3>3. \A r \in blank : item[r].status = "none"
        BY <1>0 DEF SoloInv
      <3> QED  BY <1>5, <3>1, <3>2, <3>3 DEF OnItem
    <2>4. CASE Drop(v)
      <3>1. PICK j : /\ Moves(v, j) /\ j.todo = work[v].todo \ {work[v].row}
                     /\ j.blind = work[v].blind \ {work[v].row}
        BY <2>4, DropMoves
      <3>2. /\ work'[v] = j /\ rows' = rows \ {work[v].row}
            /\ work[v].step \in {"pick"} \cup OnItem
        BY <1>2, <2>4, <3>1 DEF Moves, Drop, At, OnItem
      <3> QED  BY <1>3, <1>4, <2>1, <3>1, <3>2
    <2>5. CASE Pick(v)
      <3>1. PICK j : Moves(v, j) /\ j.todo = work[v].todo /\ j.blind = work[v].blind
        BY <2>5, PickMoves
      <3>2. work'[v] = j /\ rows' = rows /\ work[v].step \in {"pick"} \cup OnItem
        BY <1>2, <2>5, <3>1 DEF Moves, Pick, At
      <3> QED  BY <1>3, <1>4, <2>1, <3>1, <3>2
    <2>6. CASE Operate(v) \/ OperateFails(v) \/ Settle(v) \/ Record(v)
      <3>1. /\ work'[v].todo = work[v].todo /\ work'[v].blind = work[v].blind
            /\ work[v].step \in {"pick"} \cup OnItem
        BY <2>6, SameRow
      <3>2. rows' = rows
        BY <2>6 DEF Operate, OperateFails, Settle, Record, data
      <3> QED  BY <1>3, <1>4, <2>1, <3>1, <3>2
    <2> QED  BY <1>5, <2>2, <2>3, <2>4, <2>5, <2>6, Arrival DEF OnItem
  <1>6. ASSUME NEW v \in Worker, Purging(v)', work'[v].step \in {"operate", "settle", "record"}
        PROVE  item'[work'[v].row].claim = v
    <2>1. /\ Purging(v)
          /\ \/ work'[v] = work[v]
             \/ work'[v].step = "operate" /\ Pick(v)
             \/ work'[v].step = "settle" /\ Operate(v)
             \/ work'[v].step = "record" /\ Settle(v)
      BY <1>6, Arrival DEF OnItem
    <2>2. CASE work'[v] = work[v]
      <3>1. PICK r \in Resource : r = work[v].row
        BY <1>6, <2>1, <2>2, RowKinds DEF OnItem
      <3>2. item[r].claim = v
        BY <1>0, <1>6, <2>1, <2>2, <3>1 DEF SoloInv, Undisturbed
      <3>3. ASSUME item'[r] # item[r]
            PROVE  FALSE
        <4>1. PICK w \in Worker :
                 \/ Purging(w) /\ (Taken(w, r) \/ Checked(w, r) \/ Released(w, r))
                 \/ Closed(w)
          BY <3>3, ItemChange
        <4>2. ~Closed(w)
          BY <1>6 DEF Closed, Purging, Gone
        <4>3. w = v
          BY <1>1, <2>1, <4>1, <4>2
        <4>4. ~Taken(v, r) /\ ~Released(v, r)
          BY <1>6, <2>2 DEF Taken, Released, Pick, Catch, At
        <4>5. Record(v)
          BY <4>1, <4>2, <4>3, <4>4 DEF Checked
        <4>6. Goto(v, "drop") /\ work[v] \in Job
          BY <4>5, JobFields DEF Record, At, Busy
        <4>7. work'[v].step = "drop"
          BY <1>2, <4>6 DEF Goto, Job
        <4> QED  BY <1>6, <4>7
      <3> QED  BY <2>2, <3>1, <3>2, <3>3
    <2>3. CASE work'[v].step = "operate" /\ Pick(v)
      <3>1. PICK j : /\ Moves(v, j) /\ j.row \in work[v].todo
                     /\ \/ j.step = "drop"
                        \/ item' = [item EXCEPT ![j.row] = [status |-> "processing", claim |-> v]]
        BY <2>3, PickMoves
      <3>2. work'[v] = j /\ j.row \in Resource
        BY <1>2, <2>1, <3>1, JobFields DEF Moves, Purging, Busy
      <3> QED  BY <1>2, <2>3, <3>1, <3>2
    <2>4. CASE Operate(v) \/ Settle(v)
      <3>1. work'[v].row = work[v].row
        BY <2>4, SameRow
      <3>2. item' = item /\ work[v].step \in {"operate", "settle"}
        BY <2>4 DEF Operate, Settle, At, data
      <3> QED  BY <1>0, <2>1, <3>1, <3>2 DEF SoloInv, Undisturbed
    <2> QED  BY <2>1, <2>2, <2>3, <2>4
  <1>7. ASSUME NEW v \in Worker, Purging(v)', work'[v].step = "drop",
               work'[v].row \notin work'[v].blind
        PROVE  item'[work'[v].row].status = "verified"
    <2>1. Purging(v) /\ (work'[v] = work[v] \/ Pick(v) \/ Record(v))
      BY <1>7, Arrival DEF OnItem
    <2>2. CASE work'[v] = work[v]
      <3>1. PICK r \in Resource : r = work[v].row
        BY <1>7, <2>1, <2>2, RowKinds DEF OnItem
      <3>2. item[r].status = "verified"
        BY <1>0, <1>7, <2>1, <2>2, <3>1 DEF SoloInv, Undisturbed
      <3>3. item'[r] = item[r] \/ item'[r].status = "verified"
        <4>1. SUFFICES ASSUME item'[r] # item[r]
                       PROVE  item'[r].status = "verified"
          OBVIOUS
        <4>2. PICK w \in Worker :
                 \/ Purging(w) /\ (Taken(w, r) \/ Checked(w, r) \/ Released(w, r))
                 \/ Closed(w)
          BY <4>1, ItemChange
        <4>3. ~Closed(w)
          BY <1>7 DEF Closed, Purging, Gone
        <4>4. ~Taken(w, r)
          BY <3>2 DEF Taken
        <4>5. ~Released(w, r)
          BY <3>2, LifecycleConstants DEF Released, ItemInv
        <4> QED  BY <4>2, <4>3, <4>4, <4>5 DEF Checked
      <3> QED  BY <2>2, <3>1, <3>2, <3>3
    <2>3. CASE Pick(v)
      <3>1. PICK j : /\ Moves(v, j)
                     /\ \/ j.step = "operate"
                        \/ /\ item' = item
                           /\ j.row \in j.blind \/ item[j.row].status = "verified"
        BY <2>3, PickMoves
      <3>2. work'[v] = j
        BY <1>2, <3>1 DEF Moves
      <3> QED  BY <1>7, <3>1, <3>2
    <2>4. CASE Record(v)
      <3>1. PICK r \in Resource : r = work[v].row /\ r = work'[v].row
        BY <2>4, SameRow, RowKinds
      <3>2. item[r].claim = v
        BY <1>0, <2>1, <2>4, <3>1 DEF SoloInv, Undisturbed, Record, At
      <3>3. item' = [item EXCEPT ![r] = [status |-> "verified", claim |-> NoWorker]]
        BY <2>4, <3>1, <3>2 DEF Record, Verified
      <3> QED  BY <1>2, <3>1, <3>3
    <2> QED  BY <2>1, <2>2, <2>3, <2>4
  <1>8. ASSUME NEW r \in Resource, item'[r].status \in {"processing", "waiting"}
        PROVE  r \in rows'
    <2>1. CASE item'[r] = item[r]
      <3>1. r \in rows
        BY <1>0, <1>8, <2>1 DEF SoloInv
      <3>2. r \in External
        BY <1>8, <2>1 DEF ItemInv
      <3>3. ASSUME r \notin rows'
            PROVE  FALSE
        <4>1. PICK w \in Worker :
                 \/ AccountDomain(w) /\ r \in Of("account")
                 \/ Purging(w) /\ Scan(w) /\ r \in Of("organization") \ External
                 \/ Purging(w) /\ Drop(w) /\ r = work[w].row /\ r \in External
          BY <3>1, <3>3, RowChange
        <4>2. Purging(w) /\ work[w].step = "drop" /\ r = work[w].row
          BY <3>2, <4>1, DomainFacts DEF Drop, At
        <4>3. item[r].status \in {"none", "verified"}
          BY <1>0, <4>2 DEF SoloInv, Undisturbed, OnItem
        <4> QED  BY <1>8, <2>1, <4>3
      <3> QED  BY <3>3
    <2>2. CASE item'[r] # item[r]
      <3>1. PICK w \in Worker :
               \/ Purging(w) /\ (Taken(w, r) \/ Checked(w, r) \/ Released(w, r))
               \/ Closed(w)
        BY <2>2, ItemChange
      <3>2. CASE Closed(w)
        BY <1>8, <3>2 DEF Closed, NoItem
      <3>3. CASE Purging(w) /\ Taken(w, r)
        <4>1. rows' = rows /\ work[w].step = "pick" /\ r \in work[w].todo
          BY <3>3 DEF Taken, Pick, At
        <4> QED  BY <1>3, <3>3, <4>1
      <3>4. CASE Checked(w, r)
        BY <1>8, <3>4 DEF Checked
      <3>5. CASE Purging(w) /\ Released(w, r)
        <4>1. rows' = rows /\ work[w].step \in OnItem /\ r = work[w].row
          BY <3>5 DEF Released, Catch, At, OnItem
        <4>2. r \in work[w].todo
          BY <3>5, <4>1, RowKinds
        <4> QED  BY <1>3, <3>5, <4>1, <4>2
      <3> QED  BY <3>1, <3>2, <3>3, <3>4, <3>5
    <2> QED  BY <2>1, <2>2
  <1>9. ASSUME NEW r \in blank'
        PROVE  item'[r].status = "none"
    <2>1. CASE r \notin blank
      <3>1. PICK s \in Subject : Write(s, r)
        BY <1>9, <2>1, BlankChange
      <3> QED  BY <3>1 DEF Write, NoItem
    <2>2. CASE r \in blank
      <3>1. r \in Resource /\ item[r].status = "none"
        BY <1>0, <2>2 DEF SoloInv, TypeOK, Objects, Grants
      <3>2. item[r].claim = NoWorker
        BY <3>1 DEF ItemInv
      <3>3. SUFFICES ASSUME item'[r] # item[r]
                     PROVE  item'[r].status = "none"
        BY <3>1
      <3>4. PICK w \in Worker :
               \/ Purging(w) /\ (Taken(w, r) \/ Checked(w, r) \/ Released(w, r))
               \/ Closed(w)
        BY <3>1, <3>3, ItemChange
      <3>5. CASE Closed(w)
        BY <3>1, <3>5 DEF Closed, NoItem
      <3>6. ~(Purging(w) /\ Taken(w, r))
        <4>1. Purging(w) /\ Taken(w,
                   r) => work[w].step = "pick" /\ r \in work[w].todo \ work[w].blind
          BY DEF Taken, Pick, At
        <4> QED  BY <1>3, <2>2, <4>1
      <3>7. ~Checked(w, r) /\ ~Released(w, r)
        BY <3>2, LifecycleConstants DEF Checked, Released
      <3> QED  BY <3>4, <3>5, <3>6, <3>7
    <2> QED  BY <2>1, <2>2
  <1>10. ASSUME NEW v \in Worker, Purging(v)'
         PROVE  Undisturbed(v)'
    BY <1>5, <1>6, <1>7, <1>10 DEF Undisturbed
  <1> QED  BY <1>8, <1>9, <1>10, HolderStep

\* ShadowInv is inductive: what a verified checkpoint hides came late.
LEMMA ShadowStep ==
    ASSUME TypeOK, StatesAgree, PlaceInv, ShadowInv, [Next]_vars
    PROVE  ShadowInv'
  <1>0. /\ late \subseteq late' /\ rows \subseteq Resource
        /\ \A r \in rows' \ rows : r \in late' /\ r \in Resource
    BY HistoryGrows, RowChange DEF TypeOK, Write
  <1>1. ASSUME NEW r \in rows', cp'[DomainOf[r]] = "verified"
        PROVE  r \in late'
    <2>1. CASE r \notin rows
      BY <1>0, <2>1
    <2>2. CASE r \in rows /\ cp'[DomainOf[r]] = cp[DomainOf[r]]
      BY <1>0, <1>1, <2>2 DEF ShadowInv
    <2>3. CASE r \in rows /\ cp'[DomainOf[r]] # cp[DomainOf[r]]
      <3>1. PICK d \in Checkpoints \ {Final} : d = DomainOf[r] /\ r \in In(d)
        BY <1>0, <2>3, DomainFacts DEF In
      <3>2. PICK w \in Worker :
               \/ AccountDomain(w) /\ rows' \cap In(d) = {}
               \/ Finish(w) /\ Purging(w) /\ d = Domain(w)
               \/ Closed(w) /\ d \in Listed("organization")
        BY <2>3, <3>1, CheckpointChange
      <3>3. CASE Finish(w) /\ Purging(w) /\ d = Domain(w)
        BY <1>0, <2>3, <3>1, <3>3 DEF ShadowInv, Finish, At
      <3>4. ~(Closed(w) /\ d \in Listed("organization"))
        BY <1>1, <3>1, LifecycleConstants DEF Closed
      <3> QED  BY <1>1, <3>1, <3>2, <3>3, <3>4
    <2> QED  BY <2>1, <2>2, <2>3
  <1>2. ASSUME NEW v \in Worker, Purging(v)', work'[v].step = "finish"
        PROVE  rows' \cap In(Domain(v)') \subseteq late'
    <2>1. Purging(v) /\ (work'[v] = work[v] \/ Scan(v))
      BY <1>2, Arrival DEF OnItem
    <2>2. CASE work'[v] = work[v]
      <3>1. Domain(v)' = Domain(v)
        BY <2>2 DEF Domain
      <3> QED  BY <1>0, <1>2, <2>1, <2>2, <3>1 DEF ShadowInv
    <2>3. CASE Scan(v)
      <3>1. PICK j : /\ Moves(v, j) /\ j.subject = work[v].subject /\ j.at = work[v].at
                     /\ j.step = "pick" \/ rows' \cap In(Domain(v)) = {}
        BY <2>3, ScanMoves
      <3>2. work'[v] = j
        BY <3>1 DEF Moves, TypeOK
      <3>3. Domain(v)' = Domain(v)
        BY <3>1, <3>2 DEF Domain
      <3> QED  BY <1>2, <3>1, <3>2, <3>3
    <2> QED  BY <2>1, <2>2, <2>3
  <1> QED  BY <1>1, <1>2 DEF ShadowInv

\* RevokedInv is inductive: without accident no revocation goes unrecorded.
LEMMA RevokedStep ==
    ASSUME TypeOK, StatesAgree, PlaceInv, ItemInv, SoloInv, RevokedInv, [Next]_vars
    PROVE  RevokedInv'
  <1> SUFFICES ASSUME seen' \cap {"overlap", "crash", "lost_answer"} = {},
                      NEW r \in (rows' \cap Grants) \ outside'
               PROVE  r \in ended' \/ item'[r].status = "verified"
                         \/ \E w \in Worker : Recording(w, r)'
    BY DEF RevokedInv
  <1>0. /\ seen \cap {"overlap", "crash", "lost_answer"} = {} /\ r \in Resource
        /\ "overlap" \notin seen
    BY HistoryGrows DEF Grants
  <1>1. \A v, w \in Worker : Purging(v) /\ Purging(w) => v = w
    BY <1>0 DEF SoloInv, Purging, Subject
  <1>2. item \in [Resource -> ItemType] /\ work \in [Worker -> Job \cup {Idle}]
    BY DEF TypeOK, ItemType
  <1>3. r \in Of("organization") /\ r \notin Objects
    BY DomainFacts DEF External
  <1>4. r \in rows
    <2>1. SUFFICES ASSUME r \notin rows PROVE FALSE
      OBVIOUS
    <2>2. PICK s \in Subject : Write(s, r)
      BY <2>1, RowChange
    <2> QED  BY <2>2 DEF Write
  <1>5. ASSUME NEW w \in Worker
        PROVE  ~Closed(w) /\ ~Crash(w) /\ ~OperateFails(w)
    <2>1. ~Closed(w)
      BY <1>3, <1>4 DEF Closed, NothingLeft
    <2> QED  BY <2>1 DEF Crash, OperateFails, Mishap
  <1>6. ~Gone("organization") => ~Gone("organization")'
    <2>1. SUFFICES ASSUME ~Gone("organization"), Gone("organization")'
                   PROVE  FALSE
      OBVIOUS
    <2>2. PICK w \in Worker : Close(w)
      BY <2>1, GoneStep
    <2>3. UNCHANGED org
      BY <1>5, <2>2, CloseCases
    <2> QED  BY <2>1, <2>3 DEF Gone
  <1>7. CASE r \in outside
    <2>0. SUFFICES ASSUME ~EndElsewhere(r)
                   PROVE  \E w \in Worker : Recording(w, r)'
      BY DEF EndElsewhere
    <2>1. PICK w \in Worker : Purging(w) /\ r = work[w].row /\ Operate(w)
      BY <1>5, <1>7, <2>0, OutsideChange
    <2>2. Goto(w, "settle") /\ work[w].step = "operate" /\ item' = item
      BY <1>7, <2>1 DEF Operate, At
    <2>3. item[r].claim = w
      BY <1>0, <2>1, <2>2 DEF SoloInv, Undisturbed
    <2>4. PICK j : /\ Moves(w, j) /\ j.subject = work[w].subject /\ j.step = "settle"
                   /\ j.row = work[w].row
      BY <2>1, <2>2, GotoMoves DEF Purging, Busy, Steps
    <2>5. work'[w] = j /\ j # Idle
      BY <1>2, <2>4, IdleAssumption DEF Moves
    <2>6. Purging(w)'
      BY <1>6, <2>1, <2>4, <2>5 DEF Purging, Busy
    <2>7. Recording(w, r)'
      BY <2>1, <2>2, <2>3, <2>4, <2>5, <2>6 DEF Recording
    <2> QED  BY <2>7
  <1>8. CASE r \notin outside /\ item[r].status = "verified"
    <2>1. SUFFICES ASSUME item'[r] # item[r]
                   PROVE  item'[r].status = "verified"
      BY <1>8
    <2>2. PICK w \in Worker :
             Purging(w) /\ (Taken(w, r) \/ Checked(w, r) \/ Released(w, r))
      BY <1>0, <1>5, <2>1, ItemChange
    <2>3. ~Released(w, r)
      BY <1>0, <1>8, LifecycleConstants DEF Released, ItemInv
    <2> QED  BY <1>8, <2>2, <2>3 DEF Taken, Checked
  <1>9. CASE r \in ended
    BY <1>9, HistoryGrows
  <1>10. CASE r \notin outside /\ item[r].status # "verified" /\ r \notin ended
    <2>1. PICK w \in Worker : Recording(w, r)
      BY <1>0, <1>4, <1>10 DEF RevokedInv
    <2>2. /\ Purging(w) /\ work[w].row = r /\ work[w].step \in {"settle", "record"}
          /\ item[r].claim = w
      BY <2>1 DEF Recording
    <2>3. CASE Record(w)
      <3>1. item' = [item EXCEPT ![r] = [status |-> "verified", claim |-> NoWorker]]
        BY <2>2, <2>3 DEF Record, Verified
      <3> QED  BY <1>0, <1>2, <3>1
    <2>4. CASE Settle(w)
      <3>1. Goto(w, "record") /\ item' = item
        BY <2>2, <2>4 DEF Settle, Absent, data
      <3>2. PICK j : /\ Moves(w, j) /\ j.subject = work[w].subject /\ j.step = "record"
                     /\ j.row = work[w].row
        BY <2>2, <3>1, GotoMoves DEF Purging, Busy, Steps
      <3>3. work'[w] = j /\ j # Idle
        BY <1>2, <3>2, IdleAssumption DEF Moves
      <3>4. Purging(w)'
        BY <1>6, <2>2, <3>2, <3>3 DEF Purging, Busy
      <3>5. Recording(w, r)'
        BY <2>2, <3>1, <3>2, <3>3, <3>4 DEF Recording
      <3> QED  BY <3>5
    <2>5. CASE work'[w] = work[w]
      <3>1. Purging(w)'
        BY <1>6, <2>2, <2>5 DEF Purging, Busy
      <3>2. CASE item'[r] = item[r]
        <4>1. Recording(w, r)'
          BY <2>2, <2>5, <3>1, <3>2 DEF Recording
        <4> QED  BY <4>1
      <3>3. CASE item'[r] # item[r]
        <4>1. PICK u \in Worker :
                 Purging(u) /\ (Taken(u, r) \/ Checked(u, r) \/ Released(u, r))
          BY <1>0, <1>5, <3>3, ItemChange
        <4>2. u = w
          BY <1>1, <2>2, <4>1
        <4>3. ~Taken(u, r) /\ ~Released(u, r)
          BY <2>2, <4>2 DEF Taken, Released, Pick, Catch, At
        <4> QED  BY <4>1, <4>3 DEF Checked
      <3> QED  BY <3>2, <3>3
    <2> QED  BY <1>5, <2>2, <2>3, <2>4, <2>5, Departure
  <1> QED  BY <1>7, <1>8, <1>9, <1>10
-----------------------------------------------------------------------------
(* The theorems.                                                           *)

\* The invariant holds at the beginning.
LEMMA InitInv ==
    ASSUME Init
    PROVE  Inv
  <1>1. /\ \A w \in Worker : work[w] = Idle
        /\ \A w \in Worker, s \in Subject : ~Busy(w, s)
        /\ \A r \in Resource : item[r] = NoItem /\ item[r].status = "none"
                               /\ item[r].claim = NoWorker
        /\ \A s \in Subject : req[s].claim = NoWorker /\ req[s].status = "none"
    BY DEF Init, Busy, NoItem
  <1>2. TypeOK
    <2>1. LifecycleType
      <3>1. [status |-> "none", claim |-> NoWorker, attempts |-> 0]
               \in [status : Unresolved \cup {"none", "completed"},
                    claim : Worker \cup {NoWorker}, attempts : 0..MaxAttempts]
        BY LifecycleConstants
      <3> QED  BY <3>1 DEF Init, LifecycleType
    <2>2. NoItem \in ItemType
      BY DEF NoItem, ItemType
    <2>3. /\ Mishaps \in 0..Mishaps /\ Initial \subseteq Resource
          /\ blank \subseteq Objects \cup Grants
      BY LifecycleConstants DEF Init
    <2>4. DataType
      BY <2>2, <2>3 DEF Init, DataType
    <2>5. work \in [Worker -> Job \cup {Idle}]
      BY DEF Init
    <2> QED  BY <2>1, <2>4, <2>5 DEF TypeOK, LifecycleType, DataType, ItemType, Accidents
  <1>3. StatesAgree /\ RequestInv
    BY <1>1 DEF Init, StatesAgree, RequestInv, Subject
  <1>4. ActiveIsIntact
    <2>0. \A s \in Subject : Initial \cap Of(s) \cap (Objects \cup Grants)
                                \subseteq outside \cup ended \cup (blank \cap Objects)
      BY DEF Init
    <2>1. \A s \in Subject : \A d \in Listed(s) : d \in Checkpoints
      BY DEF Checkpoints, Subject
    <2> QED  BY <1>1, <2>0, <2>1 DEF ActiveIsIntact, Init, Of
  <1>5. DeletedMeansGone /\ OwnerLeavesLast
    BY DEF Init, DeletedMeansGone, OwnerLeavesLast, Gone
  <1>6. PlaceInv /\ ItemInv /\ SoloInv /\ CountInv
    <2>1. \A r \in blank : r \in Resource
      BY LifecycleConstants DEF Init
    <2> QED  BY <1>1, <2>1 DEF PlaceInv, ItemInv, SoloInv, CountInv, Purging, Subject
  <1>7. OutsideInv
    <2>1. outside \subseteq rows /\ \A r \in outside : r \in Resource
      BY LifecycleConstants DEF Init
    <2> QED  BY <1>1, <2>1 DEF OutsideInv, Purging, Subject, Objects, Grants
  <1>8. ShadowInv
    <2>1. \A r \in rows : cp[DomainOf[r]] = "open"
      BY DomainFacts, LifecycleConstants DEF Init
    <2> QED  BY <1>1, <2>1 DEF ShadowInv, Purging, Subject
  <1>9. RevokedInv
    BY DomainFacts DEF RevokedInv, Init
  <1> QED  BY <1>2, <1>3, <1>4, <1>5, <1>6, <1>7, <1>8, <1>9 DEF Inv, LifecycleInv

\* The invariant is inductive.
LEMMA NextInv ==
    ASSUME Inv, [Next]_vars
    PROVE  Inv'
  <1>1. /\ TypeOK /\ StatesAgree /\ ActiveIsIntact /\ DeletedMeansGone
        /\ RequestInv /\ PlaceInv /\ ItemInv /\ OutsideInv /\ CountInv
        /\ SoloInv /\ ShadowInv /\ RevokedInv
    BY DEF Inv, LifecycleInv
  <1>2. TypeOK' /\ PlaceInv'
    BY <1>1, TypeStep, PlaceStep
  <1>3. StatesAgree' /\ RequestInv'
    BY <1>1, RequestStep
  <1>4. OwnerLeavesLast'
    <2>1. req'["organization"].status \in Unresolved \cup {"none", "completed"}
      BY <1>2 DEF TypeOK, Subject
    <2> QED  BY <1>2, <1>3, <2>1 DEF StatesAgree, RequestInv, OwnerLeavesLast, TypeOK, Unresolved
  <1>5. ActiveIsIntact' /\ DeletedMeansGone'
    BY <1>1, IntactStep, DeletedStep
  <1>6. ItemInv' /\ OutsideInv' /\ CountInv'
    BY <1>1, ItemStep, OutsideStep, CountStep
  <1>7. SoloInv' /\ ShadowInv' /\ RevokedInv'
    BY <1>1, SoloStep, ShadowStep, RevokedStep
  <1> QED  BY <1>2, <1>3, <1>4, <1>5, <1>6, <1>7 DEF Inv, LifecycleInv

\* The history variables tell why a deletion is stranded.
LEMMA InvCauses ==
    ASSUME Inv
    PROVE  StrandedHasItsCause
  <1> SUFFICES ASSUME NEW r \in Resource
               PROVE  /\ Shadowed(r) => r \in late
                      /\ Orphaned(r) => "overlap" \in seen
                      /\ Refused(r) =>
                            r \in ended \/ seen \cap {"overlap", "crash", "lost_answer"} # {}
    BY DEF StrandedHasItsCause
  <1>1. Shadowed(r) => r \in late
    BY DEF Inv, ShadowInv, Shadowed
  <1>2. Orphaned(r) => "overlap" \in seen
    BY DEF Inv, SoloInv, Orphaned
  <1>3. Refused(r) => r \in ended \/ seen \cap {"overlap", "crash", "lost_answer"} # {}
    BY DEF Inv, RevokedInv, Refused, Recording, Purging
  <1> QED  BY <1>1, <1>2, <1>3

\* The invariant holds throughout.
LEMMA SpecInv == Spec => []Inv
  <1>1. Init => Inv
    BY InitInv
  <1>2. Inv /\ [Next]_vars => Inv'
    BY NextInv
  <1> QED  BY <1>1, <1>2, PTL DEF Spec

\* The deletions of an account and of its organization are all or nothing: the
\* states tell the same as the requests, what can still be canceled has lost
\* nothing, what is called deleted is gone but for stray uploads, what rows dropped
\* blindly stood for, and rows of the account written after they had been counted,
\* and an organization outlives its owner's account only if its deletion was
\* canceled.
THEOREM LifecycleInvariant == Spec => []LifecycleInv
  <1>1. Inv => LifecycleInv
    BY DEF Inv
  <1> QED  BY <1>1, SpecInv, PTL

\* A deletion that no retry can complete has met a late write, an overlap of
\* workers, a crash, a lost answer, or a grant that had ended otherwise, as far as
\* each explains it.
THEOREM LifecycleCauses == Spec => []StrandedHasItsCause
  <1>1. Inv => StrandedHasItsCause
    BY InvCauses
  <1> QED  BY <1>1, SpecInv, PTL
=============================================================================
