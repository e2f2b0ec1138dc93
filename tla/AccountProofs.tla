---------------------------- MODULE AccountProofs ----------------------------
(***************************************************************************)
(* What a user may count on, for any number of sessions, requests, emails  *)
(* and workers.                                                            *)
(*                                                                         *)
(* Refresh and revocation at the grain of their row locks implement the    *)
(* atomic token families of SessionFamilies, and no client is told of a    *)
(* revocation that did not happen.                                         *)
(*                                                                         *)
(* The notification email processor implements the work table, gives every *)
(* claim one owner, and sends one email per row.                           *)
(***************************************************************************)
EXTENDS AuthSessions, NotificationEmail, WorkTableProofs

-----------------------------------------------------------------------------
(* Sessions.                                                               *)

RequestType ==
    [op : {"none", "refresh", "revoke", "reset"},
     pc : {"idle", "token", "session", "next", "row", "tokens"},
     s : Session \cup {NoSession}, i : 0..MaxTokens, late : {"no", "token", "session"},
     row : {"fresh", "used", "dead"},
     todo : SUBSET Session, done : SUBSET Session, known : SUBSET Session]

(* The tokens of a live family are used but for the last one, and none is  *)
(* dead; those of a revoked family are all dead.                           *)
FamilyOK(s) ==
    /\ session[s] = "none" => issued[s] = 0 /\ used[s] = {} /\ dead[s] = {}
    /\ session[s] = "live" => issued[s] >= 1 /\ dead[s] = {} /\ used[s] = 1..(issued[s] - 1)
    /\ session[s] = "revoked" => dead[s] = Tokens(s)

(* A refresh is about a token that was issued, and knows what the row says *)
(* once it has locked it.                                                  *)
RefreshOK(r) ==
    req[r].op = "refresh" =>
         /\ req[r].s \in Session
         /\ req[r].i \in Tokens(req[r].s) /\ req[r].i < MaxTokens
         /\ req[r].todo = {} /\ req[r].known = {}
         /\ req[r].pc \in {"token", "session", "tokens", "next"}
         /\ req[r].done = (IF req[r].pc = "next" THEN {req[r].s} ELSE {})
         /\ req[r].pc # "token" => req[r].row = RowOf(req[r].s, req[r].i)

RevokeOK(r) ==
    /\ req[r].op = "none" => req[r].pc = "idle" /\ req[r].done = {}
    /\ req[r].op \in {"revoke", "reset"} => req[r].pc \in {"next", "row", "tokens"}
    /\ req[r].pc \in {"row", "tokens"} => req[r].s \in Session

(* What a transaction is about to revoke is live.                          *)
LockedLive(r) ==
    /\ req[r].pc = "tokens" => session[req[r].s] = "live"
    /\ \A s \in req[r].done : session[s] = "live"

(* What was live when a revocation began is revoked, or has been visited,  *)
(* or will be.                                                             *)
KnownOK(r) ==
    \A s \in req[r].known :
         /\ session[s] # "none"
         /\ \/ session[s] = "revoked"
            \/ s \in req[r].todo \cup req[r].done
            \/ req[r].pc \in {"row", "tokens"} /\ req[r].s = s

RequestOK(r) == RefreshOK(r) /\ RevokeOK(r) /\ LockedLive(r) /\ KnownOK(r)

(* No two requests hold the same row.                                      *)
Exclusive ==
    \A q, r \in Request : q # r =>
        \A s \in Session :
            /\ ~(HoldsSession(q, s) /\ HoldsSession(r, s))
            /\ \A i \in Tokens(s) : ~(HoldsToken(q, s, i) /\ HoldsToken(r, s, i))

LockInvariant ==
    /\ SessionsTypeOK
    /\ \A s \in Session : FamilyOK(s)
    /\ \A r \in Request : RequestOK(r)
    /\ Exclusive
    /\ AnsweredIsRevoked

-----------------------------------------------------------------------------
\* A step that writes no table and moves one request to a record n, every
\* row of which it newly holds was free, keeps the invariant.
LEMMA LocalStep ==
    ASSUME LockInvariant, NEW r \in Request, NEW n \in RequestType,
           req' = [req EXCEPT ![r] = n],
           UNCHANGED <<session, issued, used, dead>>,
           lapse' \in [Session -> {"no", "token", "session"}],
           closed' \in SUBSET Session, AnsweredIsRevoked',
           RequestOK(r)',
           \A s \in Session : HoldsSession(r, s)' => SessionFree(r, s),
           \A s \in Session : \A i \in Tokens(s) : HoldsToken(r, s, i)' => TokenFree(r, s, i)
    PROVE  LockInvariant'
<1> USE DEF RequestType
<1>1. req' \in [Request -> RequestType] /\ \A q \in Request \ {r} : req'[q] = req[q]
    BY DEF LockInvariant, SessionsTypeOK
<1>2. SessionsTypeOK'
    BY <1>1 DEF LockInvariant, SessionsTypeOK
<1>3. \A s \in Session : FamilyOK(s)'
    BY DEF LockInvariant, FamilyOK, Tokens
<1>4. ASSUME NEW q \in Request PROVE RequestOK(q)'
    <2>1. CASE q # r
        <3>1. RequestOK(q) /\ req'[q] = req[q]
            BY <1>1, <2>1 DEF LockInvariant
        <3>2. RefreshOK(q)'
            BY <3>1 DEF RequestOK, RefreshOK, Tokens, RowOf
        <3>3. RevokeOK(q)' /\ LockedLive(q)' /\ KnownOK(q)'
            BY <3>1 DEF RequestOK, RevokeOK, LockedLive, KnownOK
        <3> QED
            BY <3>2, <3>3 DEF RequestOK
    <2> QED
        BY <2>1
<1>5. \A q \in Request \ {r} : \A s \in Session :
        /\ HoldsSession(q, s)' = HoldsSession(q, s)
        /\ \A i \in Tokens(s) : HoldsToken(q, s, i)' = HoldsToken(q, s, i)
    BY <1>1 DEF HoldsSession, HoldsToken
<1>6. Exclusive'
    <2> SUFFICES ASSUME NEW p \in Request, NEW q \in Request, p # q, NEW s \in Session
                 PROVE  /\ ~(HoldsSession(p, s)' /\ HoldsSession(q, s)')
                        /\ \A i \in Tokens(s) : ~(HoldsToken(p, s, i)' /\ HoldsToken(q, s, i)')
        BY DEF Exclusive, Tokens
    <2>1. CASE p # r /\ q # r
        BY <1>5, <2>1 DEF LockInvariant, Exclusive
    <2>2. CASE p = r
        BY <1>5, <2>2 DEF SessionFree, TokenFree
    <2>3. CASE q = r
        BY <1>5, <2>3 DEF SessionFree, TokenFree
    <2> QED
        BY <2>1, <2>2, <2>3
<1> QED
    BY <1>2, <1>3, <1>4, <1>6 DEF LockInvariant

\* What a request already holds is free of the others.
LEMMA HeldIsFree ==
    ASSUME LockInvariant, NEW r \in Request, NEW s \in Session
    PROVE  /\ HoldsSession(r, s) => SessionFree(r, s)
           /\ \A i \in Tokens(s) : HoldsToken(r, s, i) => TokenFree(r, s, i)
BY DEF LockInvariant, Exclusive, SessionFree, TokenFree

\* The idle record is a request's record and holds nothing.
LEMMA IdleTyped == Idle \in RequestType
BY MaxTokensAssumption DEF Idle, RequestType

\* A request that goes away, answered or rolled back, keeps the invariant
\* when the tables stay as they are.
LEMMA GoesIdle ==
    ASSUME LockInvariant, NEW r \in Request, req' = [req EXCEPT ![r] = Idle],
           UNCHANGED <<session, issued, used, dead, lapse>>,
           closed' \in SUBSET Session, AnsweredIsRevoked'
    PROVE  LockInvariant'
<1>1. req'[r] = Idle
    BY DEF LockInvariant, SessionsTypeOK
<1>2. RequestOK(r)'
    BY <1>1 DEF RequestOK, RefreshOK, RevokeOK, LockedLive, KnownOK, Idle
<1>3. \A s \in Session : ~HoldsSession(r, s)' /\ \A i \in Tokens(s) : ~HoldsToken(r, s, i)'
    BY <1>1 DEF HoldsSession, HoldsToken, Idle
<1>4. lapse' \in [Session -> {"no", "token", "session"}]
    BY DEF LockInvariant, SessionsTypeOK
<1> QED
    BY <1>2, <1>3, <1>4, IdleTyped, LocalStep

\* The steps that only move a request: they begin one or take a lock.
LEMMA MovingSteps ==
    ASSUME LockInvariant, NEW r \in Request,
           \/ \E s \in Session : \E i \in 1..MaxTokens : BeginRefresh(r, s, i)
           \/ \E s \in Session : \E scope \in Scopes(s) : BeginRevoke(r, s, scope)
           \/ BeginReset(r)
           \/ LockToken(r) \/ RevokeFamily(r)
           \/ (\E s \in Session : NextRow(r, s)) \/ LockRow(r) \/ LockFamily(r)
    PROVE  LockInvariant'
<1> USE MaxTokensAssumption
<1>t. SessionsTypeOK /\ RequestOK(r) /\ req[r] \in RequestType
    BY DEF LockInvariant, SessionsTypeOK, RequestType
<1>0. ASSUME NEW n \in RequestType, req' = [req EXCEPT ![r] = n],
             UNCHANGED <<session, issued, used, dead, lapse, closed>>,
             RequestOK(r)',
             \A s \in Session : HoldsSession(r, s)' => HoldsSession(r, s) \/ SessionFree(r, s),
             \A s \in Session : \A i \in Tokens(s) :
                HoldsToken(r, s, i)' => HoldsToken(r, s, i) \/ TokenFree(r, s, i)
      PROVE  LockInvariant'
    <2>1. closed' \in SUBSET Session /\ AnsweredIsRevoked'
        BY <1>0 DEF LockInvariant, SessionsTypeOK, AnsweredIsRevoked
    <2>2. lapse' \in [Session -> {"no", "token", "session"}]
        BY <1>0 DEF LockInvariant, SessionsTypeOK
    <2>3. /\ \A s \in Session : HoldsSession(r, s)' => SessionFree(r, s)
          /\ \A s \in Session : \A i \in Tokens(s) : HoldsToken(r, s, i)' => TokenFree(r, s, i)
        BY <1>0, HeldIsFree
    <2> QED
        BY <1>0, <2>1, <2>2, <2>3, LocalStep
<1>1. ASSUME NEW s \in Session, NEW i \in 1..MaxTokens, BeginRefresh(r, s, i) PROVE LockInvariant'
    <2> DEFINE n == [Idle EXCEPT !.op = "refresh", !.pc = "token", !.s = s, !.i = i, !.late = lapse[s]]
    <2>1. n \in RequestType
        <3>1. lapse[s] \in {"no", "token", "session"} /\ i \in 0..MaxTokens
            BY <1>t DEF SessionsTypeOK
        <3> QED
            BY <3>1 DEF RequestType, Idle
    <2>2. req'[r] = n /\ req' = [req EXCEPT ![r] = n]
        BY <1>1, <1>t DEF BeginRefresh, SessionsTypeOK
    <2>3. RequestOK(r)'
        BY ZenonT(60), <1>1, <2>2 DEF BeginRefresh, RequestOK, RefreshOK, RevokeOK, LockedLive, KnownOK, Idle, Tokens
    <2>4. \A t \in Session : ~HoldsSession(r, t)' /\ \A j \in Tokens(t) : ~HoldsToken(r, t, j)'
        BY <2>2 DEF HoldsSession, HoldsToken, Idle
    <2> HIDE DEF n
    <2> QED
        BY <1>0, <1>1, <2>1, <2>2, <2>3, <2>4 DEF BeginRefresh
<1>2. ASSUME NEW S \in SUBSET Session, NEW o \in {"revoke", "reset"}, S = S \cap Live,
             req' = [req EXCEPT ![r] = [Idle EXCEPT !.op = o, !.pc = "next", !.todo = S, !.known = S]],
             UNCHANGED <<session, issued, used, dead, lapse, closed>>
      PROVE  LockInvariant'
    <2> DEFINE n == [Idle EXCEPT !.op = o, !.pc = "next", !.todo = S, !.known = S]
    <2>1. n \in RequestType
        BY IdleTyped DEF RequestType, Idle
    <2>2. req'[r] = n /\ req' = [req EXCEPT ![r] = n]
        BY <1>2, <1>t DEF SessionsTypeOK
    <2>3. RequestOK(r)'
        <3>1. /\ req'[r].op = o /\ req'[r].pc = "next" /\ req'[r].s = NoSession
              /\ req'[r].todo = S /\ req'[r].known = S /\ req'[r].done = {}
            BY <2>2 DEF Idle
        <3>2. RefreshOK(r)' /\ RevokeOK(r)' /\ LockedLive(r)'
            BY <3>1 DEF RefreshOK, RevokeOK, LockedLive
        <3>3. KnownOK(r)'
            BY <1>2, <3>1 DEF KnownOK, Live
        <3> QED
            BY <3>2, <3>3 DEF RequestOK
    <2>4. \A t \in Session : ~HoldsSession(r, t)' /\ \A j \in Tokens(t) : ~HoldsToken(r, t, j)'
        BY <2>2 DEF HoldsSession, HoldsToken, Idle
    <2> HIDE DEF n
    <2> QED
        BY <1>0, <1>2, <2>1, <2>2, <2>3, <2>4
<1>3. ASSUME NEW s \in Session, NEW scope \in Scopes(s), BeginRevoke(r, s, scope) PROVE LockInvariant'
    <2>1. scope \cap Live \in SUBSET Session /\ (scope \cap Live) = (scope \cap Live) \cap Live
        BY DEF Live
    <2> QED
        BY <1>2, <1>3, <2>1 DEF BeginRevoke, Selected
<1>4. ASSUME BeginReset(r) PROVE LockInvariant'
    <2>1. Live \in SUBSET Session /\ Live = Live \cap Live /\ Session \cap Live = Live
        BY DEF Live
    <2> QED
        BY <1>2, <1>4, <2>1 DEF BeginReset, Selected
<1>5. ASSUME LockToken(r) PROVE LockInvariant'
    <2> DEFINE n == [req[r] EXCEPT !.pc = "session", !.row = RowOf(req[r].s, req[r].i)]
    <2>1. n \in RequestType
        BY <1>t DEF RequestType, RowOf
    <2>2. req'[r] = n /\ req' = [req EXCEPT ![r] = n]
        BY <1>5, <1>t DEF LockToken, SessionsTypeOK
    <2>3. req[r].op = "refresh" /\ req[r].s \in Session
        BY <1>5, <1>t DEF LockToken, RequestOK, RefreshOK, RevokeOK, RequestType
    <2>4. RequestOK(r)'
        <3>1. /\ req'[r].pc = "session" /\ req'[r].row = RowOf(req[r].s, req[r].i)
              /\ req'[r].op = req[r].op /\ req'[r].s = req[r].s /\ req'[r].i = req[r].i /\ req'[r].late = req[r].late /\ req'[r].todo = req[r].todo /\ req'[r].done = req[r].done /\ req'[r].known = req[r].known
            BY <1>t, <2>2 DEF RequestType
        <3>2. RefreshOK(r)'
            BY <1>5, <1>t, <2>3, <3>1 DEF LockToken, RequestOK, RefreshOK, RevokeOK, RowOf, Tokens
        <3>3. RevokeOK(r)' /\ LockedLive(r)'
            BY <1>5, <1>t, <2>3, <3>1 DEF LockToken, RequestOK, RefreshOK, RevokeOK, LockedLive
        <3>4. KnownOK(r)'
            BY <1>5, <1>t, <2>3, <3>1 DEF LockToken, RequestOK, RefreshOK, KnownOK, SessionsTypeOK, RequestType
        <3> QED
            BY <3>2, <3>3, <3>4 DEF RequestOK
    <2>5. /\ \A t \in Session : HoldsSession(r, t)' => HoldsSession(r, t)
          /\ \A t \in Session : \A j \in Tokens(t) :
                HoldsToken(r, t, j)' => HoldsToken(r, t, j) \/ TokenFree(r, t, j)
        BY <1>5, <1>t, <2>2 DEF LockToken, HoldsSession, HoldsToken, RequestType
    <2> HIDE DEF n
    <2> QED
        BY <1>0, <1>5, <2>1, <2>2, <2>4, <2>5 DEF LockToken
<1>6. ASSUME RevokeFamily(r) PROVE LockInvariant'
    <2> DEFINE n == [req[r] EXCEPT !.pc = "tokens"]
    <2>1. n \in RequestType
        BY <1>t DEF RequestType
    <2>2. req'[r] = n /\ req' = [req EXCEPT ![r] = n]
        BY <1>6, <1>t DEF RevokeFamily, SessionsTypeOK
    <2>3. req[r].op = "refresh" /\ req[r].s \in Session
        BY <1>6, <1>t DEF RevokeFamily, RequestOK, RefreshOK, RevokeOK, RequestType
    <2>4. RequestOK(r)'
        <3>1. /\ req'[r].pc = "tokens"
              /\ req'[r].op = req[r].op /\ req'[r].s = req[r].s /\ req'[r].i = req[r].i /\ req'[r].late = req[r].late /\ req'[r].row = req[r].row /\ req'[r].todo = req[r].todo /\ req'[r].done = req[r].done /\ req'[r].known = req[r].known
            BY <1>t, <2>2 DEF RequestType
        <3>2. RefreshOK(r)'
            BY <1>6, <1>t, <2>3, <3>1 DEF RevokeFamily, RequestOK, RefreshOK, RevokeOK, RowOf, Tokens
        <3>3. RevokeOK(r)' /\ LockedLive(r)'
            BY <1>6, <1>t, <2>3, <3>1 DEF RevokeFamily, RequestOK, RefreshOK, RevokeOK, LockedLive
        <3>4. KnownOK(r)'
            BY <1>6, <1>t, <2>3, <3>1 DEF RevokeFamily, RequestOK, RefreshOK, KnownOK, SessionsTypeOK, RequestType
        <3> QED
            BY <3>2, <3>3, <3>4 DEF RequestOK
    <2>5. /\ \A t \in Session : HoldsSession(r, t)' => HoldsSession(r, t) \/ SessionFree(r, t)
          /\ \A t \in Session : \A j \in Tokens(t) : HoldsToken(r, t, j)' => HoldsToken(r, t, j)
        BY <1>6, <1>t, <2>2 DEF RevokeFamily, HoldsSession, HoldsToken, RequestType
    <2> HIDE DEF n
    <2> QED
        BY <1>0, <1>6, <2>1, <2>2, <2>4, <2>5 DEF RevokeFamily
<1>7. ASSUME NEW s \in Session, NextRow(r, s) PROVE LockInvariant'
    <2> DEFINE n == [req[r] EXCEPT !.pc = "row", !.s = s, !.todo = @ \ {s}]
    <2>1. n \in RequestType
        BY <1>t DEF RequestType
    <2>2. req'[r] = n /\ req' = [req EXCEPT ![r] = n]
        BY <1>7, <1>t DEF NextRow, SessionsTypeOK
    <2>3. req[r].op \in {"revoke", "reset"}
        BY <1>7, <1>t DEF NextRow, RequestOK, RefreshOK, RevokeOK, RequestType
    <2>4. RequestOK(r)'
        <3>1. /\ req'[r].pc = "row" /\ req'[r].s = s /\ req'[r].todo = req[r].todo \ {s}
              /\ req'[r].op = req[r].op /\ req'[r].i = req[r].i /\ req'[r].late = req[r].late /\ req'[r].row = req[r].row /\ req'[r].done = req[r].done /\ req'[r].known = req[r].known
            BY <1>t, <2>2 DEF RequestType
        <3>2. RefreshOK(r)'
            BY <1>7, <1>t, <2>3, <3>1 DEF NextRow, RequestOK, RefreshOK, RevokeOK, RowOf, Tokens
        <3>3. RevokeOK(r)' /\ LockedLive(r)'
            BY <1>7, <1>t, <2>3, <3>1 DEF NextRow, RequestOK, RefreshOK, RevokeOK, LockedLive
        <3>4. KnownOK(r)'
            BY <1>7, <1>t, <2>3, <3>1 DEF NextRow, RequestOK, RefreshOK, KnownOK, SessionsTypeOK, RequestType
        <3> QED
            BY <3>2, <3>3, <3>4 DEF RequestOK
    <2>5. /\ \A t \in Session : HoldsSession(r, t)' => HoldsSession(r, t)
          /\ \A t \in Session : \A j \in Tokens(t) : HoldsToken(r, t, j)' => HoldsToken(r, t, j)
        BY <1>7, <1>t, <2>2 DEF NextRow, HoldsSession, HoldsToken, RequestType
    <2> HIDE DEF n
    <2> QED
        BY <1>0, <1>7, <2>1, <2>2, <2>4, <2>5 DEF NextRow
<1>8. ASSUME LockRow(r) PROVE LockInvariant'
    <2> DEFINE n == [req[r] EXCEPT !.pc = IF session[req[r].s] = "live" THEN "tokens" ELSE "next"]
    <2>1. n \in RequestType
        BY <1>t DEF RequestType
    <2>2. req'[r] = n /\ req' = [req EXCEPT ![r] = n]
        BY <1>8, <1>t DEF LockRow, SessionsTypeOK
    <2>3. req[r].op \in {"revoke", "reset"} /\ req[r].s \in Session
        BY <1>8, <1>t DEF LockRow, RequestOK, RefreshOK, RevokeOK, RequestType
    <2>4. RequestOK(r)'
        <3>1. /\ req'[r].pc = (IF session[req[r].s] = "live" THEN "tokens" ELSE "next")
              /\ req'[r].op = req[r].op /\ req'[r].s = req[r].s /\ req'[r].i = req[r].i /\ req'[r].late = req[r].late /\ req'[r].row = req[r].row /\ req'[r].todo = req[r].todo /\ req'[r].done = req[r].done /\ req'[r].known = req[r].known
            BY <1>t, <2>2 DEF RequestType
        <3>2. RefreshOK(r)'
            BY <1>8, <1>t, <2>3, <3>1 DEF LockRow, RequestOK, RefreshOK, RevokeOK, RowOf, Tokens
        <3>3. RevokeOK(r)' /\ LockedLive(r)'
            BY <1>8, <1>t, <2>3, <3>1 DEF LockRow, RequestOK, RefreshOK, RevokeOK, LockedLive
        <3>4. KnownOK(r)'
            BY <1>8, <1>t, <2>3, <3>1 DEF LockRow, RequestOK, RefreshOK, KnownOK, SessionsTypeOK, RequestType
        <3> QED
            BY <3>2, <3>3, <3>4 DEF RequestOK
    <2>5. /\ \A t \in Session : HoldsSession(r, t)' => HoldsSession(r, t) \/ SessionFree(r, t)
          /\ \A t \in Session : \A j \in Tokens(t) : HoldsToken(r, t, j)' => HoldsToken(r, t, j)
        BY <1>8, <1>t, <2>2, <2>3 DEF LockRow, HoldsSession, HoldsToken, RequestType
    <2> HIDE DEF n
    <2> QED
        BY <1>0, <1>8, <2>1, <2>2, <2>4, <2>5 DEF LockRow
<1>9. ASSUME LockFamily(r) PROVE LockInvariant'
    <2> DEFINE n == [req[r] EXCEPT !.pc = "next", !.done = @ \cup {req[r].s}]
    <2>1. req[r].s \in Session /\ session[req[r].s] = "live" /\ req[r].op # "none"
        BY <1>9, <1>t DEF LockFamily, RequestOK, RefreshOK, RevokeOK, LockedLive, RequestType
    <2>2. n \in RequestType
        BY <1>t, <2>1 DEF RequestType
    <2>3. req'[r] = n /\ req' = [req EXCEPT ![r] = n]
        BY <1>9, <1>t DEF LockFamily, SessionsTypeOK
    <2>4. RequestOK(r)'
        <3>1. /\ req'[r].pc = "next" /\ req'[r].done = req[r].done \cup {req[r].s}
              /\ req'[r].op = req[r].op /\ req'[r].s = req[r].s /\ req'[r].i = req[r].i /\ req'[r].late = req[r].late /\ req'[r].row = req[r].row /\ req'[r].todo = req[r].todo /\ req'[r].known = req[r].known
            BY <1>t, <2>3 DEF RequestType
        <3>2. RefreshOK(r)'
            BY <1>9, <1>t, <2>1, <3>1 DEF LockFamily, RequestOK, RefreshOK, RevokeOK, RowOf, Tokens
        <3>3. RevokeOK(r)' /\ LockedLive(r)'
            BY <1>9, <1>t, <2>1, <3>1 DEF LockFamily, RequestOK, RefreshOK, RevokeOK, LockedLive
        <3>4. KnownOK(r)'
            BY <1>9, <1>t, <2>1, <3>1 DEF LockFamily, RequestOK, RefreshOK, KnownOK, SessionsTypeOK, RequestType
        <3> QED
            BY <3>2, <3>3, <3>4 DEF RequestOK
    <2>5. /\ \A t \in Session : HoldsSession(r, t)' => HoldsSession(r, t)
          /\ \A t \in Session : \A j \in Tokens(t) :
                HoldsToken(r, t, j)' => HoldsToken(r, t, j) \/ TokenFree(r, t, j)
        <3>1. req'[r].pc = "next" /\ req'[r].done = req[r].done \cup {req[r].s}
            BY <1>t, <2>3 DEF RequestType
        <3> QED
            BY <1>9, <2>1, <3>1 DEF LockFamily, HoldsSession, HoldsToken
    <2> HIDE DEF n
    <2> QED
        BY <1>0, <1>9, <2>2, <2>3, <2>4, <2>5 DEF LockFamily
<1> QED
    BY <1>1, <1>3, <1>4, <1>5, <1>6, <1>7, <1>8, <1>9

-----------------------------------------------------------------------------
\* A login's new family keeps the invariant: no request is about it yet.
LEMMA CreateKeeps ==
    ASSUME LockInvariant, NEW s \in Session, Create(s)
    PROVE  LockInvariant'
<1> USE MaxTokensAssumption
<1>t. SessionsTypeOK /\ FamilyOK(s)
    BY DEF LockInvariant
<1>1. SessionsTypeOK'
    BY <1>t DEF Create, SessionsTypeOK
<1>2. ASSUME NEW t \in Session PROVE FamilyOK(t)'
    <2>1. FamilyOK(t)
        BY DEF LockInvariant
    <2>2. CASE t = s
        BY <1>t, <2>2 DEF Create, FamilyOK, SessionsTypeOK, Tokens
    <2>3. CASE t # s
        BY <1>t, <2>1, <2>3 DEF Create, FamilyOK, SessionsTypeOK, Tokens
    <2> QED
        BY <2>2, <2>3
<1>3. ASSUME NEW r \in Request PROVE RequestOK(r)'
    <2>1. RequestOK(r) /\ req[r] \in RequestType
        BY DEF LockInvariant, SessionsTypeOK, RequestType
    <2>2. RefreshOK(r)'
        <3>1. req[r].op = "refresh" => req[r].s # s
            BY <1>t, <2>1 DEF Create, RequestOK, RefreshOK, FamilyOK, Tokens
        <3> QED
            BY <1>t, <2>1, <3>1 DEF Create, RequestOK, RefreshOK, RowOf, Tokens, SessionsTypeOK
    <2>3. RevokeOK(r)' /\ LockedLive(r)'
        BY <1>t, <2>1 DEF Create, RequestOK, RevokeOK, LockedLive, SessionsTypeOK, RequestType
    <2>4. KnownOK(r)'
        BY <1>t, <2>1 DEF Create, RequestOK, KnownOK, SessionsTypeOK, RequestType
    <2> QED
        BY <2>2, <2>3, <2>4 DEF RequestOK
<1>4. Exclusive'
    <2> SUFFICES ASSUME NEW p \in Request, NEW q \in Request, p # q, NEW t \in Session
                 PROVE  /\ ~(HoldsSession(p, t)' /\ HoldsSession(q, t)')
                        /\ \A i \in Tokens(t)' : ~(HoldsToken(p, t, i)' /\ HoldsToken(q, t, i)')
        BY DEF Exclusive
    <2>1. req' = req
        BY DEF Create
    <2>2. CASE t # s
        BY <1>t, <2>1, <2>2 DEF Create, LockInvariant, Exclusive, HoldsSession, HoldsToken, Tokens, SessionsTypeOK
    <2>3. CASE t = s
        <3>1. \A r \in Request : t \notin req[r].done /\ (req[r].pc = "tokens" => req[r].s # t)
            BY <2>3 DEF Create, LockInvariant, RequestOK, LockedLive
        <3>2. ASSUME NEW r \in Request, req[r].op = "refresh" PROVE req[r].s # t
            <4>1. RefreshOK(r) /\ issued[s] = 0
                BY <1>t DEF Create, LockInvariant, RequestOK, FamilyOK
            <4> QED
                BY <2>3, <3>2, <4>1 DEF RefreshOK, Tokens
        <3> QED
            BY <2>1, <3>1, <3>2 DEF HoldsSession, HoldsToken
    <2> QED
        BY <2>2, <2>3
<1>5. AnsweredIsRevoked'
    BY <1>t DEF LockInvariant, AnsweredIsRevoked, Create, SessionsTypeOK
<1> QED
    BY <1>1, <1>2, <1>3, <1>4, <1>5 DEF LockInvariant

\* A refresh that is about to rotate holds the last, unused token of a live
\* family.
LEMMA RotatesTheLast ==
    ASSUME LockInvariant, NEW r \in Request, RotateToken(r)
    PROVE  /\ req[r].op = "refresh" /\ req[r].s \in Session
           /\ session[req[r].s] = "live"
           /\ req[r].i = issued[req[r].s] /\ issued[req[r].s] \in 1..(MaxTokens - 1)
           /\ used[req[r].s] = 1..(issued[req[r].s] - 1) /\ dead[req[r].s] = {}
<1>1. RequestOK(r) /\ req[r] \in RequestType /\ SessionsTypeOK
    BY DEF LockInvariant, SessionsTypeOK, RequestType
<1>2. req[r].op = "refresh"
    BY <1>1 DEF RotateToken, RequestOK, RevokeOK, RequestType
<1>3. /\ req[r].s \in Session /\ req[r].i \in 1..issued[req[r].s] /\ req[r].i < MaxTokens
      /\ RowOf(req[r].s, req[r].i) = "fresh"
    BY <1>1, <1>2 DEF RotateToken, RequestOK, RefreshOK, Fresh, Tokens
<1>4. session[req[r].s] = "live" /\ FamilyOK(req[r].s) /\ issued[req[r].s] \in Nat
    BY <1>1, <1>3, MaxTokensAssumption DEF RotateToken, LockInvariant, SessionsTypeOK
<1>5. used[req[r].s] = 1..(issued[req[r].s] - 1) /\ dead[req[r].s] = {}
    BY <1>4 DEF FamilyOK
<1>6. req[r].i \notin 1..(issued[req[r].s] - 1)
    BY <1>3, <1>5 DEF RowOf
<1> QED
    BY <1>2, <1>3, <1>4, <1>5, <1>6, MaxTokensAssumption

LEMMA RotateKeeps ==
    ASSUME LockInvariant, NEW r \in Request, RotateToken(r)
    PROVE  LockInvariant'
<1> USE MaxTokensAssumption
<1> DEFINE f == req[r].s
<1>t. SessionsTypeOK /\ FamilyOK(f)
    BY RotatesTheLast DEF LockInvariant
<1>r. /\ req[r].op = "refresh" /\ f \in Session /\ session[f] = "live"
      /\ req[r].i = issued[f] /\ issued[f] \in 1..(MaxTokens - 1)
      /\ used[f] = 1..(issued[f] - 1) /\ dead[f] = {}
    BY RotatesTheLast
<1>w. /\ issued' = [issued EXCEPT ![f] = @ + 1]
      /\ used' = [used EXCEPT ![f] = @ \cup {req[r].i}]
      /\ req' = [req EXCEPT ![r] = Idle]
      /\ UNCHANGED <<session, dead, lapse, closed>>
      /\ SessionFree(r, f) /\ req[r].pc = "session"
    BY DEF RotateToken
<1> HIDE DEF f
<1>1. SessionsTypeOK'
    <2>1. issued[f] + 1 \in 0..MaxTokens /\ used[f] \cup {req[r].i} \in SUBSET (1..MaxTokens)
        BY <1>r
    <2>2. issued' \in [Session -> 0..MaxTokens] /\ used' \in [Session -> SUBSET (1..MaxTokens)]
        BY <1>t, <1>w, <2>1 DEF SessionsTypeOK
    <2>3. req' \in [Request -> RequestType]
        BY <1>t, <1>w, IdleTyped DEF SessionsTypeOK, RequestType
    <2> QED
        BY <1>t, <1>w, <2>2, <2>3 DEF SessionsTypeOK, RequestType
<1>2. ASSUME NEW t \in Session PROVE FamilyOK(t)'
    <2>1. FamilyOK(t)
        BY DEF LockInvariant
    <2>2. CASE t = f
        <3>1. issued'[f] = issued[f] + 1 /\ used'[f] = 1..issued[f]
            BY <1>t, <1>w, <1>r DEF SessionsTypeOK
        <3> QED
            BY <1>r, <1>w, <2>2, <3>1 DEF FamilyOK
    <2>3. CASE t # f
        BY <1>t, <1>w, <2>1, <2>3 DEF FamilyOK, SessionsTypeOK, Tokens
    <2> QED
        BY <2>2, <2>3
<1>i. req'[r] = Idle /\ \A q \in Request \ {r} : req'[q] = req[q]
    BY <1>t, <1>w DEF SessionsTypeOK
<1>3. ASSUME NEW q \in Request PROVE RequestOK(q)'
    <2>1. CASE q = r
        BY <1>i, <2>1 DEF RequestOK, RefreshOK, RevokeOK, LockedLive, KnownOK, Idle
    <2>2. CASE q # r
        <3>1. RequestOK(q) /\ req[q] \in RequestType /\ req'[q] = req[q]
            BY <1>i, <2>2 DEF LockInvariant, SessionsTypeOK, RequestType
        <3>2. req[q].op = "refresh" /\ req[q].s = f /\ req[q].pc # "token" => req[q].i # req[r].i
            <4>1. HoldsToken(r, f, req[r].i) /\ req[r].i \in Tokens(f)
                BY <1>r, <1>w DEF HoldsToken, Tokens, f
            <4>2. ~HoldsToken(q, f, req[r].i)
                BY <1>r, <2>2, <4>1 DEF LockInvariant, Exclusive
            <4> QED
                BY <3>1, <4>2 DEF HoldsToken, RequestOK, RefreshOK
        <3>3. req[q].op = "refresh" /\ req[q].pc # "token" =>
                RowOf(req[q].s, req[q].i)' = RowOf(req[q].s, req[q].i)
            BY <1>t, <1>w, <3>1, <3>2 DEF RowOf, SessionsTypeOK, RequestOK, RefreshOK
        <3>4. req[q].op = "refresh" => req[q].i \in Tokens(req[q].s)'
            BY <1>t, <1>w, <1>r, <3>1 DEF Tokens, SessionsTypeOK, RequestOK, RefreshOK
        <3>5. RefreshOK(q)'
            BY <3>1, <3>3, <3>4 DEF RequestOK, RefreshOK
        <3>6. RevokeOK(q)' /\ LockedLive(q)' /\ KnownOK(q)'
            BY <1>w, <3>1 DEF RequestOK, RevokeOK, LockedLive, KnownOK
        <3> QED
            BY <3>5, <3>6 DEF RequestOK
    <2> QED
        BY <2>1, <2>2
<1>4. Exclusive'
    <2> SUFFICES ASSUME NEW p \in Request, NEW q \in Request, p # q, NEW t \in Session
                 PROVE  /\ ~(HoldsSession(p, t)' /\ HoldsSession(q, t)')
                        /\ \A i \in Tokens(t)' : ~(HoldsToken(p, t, i)' /\ HoldsToken(q, t, i)')
        BY DEF Exclusive
    <2>1. \A i : ~HoldsSession(r, t)' /\ ~HoldsToken(r, t, i)'
        BY <1>i DEF HoldsSession, HoldsToken, Idle
    <2>2. CASE p = r \/ q = r
        BY <2>1, <2>2
    <2>3. CASE p # r /\ q # r
        <3>1. req'[p] = req[p] /\ req'[q] = req[q]
            BY <1>i, <2>3
        <3>2. ~(HoldsSession(p, t)' /\ HoldsSession(q, t)')
            BY <3>1 DEF LockInvariant, Exclusive, HoldsSession
        <3>3. CASE t # f
            BY <1>t, <1>w, <3>1, <3>2, <3>3 DEF LockInvariant, Exclusive, HoldsToken, Tokens, SessionsTypeOK
        <3>4. CASE t = f
            <4>1. f \notin req[p].done /\ f \notin req[q].done
                BY <1>w, <2>3 DEF SessionFree, HoldsSession
            <4>2. ASSUME NEW i \in Tokens(t)' PROVE ~(HoldsToken(p, t, i)' /\ HoldsToken(q, t, i)')
                <5>1. CASE i \in Tokens(t)
                    BY <3>1, <5>1 DEF LockInvariant, Exclusive, HoldsToken
                <5>2. CASE i \notin Tokens(t)
                    <6>1. RequestOK(p)
                        BY DEF LockInvariant
                    <6>2. ~HoldsToken(p, t, i)'
                        BY <3>1, <3>4, <4>1, <5>2, <6>1 DEF HoldsToken, RequestOK, RefreshOK
                    <6> QED
                        BY <6>2
                <5> QED
                    BY <5>1, <5>2
            <4> QED
                BY <3>2, <4>2
        <3> QED
            BY <3>3, <3>4
    <2> QED
        BY <2>2, <2>3
<1>5. AnsweredIsRevoked'
    BY <1>w DEF LockInvariant, AnsweredIsRevoked
<1> QED
    BY <1>1, <1>2, <1>3, <1>4, <1>5 DEF LockInvariant

\* A revocation that commits, of a family or of many sessions, keeps the
\* invariant, and what its client is told is true.
LEMMA CommitKeeps ==
    ASSUME LockInvariant, NEW r \in Request, Commit(r)
    PROVE  LockInvariant'
<1> DEFINE S == req[r].done
<1>t. SessionsTypeOK /\ RequestOK(r) /\ S \subseteq Session
    BY DEF LockInvariant, SessionsTypeOK
<1>w. /\ session' = [s \in Session |-> IF s \in S THEN "revoked" ELSE session[s]]
      /\ dead' = [s \in Session |-> IF s \in S THEN Tokens(s) ELSE dead[s]]
      /\ closed' = closed \cup Told(r)
      /\ req' = [req EXCEPT ![r] = Idle]
      /\ UNCHANGED <<issued, used, lapse>>
      /\ req[r].pc = "next" /\ req[r].todo = {}
    BY DEF Commit
<1>h. \A s \in S : HoldsSession(r, s) /\ \A i \in Tokens(s) : HoldsToken(r, s, i)
    BY DEF HoldsSession, HoldsToken
<1>l. \A s \in S : session[s] = "live"
    BY <1>t DEF RequestOK, LockedLive
<1> HIDE DEF S
<1>a. \A s \in Told(r) : s \in Session /\ session'[s] = "revoked"
    <2>1. CASE req[r].op = "refresh"
        BY <1>t, <1>w, <2>1 DEF Told, RequestOK, RefreshOK, S
    <2>2. CASE req[r].op # "refresh"
        BY <1>t, <1>w, <2>2 DEF Told, RequestOK, KnownOK, S, SessionsTypeOK
    <2> QED
        BY <2>1, <2>2
<1>1. SessionsTypeOK'
    <2>1. req' \in [Request -> RequestType]
        BY <1>t, <1>w, IdleTyped DEF SessionsTypeOK, RequestType
    <2>2. ASSUME NEW s \in Session PROVE Tokens(s) \subseteq 1..MaxTokens
        BY <1>t, MaxTokensAssumption DEF Tokens, SessionsTypeOK
    <2>3. dead' \in [Session -> SUBSET (1..MaxTokens)]
        BY <1>t, <1>w, <2>2 DEF SessionsTypeOK
    <2>4. session' \in [Session -> {"none", "live", "revoked"}]
        BY <1>t, <1>w DEF SessionsTypeOK
    <2>5. closed' \in SUBSET Session
        BY <1>t, <1>w, <1>a DEF SessionsTypeOK
    <2> QED
        BY <1>t, <1>w, <2>1, <2>3, <2>4, <2>5 DEF SessionsTypeOK, RequestType
<1>2. ASSUME NEW s \in Session PROVE FamilyOK(s)'
    <2>1. FamilyOK(s)
        BY DEF LockInvariant
    <2>2. CASE s \in S
        BY <1>w, <2>2 DEF FamilyOK, Tokens
    <2>3. CASE s \notin S
        BY <1>w, <2>1, <2>3 DEF FamilyOK, Tokens
    <2> QED
        BY <2>2, <2>3
<1>i. req'[r] = Idle /\ \A q \in Request \ {r} : req'[q] = req[q]
    BY <1>t, <1>w DEF SessionsTypeOK
<1>3. ASSUME NEW q \in Request PROVE RequestOK(q)'
    <2>1. CASE q = r
        BY <1>i, <2>1 DEF RequestOK, RefreshOK, RevokeOK, LockedLive, KnownOK, Idle
    <2>2. CASE q # r
        <3>1. RequestOK(q) /\ req'[q] = req[q] /\ req[q].done \subseteq Session /\ req[q].known \subseteq Session
            BY <1>i, <2>2 DEF LockInvariant, SessionsTypeOK
        <3>2. \A s \in S : ~HoldsSession(q, s) /\ \A i \in Tokens(s) : ~HoldsToken(q, s, i)
            BY <1>t, <1>h, <2>2 DEF LockInvariant, Exclusive
        <3>3. RefreshOK(q)'
            <4>1. req[q].op = "refresh" /\ req[q].pc # "token" => req[q].s \notin S
                BY <3>1, <3>2 DEF RequestOK, RefreshOK, HoldsToken
            <4>2. req[q].op = "refresh" /\ req[q].pc # "token" =>
                    RowOf(req[q].s, req[q].i)' = RowOf(req[q].s, req[q].i)
                BY <1>w, <3>1, <4>1 DEF RowOf, RequestOK, RefreshOK
            <4>3. \A s : Tokens(s)' = Tokens(s)
                BY <1>w DEF Tokens
            <4> QED
                BY <3>1, <4>2, <4>3 DEF RequestOK, RefreshOK
        <3>4. RevokeOK(q)'
            BY <3>1 DEF RequestOK, RevokeOK
        <3>5. LockedLive(q)'
            BY <1>w, <3>1, <3>2 DEF RequestOK, RevokeOK, LockedLive, HoldsSession
        <3>6. KnownOK(q)'
            BY <1>w, <3>1 DEF RequestOK, KnownOK
        <3> QED
            BY <3>3, <3>4, <3>5, <3>6 DEF RequestOK
    <2> QED
        BY <2>1, <2>2
<1>4. Exclusive'
    <2> SUFFICES ASSUME NEW p \in Request, NEW q \in Request, p # q, NEW t \in Session
                 PROVE  /\ ~(HoldsSession(p, t)' /\ HoldsSession(q, t)')
                        /\ \A i \in Tokens(t) : ~(HoldsToken(p, t, i)' /\ HoldsToken(q, t, i)')
        BY <1>w DEF Exclusive, Tokens
    <2>1. \A i : ~HoldsSession(r, t)' /\ ~HoldsToken(r, t, i)'
        BY <1>i DEF HoldsSession, HoldsToken, Idle
    <2>2. CASE p = r \/ q = r
        BY <2>1, <2>2
    <2>3. CASE p # r /\ q # r
        BY <1>i, <2>3 DEF LockInvariant, Exclusive, HoldsSession, HoldsToken
    <2> QED
        BY <2>2, <2>3
<1>5. AnsweredIsRevoked'
    BY <1>t, <1>w, <1>a DEF LockInvariant, AnsweredIsRevoked, SessionsTypeOK
<1> QED
    BY <1>1, <1>2, <1>3, <1>4, <1>5 DEF LockInvariant

-----------------------------------------------------------------------------
\* The row locks keep the invariant in every step of the specification.
LEMMA LockInvariantHolds == SessionsSpec => []LockInvariant
<1>1. SessionsInit => LockInvariant
    <2> SUFFICES ASSUME SessionsInit PROVE LockInvariant
        OBVIOUS
    <2>1. SessionsTypeOK
        BY IdleTyped, MaxTokensAssumption DEF SessionsInit, SessionsTypeOK, RequestType
    <2>2. (\A s \in Session : FamilyOK(s)) /\ AnsweredIsRevoked
        BY DEF SessionsInit, FamilyOK, AnsweredIsRevoked
    <2>3. \A r \in Request : RequestOK(r)
        BY DEF SessionsInit, RequestOK, RefreshOK, RevokeOK, LockedLive, KnownOK, Idle
    <2>4. Exclusive
        BY DEF SessionsInit, Exclusive, HoldsSession, HoldsToken, Idle
    <2> QED
        BY <2>1, <2>2, <2>3, <2>4 DEF LockInvariant
<1>2. LockInvariant /\ [SessionsNext]_sessionVars => LockInvariant'
    <2> SUFFICES ASSUME LockInvariant, [SessionsNext]_sessionVars PROVE LockInvariant'
        OBVIOUS
    <2>1. ASSUME NEW s \in Session, Create(s) PROVE LockInvariant'
        BY <2>1, CreateKeeps
    <2>2. ASSUME UNCHANGED <<session, issued, used, dead, req, closed>>,
                 lapse' \in [Session -> {"no", "token", "session"}]
          PROVE  LockInvariant'
        <3>1. SessionsTypeOK'
            BY <2>2 DEF LockInvariant, SessionsTypeOK
        <3>2. \A s \in Session : FamilyOK(s)'
            BY <2>2 DEF LockInvariant, FamilyOK, Tokens
        <3>3. ASSUME NEW r \in Request PROVE RequestOK(r)'
            <4>1. RequestOK(r)
                BY DEF LockInvariant
            <4>2. RefreshOK(r)'
                BY <2>2, <4>1 DEF RequestOK, RefreshOK, Tokens, RowOf
            <4>3. RevokeOK(r)' /\ LockedLive(r)' /\ KnownOK(r)'
                BY <2>2, <4>1 DEF RequestOK, RevokeOK, LockedLive, KnownOK
            <4> QED
                BY <4>2, <4>3 DEF RequestOK
        <3>4. Exclusive' /\ AnsweredIsRevoked'
            BY <2>2 DEF LockInvariant, Exclusive, HoldsSession, HoldsToken, Tokens, AnsweredIsRevoked
        <3> QED
            BY <3>1, <3>2, <3>3, <3>4 DEF LockInvariant
    <2>3. ASSUME NEW s \in Session, Lapse(s) PROVE LockInvariant'
        <3>1. lapse' \in [Session -> {"no", "token", "session"}]
            BY <2>3 DEF Lapse, LockInvariant, SessionsTypeOK
        <3> QED
            BY <2>2, <2>3, <3>1 DEF Lapse
    <2>4. ASSUME NEW r \in Request, RefuseToken(r) PROVE LockInvariant'
        <3>1. req[r].op = "refresh" /\ req[r].s \in Session
            BY <2>4 DEF RefuseToken, LockInvariant, SessionsTypeOK, RequestOK, RefreshOK, RevokeOK
        <3>2. closed' \in SUBSET Session /\ AnsweredIsRevoked'
            BY <2>4, <3>1 DEF RefuseToken, LockInvariant, SessionsTypeOK, AnsweredIsRevoked, Reused
        <3> QED
            BY <2>4, <3>2, GoesIdle DEF RefuseToken
    <2>5. ASSUME NEW r \in Request, BreakDeadlock(r) \/ LoseConnection(r) PROVE LockInvariant'
        <3>1. closed' \in SUBSET Session /\ AnsweredIsRevoked'
            BY <2>5 DEF BreakDeadlock, LoseConnection, LockInvariant, SessionsTypeOK, AnsweredIsRevoked
        <3> QED
            BY <2>5, <3>1, GoesIdle DEF BreakDeadlock, LoseConnection
    <2>6. CASE UNCHANGED sessionVars
        <3>1. lapse' \in [Session -> {"no", "token", "session"}]
            BY <2>6 DEF sessionVars, LockInvariant, SessionsTypeOK
        <3> QED
            BY <2>2, <2>6, <3>1 DEF sessionVars
    <2> QED
        BY <2>1, <2>3, <2>4, <2>5, <2>6, MovingSteps, RotateKeeps, CommitKeeps DEF SessionsNext, Step
<1> QED
    BY <1>1, <1>2, PTL DEF SessionsSpec

\* Types of the session tables and of every transaction, for any number of
\* sessions, tokens and requests.
THEOREM SessionsTypes == SessionsSpec => []SessionsTypeOK
<1>1. LockInvariant => SessionsTypeOK
    BY DEF LockInvariant
<1> QED
    BY <1>1, LockInvariantHolds, PTL

\* No client is told of a revocation, after a reused token, a logout or a
\* password reset, that the tables do not show.
THEOREM AnswersAreTrue == SessionsSpec => []AnsweredIsRevoked
<1>1. LockInvariant => AnsweredIsRevoked
    BY DEF LockInvariant
<1> QED
    BY <1>1, LockInvariantHolds, PTL

-----------------------------------------------------------------------------
\* A commit ends the sessions it revoked, all at once.
LEMMA CommitEnds ==
    ASSUME LockInvariant, NEW r \in Request, Commit(r)
    PROVE  \E S \in SUBSET Session : Families!End(S)
<1> PICK S \in SUBSET Session : S = req[r].done
    BY DEF LockInvariant, SessionsTypeOK
<1>1. SessionsTypeOK /\ S \in SUBSET Session /\ \A s \in S : session[s] = "live"
    BY DEF LockInvariant, SessionsTypeOK, RequestOK, LockedLive
<1>2. /\ session' = [s \in Session |-> IF s \in S THEN "revoked" ELSE session[s]]
      /\ dead' = [s \in Session |-> IF s \in S THEN Tokens(s) ELSE dead[s]]
      /\ issued' = issued /\ used' = used
    BY DEF Commit
<1>3. ASSUME NEW s \in Session
      PROVE  (Tokens(s) \ (used[s] \cup dead[s]))' =
                IF s \in S THEN {} ELSE Tokens(s) \ (used[s] \cup dead[s])
    BY <1>1, <1>2 DEF Tokens
<1>4. ASSUME NEW s \in Session
      PROVE  (IF session[s] = "revoked" THEN "ended" ELSE session[s])' =
                IF s \in S THEN "ended" ELSE IF session[s] = "revoked" THEN "ended" ELSE session[s]
    BY <1>1, <1>2
<1> QED
    BY <1>1, <1>2, <1>3, <1>4 DEF Families!End

\* A rotation trades the one good token of a live family for the next.
LEMMA RotateTrades ==
    ASSUME LockInvariant, NEW r \in Request, RotateToken(r)
    PROVE  \E f \in Session : Families!Rotate(f)
<1> PICK f \in Session : f = req[r].s
    BY RotatesTheLast
<1>1. /\ f \in Session /\ session[f] = "live" /\ SessionsTypeOK
      /\ req[r].i = issued[f] /\ issued[f] \in Nat \ {0}
      /\ used[f] = 1..(issued[f] - 1) /\ dead[f] = {}
    BY RotatesTheLast, MaxTokensAssumption DEF LockInvariant
<1>2. /\ issued' = [issued EXCEPT ![f] = @ + 1]
      /\ used' = [used EXCEPT ![f] = @ \cup {req[r].i}]
      /\ session' = session /\ dead' = dead
    BY DEF RotateToken
<1>3. Tokens(f) \ (used[f] \cup dead[f]) = {issued[f]}
    BY <1>1 DEF Tokens
<1>4. issued'[f] = issued[f] + 1 /\ (Tokens(f) \ (used[f] \cup dead[f]))' = {issued[f] + 1}
    <2>1. issued'[f] = issued[f] + 1
        BY <1>1, <1>2 DEF SessionsTypeOK
    <2>2. used'[f] = used[f] \cup {issued[f]}
        BY <1>1, <1>2 DEF SessionsTypeOK
    <2>3. used'[f] = 1..issued[f] /\ dead'[f] = {}
        <3>1. (1..(issued[f] - 1)) \cup {issued[f]} = 1..issued[f]
            BY <1>1
        <3> QED
            BY <1>1, <1>2, <2>2, <3>1
    <2>4. Tokens(f)' = 1..(issued[f] + 1)
        BY <2>1 DEF Tokens
    <2>5. (1..(issued[f] + 1)) \ ((1..issued[f]) \cup {}) = {issued[f] + 1}
        BY <1>1
    <2> QED
        BY <2>1, <2>3, <2>4, <2>5
<1>5. ASSUME NEW s \in Session, s # f
      PROVE  (Tokens(s) \ (used[s] \cup dead[s]))' = Tokens(s) \ (used[s] \cup dead[s])
    BY <1>1, <1>2, <1>5 DEF Tokens, SessionsTypeOK
<1>6. [s \in Session |-> Tokens(s) \ (used[s] \cup dead[s])]' =
        [[s \in Session |-> Tokens(s) \ (used[s] \cup dead[s])] EXCEPT ![f] = {issued[f] + 1}]
    BY <1>4, <1>5
<1> QED
    BY <1>1, <1>2, <1>3, <1>6 DEF Families!Rotate

\* A login opens a family.
LEMMA CreateOpens ==
    ASSUME LockInvariant, NEW s \in Session, Create(s)
    PROVE  Families!Open(s)
<1>1. SessionsTypeOK /\ session[s] = "none" /\ used[s] = {} /\ dead[s] = {}
    BY DEF Create, LockInvariant, FamilyOK
<1>2. /\ session' = [session EXCEPT ![s] = "live"] /\ issued' = [issued EXCEPT ![s] = 1]
      /\ used' = used /\ dead' = dead
    BY DEF Create
<1>3. (Tokens(s) \ (used[s] \cup dead[s]))' = {1}
    BY <1>1, <1>2 DEF Tokens, SessionsTypeOK
<1>4. ASSUME NEW t \in Session, t # s
      PROVE  (Tokens(t) \ (used[t] \cup dead[t]))' = Tokens(t) \ (used[t] \cup dead[t])
    BY <1>1, <1>2, <1>4 DEF Tokens, SessionsTypeOK
<1> QED
    BY <1>1, <1>2, <1>3, <1>4 DEF Families!Open, SessionsTypeOK

\* The transactions of auth-sessions.ts, with their row locks, deadlocks and
\* crashes, implement the atomic families: one good token while a session
\* lives, none from the moment it is revoked.
THEOREM SessionsImplementFamilies == SessionsSpec => ImplementsFamilies
<1>1. SessionsInit => Families!Init
    BY DEF SessionsInit, Families!Init, Tokens
<1>2. LockInvariant /\ [SessionsNext]_sessionVars => [Families!Next]_(Families!vars)
    <2> SUFFICES ASSUME LockInvariant, [SessionsNext]_sessionVars PROVE [Families!Next]_(Families!vars)
        OBVIOUS
    <2>1. ASSUME UNCHANGED <<session, issued, used, dead>> PROVE UNCHANGED Families!vars
        BY <2>1 DEF Families!vars, Tokens
    <2>2. ASSUME NEW s \in Session, Create(s) PROVE Families!Next
        BY <2>2, CreateOpens DEF Families!Next
    <2>3. ASSUME NEW r \in Request, RotateToken(r) PROVE Families!Next
        BY <2>3, RotateTrades DEF Families!Next
    <2>4. ASSUME NEW r \in Request, Commit(r) PROVE Families!Next
        BY <2>4, CommitEnds DEF Families!Next
    <2>5. CASE UNCHANGED sessionVars
        BY <2>1, <2>5 DEF sessionVars
    <2>6. ASSUME NEW s \in Session, Lapse(s) PROVE UNCHANGED <<session, issued, used, dead>>
        BY <2>6 DEF Lapse
    <2>7. ASSUME NEW r \in Request,
                 \/ \E s \in Session : \E i \in 1..MaxTokens : BeginRefresh(r, s, i)
                 \/ \E s \in Session : \E scope \in Scopes(s) : BeginRevoke(r, s, scope)
                 \/ BeginReset(r) \/ LoseConnection(r) \/ BreakDeadlock(r)
                 \/ LockToken(r) \/ RefuseToken(r) \/ RevokeFamily(r)
                 \/ (\E s \in Session : NextRow(r, s)) \/ LockRow(r) \/ LockFamily(r)
          PROVE  UNCHANGED <<session, issued, used, dead>>
        BY <2>7 DEF BeginRefresh, BeginRevoke, BeginReset, LoseConnection, BreakDeadlock, LockToken,
                    RefuseToken, RevokeFamily, NextRow, LockRow, LockFamily
    <2> QED
        BY <2>1, <2>2, <2>3, <2>4, <2>5, <2>6, <2>7 DEF SessionsNext, Step
<1> QED
    BY <1>1, <1>2, LockInvariantHolds, PTL DEF SessionsSpec, ImplementsFamilies, Families!Spec

-----------------------------------------------------------------------------
(* Notification emails.                                                    *)

\* A worker remembers only claims the table has handed out, no two workers
\* remember the same one, and a worker in the body of the loop has a candidate.
ClaimsInv ==
    /\ \A w \in Workers : \A c \in Held(w) : c.token =< rows[c.id].attempts
    /\ \A v, w \in Workers : v # w => Held(v) \cap Held(w) = {}
    /\ \A w \in Workers : phase[w] \notin {"idle", "loop"} => cur[w] \in Candidate

\* The provider has sent one email for each key it has accepted, and no other;
\* whoever is about to record "sent", or has recorded it, used such a key.
MailInv ==
    /\ acceptedKeys \subseteq Rows
    /\ \A r \in Rows : deliveries[r] = IF r \in acceptedKeys THEN 1 ELSE 0
    /\ \A w \in Workers : phase[w] = "markSent" => cur[w].id \in acceptedKeys
    /\ \A r \in Rows : rows[r].status = "sent" => r \in acceptedKeys

Inv == TypeOK /\ TableInv /\ ClaimsInv /\ MailInv

-----------------------------------------------------------------------------
\* A fenced UPDATE is a step of the table by the claim's holder, or no step.
LEMMA FencedStep ==
    ASSUME TypeOK, NEW c \in Candidate, NEW updated,
           rows' = [rows EXCEPT ![c.id] = Fenced(@, c.token, updated)]
    PROVE  \/ UNCHANGED rows
           \/ /\ rows[c.id].status = "processing"
              /\ rows[c.id].token = c.token
              /\ rows' = [rows EXCEPT ![c.id] = updated]
  BY DEF TypeOK, Candidate, Fenced, Owns

\* Every step of the processor is a step of the table or leaves it alone.
LEMMA StepImplementsTable ==
    ASSUME TypeOK, ClaimsInv, [Next]_vars
    PROVE  [TableNext]_rows
  <1>1. ASSUME NEW r \in Rows, Enqueue(r) \/ RecipientChanges(r) \/ RetryDead(r) \/ TimePasses(r)
        PROVE  [TableNext]_rows
    BY <1>1 DEF Enqueue, Insert, RecipientChanges, RetryDead, TimePasses, TableNext
  <1>2. ASSUME NEW w \in Workers, ClaimNotificationEmailBatch(w)
        PROVE  [TableNext]_rows
    BY <1>2 DEF ClaimNotificationEmailBatch, TableNext
  <1>3. ASSUME NEW w \in Workers,
               LoadRecipient(w) \/ Send(w) \/ MarkFails(w) \/ Crash(w)
        PROVE  [TableNext]_rows
    BY <1>3 DEF LoadRecipient, Send, MarkFails, Crash
  <1>4. ASSUME NEW w \in Workers, MarkSkipped(w)
        PROVE  [TableNext]_rows
    <2>1. cur[w] \in Candidate /\ cur[w].id \in Rows
      BY <1>4 DEF MarkSkipped, ClaimsInv, Candidate
    <2>2. UNCHANGED rows \/ Finish(cur[w].id, "skipped")
      BY <1>4, <2>1, FencedStep DEF MarkSkipped, Finish
    <2> QED  BY <2>1, <2>2 DEF TableNext, DoneStatus
  <1>5. ASSUME NEW w \in Workers, MarkSent(w)
        PROVE  [TableNext]_rows
    <2>1. cur[w] \in Candidate /\ cur[w].id \in Rows
      BY <1>5 DEF MarkSent, ClaimsInv, Candidate
    <2>2. UNCHANGED rows \/ Finish(cur[w].id, "sent")
      BY <1>5, <2>1, FencedStep DEF MarkSent, Finish
    <2> QED  BY <2>1, <2>2 DEF TableNext, DoneStatus
  <1>6. ASSUME NEW w \in Workers, ReleaseFailed(w)
        PROVE  [TableNext]_rows
    <2>1. cur[w] \in Candidate /\ cur[w].id \in Rows
      BY <1>6 DEF ReleaseFailed, ClaimsInv, Candidate
    <2>2. UNCHANGED rows \/ GiveBack(cur[w].id)
      BY <1>6, <2>1, FencedStep DEF ReleaseFailed, GiveBack
    <2> QED  BY <2>1, <2>2 DEF TableNext
  <1>7. CASE UNCHANGED vars
    BY <1>7 DEF vars
  <1> QED  BY <1>1, <1>2, <1>3, <1>4, <1>5, <1>6, <1>7 DEF Next, WorkerStep

\* The invariant holds before the first job.
LEMMA InitInv == Init => Inv
  <1> SUFFICES ASSUME Init PROVE Inv
    OBVIOUS
  <1>1. TableInv
    BY TableInitInv DEF Init
  <1>2. TypeOK
    BY <1>1 DEF Init, TypeOK, TableInv, Phases
  <1>3. ClaimsInv
    BY DEF Init, ClaimsInv, Held
  <1>4. MailInv
    BY DEF Init, TableInit, MailInv, AbsentRow
  <1> QED  BY <1>1, <1>2, <1>3, <1>4 DEF Inv

-----------------------------------------------------------------------------
\* Attempts never decrease, so a token that has been handed out stays handed out.
LEMMA AttemptsGrow ==
    ASSUME TableInv, [TableNext]_rows
    PROVE  \A r \in Rows : /\ rows[r].attempts \in Nat
                          /\ rows'[r].attempts \in Nat
                          /\ rows[r].attempts =< rows'[r].attempts
  <1> SUFFICES ASSUME NEW r \in Rows
               PROVE  /\ rows[r].attempts \in Nat
                      /\ rows'[r].attempts \in Nat
                      /\ rows[r].attempts =< rows'[r].attempts
    OBVIOUS
  <1>1. rows[r] \in RowType
    BY DEF TableInv
  <1>2. TriggerAllows(rows[r], rows'[r])
    BY <1>1, TableStepMoves, RowMovesAllowed
  <1>3. rows'[r] \in RowType
    BY TableInvStep DEF TableInv
  <1> QED  BY <1>1, <1>2, <1>3 DEF TriggerAllows, RowType

\* What each worker remembers after a step: a claim adds the tokens just drawn,
\* every other step only forgets.
LEMMA HeldStep ==
    ASSUME Inv, [Next]_vars
    PROVE  \/ \A v \in Workers : Held(v)' \subseteq Held(v)
           \/ \E w \in Workers, S \in SUBSET Rows :
                 /\ ClaimBatch(S)
                 /\ \A v \in Workers \ {w} : Held(v)' = Held(v)
                 /\ Held(w)' \subseteq Held(w)
                      \cup {[id |-> r, token |-> Claimed(rows[r]).token] : r \in S}
  <1> USE DEF Inv, TypeOK
  <1>1. ASSUME NEW r \in Rows, Enqueue(r) \/ RecipientChanges(r) \/ RetryDead(r) \/ TimePasses(r)
        PROVE  \A v \in Workers : Held(v)' \subseteq Held(v)
    BY <1>1 DEF Enqueue, RecipientChanges, RetryDead, TimePasses, workerVars, Held
  <1>2. ASSUME NEW w \in Workers, ClaimNotificationEmailBatch(w)
        PROVE  \E S \in SUBSET Rows :
                 /\ ClaimBatch(S)
                 /\ \A v \in Workers \ {w} : Held(v)' = Held(v)
                 /\ Held(w)' \subseteq Held(w)
                      \cup {[id |-> r, token |-> Claimed(rows[r]).token] : r \in S}
    BY <1>2 DEF ClaimNotificationEmailBatch, Held
  <1>3. ASSUME NEW w \in Workers, LoadRecipient(w)
        PROVE  \A v \in Workers : Held(v)' \subseteq Held(v)
    BY <1>3 DEF LoadRecipient, Held
  <1>4. ASSUME NEW w \in Workers, MarkSkipped(w) \/ MarkSent(w) \/ ReleaseFailed(w)
        PROVE  \A v \in Workers : Held(v)' \subseteq Held(v)
    BY <1>4 DEF MarkSkipped, MarkSent, ReleaseFailed, Continue, Held
  <1>5. ASSUME NEW w \in Workers, Send(w) \/ MarkFails(w)
        PROVE  \A v \in Workers : Held(v)' \subseteq Held(v)
    BY <1>5 DEF Send, MarkFails, Goto, Held
  <1>6. ASSUME NEW w \in Workers, Crash(w)
        PROVE  \A v \in Workers : Held(v)' \subseteq Held(v)
    BY <1>6 DEF Crash, Held
  <1>7. CASE UNCHANGED vars
    BY <1>7 DEF vars, workerVars, Held
  <1> QED  BY <1>1, <1>2, <1>3, <1>4, <1>5, <1>6, <1>7 DEF Next, WorkerStep

\* Every step keeps the types.
LEMMA TypeStep == Inv /\ [Next]_vars => TypeOK'
  <1> SUFFICES ASSUME Inv, [Next]_vars PROVE TypeOK'
    OBVIOUS
  <1>1. rows' \in [Rows -> RowType]
    BY StepImplementsTable, TableInvStep DEF Inv, TableInv
  <1>2. ASSUME NEW r \in Rows, Enqueue(r) \/ RecipientChanges(r) \/ RetryDead(r) \/ TimePasses(r)
        PROVE  TypeOK'
    BY <1>1, <1>2 DEF Inv, TypeOK, Enqueue, RecipientChanges, RetryDead, TimePasses,
       workerVars, mailVars
  <1>3. ASSUME NEW w \in Workers, ClaimNotificationEmailBatch(w)
        PROVE  TypeOK'
    <2>1. PICK S \in SUBSET Rows :
             batch' = [batch EXCEPT ![w] =
                {[id |-> r, token |-> Claimed(rows[r]).token] : r \in S}]
      BY <1>3 DEF ClaimNotificationEmailBatch
    <2>2. \A r \in Rows : Claimed(rows[r]).token \in Nat
      BY DEF Inv, TypeOK, RowType, Claimed
    <2>3. batch' \in [Workers -> SUBSET Candidate]
      BY <2>1, <2>2 DEF Inv, TypeOK, Candidate
    <2> QED  BY <1>1, <1>3, <2>3 DEF Inv, TypeOK, ClaimNotificationEmailBatch, mailVars, Phases
  <1>4. ASSUME NEW w \in Workers, LoadRecipient(w)
        PROVE  TypeOK'
    BY <1>1, <1>4 DEF Inv, TypeOK, LoadRecipient, mailVars, Phases
  <1>5. ASSUME NEW w \in Workers, MarkSkipped(w) \/ MarkSent(w) \/ ReleaseFailed(w)
        PROVE  TypeOK'
    BY <1>1, <1>5 DEF Inv, TypeOK, MarkSkipped, MarkSent, ReleaseFailed, Continue, mailVars, Phases
  <1>6. ASSUME NEW w \in Workers, Send(w)
        PROVE  TypeOK'
    <2>1. cur[w].id \in Rows
      BY <1>6 DEF Inv, ClaimsInv, Send, Candidate
    <2>2. deliveries' \in [Rows -> Nat]
      BY <1>6, <2>1 DEF Inv, TypeOK, Send, ProviderAccepts
    <2> QED  BY <1>1, <1>6, <2>2 DEF Inv, TypeOK, Send, Goto, Phases
  <1>7. ASSUME NEW w \in Workers, MarkFails(w) \/ Crash(w)
        PROVE  TypeOK'
    BY <1>1, <1>7 DEF Inv, TypeOK, MarkFails, Crash, Goto, mailVars, Phases
  <1>8. CASE UNCHANGED vars
    BY <1>8 DEF Inv, TypeOK, vars, workerVars, mailVars
  <1> QED  BY <1>2, <1>3, <1>4, <1>5, <1>6, <1>7, <1>8 DEF Next, WorkerStep

-----------------------------------------------------------------------------
\* A worker inside the body of the loop still has its candidate after a step.
LEMMA CandidateStep ==
    ASSUME Inv, [Next]_vars
    PROVE  \A v \in Workers : phase'[v] \notin {"idle", "loop"} => cur'[v] \in Candidate
  <1> USE DEF Inv, TypeOK, ClaimsInv
  <1>1. ASSUME NEW r \in Rows, Enqueue(r) \/ RecipientChanges(r) \/ RetryDead(r) \/ TimePasses(r)
        PROVE  \A v \in Workers : phase'[v] \notin {"idle", "loop"} => cur'[v] \in Candidate
    BY <1>1 DEF Enqueue, RecipientChanges, RetryDead, TimePasses, workerVars
  <1>2. ASSUME NEW w \in Workers, ClaimNotificationEmailBatch(w)
        PROVE  \A v \in Workers : phase'[v] \notin {"idle", "loop"} => cur'[v] \in Candidate
    BY <1>2 DEF ClaimNotificationEmailBatch
  <1>3. ASSUME NEW w \in Workers, LoadRecipient(w)
        PROVE  \A v \in Workers : phase'[v] \notin {"idle", "loop"} => cur'[v] \in Candidate
    BY <1>3 DEF LoadRecipient
  <1>4. ASSUME NEW w \in Workers, MarkSkipped(w) \/ MarkSent(w) \/ ReleaseFailed(w) \/ Crash(w)
        PROVE  \A v \in Workers : phase'[v] \notin {"idle", "loop"} => cur'[v] \in Candidate
    BY <1>4 DEF MarkSkipped, MarkSent, ReleaseFailed, Crash, Continue
  <1>5. ASSUME NEW w \in Workers, Send(w) \/ MarkFails(w)
        PROVE  \A v \in Workers : phase'[v] \notin {"idle", "loop"} => cur'[v] \in Candidate
    BY <1>5 DEF Send, MarkFails, Goto
  <1>6. CASE UNCHANGED vars
    BY <1>6 DEF vars, workerVars
  <1> QED  BY <1>1, <1>2, <1>3, <1>4, <1>5, <1>6 DEF Next, WorkerStep

\* Every step keeps what the invariant says of remembered claims.
LEMMA ClaimsStep == Inv /\ [Next]_vars => ClaimsInv'
  <1> SUFFICES ASSUME Inv, [Next]_vars PROVE ClaimsInv'
    OBVIOUS
  <1>1. [TableNext]_rows /\ TableInv
    BY StepImplementsTable DEF Inv
  <1>2. \A v \in Workers : Held(v) \subseteq Candidate
    BY DEF Inv, TypeOK, Held
  <1>3. \A v \in Workers : \A c \in Held(v) :
           c.token =< rows[c.id].attempts /\ c.token =< rows'[c.id].attempts
    <2> SUFFICES ASSUME NEW v \in Workers, NEW c \in Held(v)
                 PROVE  c.token =< rows[c.id].attempts /\ c.token =< rows'[c.id].attempts
      OBVIOUS
    <2>1. c.id \in Rows /\ c.token \in Nat
      BY <1>2 DEF Candidate
    <2>2. c.token =< rows[c.id].attempts
      BY DEF Inv, ClaimsInv
    <2> QED  BY <1>1, <2>1, <2>2, AttemptsGrow
  <1>4. CASE \A v \in Workers : Held(v)' \subseteq Held(v)
    <2>1. \A w \in Workers : \A c \in Held(w)' : c.token =< rows'[c.id].attempts
      BY <1>3, <1>4
    <2>2. \A v, w \in Workers : v # w => Held(v)' \cap Held(w)' = {}
      BY <1>4 DEF Inv, ClaimsInv
    <2> QED  BY <2>1, <2>2, CandidateStep DEF ClaimsInv
  <1>5. ASSUME NEW w \in Workers, NEW S \in SUBSET Rows,
               ClaimBatch(S),
               \A v \in Workers \ {w} : Held(v)' = Held(v),
               Held(w)' \subseteq Held(w)
                  \cup {[id |-> r, token |-> Claimed(rows[r]).token] : r \in S}
        PROVE  ClaimsInv'
    <2> DEFINE New == {[id |-> r, token |-> Claimed(rows[r]).token] : r \in S}
    <2>1. \A c \in New : /\ c.id \in Rows
                        /\ c.token = rows[c.id].attempts + 1
                        /\ c.token =< rows'[c.id].attempts
      BY <1>5, <1>1, AttemptsGrow DEF ClaimBatch, Claimed
    <2>2. \A v \in Workers : Held(v) \cap New = {}
      BY <1>1, <1>3, <2>1, AttemptsGrow
    <2>3. \A v \in Workers : \A c \in Held(v)' : c.token =< rows'[c.id].attempts
      BY <1>3, <1>5, <2>1
    <2>4. \A u, v \in Workers : u # v => Held(u)' \cap Held(v)' = {}
      <3>1. \A u, v \in Workers : u # v => Held(u) \cap Held(v) = {}
        BY DEF Inv, ClaimsInv
      <3> HIDE DEF New
      <3> QED  BY <1>5, <2>2, <3>1 DEF New
    <2> QED  BY <2>3, <2>4, CandidateStep DEF ClaimsInv
  <1> QED  BY <1>4, <1>5, HeldStep

\* Every step keeps what it says of accepted keys and delivered emails.
LEMMA MailStep == Inv /\ [Next]_vars => MailInv'
  <1> SUFFICES ASSUME Inv, [Next]_vars PROVE MailInv'
    OBVIOUS
  <1> USE DEF Inv, TypeOK, MailInv
  <1>1. ASSUME NEW r \in Rows, Enqueue(r) \/ RecipientChanges(r) \/ RetryDead(r) \/ TimePasses(r)
        PROVE  MailInv'
    <2>1. \A q \in Rows : rows'[q].status = "sent" => rows[q].status = "sent"
      <3>1. CASE Enqueue(r)
        <4>1. \A q \in Rows : Inserted(rows[q]).status = "pending"
          BY DEF Inserted, RowType
        <4> QED  BY <3>1, <4>1 DEF Enqueue, Insert, InsertAll
      <3>2. CASE RecipientChanges(r) \/ RetryDead(r) \/ TimePasses(r)
        <4>1. /\ RetriedDeadLetter(rows[r], ExtraAttempts).status = "pending"
              /\ TimedOut(rows[r]).status = rows[r].status
              /\ BackedOff(rows[r]).status = rows[r].status
          BY DEF RetriedDeadLetter, TimedOut, BackedOff, RowType
        <4> QED  BY <3>2, <4>1 DEF RecipientChanges, RetryDead, TimePasses, RetryDeadLetter,
                    ClaimTimesOut, BackoffElapses
      <3> QED  BY <1>1, <3>1, <3>2
    <2> QED  BY <1>1, <2>1 DEF Enqueue, RecipientChanges, RetryDead, TimePasses, workerVars, mailVars
  <1>2. ASSUME NEW w \in Workers, ClaimNotificationEmailBatch(w)
        PROVE  MailInv'
    <2>1. \A q \in Rows : rows'[q].status = "sent" => rows[q].status = "sent"
      BY <1>2 DEF ClaimNotificationEmailBatch, ClaimBatch, Claimed
    <2> QED  BY <1>2, <2>1 DEF ClaimNotificationEmailBatch, mailVars
  <1>3. ASSUME NEW w \in Workers, LoadRecipient(w)
        PROVE  MailInv'
    BY <1>3 DEF LoadRecipient, mailVars
  <1>4. ASSUME NEW w \in Workers, MarkSkipped(w) \/ ReleaseFailed(w)
        PROVE  MailInv'
    <2>1. cur[w] \in Candidate /\ cur[w].id \in Rows
      BY <1>4 DEF MarkSkipped, ReleaseFailed, ClaimsInv, Candidate
    <2>2. /\ rows[cur[w].id] \in RowType
          /\ Finished(rows[cur[w].id], "skipped").status # "sent"
          /\ Released(rows[cur[w].id]).status # "sent"
      BY <2>1 DEF Finished, Released, RowType
    <2>3. \/ UNCHANGED rows
          \/ rows' = [rows EXCEPT ![cur[w].id] = Finished(rows[cur[w].id], "skipped")]
          \/ rows' = [rows EXCEPT ![cur[w].id] = Released(rows[cur[w].id])]
      BY <1>4, <2>1, FencedStep DEF MarkSkipped, ReleaseFailed
    <2>4. \A q \in Rows : rows'[q].status = "sent" => rows[q].status = "sent"
      BY <2>1, <2>2, <2>3
    <2> QED  BY <1>4, <2>4 DEF MarkSkipped, ReleaseFailed, Continue, mailVars
  <1>5. ASSUME NEW w \in Workers, MarkSent(w)
        PROVE  MailInv'
    <2>1. cur[w] \in Candidate /\ cur[w].id \in Rows /\ cur[w].id \in acceptedKeys
      BY <1>5 DEF MarkSent, ClaimsInv, Candidate
    <2>2. \A q \in Rows : rows'[q].status = "sent" => rows[q].status = "sent" \/ q = cur[w].id
      BY <1>5, <2>1 DEF MarkSent
    <2> QED  BY <1>5, <2>1, <2>2 DEF MarkSent, Continue, mailVars
  <1>6. ASSUME NEW w \in Workers, Send(w)
        PROVE  MailInv'
    <2>1. cur[w].id \in Rows
      BY <1>6 DEF Send, ClaimsInv, Candidate
    <2>2. \/ UNCHANGED <<acceptedKeys, deliveries>>
          \/ ProviderAccepts(cur[w])
      BY <1>6 DEF Send
    <2>3. acceptedKeys \subseteq acceptedKeys' /\ acceptedKeys' \subseteq Rows
      BY <2>1, <2>2 DEF ProviderAccepts, IdempotencyKey
    <2>4. \A r \in Rows : deliveries'[r] = IF r \in acceptedKeys' THEN 1 ELSE 0
      BY <2>1, <2>2 DEF ProviderAccepts, IdempotencyKey
    <2>5. phase'[w] = "markSent" => cur[w].id \in acceptedKeys'
      BY <1>6 DEF Send, ProviderAccepts, IdempotencyKey, Goto
    <2> QED  BY <1>6, <2>3, <2>4, <2>5 DEF Send, Goto
  <1>7. ASSUME NEW w \in Workers, MarkFails(w) \/ Crash(w)
        PROVE  MailInv'
    BY <1>7 DEF MarkFails, Crash, Goto, mailVars
  <1>8. CASE UNCHANGED vars
    BY <1>8 DEF vars, workerVars, mailVars
  <1> QED  BY <1>1, <1>2, <1>3, <1>4, <1>5, <1>6, <1>7, <1>8 DEF Next, WorkerStep

\* The invariant is inductive.
LEMMA InvStep == Inv /\ [Next]_vars => Inv'
  BY TypeStep, ClaimsStep, MailStep, StepImplementsTable, TableInvStep DEF Inv

\* Hence it holds in every reachable state.
LEMMA InvHolds == Spec => []Inv
  BY InitInv, InvStep, PTL DEF Spec

-----------------------------------------------------------------------------
\* The state of the processor always has its type.
THEOREM EmailTypeOK == Spec => []TypeOK
  BY InvHolds, PTL DEF Inv

\* Parallel workers cannot own the same current claim (ADR 0003): the claim
\* token of a takeover is new, so the worker that lost the row cannot pass the
\* fence again.
THEOREM EmailSingleOwner == Spec => []SingleOwner
  <1>1. Inv => SingleOwner
    BY DEF Inv, ClaimsInv, SingleOwner
  <1> QED  BY <1>1, InvHolds, PTL

\* One outbox row sends one email, whatever crashes, takeovers, lost answers and
\* dead-letter retries happen.
THEOREM EmailAtMostOnce == Spec => []AtMostOneEmail
  <1>1. Inv => AtMostOneEmail
    BY DEF Inv, MailInv, AtMostOneEmail
  <1> QED  BY <1>1, InvHolds, PTL

\* A row recorded as sent was delivered.
THEOREM EmailSentDelivered == Spec => []SentWasDelivered
  <1>1. Inv => SentWasDelivered
    BY DEF Inv, MailInv, SentWasDelivered
  <1> QED  BY <1>1, InvHolds, PTL

\* The processor implements the abstract work table.
THEOREM EmailImplementsTable == Spec => ImplementsWorkTable
  <1>1. Init => TableInit
    BY DEF Init
  <1>2. Inv /\ [Next]_vars => [TableNext]_rows
    BY StepImplementsTable DEF Inv
  <1> QED  BY <1>1, <1>2, InvHolds, PTL DEF Spec, TableSpec, ImplementsWorkTable

\* Hence the outbox trigger never rejects one of the processor's statements.
THEOREM EmailTrigger == Spec => TriggerNeverFires
  BY EmailImplementsTable, TableTrigger, PTL DEF ImplementsWorkTable

\* Only the worker whose current candidate is the row's current claim takes the
\* row out of processing.
THEOREM EmailOnlyOwnerFinishes == Spec => OnlyOwnerFinishes
  <1> DEFINE Owned(r) == \E w \in Workers : cur[w] = CurrentClaim(r) /\ cur'[w] # cur[w]
             Leaves(r) == rows[r].status = "processing" /\ rows'[r].status # "processing"
  <1>1. Inv /\ [Next]_vars => [\A r \in Rows : Leaves(r) => Owned(r)]_vars
    <2> SUFFICES ASSUME Inv, [Next]_vars, NEW r \in Rows, Leaves(r)
                 PROVE  Owned(r)
      OBVIOUS
    <2>1. ASSUME NEW w \in Workers, NEW updated, cur[w] \in Candidate, Continue(w),
                 rows' = [rows EXCEPT ![cur[w].id] = Fenced(@, cur[w].token, updated)]
          PROVE  Owned(r)
      <3>1. rows[r].token = cur[w].token /\ r = cur[w].id
        BY <2>1, FencedStep DEF Inv, TypeOK, Candidate
      <3>2. cur[w] = CurrentClaim(r)
        BY <2>1, <3>1 DEF CurrentClaim, Candidate
      <3>3. cur'[w] = NoCandidate
        BY <2>1 DEF Continue, Inv, TypeOK
      <3> QED  BY <2>1, <3>2, <3>3, EmailConstants
    <2>2. ASSUME NEW w \in Workers, MarkSkipped(w) \/ MarkSent(w) \/ ReleaseFailed(w)
          PROVE  Owned(r)
      <3>1. cur[w] \in Candidate
        BY <2>2 DEF MarkSkipped, MarkSent, ReleaseFailed, Inv, ClaimsInv
      <3>2. Continue(w)
        BY <2>2 DEF MarkSkipped, MarkSent, ReleaseFailed
      <3>3. \E updated : rows' = [rows EXCEPT ![cur[w].id] = Fenced(@, cur[w].token, updated)]
        BY <2>2 DEF MarkSkipped, MarkSent, ReleaseFailed
      <3> QED  BY <2>1, <3>1, <3>2, <3>3
    <2>3. ASSUME NEW q \in Rows, Enqueue(q) \/ RecipientChanges(q) \/ RetryDead(q) \/ TimePasses(q)
          PROVE  FALSE
      <3>1. rows[q] \in RowType
        BY DEF Inv, TypeOK
      <3>2. TimedOut(rows[q]).status = rows[q].status
        BY <3>1 DEF TimedOut, RowType
      <3>3. \/ UNCHANGED rows
            \/ rows[q].status # "processing" /\ \A p \in Rows \ {q} : rows'[p] = rows[p]
            \/ rows' = [rows EXCEPT ![q] = TimedOut(@)]
        BY <2>3 DEF Enqueue, RecipientChanges, RetryDead, TimePasses, Insert, InsertAll, RetryDeadLetter,
           ClaimTimesOut, BackoffElapses, Inv, TypeOK
      <3> QED  BY <3>2, <3>3 DEF Inv, TypeOK
    <2>4. ASSUME NEW w \in Workers, ClaimNotificationEmailBatch(w)
          PROVE  FALSE
      BY <2>4 DEF ClaimNotificationEmailBatch, ClaimBatch, Claimed
    <2>5. ASSUME NEW w \in Workers,
                 LoadRecipient(w) \/ Send(w) \/ MarkFails(w) \/ Crash(w)
          PROVE  FALSE
      BY <2>5 DEF LoadRecipient, Send, MarkFails, Crash
    <2>6. CASE UNCHANGED vars
      BY <2>6 DEF vars
    <2> QED  BY <2>2, <2>3, <2>4, <2>5, <2>6 DEF Next, WorkerStep
  <1> QED  BY <1>1, InvHolds, PTL DEF Spec, OnlyOwnerFinishes
=============================================================================
