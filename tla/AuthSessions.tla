---------------------------- MODULE AuthSessions ----------------------------
(***************************************************************************)
(* The sessions of one user and their refresh tokens, down to the row      *)
(* locks: packages/database/src/repositories/auth-sessions.ts, the         *)
(* password reset of auth-tokens.ts, their callers in                      *)
(* apps/api/src/auth.service.ts and the triggers of migration 0011.        *)
(*                                                                         *)
(* A refresh locks its token row and then its session row; every           *)
(* revocation locks a session row first and then, by the trigger, all the  *)
(* tokens of the family.  The two orders can meet, so PostgreSQL may have  *)
(* to break a deadlock by rolling one of the transactions back.            *)
(*                                                                         *)
(* A transaction's writes show when it commits; until then its locks keep  *)
(* the rows it read as they were.                                          *)
(***************************************************************************)
EXTENDS Naturals, FiniteSets

CONSTANTS
    Session,        \* the sessions the user may open
    Request,        \* requests in flight at once
    MaxTokens,      \* bound: tokens of one family
    Lapsing,        \* bound: the sessions that may pass an expiry
    NoSession       \* a request that is at no session

ASSUME MaxTokensAssumption == MaxTokens \in Nat \ {0}
ASSUME NoSessionAssumption == NoSession \notin Session

VARIABLES
    session,    \* user_sessions: "none", "live" or "revoked"
    issued,     \* issued[s]: tokens of the family, numbered 1..issued[s]
    used,       \* used[s]: the tokens whose used_at is set
    dead,       \* dead[s]: the tokens whose revoked_at is set
    lapse,      \* lapse[s]: "no", "token" (the last token's expires_at has
                \*   passed) or "session" (the session's has, and so all)
    req,        \* req[r]: the transaction of a request
    closed      \* the sessions of which some client was told they are over

sessionVars == <<session, issued, used, dead, lapse, req, closed>>

(* A request in flight: what it is, where it is, the session at hand and   *)
(* the token presented, what had lapsed at the request's clock and what    *)
(* the token's row said (late, row), the sessions a revocation still has   *)
(* to visit and those it has updated (todo, done), and those that were     *)
(* live when it began (known).                                             *)
Idle == [op |-> "none", pc |-> "idle", s |-> NoSession, i |-> 0, late |-> "no", row |-> "fresh",
         todo |-> {}, done |-> {}, known |-> {}]

Live == {s \in Session : session[s] = "live"}
Tokens(s) == 1..issued[s]

(***************************************************************************)
(* Row locks, read off the transactions that hold them.                    *)
(***************************************************************************)
HoldsSession(r, s) ==
    \/ s \in req[r].done
    \/ req[r].pc = "tokens" /\ req[r].s = s

HoldsToken(r, s, i) ==
    \/ s \in req[r].done
    \/ /\ req[r].op = "refresh"
       /\ req[r].pc \in {"session", "tokens"}
       /\ req[r].s = s
       /\ req[r].i = i

(* A reset holds the row of the user from the new password to its commit.  *)
HoldsUser(r) == req[r].op = "reset"

SessionFree(r, s) == \A q \in Request \ {r} : ~HoldsSession(q, s)
TokenFree(r, s, i) == \A q \in Request \ {r} : ~HoldsToken(q, s, i)
UserFree == \A q \in Request : ~HoldsUser(q)

(* The requests r is waiting for.                                          *)
WaitsFor(r) ==
    CASE req[r].pc = "token" -> {q \in Request \ {r} : HoldsToken(q, req[r].s, req[r].i)}
      [] req[r].pc \in {"session", "row"} -> {q \in Request \ {r} : HoldsSession(q, req[r].s)}
      [] req[r].pc = "tokens" -> {q \in Request \ {r} : \E i \in Tokens(req[r].s) : HoldsToken(q, req[r].s, i)}
      [] OTHER -> {}

Stuck(C) == C # {} /\ \A c \in C : WaitsFor(c) \cap C # {}

\* Mutant: no deadlock is ever found.
NoDetection(r) == FALSE

(* A smallest set of requests that wait for one another is a cycle.        *)
InCycle(r) ==
    \E C \in SUBSET Request :
        r \in C /\ Stuck(C) /\ \A D \in SUBSET C : Stuck(D) => D = C

-----------------------------------------------------------------------------
SessionsInit ==
    /\ session = [s \in Session |-> "none"]
    /\ issued = [s \in Session |-> 0]
    /\ used = [s \in Session |-> {}]
    /\ dead = [s \in Session |-> {}]
    /\ lapse = [s \in Session |-> "no"]
    /\ req = [r \in Request |-> Idle]
    /\ closed = {}

(* create: the session and its first token in one transaction, the last    *)
(* step of every login.                                                    *)
Create(s) ==
    /\ session[s] = "none"
    /\ session' = [session EXCEPT ![s] = "live"]
    /\ issued' = [issued EXCEPT ![s] = 1]
    /\ UNCHANGED <<used, dead, lapse, req, closed>>

(* Time passes expires_at: no token outlives its session, and only the     *)
(* last token of a family is of interest.                                  *)
Lapse(s) ==
    /\ s \in Lapsing
    /\ session[s] = "live"
    /\ \/ lapse[s] = "no" /\ lapse' = [lapse EXCEPT ![s] = "token"]
       \/ lapse[s] # "session" /\ lapse' = [lapse EXCEPT ![s] = "session"]
    /\ UNCHANGED <<session, issued, used, dead, req, closed>>

-----------------------------------------------------------------------------
(* rotate.  Any token ever issued may be presented (up to the bound): a    *)
(* client that missed the answer, or a second tab, presents one that has   *)
(* been traded already.                                                    *)
BeginRefresh(r, s, i) ==
    /\ req[r] = Idle
    /\ i \in Tokens(s) /\ i < MaxTokens
    /\ req' = [req EXCEPT ![r] = [Idle EXCEPT !.op = "refresh", !.pc = "token",
                                              !.s = s, !.i = i, !.late = lapse[s]]]
    /\ UNCHANGED <<session, issued, used, dead, lapse, closed>>

(* The token's row is read with its lock.                                  *)
RowOf(s, i) == IF i \in used[s] THEN "used" ELSE IF i \in dead[s] THEN "dead" ELSE "fresh"

\* Mutant: the token's row is read without for update.
LockTokenUnlocked(r) ==
    /\ req[r].pc = "token"
    /\ req' = [req EXCEPT ![r].pc = "session", ![r].row = RowOf(req[r].s, req[r].i)]
    /\ UNCHANGED <<session, issued, used, dead, lapse, closed>>

LockToken(r) ==
    /\ req[r].pc = "token"
    /\ TokenFree(r, req[r].s, req[r].i)
    /\ req' = [req EXCEPT ![r].pc = "session", ![r].row = RowOf(req[r].s, req[r].i)]
    /\ UNCHANGED <<session, issued, used, dead, lapse, closed>>

Reused(r) == req[r].row = "used"
Fresh(r) == req[r].row = "fresh"

(* With both rows locked the token is traded for its successor ...         *)
RotateToken(r) ==
    LET s == req[r].s IN
    /\ req[r].pc = "session"
    /\ SessionFree(r, s)
    /\ Fresh(r) /\ session[s] = "live" /\ req[r].late = "no"
    /\ issued' = [issued EXCEPT ![s] = @ + 1]
    /\ used' = [used EXCEPT ![s] = @ \cup {req[r].i}]
    /\ req' = [req EXCEPT ![r] = Idle]
    /\ UNCHANGED <<session, dead, lapse, closed>>

(* ... or refused: "reuse" of a family already revoked, "invalid" ...      *)
RefuseToken(r) ==
    LET s == req[r].s IN
    /\ req[r].pc = "session"
    /\ SessionFree(r, s)
    /\ \/ session[s] = "revoked"
       \/ ~Reused(r) /\ req[r].late # "session" /\ (~Fresh(r) \/ req[r].late = "token")
    /\ closed' = IF Reused(r) THEN closed \cup {s} ELSE closed
    /\ req' = [req EXCEPT ![r] = Idle]
    /\ UNCHANGED <<session, issued, used, dead, lapse>>

(* ... or, reused or of a session past its end, it revokes the session.    *)
RevokeFamily(r) ==
    LET s == req[r].s IN
    /\ req[r].pc = "session"
    /\ SessionFree(r, s)
    /\ session[s] = "live"
    /\ Reused(r) \/ req[r].late = "session"
    /\ req' = [req EXCEPT ![r].pc = "tokens"]
    /\ UNCHANGED <<session, issued, used, dead, lapse, closed>>

-----------------------------------------------------------------------------
(* revoke, revokeOther and revokeAll, from a request that some live        *)
(* session authenticates: one UPDATE, which goes through the sessions in   *)
(* scope that are not revoked when it starts.                              *)
Scopes(s) == {{q} : q \in Session} \cup {Session \ {s}, Session}
Selected(scope) == scope \cap Live

BeginRevoke(r, s, scope) ==
    /\ req[r] = Idle
    /\ session[s] = "live" /\ lapse[s] # "session"
    /\ scope \in Scopes(s)
    /\ req' = [req EXCEPT ![r] = [Idle EXCEPT !.op = "revoke", !.pc = "next",
                                              !.todo = Selected(scope), !.known = scope \cap Live]]
    /\ UNCHANGED <<session, issued, used, dead, lapse, closed>>

(* resetPassword consumes a token that was mailed to the user and sets the *)
(* password, then revokes every session in the same transaction.           *)
BeginReset(r) ==
    /\ req[r] = Idle
    /\ UserFree
    /\ req' = [req EXCEPT ![r] = [Idle EXCEPT !.op = "reset", !.pc = "next",
                                              !.todo = Selected(Session), !.known = Live]]
    /\ UNCHANGED <<session, issued, used, dead, lapse, closed>>

(* The UPDATE comes to its next row, in whatever order the plan scans.     *)
NextRow(r, s) ==
    /\ req[r].pc = "next"
    /\ s \in req[r].todo
    /\ req' = [req EXCEPT ![r].pc = "row", ![r].s = s, ![r].todo = @ \ {s}]
    /\ UNCHANGED <<session, issued, used, dead, lapse, closed>>

(* It waits for the row and looks at it again: revoked_at is null or the   *)
(* row is passed over.                                                     *)
LockRow(r) ==
    LET s == req[r].s IN
    /\ req[r].pc = "row"
    /\ SessionFree(r, s)
    /\ req' = [req EXCEPT ![r].pc = IF session[s] = "live" THEN "tokens" ELSE "next"]
    /\ UNCHANGED <<session, issued, used, dead, lapse, closed>>

(* protect_and_revoke_user_session: with the session row comes an UPDATE   *)
(* of all tokens of the family, which waits for each of their rows.        *)
LockFamily(r) ==
    LET s == req[r].s IN
    /\ req[r].pc = "tokens"
    /\ \A i \in Tokens(s) : TokenFree(r, s, i)
    /\ req' = [req EXCEPT ![r].pc = "next", ![r].done = @ \cup {s}]
    /\ UNCHANGED <<session, issued, used, dead, lapse, closed>>

(* What the client is told by the answer: reuse names the family of the    *)
(* token, a revocation the sessions it was asked to end.                   *)
Told(r) ==
    IF req[r].op = "refresh"
    THEN IF Reused(r) THEN {req[r].s} ELSE {}
    ELSE req[r].known

\* Mutant: the error of a reused token is thrown inside the transaction.
CommitThrown(r) ==
    /\ req[r].pc = "next" /\ req[r].todo = {}
    /\ LET kept == IF req[r].op = "refresh" THEN {} ELSE req[r].done IN
       /\ session' = [s \in Session |-> IF s \in kept THEN "revoked" ELSE session[s]]
       /\ dead' = [s \in Session |-> IF s \in kept THEN Tokens(s) ELSE dead[s]]
    /\ closed' = closed \cup Told(r)
    /\ req' = [req EXCEPT ![r] = Idle]
    /\ UNCHANGED <<issued, used, lapse>>

(* The transaction commits and the request is answered.                    *)
Commit(r) ==
    /\ req[r].pc = "next" /\ req[r].todo = {}
    /\ session' = [s \in Session |-> IF s \in req[r].done THEN "revoked" ELSE session[s]]
    /\ dead' = [s \in Session |-> IF s \in req[r].done THEN Tokens(s) ELSE dead[s]]
    /\ closed' = closed \cup Told(r)
    /\ req' = [req EXCEPT ![r] = Idle]
    /\ UNCHANGED <<issued, used, lapse>>

-----------------------------------------------------------------------------
(* PostgreSQL rolls one transaction of a cycle of waiting ones back.       *)
BreakDeadlock(r) ==
    /\ InCycle(r)
    /\ req' = [req EXCEPT ![r] = Idle]
    /\ UNCHANGED <<session, issued, used, dead, lapse, closed>>

(* The server dies, or the connection does: the transaction is rolled back.*)
LoseConnection(r) ==
    /\ req[r] # Idle
    /\ req' = [req EXCEPT ![r] = Idle]
    /\ UNCHANGED <<session, issued, used, dead, lapse, closed>>

Step(r) ==
    \/ LockToken(r) \/ RotateToken(r) \/ RefuseToken(r) \/ RevokeFamily(r)
    \/ (\E s \in Session : NextRow(r, s)) \/ LockRow(r) \/ LockFamily(r)
    \/ Commit(r) \/ BreakDeadlock(r)

SessionsNext ==
    \/ \E s \in Session : Create(s) \/ Lapse(s)
    \/ \E r \in Request :
        \/ \E s \in Session :
            \/ \E i \in 1..MaxTokens : BeginRefresh(r, s, i)
            \/ \E scope \in Scopes(s) : BeginRevoke(r, s, scope)
        \/ BeginReset(r)
        \/ Step(r)
        \/ LoseConnection(r)

(* A transaction that can go on does, the deadlock check runs, and         *)
(* PostgreSQL serves the waiters of a row in the order they came, so that  *)
(* a request is not passed over for ever by later ones.                    *)
Fairness == \A r \in Request : SF_sessionVars(Step(r))

SessionsSpec == SessionsInit /\ [][SessionsNext]_sessionVars /\ Fairness

-----------------------------------------------------------------------------
(* Every variable has its type; tokens are numbered in the order issued.   *)
SessionsTypeOK ==
    /\ session \in [Session -> {"none", "live", "revoked"}]
    /\ issued \in [Session -> 0..MaxTokens]
    /\ used \in [Session -> SUBSET (1..MaxTokens)]
    /\ dead \in [Session -> SUBSET (1..MaxTokens)]
    /\ lapse \in [Session -> {"no", "token", "session"}]
    /\ req \in [Request ->
         [op : {"none", "refresh", "revoke", "reset"},
          pc : {"idle", "token", "session", "next", "row", "tokens"},
          s : Session \cup {NoSession}, i : 0..MaxTokens, late : {"no", "token", "session"},
          row : {"fresh", "used", "dead"},
          todo : SUBSET Session, done : SUBSET Session, known : SUBSET Session]]
    /\ closed \in SUBSET Session

(* A client that was answered "reuse detected; the complete session family *)
(* was revoked", or that its sessions are signed out or its password is    *)
(* reset, is never wrong about it: the sessions that were live when it     *)
(* asked are revoked, though the answer is thrown after the transaction    *)
(* and other requests worked on the same rows meanwhile.                   *)
AnsweredIsRevoked == \A s \in closed : session[s] = "revoked"

(* Refresh and revocation transactions interleaved at their row locks      *)
(* implement the atomic families of SessionFamilies: two refreshes never   *)
(* leave a family with two good tokens, and no rotation slips a good token *)
(* into a family while it is being revoked.                                *)
Families == INSTANCE SessionFamilies WITH
    state <- [s \in Session |-> IF session[s] = "revoked" THEN "ended" ELSE session[s]],
    issued <- issued,
    good <- [s \in Session |-> Tokens(s) \ (used[s] \cup dead[s])]

ImplementsFamilies == Families!Spec

(* Every request is answered in the end: refreshes and revocations take    *)
(* their row locks in opposite orders, and each deadlock that comes of it  *)
(* is resolved by giving up one of the transactions.                       *)
RequestsEnd == \A r \in Request : req[r] # Idle ~> req[r] = Idle
=============================================================================
