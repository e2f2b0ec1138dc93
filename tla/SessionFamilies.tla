-------------------------- MODULE SessionFamilies --------------------------
(***************************************************************************)
(* What refresh-token rotation promises (the doc comments and errors of    *)
(* packages/database/src/repositories/auth-sessions.ts): a session is a    *)
(* family of refresh tokens of which exactly one is good while the session *)
(* is live.  A rotation trades the good token for its successor, a session *)
(* ends once, and from then on no token of its family is good.             *)
(***************************************************************************)
EXTENDS Naturals

CONSTANT Session

VARIABLES
    state,      \* state[s]: "none", "live" or "ended"
    issued,     \* issued[s]: how many tokens the family has had
    good        \* good[s]: the tokens that may still be traded

vars == <<state, issued, good>>

Init ==
    /\ state = [s \in Session |-> "none"]
    /\ issued = [s \in Session |-> 0]
    /\ good = [s \in Session |-> {}]

Open(s) ==
    /\ state[s] = "none"
    /\ state' = [state EXCEPT ![s] = "live"]
    /\ issued' = [issued EXCEPT ![s] = 1]
    /\ good' = [good EXCEPT ![s] = {1}]

Rotate(s) ==
    /\ state[s] = "live"
    /\ good[s] = {issued[s]}
    /\ issued' = [issued EXCEPT ![s] = @ + 1]
    /\ good' = [good EXCEPT ![s] = {issued[s] + 1}]
    /\ UNCHANGED state

(* Several sessions of a user may end together, in one transaction.        *)
End(S) ==
    /\ \A s \in S : state[s] = "live"
    /\ state' = [s \in Session |-> IF s \in S THEN "ended" ELSE state[s]]
    /\ good' = [s \in Session |-> IF s \in S THEN {} ELSE good[s]]
    /\ UNCHANGED issued

Next ==
    \/ \E s \in Session : Open(s) \/ Rotate(s)
    \/ \E S \in SUBSET Session : End(S)

Spec == Init /\ [][Next]_vars
=============================================================================
