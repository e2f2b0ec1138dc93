----------------------------- MODULE Memberships -----------------------------
(***************************************************************************)
(* The members of one organization and workspace, their roles, the         *)
(* invitations that make them and the seats they take:                     *)
(* packages/database/src/repositories/memberships.ts and the seat trigger  *)
(* of migration 0050.                                                      *)
(*                                                                         *)
(* updateRole and invite read without a lock and write later; accept locks *)
(* the invitation, inserts the membership and lets the trigger count seats *)
(* under the lock of the usage row, which it keeps until it commits.       *)
(***************************************************************************)
EXTENDS Naturals, FiniteSets

CONSTANTS
    User,           \* users, each with one email address
    Founder,        \* the user who registered the organization
    Invitation,     \* rows of invitations
    Client,         \* requests in flight at once
    Limits,         \* bound: the seat limits the subscription goes through
    NoUser,
    NoOp

ASSUME FounderAssumption == Founder \in User /\ NoUser \notin User
ASSUME LimitsAssumption == Limits \subseteq Nat \ {0} /\ Limits # {}

Role == {"member", "admin", "owner"}

VARIABLES
    role,       \* role[u]: the active membership's role, or "none"
    limit,      \* usage_limits.max_seats
    inv,        \* inv[i]: an invitation
    op          \* op[c]: a transaction in flight, or NoOp

vars == <<role, limit, inv, op>>

Members == {u \in User : role[u] # "none"}
Owners == {u \in User : role[u] = "owner"}
Managers == {u \in User : role[u] \in {"owner", "admin"}}
Seats == Cardinality(Members)
Pending(i) == inv[i].status = "pending"

NoInvitation == [status |-> "none", email |-> NoUser, role |-> "member", expired |-> FALSE]

(* The row of an invitation that an accept in flight has locked.           *)
InvitationFree(i) == \A c \in Client : op[c] # NoOp /\ op[c].kind = "accept" => op[c].inv # i
(* The usage row, which an accept holds from its count to its commit.      *)
UsageFree == \A c \in Client : op[c] # NoOp /\ op[c].kind = "accept" => ~op[c].counted

Begin(c, o) == op[c] = NoOp /\ op' = [op EXCEPT ![c] = o]
End(c) == op' = [op EXCEPT ![c] = NoOp]

(* A write that changes the owners, or the role of a member, overtakes the *)
(* changes of role that were checked before it and concern what it wrote.  *)
EndOvertaking(c) ==
    op' = [d \in Client |->
        IF d = c THEN NoOp
        ELSE IF /\ op[d] # NoOp /\ op[d].kind = "role"
                /\ Owners' # Owners \/ role'[op[d].target] # role[op[d].target]
        THEN [op[d] EXCEPT !.overtaken = TRUE]
        ELSE op[d]]

Init ==
    /\ role = [u \in User |-> IF u = Founder THEN "owner" ELSE "none"]
    /\ limit \in Limits
    /\ inv = [i \in Invitation |-> NoInvitation]
    /\ op = [c \in Client |-> NoOp]

-----------------------------------------------------------------------------
\* Mutant: neither one's own role nor the last owner is protected.
MayChangeLastOwner(actor, target, new) ==
    /\ actor \in Managers /\ target \in Members
    /\ actor \in Owners \/ (target \notin Owners /\ new # "owner")

\* Mutant: admins may manage the owner role.
MayChangeAnyRole(actor, target, new) ==
    /\ actor \in Managers /\ target \in Members /\ target # actor
    /\ target \in Owners /\ new # "owner" => Owners \ {target} # {}

(* updateRole: who may give which role to whom, on what was read.          *)
MayChange(actor, target, new) ==
    /\ actor \in Managers /\ target \in Members /\ target # actor
    /\ actor \in Owners \/ (target \notin Owners /\ new # "owner")
    /\ target \in Owners /\ new # "owner" => Owners \ {target} # {}

BeginRole(c, actor, target, new) ==
    /\ MayChange(actor, target, new)
    /\ Begin(c, [kind |-> "role", actor |-> actor, target |-> target, new |-> new, overtaken |-> FALSE])
    /\ UNCHANGED <<role, limit, inv>>

(* The seat trigger runs on every write of a membership: it counts the     *)
(* members and raises an error when they are more than the limit.          *)
OverLimit(members) == Cardinality(members) > limit

WriteRole(c) ==
    /\ op[c] # NoOp /\ op[c].kind = "role"
    /\ UsageFree
    /\ role' = IF OverLimit(Members) THEN role ELSE [role EXCEPT ![op[c].target] = op[c].new]
    /\ EndOvertaking(c)
    /\ UNCHANGED <<limit, inv>>

-----------------------------------------------------------------------------
(* invite reads the members and the invitations pending, ...               *)
BeginInvite(c, actor, email, new) ==
    /\ actor \in Managers
    /\ new = "owner" => actor \in Owners
    /\ email \notin Members
    /\ ~\E i \in Invitation : Pending(i) /\ inv[i].email = email
    /\ Begin(c, [kind |-> "invite", email |-> email, new |-> new])
    /\ UNCHANGED <<role, limit, inv>>

\* Mutant: no unique index.
WriteInviteUnchecked(c, i) ==
    /\ op[c] # NoOp /\ op[c].kind = "invite"
    /\ inv[i] = NoInvitation
    /\ inv' = [inv EXCEPT ![i] = [status |-> "pending", email |-> op[c].email,
                                  role |-> op[c].new, expired |-> FALSE]]
    /\ End(c)
    /\ UNCHANGED <<role, limit>>

(* ... and inserts a row (and its mail), unless the unique index of        *)
(* pending invitations refuses the row.                                    *)
WriteInvite(c, i) ==
    /\ op[c] # NoOp /\ op[c].kind = "invite"
    /\ inv[i] = NoInvitation
    /\ IF \E j \in Invitation : Pending(j) /\ inv[j].email = op[c].email
       THEN UNCHANGED inv
       ELSE inv' = [inv EXCEPT ![i] = [status |-> "pending", email |-> op[c].email,
                                       role |-> op[c].new, expired |-> FALSE]]
    /\ End(c)
    /\ UNCHANGED <<role, limit>>

(* resend: a new token takes the place of the old one, with a new expiry.  *)
Resend(i) ==
    /\ Managers # {}
    /\ Pending(i) /\ InvitationFree(i)
    /\ inv[i].expired
    /\ inv' = [inv EXCEPT ![i].expired = FALSE]
    /\ UNCHANGED <<role, limit, op>>

(* revoke by a manager, decline by the invitee with the current link.      *)
Close(i, status) ==
    /\ Pending(i) /\ InvitationFree(i)
    /\ status = "revoked" => Managers # {}
    /\ inv' = [inv EXCEPT ![i].status = status]
    /\ UNCHANGED <<role, limit, op>>

(* The link of the current version lapses.                                 *)
Expire(i) ==
    /\ Pending(i) /\ ~inv[i].expired
    /\ inv' = [inv EXCEPT ![i].expired = TRUE]
    /\ UNCHANGED <<role, limit, op>>

-----------------------------------------------------------------------------
(* acceptInvitation with the current link locks the invitation.            *)
BeginAccept(c, i) ==
    /\ Pending(i) /\ ~inv[i].expired /\ InvitationFree(i)
    /\ Begin(c, [kind |-> "accept", inv |-> i, counted |-> FALSE])
    /\ UNCHANGED <<role, limit, inv>>

(* A membership that exists is kept as it is.                              *)
AcceptExisting(c) ==
    /\ op[c] # NoOp /\ op[c].kind = "accept" /\ ~op[c].counted
    /\ inv[op[c].inv].email \in Members
    /\ inv' = [inv EXCEPT ![op[c].inv].status = "accepted"]
    /\ End(c)
    /\ UNCHANGED <<role, limit>>

\* Mutant: the usage row is read without its lock.
CountWithoutLock(c) ==
    /\ op[c] # NoOp /\ op[c].kind = "accept" /\ ~op[c].counted
    /\ inv[op[c].inv].email \notin Members
    /\ IF OverLimit(Members \cup {inv[op[c].inv].email})
       THEN End(c)
       ELSE op' = [op EXCEPT ![c].counted = TRUE]
    /\ UNCHANGED <<role, limit, inv>>

\* Mutant: the invitation is accepted outside the transaction, before the count.
CountAfterAccept(c) ==
    /\ op[c] # NoOp /\ op[c].kind = "accept" /\ ~op[c].counted
    /\ inv[op[c].inv].email \notin Members
    /\ UsageFree
    /\ inv' = [inv EXCEPT ![op[c].inv].status = "accepted"]
    /\ IF OverLimit(Members \cup {inv[op[c].inv].email})
       THEN End(c)
       ELSE op' = [op EXCEPT ![c].counted = TRUE]
    /\ UNCHANGED <<role, limit>>

(* Otherwise the insert runs the seat trigger, which waits for the usage   *)
(* row and counts the new member too: over the limit the transaction is    *)
(* rolled back.                                                            *)
CountSeats(c) ==
    /\ op[c] # NoOp /\ op[c].kind = "accept" /\ ~op[c].counted
    /\ inv[op[c].inv].email \notin Members
    /\ UsageFree
    /\ IF OverLimit(Members \cup {inv[op[c].inv].email})
       THEN End(c)
       ELSE op' = [op EXCEPT ![c].counted = TRUE]
    /\ UNCHANGED <<role, limit, inv>>

\* Mutant: the wrong column of the invitation is copied.
CommitAcceptStatus(c) ==
    /\ op[c] # NoOp /\ op[c].kind = "accept" /\ op[c].counted
    /\ role' = [role EXCEPT ![inv[op[c].inv].email] = inv[op[c].inv].status]
    /\ inv' = [inv EXCEPT ![op[c].inv].status = "accepted"]
    /\ EndOvertaking(c)
    /\ UNCHANGED limit

CommitAccept(c) ==
    /\ op[c] # NoOp /\ op[c].kind = "accept" /\ op[c].counted
    /\ role' = [role EXCEPT ![inv[op[c].inv].email] = inv[op[c].inv].role]
    /\ inv' = [inv EXCEPT ![op[c].inv].status = "accepted"]
    /\ EndOvertaking(c)
    /\ UNCHANGED limit

(* sync_current_subscription_projection: the subscription buys other seats.*)
SetLimit(n) ==
    /\ n # limit /\ UsageFree
    /\ limit' = n
    /\ UNCHANGED <<role, inv, op>>

Next ==
    \/ \E c \in Client :
        \/ \E actor, target \in User, new \in Role : BeginRole(c, actor, target, new)
        \/ WriteRole(c)
        \/ \E actor, email \in User, new \in Role : BeginInvite(c, actor, email, new)
        \/ \E i \in Invitation : WriteInvite(c, i) \/ BeginAccept(c, i)
        \/ AcceptExisting(c) \/ CountSeats(c) \/ CommitAccept(c)
    \/ \E i \in Invitation :
        \/ Resend(i) \/ Expire(i)
        \/ \E status \in {"revoked", "declined"} : Close(i, status)
    \/ \E n \in Limits : SetLimit(n)

Spec == Init /\ [][Next]_vars

-----------------------------------------------------------------------------
OpType ==
    [kind : {"role"}, actor : User, target : User, new : Role, overtaken : BOOLEAN]
    \cup [kind : {"invite"}, email : User, new : Role]
    \cup [kind : {"accept"}, inv : Invitation, counted : BOOLEAN]

ASSUME NoOpAssumption == NoOp \notin OpType

(* Every variable has its type.                                            *)
TypeOK ==
    /\ role \in [User -> Role \cup {"none"}]
    /\ limit \in Limits
    /\ inv \in [Invitation -> [status : {"none", "pending", "accepted", "declined", "revoked"},
                               email : User \cup {NoUser}, role : Role, expired : BOOLEAN]]
    /\ op \in [Client -> OpType \cup {NoOp}]

Writes(c) == op[c] # NoOp /\ op[c].kind = "role" /\ op'[c] = NoOp

(* The organization loses its last owner ("must keep at least one active   *)
(* owner") only through a change of role that another change of the owners *)
(* or of the same member overtook after it had been checked.               *)
OnlyOverlapsLoseOwners ==
    [][Owners # {} /\ Owners' = {} => \E c \in Client : Writes(c) /\ op[c].overtaken]_vars

(* The owner role is given or taken by a change of role only on behalf of  *)
(* an owner ("only an owner can manage the owner role"), unless the check  *)
(* was overtaken: an admin's harmless change may meet a member who was     *)
(* made an owner meanwhile.                                                *)
OnlyOverlapsEscalate ==
    [][\A c \in Client :
        Writes(c) /\ Owners' # Owners => op[c].actor \in Owners \/ op[c].overtaken]_vars

(* No new member is ever admitted above the seats paid for, however        *)
(* acceptances and changes of the subscription interleave.                 *)
SeatsWithinLimit == [][Seats' > Seats => Seats' <= limit']_vars

(* An invitation that reads accepted has made its user a member, ...       *)
AcceptedIsMember == \A i \in Invitation : inv[i].status = "accepted" => inv[i].email \in Members

(* ... and one user never has two invitations pending at once.             *)
OnePendingEach ==
    \A i, j \in Invitation : Pending(i) /\ Pending(j) /\ inv[i].email = inv[j].email => i = j

(* The state stays well formed and invitations mean what they say, however *)
(* invitations, acceptances and refused seats interleave.                  *)
MembershipsInv == TypeOK /\ AcceptedIsMember /\ OnePendingEach
=============================================================================
