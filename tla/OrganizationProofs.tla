------------------------- MODULE OrganizationProofs -------------------------
(***************************************************************************)
(* What an organization may count on, whatever its size and however its    *)
(* requests overlap: first its members (seats, owners and invitations),    *)
(* then its subscription (webhook events, plan and grace period), from     *)
(* which the seat limit comes.  Each part is about its own specification.  *)
(***************************************************************************)
EXTENDS Memberships, BillingWebhooks, FiniteSetTheorems, TLAPS

-----------------------------------------------------------------------------
(* The members.                                                            *)

ChangesRole(c) == op[c] # NoOp /\ op[c].kind = "role"
Accepts(c) == op[c] # NoOp /\ op[c].kind = "accept"
Counted(c) == Accepts(c) /\ op[c].counted
Invitee(c) == inv[op[c].inv].email

InvType == [status : {"none", "pending", "accepted", "declined", "revoked"},
            email : User \cup {NoUser}, role : Role, expired : BOOLEAN]

\* An invitation that was written has an invitee, and an acceptance in flight
\* has one that was written.
InvitedInv ==
    /\ \A i \in Invitation : inv[i].status # "none" => inv[i].email \in User
    /\ \A c \in Client : Accepts(c) => inv[op[c].inv].status # "none"

\* What was checked before a change of role still holds of the owners and of the
\* member to be changed, unless the change was overtaken.
StillAllowed(o) ==
    /\ o.actor \in Owners \/ (o.target \notin Owners /\ o.new # "owner")
    /\ o.target \in Owners /\ o.new # "owner" => Owners \ {o.target} # {}

RoleInv ==
    \A c \in Client : ChangesRole(c) =>
        op[c].target \in Members /\ (op[c].overtaken \/ StillAllowed(op[c]))

\* The members are finitely many.  One acceptance at a time holds the usage row;
\* until it commits, its invitee is no member and its seat is within the limit.
SeatInv ==
    /\ IsFiniteSet(Members)
    /\ \A c \in Client : Counted(c) =>
          /\ Invitee(c) \notin Members
          /\ Cardinality(Members \cup {Invitee(c)}) =< limit
          /\ \A d \in Client : Counted(d) => d = c

Inv == MembershipsInv /\ InvitedInv /\ RoleInv /\ SeatInv
-----------------------------------------------------------------------------
\* The fields of a request in flight, by its kind.
LEMMA OpFields ==
    ASSUME TypeOK, NEW c \in Client
    PROVE  /\ ChangesRole(c) =>
                 /\ op[c] \in [kind : {"role"}, actor : User, target : User, new : Role,
                               overtaken : BOOLEAN]
                 /\ [op[c] EXCEPT !.overtaken = TRUE] \in OpType
           /\ op[c] # NoOp /\ op[c].kind = "invite" =>
                 op[c] \in [kind : {"invite"}, email : User, new : Role]
           /\ Accepts(c) =>
                 /\ op[c] \in [kind : {"accept"}, inv : Invitation, counted : BOOLEAN]
                 /\ [op[c] EXCEPT !.counted = TRUE] \in OpType
  <1>1. op[c] # NoOp => op[c] \in OpType
    BY DEF TypeOK
  <1>2. ASSUME ChangesRole(c)
        PROVE  op[c] \in [kind : {"role"}, actor : User, target : User, new : Role,
                          overtaken : BOOLEAN]
    BY <1>1, <1>2 DEF ChangesRole, OpType
  <1>3. ASSUME Accepts(c)
        PROVE  op[c] \in [kind : {"accept"}, inv : Invitation, counted : BOOLEAN]
    BY <1>1, <1>3 DEF Accepts, OpType
  <1>4. ASSUME op[c] # NoOp, op[c].kind = "invite"
        PROVE  op[c] \in [kind : {"invite"}, email : User, new : Role]
    BY <1>1, <1>4 DEF OpType
  <1>5. ChangesRole(c) => [op[c] EXCEPT !.overtaken = TRUE] \in OpType
    BY <1>2 DEF OpType
  <1>6. Accepts(c) => [op[c] EXCEPT !.counted = TRUE] \in OpType
    BY <1>3 DEF OpType
  <1> QED  BY <1>2, <1>3, <1>4, <1>5, <1>6

\* A write of a role ends its request; of the others it only marks changes of
\* role, those whose check it outdated.
LEMMA OvertakingStep ==
    ASSUME TypeOK, NEW c \in Client, EndOvertaking(c)
    PROVE  /\ op' \in [Client -> OpType \cup {NoOp}]
           /\ op'[c] = NoOp
           /\ \A d \in Client \ {c} :
                \/ /\ op'[d] = op[d]
                   /\ ChangesRole(d) => Owners' = Owners /\ role'[op[d].target] = role[op[d].target]
                \/ ChangesRole(d) /\ op'[d] = [op[d] EXCEPT !.overtaken = TRUE]
  <1>1. \A d \in Client : ChangesRole(d) => [op[d] EXCEPT !.overtaken = TRUE] \in OpType
    BY OpFields
  <1>2. \A d \in Client : op[d] \in OpType \cup {NoOp}
    BY DEF TypeOK
  <1>3. op' \in [Client -> OpType \cup {NoOp}]
    BY <1>1, <1>2 DEF EndOvertaking, ChangesRole
  <1>4. op'[c] = NoOp
    BY DEF EndOvertaking
  <1>5. \A d \in Client \ {c} :
           \/ /\ op'[d] = op[d]
              /\ ChangesRole(d) => Owners' = Owners /\ role'[op[d].target] = role[op[d].target]
           \/ ChangesRole(d) /\ op'[d] = [op[d] EXCEPT !.overtaken = TRUE]
    BY DEF EndOvertaking, ChangesRole
  <1> QED  BY <1>3, <1>4, <1>5

\* What an acceptance that was counted writes.
LEMMA CommitWrites ==
    ASSUME Inv, NEW c \in Client, CommitAccept(c)
    PROVE  /\ Counted(c) /\ op[c].inv \in Invitation
           /\ Invitee(c) \in User /\ inv[op[c].inv].role \in Role
           /\ Invitee(c) \notin Members
           /\ Members' = Members \cup {Invitee(c)}
           /\ Owners \subseteq Owners'
  <1> USE DEF Inv, MembershipsInv
  <1>1. Counted(c)
    BY DEF CommitAccept, Counted, Accepts
  <1>2. op[c].inv \in Invitation
    BY <1>1, OpFields DEF Counted
  <1>3. Invitee(c) \in User /\ inv[op[c].inv].role \in Role
    BY <1>1, <1>2 DEF InvitedInv, Counted, Invitee, TypeOK
  <1>4. Invitee(c) \notin Members
    BY <1>1 DEF SeatInv
  <1>5. role' = [role EXCEPT ![Invitee(c)] = inv[op[c].inv].role]
    BY DEF CommitAccept, Invitee
  <1>6. Members' = Members \cup {Invitee(c)}
    BY <1>3, <1>5 DEF Members, TypeOK, Role
  <1>7. Owners \subseteq Owners'
    BY <1>3, <1>4, <1>5 DEF Members, Owners, TypeOK
  <1> QED  BY <1>1, <1>2, <1>3, <1>4, <1>6, <1>7

\* What a change of role writes: it makes nobody a member.
LEMMA RoleWrites ==
    ASSUME Inv, NEW c \in Client, WriteRole(c)
    PROVE  /\ ChangesRole(c) /\ op[c].target \in User /\ op[c].new \in Role
           /\ role' = role \/ role' = [role EXCEPT ![op[c].target] = op[c].new]
           /\ Members' = Members
           /\ \A d \in Client : ~ Counted(d)
  <1> USE DEF Inv, MembershipsInv
  <1>1. ChangesRole(c)
    BY DEF WriteRole, ChangesRole
  <1>2. op[c].target \in User /\ op[c].new \in Role /\ op[c].target \in Members
    BY <1>1, OpFields DEF RoleInv
  <1>3. role' = role \/ role' = [role EXCEPT ![op[c].target] = op[c].new]
    BY DEF WriteRole
  <1>4. Members' = Members
    BY <1>2, <1>3 DEF Members, TypeOK, Role
  <1>5. \A d \in Client : ~ Counted(d)
    BY DEF WriteRole, UsageFree, Counted, Accepts
  <1> QED  BY <1>1, <1>2, <1>3, <1>4, <1>5

-----------------------------------------------------------------------------
\* The invariant holds when the organization is registered.
LEMMA InitInv == Init => Inv
  <1> SUFFICES ASSUME Init PROVE Inv
    OBVIOUS
  <1>1. TypeOK
    BY FounderAssumption DEF Init, TypeOK, Role, NoInvitation
  <1>2. \A c \in Client : op[c] = NoOp
    BY DEF Init
  <1>3. \A i \in Invitation : inv[i].status = "none"
    BY DEF Init, NoInvitation
  <1>4. MembershipsInv
    BY <1>1, <1>3 DEF MembershipsInv, AcceptedIsMember, OnePendingEach, Pending
  <1>5. InvitedInv /\ RoleInv
    BY <1>2, <1>3 DEF InvitedInv, RoleInv, ChangesRole, Accepts
  <1>6. Members = {Founder}
    BY FounderAssumption DEF Init, Members
  <1>7. IsFiniteSet(Members)
    BY <1>6, FS_Singleton
  <1>8. SeatInv
    BY <1>2, <1>7 DEF SeatInv, Counted, Accepts
  <1> QED  BY <1>4, <1>5, <1>8 DEF Inv

\* Every step keeps the types.
LEMMA TypeStep ==
    ASSUME Inv, [Next]_vars
    PROVE  TypeOK'
  <1> USE DEF Inv, MembershipsInv
  <1>1. ASSUME NEW c \in Client, NEW actor \in User, NEW target \in User, NEW new \in Role,
               BeginRole(c, actor, target, new)
        PROVE  TypeOK'
    <2>1. [kind |-> "role", actor |-> actor, target |-> target, new |-> new,
           overtaken |-> FALSE] \in OpType
      BY DEF OpType
    <2> QED  BY <1>1, <2>1 DEF TypeOK, BeginRole, Begin
  <1>2. ASSUME NEW c \in Client, WriteRole(c)
        PROVE  TypeOK'
    <2>1. role' \in [User -> Role \cup {"none"}]
      BY <1>2, RoleWrites DEF TypeOK
    <2> QED  BY <1>2, <2>1, OvertakingStep DEF TypeOK, WriteRole
  <1>3. ASSUME NEW c \in Client, NEW actor \in User, NEW email \in User, NEW new \in Role,
               BeginInvite(c, actor, email, new)
        PROVE  TypeOK'
    <2>1. [kind |-> "invite", email |-> email, new |-> new] \in OpType
      BY DEF OpType
    <2> QED  BY <1>3, <2>1 DEF TypeOK, BeginInvite, Begin
  <1>4. ASSUME NEW c \in Client, NEW i \in Invitation, WriteInvite(c, i)
        PROVE  TypeOK'
    <2>1. op[c].email \in User /\ op[c].new \in Role
      BY <1>4, OpFields DEF WriteInvite
    <2>2. [status |-> "pending", email |-> op[c].email, role |-> op[c].new,
           expired |-> FALSE] \in InvType
      BY <2>1 DEF InvType
    <2>3. inv' \in [Invitation -> InvType]
      BY <1>4, <2>2 DEF TypeOK, WriteInvite, InvType
    <2> QED  BY <1>4, <2>3 DEF TypeOK, WriteInvite, End, InvType
  <1>5. ASSUME NEW c \in Client, NEW i \in Invitation, BeginAccept(c, i)
        PROVE  TypeOK'
    <2>1. [kind |-> "accept", inv |-> i, counted |-> FALSE] \in OpType
      BY DEF OpType
    <2> QED  BY <1>5, <2>1 DEF TypeOK, BeginAccept, Begin
  <1>6. ASSUME NEW c \in Client, AcceptExisting(c)
        PROVE  TypeOK'
    BY <1>6 DEF TypeOK, AcceptExisting, End
  <1>7. ASSUME NEW c \in Client, CountSeats(c)
        PROVE  TypeOK'
    <2>1. [op[c] EXCEPT !.counted = TRUE] \in OpType
      BY <1>7, OpFields DEF CountSeats, Accepts
    <2>2. op' \in [Client -> OpType \cup {NoOp}]
      BY <1>7, <2>1 DEF TypeOK, CountSeats, End
    <2> QED  BY <1>7, <2>2 DEF TypeOK, CountSeats
  <1>8. ASSUME NEW c \in Client, CommitAccept(c)
        PROVE  TypeOK'
    <2>1. role' \in [User -> Role \cup {"none"}]
      BY <1>8, CommitWrites DEF CommitAccept, TypeOK, Invitee
    <2>2. inv' \in [Invitation -> InvType]
      BY <1>8 DEF CommitAccept, TypeOK, InvType
    <2> QED  BY <1>8, <2>1, <2>2, OvertakingStep DEF TypeOK, CommitAccept, InvType
  <1>9. ASSUME NEW i \in Invitation, Resend(i) \/ Expire(i)
        PROVE  TypeOK'
    <2>1. inv \in [Invitation -> InvType]
      BY DEF TypeOK, InvType
    <2>2. \A b \in BOOLEAN : [inv[i] EXCEPT !.expired = b] \in InvType
      BY <2>1 DEF InvType
    <2>3. inv' \in [Invitation -> InvType]
      BY <1>9, <2>1, <2>2 DEF Resend, Expire
    <2> QED  BY <1>9, <2>3 DEF TypeOK, Resend, Expire, InvType
  <1>10. ASSUME NEW i \in Invitation, NEW status \in {"revoked", "declined"}, Close(i, status)
         PROVE  TypeOK'
    BY <1>10 DEF TypeOK, Close
  <1>11. ASSUME NEW n \in Limits, SetLimit(n)
         PROVE  TypeOK'
    BY <1>11 DEF TypeOK, SetLimit
  <1>12. CASE UNCHANGED vars
    BY <1>12 DEF TypeOK, vars
  <1> QED  BY <1>1, <1>2, <1>3, <1>4, <1>5, <1>6, <1>7, <1>8, <1>9, <1>10, <1>11, <1>12 DEF Next
\* What a step does to an invitation: once written it keeps its invitee and never
\* becomes pending again, it is accepted only together with the membership, and
\* the unique index lets it be written only when no other is pending.
LEMMA InvitationStep ==
    ASSUME Inv, [Next]_vars
    PROVE  /\ \A i \in Invitation : inv[i].status # "none" =>
                 /\ inv'[i].email = inv[i].email /\ inv'[i].status # "none"
                 /\ Pending(i)' => Pending(i)
                 /\ inv'[i].status = "accepted" /\ inv[i].status # "accepted" =>
                       inv[i].email \in Members'
           /\ \A i \in Invitation : inv[i].status = "none" /\ inv'[i].status # "none" =>
                 /\ inv'[i].status = "pending" /\ inv'[i].email \in User
                 /\ \A j \in Invitation \ {i} :
                       inv'[j] = inv[j] /\ ~ (Pending(j) /\ inv[j].email = inv'[i].email)
           /\ Members \subseteq Members'
  <1> DEFINE Kept == inv' = inv
             Steps ==
               /\ \A i \in Invitation : inv[i].status # "none" =>
                     /\ inv'[i].email = inv[i].email /\ inv'[i].status # "none"
                     /\ Pending(i)' => Pending(i)
                     /\ inv'[i].status = "accepted" /\ inv[i].status # "accepted" =>
                           inv[i].email \in Members'
               /\ \A i \in Invitation : inv[i].status = "none" /\ inv'[i].status # "none" =>
                     /\ inv'[i].status = "pending" /\ inv'[i].email \in User
                     /\ \A j \in Invitation \ {i} :
                           inv'[j] = inv[j] /\ ~ (Pending(j) /\ inv[j].email = inv'[i].email)
  <1> USE DEF Inv, MembershipsInv
  <1>1. inv \in [Invitation -> InvType]
    BY DEF TypeOK, InvType
  <1>2. ASSUME Kept PROVE Steps
    BY <1>2 DEF Pending
  <1>3. ASSUME role' = role PROVE Members \subseteq Members'
    BY <1>3 DEF Members
  <1>4. ASSUME NEW c \in Client, NEW actor \in User, NEW other \in User, NEW new \in Role,
               BeginRole(c, actor, other, new) \/ BeginInvite(c, actor, other, new)
        PROVE  Kept /\ role' = role
    BY <1>4 DEF BeginRole, BeginInvite
  <1>5. ASSUME NEW c \in Client, NEW i \in Invitation, BeginAccept(c, i)
        PROVE  Kept /\ role' = role
    BY <1>5 DEF BeginAccept
  <1>6. ASSUME NEW c \in Client, CountSeats(c)
        PROVE  Kept /\ role' = role
    BY <1>6 DEF CountSeats
  <1>7. ASSUME NEW c \in Client, WriteRole(c)
        PROVE  Kept /\ Members \subseteq Members'
    BY <1>7, RoleWrites DEF WriteRole
  <1>8. ASSUME NEW c \in Client, NEW i \in Invitation, WriteInvite(c, i)
        PROVE  Steps /\ role' = role
    <2>1. op[c].email \in User
      BY <1>8, OpFields DEF WriteInvite
    <2>2. CASE inv' = inv
      BY <1>2, <1>8, <2>2 DEF WriteInvite
    <2>3. CASE inv' # inv
      <3>1. /\ inv' = [inv EXCEPT ![i] = [status |-> "pending", email |-> op[c].email,
                                          role |-> op[c].new, expired |-> FALSE]]
            /\ ~\E j \in Invitation : Pending(j) /\ inv[j].email = op[c].email
            /\ inv[i].status = "none"
        BY <1>8, <2>3 DEF WriteInvite, NoInvitation
      <3>2. inv'[i].status = "pending" /\ inv'[i].email = op[c].email
        BY <1>1, <3>1
      <3>3. \A j \in Invitation \ {i} : inv'[j] = inv[j]
        BY <1>1, <3>1
      <3>4. Steps
        BY <2>1, <3>1, <3>2, <3>3 DEF Pending
      <3> QED  BY <1>8, <3>4 DEF WriteInvite
    <2> QED  BY <2>2, <2>3
  <1>9. ASSUME NEW c \in Client, AcceptExisting(c) \/ CommitAccept(c)
        PROVE  Steps /\ Members \subseteq Members'
    <2>1. op[c].inv \in Invitation /\ inv[op[c].inv].status # "none"
      BY <1>9, OpFields DEF AcceptExisting, CommitAccept, InvitedInv, Accepts
    <2>2. Members \subseteq Members' /\ inv[op[c].inv].email \in Members'
      <3>1. CASE AcceptExisting(c)
        BY <3>1 DEF AcceptExisting, Members
      <3>2. CASE CommitAccept(c)
        BY <3>2, CommitWrites DEF Invitee
      <3> QED  BY <1>9, <3>1, <3>2
    <2>3. inv' = [inv EXCEPT ![op[c].inv].status = "accepted"]
      BY <1>9 DEF AcceptExisting, CommitAccept
    <2>4. /\ inv'[op[c].inv].email = inv[op[c].inv].email
          /\ inv'[op[c].inv].status = "accepted"
          /\ \A j \in Invitation : j # op[c].inv => inv'[j] = inv[j]
      BY <1>1, <2>1, <2>3 DEF InvType
    <2>5. Steps
      BY <2>1, <2>2, <2>4 DEF Pending
    <2> QED  BY <2>2, <2>5
  <1>10. ASSUME NEW i \in Invitation, Resend(i) \/ Expire(i)
         PROVE  Steps /\ role' = role
    <2>1. /\ inv'[i].email = inv[i].email /\ inv'[i].status = inv[i].status
          /\ \A j \in Invitation : j # i => inv'[j] = inv[j]
      BY <1>1, <1>10 DEF Resend, Expire, InvType
    <2>2. Steps
      BY <2>1 DEF Pending
    <2> QED  BY <1>10, <2>2 DEF Resend, Expire
  <1>11. ASSUME NEW i \in Invitation, NEW status \in {"revoked", "declined"}, Close(i, status)
         PROVE  Steps /\ role' = role
    <2>1. /\ inv'[i].email = inv[i].email /\ inv'[i].status = status
          /\ inv[i].status = "pending"
          /\ \A j \in Invitation : j # i => inv'[j] = inv[j]
      BY <1>1, <1>11 DEF Close, Pending, InvType
    <2>2. Steps
      BY <2>1 DEF Pending
    <2> QED  BY <1>11, <2>2 DEF Close
  <1>12. ASSUME NEW n \in Limits, SetLimit(n)
         PROVE  Kept /\ role' = role
    BY <1>12 DEF SetLimit
  <1>13. ASSUME UNCHANGED vars
         PROVE  Kept /\ role' = role
    BY <1>13 DEF vars
  <1>14. Steps /\ Members \subseteq Members'
    <2> HIDE DEF Steps, Kept
    <2> QED  BY <1>2, <1>3, <1>4, <1>5, <1>6, <1>7, <1>8, <1>9, <1>10, <1>11, <1>12, <1>13 DEF Next
  <1> QED  BY <1>14

\* Every step keeps the meaning of invitations.
LEMMA MembershipsStep ==
    ASSUME Inv, [Next]_vars
    PROVE  MembershipsInv'
  <1>1. AcceptedIsMember'
    BY InvitationStep DEF Inv, MembershipsInv, AcceptedIsMember
  <1>2. OnePendingEach'
    <2> SUFFICES ASSUME NEW i \in Invitation, NEW j \in Invitation, i # j,
                        Pending(i)', Pending(j)', inv'[i].email = inv'[j].email
                 PROVE  FALSE
      BY DEF OnePendingEach
    <2>1. CASE inv[i].status # "none" /\ inv[j].status # "none"
      BY <2>1, InvitationStep DEF Inv, MembershipsInv, OnePendingEach
    <2>2. CASE inv[i].status = "none"
      <3>1. inv'[j] = inv[j] /\ ~ (Pending(j) /\ inv[j].email = inv'[i].email)
        BY <2>2, InvitationStep DEF Pending
      <3> QED  BY <3>1 DEF Pending
    <2>3. CASE inv[j].status = "none"
      <3>1. inv'[i] = inv[i] /\ ~ (Pending(i) /\ inv[i].email = inv'[j].email)
        BY <2>3, InvitationStep DEF Pending
      <3> QED  BY <3>1 DEF Pending
    <2> QED  BY <2>1, <2>2, <2>3
  <1> QED  BY <1>1, <1>2, TypeStep DEF MembershipsInv

\* Where a request in flight comes from: it was there before the step, marked or
\* counted meanwhile, or it has just begun.
LEMMA RequestStep ==
    ASSUME Inv, [Next]_vars, NEW d \in Client
    PROVE  \/ op'[d] = NoOp
           \/ op'[d] = op[d] /\ ~ ChangesRole(d)
           \/ /\ op'[d] = op[d] /\ ChangesRole(d)
              /\ Owners' = Owners /\ role'[op[d].target] = role[op[d].target]
           \/ ChangesRole(d) /\ op'[d] = [op[d] EXCEPT !.overtaken = TRUE]
           \/ \E actor, target \in User, new \in Role : BeginRole(d, actor, target, new)
           \/ op'[d].kind = "invite"
           \/ \E i \in Invitation : BeginAccept(d, i)
           \/ CountSeats(d) /\ op'[d] = [op[d] EXCEPT !.counted = TRUE]
  <1> DEFINE Same == /\ op'[d] = op[d]
                     /\ ChangesRole(d) =>
                          Owners' = Owners /\ role'[op[d].target] = role[op[d].target]
  <1> USE DEF Inv, MembershipsInv
  <1>0. op \in [Client -> OpType \cup {NoOp}]
    BY DEF TypeOK
  <1>1. ASSUME op'[d] = op[d], role' = role PROVE Same
    BY <1>1 DEF Owners
  <1>2. ASSUME NEW c \in Client, NEW actor \in User, NEW target \in User, NEW new \in Role,
               BeginRole(c, actor, target, new), c # d
        PROVE  Same
    BY <1>0, <1>1, <1>2 DEF BeginRole, Begin
  <1>3. ASSUME NEW c \in Client, NEW actor \in User, NEW email \in User, NEW new \in Role,
               BeginInvite(c, actor, email, new)
        PROVE  Same \/ op'[d].kind = "invite"
    BY <1>0, <1>1, <1>3 DEF BeginInvite, Begin
  <1>4. ASSUME NEW c \in Client, NEW i \in Invitation, BeginAccept(c, i), c # d
        PROVE  Same
    BY <1>0, <1>1, <1>4 DEF BeginAccept, Begin
  <1>5. ASSUME NEW c \in Client, NEW i \in Invitation, WriteInvite(c, i)
        PROVE  Same \/ op'[d] = NoOp
    BY <1>0, <1>1, <1>5 DEF WriteInvite, End
  <1>6. ASSUME NEW c \in Client, AcceptExisting(c)
        PROVE  Same \/ op'[d] = NoOp
    BY <1>0, <1>1, <1>6 DEF AcceptExisting, End
  <1>7. ASSUME NEW c \in Client, CountSeats(c)
        PROVE  Same \/ op'[d] = NoOp \/ (c = d /\ op'[d] = [op[d] EXCEPT !.counted = TRUE])
    BY <1>0, <1>1, <1>7 DEF CountSeats, End
  <1>8. ASSUME NEW c \in Client, WriteRole(c) \/ CommitAccept(c)
        PROVE  Same \/ op'[d] = NoOp \/ (ChangesRole(d) /\ op'[d] = [op[d] EXCEPT !.overtaken = TRUE])
    BY <1>8, OvertakingStep DEF WriteRole, CommitAccept
  <1>9. ASSUME NEW i \in Invitation,
               Resend(i) \/ Expire(i) \/ \E status \in {"revoked", "declined"} : Close(i, status)
        PROVE  Same
    BY <1>1, <1>9 DEF Resend, Expire, Close
  <1>10. ASSUME NEW n \in Limits, SetLimit(n)
         PROVE  Same
    BY <1>1, <1>10 DEF SetLimit
  <1>11. ASSUME UNCHANGED vars PROVE Same
    BY <1>1, <1>11 DEF vars
  <1> HIDE DEF Same
  <1>12. \/ Same \/ op'[d] = NoOp
         \/ ChangesRole(d) /\ op'[d] = [op[d] EXCEPT !.overtaken = TRUE]
         \/ \E actor, target \in User, new \in Role : BeginRole(d, actor, target, new)
         \/ op'[d].kind = "invite"
         \/ \E i \in Invitation : BeginAccept(d, i)
         \/ CountSeats(d) /\ op'[d] = [op[d] EXCEPT !.counted = TRUE]
    BY <1>2, <1>3, <1>4, <1>5, <1>6, <1>7, <1>8, <1>9, <1>10, <1>11 DEF Next
  <1> QED  BY <1>12 DEF Same

\* Where an acceptance in flight comes from, in particular.
LEMMA AcceptStep ==
    ASSUME Inv, [Next]_vars, NEW d \in Client, Accepts(d)'
    PROVE  \/ op'[d] = op[d] /\ Accepts(d)
           \/ \E i \in Invitation : BeginAccept(d, i)
           \/ CountSeats(d) /\ op'[d] = [op[d] EXCEPT !.counted = TRUE]
  <1>1. ChangesRole(d) => [op[d] EXCEPT !.overtaken = TRUE].kind # "accept"
    BY OpFields DEF Inv, MembershipsInv
  <1>2. ASSUME NEW actor \in User, NEW target \in User, NEW new \in Role,
               BeginRole(d, actor, target, new)
        PROVE  op'[d].kind # "accept"
    BY <1>2 DEF BeginRole, Begin, Inv, MembershipsInv, TypeOK
  <1> QED  BY <1>1, <1>2, RequestStep DEF Accepts, ChangesRole

\* Every step keeps the invitees of what is written and accepted.
LEMMA InvitedStep ==
    ASSUME Inv, [Next]_vars
    PROVE  InvitedInv'
  <1>1. \A i \in Invitation : inv'[i].status # "none" => inv'[i].email \in User
    BY InvitationStep DEF Inv, InvitedInv
  <1>2. ASSUME NEW d \in Client, Accepts(d)'
        PROVE  inv'[op'[d].inv].status # "none"
    <2>1. CASE op'[d] = op[d] /\ Accepts(d)
      <3>1. op[d].inv \in Invitation /\ inv[op[d].inv].status # "none"
        BY <2>1, OpFields DEF Inv, MembershipsInv, InvitedInv
      <3> QED  BY <2>1, <3>1, InvitationStep
    <2>2. ASSUME NEW i \in Invitation, BeginAccept(d, i)
          PROVE  inv'[op'[d].inv].status # "none"
      <3>1. op'[d].inv = i
        BY <2>2 DEF BeginAccept, Begin, Inv, MembershipsInv, TypeOK
      <3> QED  BY <2>2, <3>1 DEF BeginAccept, Pending
    <2>3. CASE CountSeats(d) /\ op'[d] = [op[d] EXCEPT !.counted = TRUE]
      <3>1. Accepts(d)
        BY <2>3 DEF CountSeats, Accepts
      <3>2. op'[d].inv = op[d].inv
        BY <2>3, <3>1, OpFields DEF Inv, MembershipsInv
      <3> QED  BY <2>3, <3>1, <3>2 DEF CountSeats, Inv, InvitedInv
    <2> QED  BY <1>2, <2>1, <2>2, <2>3, AcceptStep
  <1> QED  BY <1>1, <1>2 DEF InvitedInv

\* Every step keeps what was checked of the changes of role in flight.
LEMMA RoleStep ==
    ASSUME Inv, [Next]_vars
    PROVE  RoleInv'
  <1> SUFFICES ASSUME NEW d \in Client, ChangesRole(d)'
               PROVE  op'[d].target \in Members' /\ (op'[d].overtaken \/ StillAllowed(op[d])')
    BY DEF RoleInv
  <1> USE DEF Inv, MembershipsInv
  <1>1. CASE /\ op'[d] = op[d] /\ ChangesRole(d)
             /\ Owners' = Owners /\ role'[op[d].target] = role[op[d].target]
    <2>1. op[d].target \in Members /\ (op[d].overtaken \/ StillAllowed(op[d]))
      BY <1>1 DEF RoleInv
    <2>2. Members \subseteq Members'
      BY InvitationStep
    <2>3. StillAllowed(op[d]) => StillAllowed(op[d])'
      BY <1>1 DEF StillAllowed
    <2> QED  BY <1>1, <2>1, <2>2, <2>3
  <1>2. CASE ChangesRole(d) /\ op'[d] = [op[d] EXCEPT !.overtaken = TRUE]
    <2>1. op'[d].target = op[d].target /\ op'[d].overtaken = TRUE
      BY <1>2, OpFields
    <2>2. op[d].target \in Members'
      BY <1>2, InvitationStep DEF RoleInv
    <2> QED  BY <2>1, <2>2
  <1>3. ASSUME NEW actor \in User, NEW target \in User, NEW new \in Role,
               BeginRole(d, actor, target, new)
        PROVE  op'[d].target \in Members' /\ StillAllowed(op[d])'
    <2>1. /\ op'[d].actor = actor /\ op'[d].target = target /\ op'[d].new = new
          /\ role' = role
      BY <1>3 DEF BeginRole, Begin, TypeOK
    <2>2. MayChange(actor, target, new)
      BY <1>3 DEF BeginRole
    <2>3. Members' = Members /\ Owners' = Owners
      BY <2>1 DEF Members, Owners
    <2> QED  BY <2>1, <2>2, <2>3 DEF MayChange, StillAllowed
  <1>4. ASSUME NEW i \in Invitation, BeginAccept(d, i)
        PROVE  FALSE
    BY <1>4 DEF BeginAccept, Begin, TypeOK, ChangesRole
  <1>5. CASE CountSeats(d) /\ op'[d] = [op[d] EXCEPT !.counted = TRUE]
    BY <1>5, OpFields DEF CountSeats, Accepts, ChangesRole
  <1>6. op'[d] # NoOp /\ op'[d].kind = "role"
    BY DEF ChangesRole
  <1>7. op'[d] = op[d] => ChangesRole(d)
    BY <1>6 DEF ChangesRole
  <1> QED  BY <1>1, <1>2, <1>3, <1>4, <1>5, <1>6, <1>7, RequestStep

\* Who changes roles and seats: a change of role, which changes no member, an
\* acceptance, which adds one, and the subscription, which moves the limit; the
\* first and the last wait until no acceptance holds the usage row.
LEMMA SeatsChange ==
    ASSUME Inv, [Next]_vars
    PROVE  \/ role' = role /\ limit' = limit
           \/ \E c \in Client : WriteRole(c)
           \/ \E c \in Client : CommitAccept(c)
           \/ role' = role /\ limit' \in Limits /\ \A c \in Client : ~ Counted(c)
  <1>1. ASSUME NEW c \in Client, NEW actor \in User, NEW other \in User, NEW new \in Role,
               BeginRole(c, actor, other, new) \/ BeginInvite(c, actor, other, new)
        PROVE  role' = role /\ limit' = limit
    BY <1>1 DEF BeginRole, BeginInvite
  <1>2. ASSUME NEW c \in Client, NEW i \in Invitation, WriteInvite(c, i) \/ BeginAccept(c, i)
        PROVE  role' = role /\ limit' = limit
    BY <1>2 DEF WriteInvite, BeginAccept
  <1>3. ASSUME NEW c \in Client, AcceptExisting(c) \/ CountSeats(c)
        PROVE  role' = role /\ limit' = limit
    BY <1>3 DEF AcceptExisting, CountSeats
  <1>4. ASSUME NEW i \in Invitation,
               Resend(i) \/ Expire(i) \/ \E status \in {"revoked", "declined"} : Close(i, status)
        PROVE  role' = role /\ limit' = limit
    BY <1>4 DEF Resend, Expire, Close
  <1>5. ASSUME NEW n \in Limits, SetLimit(n)
        PROVE  role' = role /\ limit' \in Limits /\ \A c \in Client : ~ Counted(c)
    BY <1>5 DEF SetLimit, UsageFree, Counted, Accepts
  <1>6. CASE UNCHANGED vars
    BY <1>6 DEF vars
  <1> QED  BY <1>1, <1>2, <1>3, <1>4, <1>5, <1>6 DEF Next

\* Every step keeps what the invariant says of seats.
LEMMA SeatStep ==
    ASSUME Inv, [Next]_vars
    PROVE  SeatInv'
  <1> USE DEF Inv, MembershipsInv
  <1>1. IsFiniteSet(Members')
    <2>1. IsFiniteSet(Members)
      BY DEF SeatInv
    <2>2. CASE role' = role
      BY <2>1, <2>2 DEF Members
    <2>3. ASSUME NEW c \in Client, WriteRole(c) PROVE IsFiniteSet(Members')
      BY <2>1, <2>3, RoleWrites
    <2>4. ASSUME NEW c \in Client, CommitAccept(c) PROVE IsFiniteSet(Members')
      BY <2>1, <2>4, CommitWrites, FS_AddElement
    <2> QED  BY <2>2, <2>3, <2>4, SeatsChange
  <1>2. ASSUME NEW e \in Client, Counted(e)'
        PROVE  (Counted(e) /\ op'[e] = op[e]) \/ CountSeats(e)
    <2>1. Accepts(e)' /\ op'[e].counted
      BY <1>2 DEF Counted
    <2>2. ASSUME NEW i \in Invitation, BeginAccept(e, i) PROVE FALSE
      BY <2>1, <2>2 DEF BeginAccept, Begin, TypeOK
    <2> QED  BY <2>1, <2>2, AcceptStep DEF Counted
  <1>3. ASSUME NEW d \in Client, Counted(d)'
        PROVE  /\ Invitee(d)' \notin Members'
               /\ Cardinality((Members \cup {Invitee(d)})') =< limit'
               /\ \A e \in Client : Counted(e)' => e = d
    <2>1. CASE Counted(d) /\ op'[d] = op[d]
      <3>1. ~ UsageFree
        BY <2>1 DEF UsageFree, Counted, Accepts
      <3>2. role' = role /\ limit' = limit
        <4>1. ASSUME NEW c \in Client, WriteRole(c) PROVE FALSE
          BY <2>1, <4>1, RoleWrites
        <4>2. ASSUME NEW c \in Client, CommitAccept(c) PROVE FALSE
          <5>1. c = d
            BY <2>1, <4>2, CommitWrites DEF SeatInv
          <5>2. op'[d] = NoOp
            BY <4>2, <5>1, OvertakingStep DEF CommitAccept
          <5> QED  BY <2>1, <5>2 DEF Counted, Accepts
        <4> QED  BY <2>1, <4>1, <4>2, SeatsChange
      <3>3. op[d].inv \in Invitation /\ inv[op[d].inv].status # "none"
        BY <2>1, OpFields DEF Counted, InvitedInv
      <3>4. inv'[op'[d].inv].email = Invitee(d)
        BY <2>1, <3>3, InvitationStep DEF Invitee
      <3>5. Invitee(d)' = Invitee(d) /\ Members' = Members
        BY <3>2, <3>4 DEF Invitee, Members
      <3>6. /\ Invitee(d) \notin Members
            /\ Cardinality(Members \cup {Invitee(d)}) =< limit
            /\ \A e \in Client : Counted(e) => e = d
        BY <2>1 DEF SeatInv
      <3>7. \A e \in Client : Counted(e)' => e = d
        BY <1>2, <3>1, <3>6 DEF CountSeats
      <3> QED  BY <3>2, <3>5, <3>6, <3>7
    <2>2. CASE CountSeats(d)
      <3>1. /\ UsageFree /\ role' = role /\ limit' = limit /\ inv' = inv
            /\ Accepts(d) /\ Invitee(d) \notin Members
        BY <2>2 DEF CountSeats, Accepts, Invitee
      <3>2. \A e \in Client : ~ Counted(e)
        BY <3>1 DEF UsageFree, Counted, Accepts
      <3>3. op' = [op EXCEPT ![d].counted = TRUE] /\ ~ OverLimit(Members \cup {Invitee(d)})
        <4>1. op' # [op EXCEPT ![d] = NoOp]
          BY <1>3 DEF Counted, Accepts, TypeOK
        <4> QED  BY <2>2, <4>1 DEF CountSeats, End, Invitee
      <3>4. op'[d].inv = op[d].inv /\ \A e \in Client : e # d => op'[e] = op[e]
        BY <3>1, <3>3, OpFields DEF TypeOK
      <3>5. Invitee(d)' = Invitee(d) /\ Members' = Members
        BY <3>1, <3>4 DEF Invitee, Members
      <3>6. Cardinality(Members \cup {Invitee(d)}) =< limit
        <4>1. IsFiniteSet(Members \cup {Invitee(d)})
          BY FS_AddElement DEF SeatInv
        <4>2. Cardinality(Members \cup {Invitee(d)}) \in Nat
          BY <4>1, FS_CardinalityType
        <4>3. limit \in Nat
          BY LimitsAssumption DEF TypeOK
        <4> QED  BY <3>3, <4>2, <4>3 DEF OverLimit
      <3>7. \A e \in Client : Counted(e)' => e = d
        BY <3>2, <3>4 DEF Counted, Accepts
      <3> QED  BY <3>1, <3>5, <3>6, <3>7
    <2> QED  BY <1>2, <1>3, <2>1, <2>2
  <1> QED  BY <1>1, <1>3 DEF SeatInv

\* The invariant is inductive.
LEMMA InvStep == Inv /\ [Next]_vars => Inv'
  BY MembershipsStep, InvitedStep, RoleStep, SeatStep DEF Inv

\* Hence it holds in every reachable state.
LEMMA InvHolds == Spec => []Inv
  BY InitInv, InvStep, PTL DEF Spec

-----------------------------------------------------------------------------
\* An invitation reads accepted only if its user is a member, and no user ever
\* has two invitations pending, however acceptances, refused seats and
\* concurrent invites interleave.
THEOREM MembershipsInvariant == Spec => []MembershipsInv
  <1>1. Inv => MembershipsInv
    BY DEF Inv
  <1> QED  BY <1>1, InvHolds, PTL

\* Nobody is admitted above the seats paid for: the count of an acceptance is
\* still true when it commits, because it keeps the usage row.
THEOREM MembershipsSeats == Spec => SeatsWithinLimit
  <1>1. Inv /\ [Next]_vars => [Seats' > Seats => Seats' <= limit']_vars
    <2> SUFFICES ASSUME Inv, [Next]_vars, Seats' > Seats
                 PROVE  Seats' <= limit'
      OBVIOUS
    <2>1. Seats \in Nat
      BY FS_CardinalityType DEF Seats, Inv, SeatInv
    <2>2. ASSUME Members' = Members PROVE FALSE
      BY <2>1, <2>2 DEF Seats
    <2>3. PICK c \in Client : CommitAccept(c)
      <3>1. role' = role => Members' = Members
        BY DEF Members
      <3> QED  BY <2>2, <3>1, SeatsChange, RoleWrites
    <2>4. /\ Counted(c) /\ Members' = Members \cup {Invitee(c)} /\ limit' = limit
      BY <2>3, CommitWrites DEF CommitAccept
    <2>5. Cardinality(Members \cup {Invitee(c)}) =< limit
      BY <2>4 DEF Inv, SeatInv
    <2> QED  BY <2>4, <2>5 DEF Seats
  <1> QED  BY <1>1, InvHolds, PTL DEF Spec, SeatsWithinLimit

\* A change of role writes what it was allowed to write, if nothing overtook it:
\* it leaves an owner, and changes the owners only on behalf of one.
LEMMA AllowedWrite ==
    ASSUME Inv, NEW c \in Client, WriteRole(c), ~ op[c].overtaken
    PROVE  /\ Owners # {} => Owners' # {}
           /\ Owners' # Owners => op[c].actor \in Owners
  <1>1. StillAllowed(op[c]) /\ op[c].target \in User
    BY RoleWrites DEF Inv, RoleInv
  <1>2. CASE role' = role
    BY <1>2 DEF Owners
  <1>3. CASE role' = [role EXCEPT ![op[c].target] = op[c].new]
    <2>1. Owners' = IF op[c].new = "owner" THEN Owners \cup {op[c].target}
                                           ELSE Owners \ {op[c].target}
      BY <1>1, <1>3 DEF Owners, Inv, MembershipsInv, TypeOK
    <2> QED  BY <1>1, <2>1 DEF StillAllowed
  <1> QED  BY <1>2, <1>3, RoleWrites

\* Only a write of a role ends a change of role.
LEMMA RoleEnds ==
    ASSUME Inv, [Next]_vars, NEW c \in Client, ChangesRole(c), op'[c] = NoOp
    PROVE  role' = role \/ WriteRole(c)
  <1> USE DEF Inv, MembershipsInv
  <1>1. ASSUME NEW d \in Client, d # c, WriteRole(d) \/ CommitAccept(d)
        PROVE  FALSE
    <2>1. op'[c] = op[c] \/ op'[c] = [op[c] EXCEPT !.overtaken = TRUE]
      BY <1>1, OvertakingStep DEF WriteRole, CommitAccept
    <2>2. [op[c] EXCEPT !.overtaken = TRUE] \in OpType
      BY OpFields
    <2> QED  BY <2>1, <2>2, NoOpAssumption DEF ChangesRole
  <1>2. ~ CommitAccept(c)
    BY DEF CommitAccept, ChangesRole
  <1> QED  BY <1>1, <1>2, SeatsChange

\* The last owner is lost only by a change of role that was overtaken after its
\* check.
THEOREM MembershipsOwners == Spec => OnlyOverlapsLoseOwners
  <1>1. Inv /\ [Next]_vars =>
           [Owners # {} /\ Owners' = {} => \E c \in Client : Writes(c) /\ op[c].overtaken]_vars
    <2> SUFFICES ASSUME Inv, [Next]_vars, Owners # {}, Owners' = {}
                 PROVE  \E c \in Client : Writes(c) /\ op[c].overtaken
      OBVIOUS
    <2>1. role' = role => Owners' = Owners
      BY DEF Owners
    <2>2. ASSUME NEW c \in Client, CommitAccept(c) PROVE FALSE
      BY <2>2, CommitWrites
    <2>3. PICK c \in Client : WriteRole(c)
      BY <2>1, <2>2, SeatsChange
    <2>4. op[c].overtaken
      BY <2>3, AllowedWrite
    <2>5. Writes(c)
      BY <2>3, OvertakingStep DEF WriteRole, Writes, Inv, MembershipsInv
    <2> QED  BY <2>4, <2>5
  <1> QED  BY <1>1, InvHolds, PTL DEF Spec, OnlyOverlapsLoseOwners

\* The owner role is given or taken by a change of role only on behalf of an
\* owner, unless the change was overtaken after its check.
THEOREM MembershipsEscalation == Spec => OnlyOverlapsEscalate
  <1>1. Inv /\ [Next]_vars =>
           [\A c \in Client :
               Writes(c) /\ Owners' # Owners => op[c].actor \in Owners \/ op[c].overtaken]_vars
    <2> SUFFICES ASSUME Inv, [Next]_vars, NEW c \in Client, Writes(c), Owners' # Owners,
                        ~ op[c].overtaken
                 PROVE  op[c].actor \in Owners
      OBVIOUS
    <2>1. role' # role
      BY DEF Owners
    <2>2. WriteRole(c)
      BY <2>1, RoleEnds DEF Writes, ChangesRole
    <2> QED  BY <2>2, AllowedWrite
  <1> QED  BY <1>1, InvHolds, PTL DEF Spec, OnlyOverlapsEscalate

-----------------------------------------------------------------------------
(* The subscription.                                                       *)

\* An event that is being handled is not completed, and handled by one delivery.
HandlingInv ==
    /\ \A d \in Deliveries : handling[d] # NoEvent => handling[d] \notin completedKeys
    /\ \A d, o \in Deliveries : handling[d] = handling[o] /\ handling[d] # NoEvent => d = o

\* A row read for an update stays, and the delivery that read it is still at its event.
ReadInv ==
    \A d \in Deliveries : read[d] # NoRow =>
        /\ handling[d] # NoEvent /\ IsUpdate(handling[d])
        /\ read[d].status # "absent" => Present(read[d].row)

\* Every row is in its place, empty until inserted, at most one is current, and with a second row the
\* current one is the provider's.
CurrentInv ==
    /\ \A r \in Rows : subscriptions[r].row = r /\ (Present(r) \/ subscriptions[r].created = 0)
    /\ \A r, q \in Current : r = q
    /\ \A r \in Current, q \in Rows :
          r # q /\ Present(q) => subscriptions[r].provider = "stripe"
    /\ orgPlan = "free" \/ \E r \in Current : orgPlan = subscriptions[r].plan

SubscriptionInv == BillingTypeOK /\ EventAppliedOnce /\ HandlingInv /\ ReadInv /\ CurrentInv

\* What becomes of the rows when one of them is written: the current one, an ended
\* one, or a new one when none is current.
LEMMA WriteStep ==
    ASSUME BillingTypeOK, CurrentInv, NEW r \in Rows, NEW new \in RowType,
           new.row = r, new.status # "absent", Write(new),
           r \in Current \/ (Present(r) /\ new.ended) \/ Current = {},
           \/ new.ended \/ new.provider = "stripe"
           \/ r \in Current /\ new.provider = subscriptions[r].provider
    PROVE  /\ subscriptions' \in [Rows -> RowType] /\ orgPlan' \in Plans /\ CurrentInv'
           /\ \A q \in Rows : Present(q) => Present(q)'
  <1>1. subscriptions \in [Rows -> RowType]
    BY DEF BillingTypeOK
  <1>2. subscriptions' = [subscriptions EXCEPT ![r] = new]
    BY DEF Write
  <1>3. subscriptions'[r] = new /\ \A q \in Rows \ {r} : subscriptions'[q] = subscriptions[q]
    BY <1>1, <1>2
  <1>4. subscriptions' \in [Rows -> RowType]
    BY <1>1, <1>2
  <1>5. new.ended \in BOOLEAN /\ new.plan \in Plans
    BY DEF RowType
  <1>6. orgPlan' = IF new.ended THEN "free" ELSE new.plan
    BY DEF Write
  <1>7. orgPlan' \in Plans
    BY <1>5, <1>6, BillingConstants
  <1>8. \A q \in Rows : subscriptions'[q].row = q /\ (Present(q)' \/ subscriptions'[q].created = 0)
    BY <1>3 DEF CurrentInv, Present
  <1>9. \A q \in Rows : Present(q) => Present(q)'
    BY <1>3 DEF Present
  <1>10. /\ \A q \in Rows \ {r} : q \in Current' <=> q \in Current
         /\ r \in Current' <=> ~new.ended
    BY <1>3 DEF Current, Present
  <1>11. \A q, p \in Current' : q = p
    <2>1. Current' \subseteq Rows
      BY DEF Current
    <2> QED  BY <1>10, <2>1 DEF CurrentInv
  <1>12. orgPlan' = "free" \/ \E q \in Current' : orgPlan' = subscriptions'[q].plan
    BY <1>3, <1>6, <1>10
  <1>13. ASSUME NEW p \in Current', NEW q \in Rows, p # q, subscriptions'[q].status # "absent"
         PROVE  subscriptions'[p].provider = "stripe"
    <2>1. p \in Rows
      BY DEF Current
    <2>2. CASE p = r
      BY <1>3, <1>10, <1>13, <2>1, <2>2 DEF CurrentInv, Present
    <2>3. CASE p # r /\ q # r
      BY <1>3, <1>10, <1>13, <2>1, <2>3 DEF CurrentInv, Present
    <2>4. CASE p # r /\ q = r
      <3>1. p \in Current /\ subscriptions'[p] = subscriptions[p]
        BY <1>3, <1>10, <2>1, <2>4
      <3>2. Present(r)
        BY <3>1 DEF Current
      <3> QED  BY <1>13, <2>4, <3>1, <3>2 DEF CurrentInv
    <2> QED  BY <2>2, <2>3, <2>4
  <1>14. (\A p \in Current, q \in Rows : p # q /\ Present(q) => subscriptions[p].provider = "stripe")'
    BY <1>13 DEF Present
  <1> QED  BY <1>4, <1>7, <1>8, <1>9, <1>11, <1>12, <1>14 DEF CurrentInv

\* What becomes of the deliveries when one of them commits: its event is completed
\* and applied once more, which is the first time.
LEMMA CommitStep ==
    ASSUME BillingTypeOK, EventAppliedOnce, HandlingInv, NEW d \in Deliveries,
           handling[d] # NoEvent, Commit(d)
    PROVE  /\ completedKeys' \subseteq Events
           /\ handling' \in [Deliveries -> Events \cup {NoEvent}]
           /\ read' \in [Deliveries -> RowType \cup {NoRow}]
           /\ applications' \in [Events -> Nat]
           /\ EventAppliedOnce' /\ HandlingInv'
           /\ read'[d] = NoRow /\ handling'[d] = NoEvent
           /\ \A o \in Deliveries \ {d} : read'[o] = read[o] /\ handling'[o] = handling[o]
  <1>1. PICK e \in Events : e = handling[d]
    BY DEF BillingTypeOK
  <1>2. /\ completedKeys' = completedKeys \cup {e}
        /\ applications' = [applications EXCEPT ![e] = @ + 1]
        /\ handling' = [handling EXCEPT ![d] = NoEvent] /\ read' = [read EXCEPT ![d] = NoRow]
    BY <1>1 DEF Commit, Release
  <1>3. /\ completedKeys' \subseteq Events
        /\ handling' \in [Deliveries -> Events \cup {NoEvent}]
        /\ read' \in [Deliveries -> RowType \cup {NoRow}]
        /\ applications' \in [Events -> Nat]
    BY <1>2 DEF BillingTypeOK
  <1>4. /\ read'[d] = NoRow /\ handling'[d] = NoEvent
        /\ \A o \in Deliveries \ {d} : read'[o] = read[o] /\ handling'[o] = handling[o]
    BY <1>2 DEF BillingTypeOK
  <1>5. e \notin completedKeys /\ applications[e] = 0
    BY <1>1 DEF HandlingInv, EventAppliedOnce
  <1>6. applications'[e] = 1 /\ \A f \in Events \ {e} : applications'[f] = applications[f]
    BY <1>2, <1>5 DEF BillingTypeOK
  <1>7. EventAppliedOnce'
    BY <1>2, <1>6 DEF EventAppliedOnce
  <1>8. \A o \in Deliveries : handling'[o] # NoEvent =>
            o # d /\ handling'[o] = handling[o] /\ handling[o] # e
    BY <1>1, <1>4 DEF HandlingInv
  <1>9. HandlingInv'
    BY <1>2, <1>8 DEF HandlingInv
  <1> QED  BY <1>3, <1>4, <1>7, <1>9

\* The rows that lifecycle and update events write.
LEMMA WrittenRows ==
    ASSUME NEW e \in Events, NEW row \in RowType
    PROVE  /\ LifecycleRow(e, row) \in RowType /\ LifecycleRow(e, row).row = row.row
           /\ LifecycleRow(e, row).status # "absent"
           /\ LifecycleRow(e, row).created = e.created
           /\ LifecycleRow(e, row).provider = row.provider /\ LifecycleRow(e, row).sub = e.sub
           /\ UpdatedRow(e, row) \in RowType /\ UpdatedRow(e, row).row = row.row
           /\ UpdatedRow(e, row).status # "absent" /\ UpdatedRow(e, row).ended = row.ended
           /\ UpdatedRow(e, row).created = e.created
           /\ UpdatedRow(e, row).provider = "stripe" /\ UpdatedRow(e, row).sub = e.sub
  <1>1. /\ e.status \in Statuses /\ e.created \in Nat /\ e.sub \in SubscriptionIds
        /\ e.plan \in Plans
    BY BillingConstants DEF EventType
  <1>2. PICK s : s = LifecycleStatus(e) /\ s \in Statuses
    BY DEF LifecycleStatus, Statuses
  <1>3. PICK b : b = (s = "canceled") /\ b \in BOOLEAN
    OBVIOUS
  <1>4. LifecycleRow(e, row) = [row EXCEPT !.status = s, !.created = e.created, !.sub = e.sub,
                                           !.ended = b, !.graceOver = FALSE]
    BY <1>2, <1>3 DEF LifecycleRow
  <1>5. /\ LifecycleRow(e, row) \in RowType /\ LifecycleRow(e, row).row = row.row
        /\ LifecycleRow(e, row).status = s /\ LifecycleRow(e, row).created = e.created
        /\ LifecycleRow(e, row).provider = row.provider /\ LifecycleRow(e, row).sub = e.sub
    BY <1>1, <1>2, <1>3, <1>4 DEF RowType
  <1>6. /\ UpdatedRow(e, row) \in RowType /\ UpdatedRow(e, row).row = row.row
        /\ UpdatedRow(e, row).status = e.status /\ UpdatedRow(e, row).ended = row.ended
        /\ UpdatedRow(e, row).created = e.created
        /\ UpdatedRow(e, row).provider = "stripe" /\ UpdatedRow(e, row).sub = e.sub
    BY <1>1 DEF UpdatedRow, RowType
  <1> QED  BY <1>1, <1>2, <1>5, <1>6 DEF Statuses

\* The invariant holds of a new organization.
LEMMA BillingInitInv ==
    ASSUME BillingInit
    PROVE  SubscriptionInv
  <1>1. \A r \in Rows : /\ subscriptions[r] \in RowType /\ subscriptions[r].row = r
                        /\ subscriptions[r].status = IF r = FirstRow THEN "active" ELSE "absent"
                        /\ subscriptions[r].plan = "free" /\ subscriptions[r].created = 0
    BY BillingConstants DEF BillingInit, Absent, RowType, Statuses
  <1>2. subscriptions \in [Rows -> RowType]
    BY <1>1 DEF BillingInit
  <1>3. BillingTypeOK
    BY <1>2, BillingConstants DEF BillingInit, BillingTypeOK
  <1>4. EventAppliedOnce /\ HandlingInv /\ ReadInv
    BY DEF BillingInit, EventAppliedOnce, HandlingInv, ReadInv
  <1>5. \A r \in Current : r = FirstRow
    BY <1>1 DEF Current, Present
  <1>6. CurrentInv
    <2>1. orgPlan = "free"
      BY DEF BillingInit
    <2>2. \A q \in Rows : Present(q) => q = FirstRow
      BY <1>1 DEF Present
    <2> QED  BY <1>1, <1>5, <2>1, <2>2 DEF CurrentInv
  <1> QED  BY <1>3, <1>4, <1>6 DEF SubscriptionInv

\* The rest of the invariant once rows and deliveries are as the lemmas leave them.
LEMMA CommittedWrite ==
    ASSUME SubscriptionInv, NEW d \in Deliveries, handling[d] # NoEvent, Commit(d),
           invoice' \in [SubscriptionIds -> {"none", "failed", "paid"}],
           subscriptions' \in [Rows -> RowType], orgPlan' \in Plans, CurrentInv',
           \A q \in Rows : Present(q) => Present(q)'
    PROVE  SubscriptionInv'
  <1>1. /\ completedKeys' \subseteq Events
        /\ handling' \in [Deliveries -> Events \cup {NoEvent}]
        /\ read' \in [Deliveries -> RowType \cup {NoRow}]
        /\ applications' \in [Events -> Nat]
        /\ EventAppliedOnce' /\ HandlingInv'
        /\ read'[d] = NoRow /\ handling'[d] = NoEvent
        /\ \A o \in Deliveries \ {d} : read'[o] = read[o] /\ handling'[o] = handling[o]
    BY CommitStep DEF SubscriptionInv
  <1>2. BillingTypeOK'
    BY <1>1 DEF BillingTypeOK
  <1>3. ReadInv'
    <2> SUFFICES ASSUME NEW o \in Deliveries, read'[o] # NoRow
                 PROVE  /\ handling'[o] # NoEvent /\ IsUpdate(handling'[o])
                        /\ read'[o].status # "absent" => subscriptions'[read'[o].row].status # "absent"
      BY DEF ReadInv, IsUpdate, Present
    <2>1. o # d /\ read'[o] = read[o] /\ handling'[o] = handling[o]
      BY <1>1
    <2>2. read[o] \in RowType /\ read[o].row \in Rows
      BY <2>1 DEF SubscriptionInv, BillingTypeOK, RowType
    <2>3. PICK q \in Rows : q = read[o].row
      BY <2>2
    <2>4. /\ handling[o] # NoEvent /\ IsUpdate(handling[o])
          /\ read[o].status # "absent" => subscriptions'[q].status # "absent"
      BY <2>1, <2>3 DEF SubscriptionInv, ReadInv, Present
    <2> QED  BY <2>1, <2>3, <2>4
  <1> QED  BY <1>1, <1>2, <1>3 DEF SubscriptionInv

\* A step that keeps the keys of the events and the rows.
LEMMA NoWrite ==
    ASSUME SubscriptionInv, UNCHANGED <<subscriptions, orgPlan, invoice, completedKeys, applications>>,
           BillingTypeOK', HandlingInv', ReadInv'
    PROVE  SubscriptionInv'
  <1>1. EventAppliedOnce' /\ CurrentInv'
    BY DEF SubscriptionInv, EventAppliedOnce, CurrentInv, Current, Present
  <1> QED  BY <1>1 DEF SubscriptionInv

\* A payment or cancellation event writes the current row, or none.
LEMMA LifecycleStep ==
    ASSUME SubscriptionInv, NEW d \in Deliveries, ApplyLifecycleEvent(d)
    PROVE  SubscriptionInv'
  <1>1. /\ BillingTypeOK /\ CurrentInv /\ Current \subseteq Rows
        /\ subscriptions \in [Rows -> RowType]
    BY DEF SubscriptionInv, Current, BillingTypeOK
  <1>2. PICK e \in Events : e = handling[d] /\ handling[d] # NoEvent /\ Commit(d)
    BY <1>1 DEF ApplyLifecycleEvent, BillingTypeOK
  <1>3. invoice' \in [SubscriptionIds -> {"none", "failed", "paid"}]
    <2>1. e.sub \in SubscriptionIds /\ invoice' = InvoiceOf(e)
      BY <1>2, BillingConstants DEF EventType, ApplyLifecycleEvent
    <2> QED  BY <1>1, <2>1 DEF InvoiceOf, BillingTypeOK
  <1>4. CASE UNCHANGED <<subscriptions, orgPlan>>
    <2>1. CurrentInv' /\ \A q \in Rows : Present(q) => Present(q)'
      BY <1>1, <1>4 DEF CurrentInv, Current, Present
    <2> QED  BY <1>1, <1>2, <1>3, <1>4, <2>1, CommittedWrite DEF BillingTypeOK
  <1>5. ASSUME NEW r \in Current, Write(LifecycleRow(e, subscriptions[r]))
        PROVE  SubscriptionInv'
    <2>1. PICK new : new = LifecycleRow(e, subscriptions[r])
      OBVIOUS
    <2>2. /\ r \in Rows /\ new \in RowType /\ new.row = r /\ new.status # "absent" /\ Write(new)
          /\ new.provider = subscriptions[r].provider
      BY <1>1, <1>5, <2>1, WrittenRows DEF CurrentInv
    <2>3. /\ subscriptions' \in [Rows -> RowType] /\ orgPlan' \in Plans /\ CurrentInv'
          /\ \A q \in Rows : Present(q) => Present(q)'
      BY <1>1, <1>5, <2>2, WriteStep
    <2> QED  BY <1>2, <1>3, <2>3, CommittedWrite
  <1> QED  BY <1>2, <1>4, <1>5 DEF ApplyLifecycleEvent

\* An update writes the row that was read: the current one, one that ended in the
\* meantime and stays ended, or a new one when none is current.
LEMMA UpdateStep ==
    ASSUME SubscriptionInv, NEW d \in Deliveries, WriteSubscription(d)
    PROVE  SubscriptionInv'
  <1>1. /\ BillingTypeOK /\ CurrentInv /\ Current \subseteq Rows
        /\ subscriptions \in [Rows -> RowType]
    BY DEF SubscriptionInv, Current, BillingTypeOK
  <1>2. read[d] # NoRow /\ read[d] \in RowType /\ Commit(d) /\ invoice' = invoice
    BY <1>1 DEF WriteSubscription, BillingTypeOK
  <1>3. PICK r \in Rows : r = read[d].row
    BY <1>2 DEF RowType
  <1>4. PICK e \in Events : e = handling[d] /\ handling[d] # NoEvent
    BY <1>1, <1>2 DEF SubscriptionInv, ReadInv, BillingTypeOK
  <1>5. invoice' \in [SubscriptionIds -> {"none", "failed", "paid"}]
    BY <1>1, <1>2 DEF BillingTypeOK
  <1>6. CASE UNCHANGED <<subscriptions, orgPlan>>
    <2>1. CurrentInv' /\ \A q \in Rows : Present(q) => Present(q)'
      BY <1>1, <1>6 DEF CurrentInv, Current, Present
    <2> QED  BY <1>1, <1>2, <1>4, <1>5, <1>6, <2>1, CommittedWrite DEF BillingTypeOK
  <1>7. CASE /\ read[d].status = "absent" => Current = {}
             /\ Write(UpdatedRow(e, subscriptions[r]))
    <2>1. PICK new : new = UpdatedRow(e, subscriptions[r])
      OBVIOUS
    <2>2. /\ new \in RowType /\ new.row = r /\ new.status # "absent" /\ Write(new)
          /\ new.ended = subscriptions[r].ended /\ new.provider = "stripe"
      BY <1>1, <1>7, <2>1, WrittenRows DEF CurrentInv
    <2>3. r \in Current \/ (Present(r) /\ new.ended) \/ Current = {}
      BY <1>2, <1>3, <1>7, <2>2 DEF SubscriptionInv, ReadInv, Current
    <2>4. /\ subscriptions' \in [Rows -> RowType] /\ orgPlan' \in Plans /\ CurrentInv'
          /\ \A q \in Rows : Present(q) => Present(q)'
      BY <1>1, <2>2, <2>3, WriteStep
    <2> QED  BY <1>2, <1>4, <1>5, <2>4, CommittedWrite
  <1> QED  BY <1>3, <1>4, <1>6, <1>7 DEF WriteSubscription, UpdateTarget

\* No step of a delivery, of time or of the expiry job breaks the invariant.
LEMMA BillingNextInv ==
    ASSUME SubscriptionInv, [BillingNext]_billingVars
    PROVE  SubscriptionInv'
  <1>0. /\ BillingTypeOK /\ EventAppliedOnce /\ HandlingInv /\ ReadInv /\ CurrentInv
        /\ subscriptions \in [Rows -> RowType]
    BY DEF SubscriptionInv, BillingTypeOK
  <1>1. ASSUME NEW d \in Deliveries, NEW e \in Events, Deliver(d, e)
        PROVE  SubscriptionInv'
    <2>1. handling'[d] = e /\ \A o \in Deliveries \ {d} : handling'[o] = handling[o]
      BY <1>0, <1>1 DEF Deliver, BillingTypeOK
    <2>2. BillingTypeOK'
      BY <1>0, <1>1 DEF Deliver, BillingTypeOK
    <2>3. HandlingInv'
      BY <1>0, <1>1, <2>1 DEF Deliver, KeyFree, HandlingInv
    <2>4. ReadInv'
      BY <1>0, <1>1, <2>1 DEF Deliver, ReadInv, Present, IsUpdate
    <2> QED  BY <1>1, <2>2, <2>3, <2>4, NoWrite DEF Deliver
  <1>2. ASSUME NEW d \in Deliveries, Abort(d)
        PROVE  SubscriptionInv'
    <2>1. /\ handling'[d] = NoEvent /\ read'[d] = NoRow
          /\ \A o \in Deliveries \ {d} : handling'[o] = handling[o] /\ read'[o] = read[o]
      BY <1>0, <1>2 DEF Abort, Release, BillingTypeOK
    <2>2. BillingTypeOK'
      BY <1>0, <1>2 DEF Abort, Release, BillingTypeOK
    <2>3. HandlingInv'
      BY <1>0, <1>2, <2>1 DEF Abort, HandlingInv
    <2>4. ReadInv'
      BY <1>0, <1>2, <2>1 DEF Abort, ReadInv, Present, IsUpdate
    <2> QED  BY <1>2, <2>2, <2>3, <2>4, NoWrite DEF Abort
  <1>3. ASSUME NEW d \in Deliveries, ReadSubscription(d)
        PROVE  SubscriptionInv'
    <2>1. PICK row \in RowType : /\ read' = [read EXCEPT ![d] = row]
                                 /\ row.status # "absent" => Present(row.row)
      <3>1. CASE \E r \in Current : read' = [read EXCEPT ![d] = subscriptions[r]]
        <4>1. PICK q \in Current : read' = [read EXCEPT ![d] = subscriptions[q]]
          BY <3>1
        <4>2. q \in Rows /\ Present(q) /\ subscriptions[q] \in RowType /\ subscriptions[q].row = q
          BY <1>0, <4>1 DEF Current, CurrentInv
        <4> QED  BY <4>1, <4>2
      <3>2. ASSUME NEW r \in Rows, read' = [read EXCEPT ![d] = Absent(r)]
            PROVE  \E row \in RowType : /\ read' = [read EXCEPT ![d] = row]
                                        /\ row.status # "absent" => Present(row.row)
        <4>1. Absent(r) \in RowType /\ Absent(r).status = "absent"
          BY BillingConstants DEF Absent, RowType
        <4> QED  BY <3>2, <4>1
      <3> QED  BY <1>3, <3>1, <3>2 DEF ReadSubscription
    <2>2. read'[d] = row /\ \A o \in Deliveries \ {d} : read'[o] = read[o]
      BY <1>0, <2>1 DEF BillingTypeOK
    <2>3. BillingTypeOK'
      BY <1>0, <1>3, <2>1 DEF ReadSubscription, BillingTypeOK
    <2>4. HandlingInv'
      BY <1>0, <1>3 DEF ReadSubscription, HandlingInv
    <2>5. ReadInv'
      BY <1>0, <1>3, <2>1, <2>2 DEF ReadSubscription, ReadInv, Present, IsUpdate
    <2> QED  BY <1>3, <2>3, <2>4, <2>5, NoWrite DEF ReadSubscription
  <1>4. ASSUME NEW r \in Rows, NEW new \in RowType, new.row = r, new.status # "absent",
               subscriptions' = [subscriptions EXCEPT ![r] = new], orgPlan' \in Plans, CurrentInv',
               UNCHANGED <<invoice, completedKeys, handling, read, applications>>
        PROVE  SubscriptionInv'
    <2>1. BillingTypeOK' /\ \A q \in Rows : Present(q) => Present(q)'
      BY <1>0, <1>4 DEF BillingTypeOK, Present
    <2>2. EventAppliedOnce' /\ HandlingInv'
      BY <1>0, <1>4 DEF EventAppliedOnce, HandlingInv
    <2>3. ASSUME NEW o \in Deliveries, read[o] # NoRow PROVE read[o].row \in Rows
      BY <1>0, <2>3 DEF BillingTypeOK, RowType
    <2>4. ReadInv'
      BY <1>0, <1>4, <2>1, <2>3 DEF ReadInv, IsUpdate
    <2> QED  BY <1>4, <2>1, <2>2, <2>4 DEF SubscriptionInv
  <1>5. ASSUME NEW r \in Rows, GraceElapses(r)
        PROVE  SubscriptionInv'
    <2>1. PICK new : new = [subscriptions[r] EXCEPT !.graceOver = TRUE]
      OBVIOUS
    <2>2. /\ new \in RowType /\ new.row = r /\ new.status = subscriptions[r].status
          /\ new.ended = subscriptions[r].ended /\ new.plan = subscriptions[r].plan
          /\ new.provider = subscriptions[r].provider /\ new.created = subscriptions[r].created
      <3>1. subscriptions[r] \in RowType /\ subscriptions[r].row = r
        BY <1>0 DEF CurrentInv
      <3> QED  BY <2>1, <3>1 DEF RowType
    <2>3. subscriptions' = [subscriptions EXCEPT ![r] = new] /\ r \in Current
      BY <1>5, <2>1 DEF GraceElapses
    <2>4. subscriptions'[r] = new /\ \A q \in Rows \ {r} : subscriptions'[q] = subscriptions[q]
      BY <1>0, <2>3
    <2>5. Current' = Current
      BY <2>2, <2>4 DEF Current, Present
    <2>6. orgPlan' = orgPlan /\ orgPlan \in Plans
      BY <1>0, <1>5 DEF GraceElapses, BillingTypeOK
    <2>7. CurrentInv'
      <3>1. \A q \in Rows : /\ subscriptions'[q].status = subscriptions[q].status
                             /\ subscriptions'[q].provider = subscriptions[q].provider
                             /\ subscriptions'[q].plan = subscriptions[q].plan
                             /\ subscriptions'[q].created = subscriptions[q].created
                             /\ subscriptions'[q].row = q
        BY <1>0, <2>2, <2>4 DEF CurrentInv
      <3>2. (\A q \in Rows : subscriptions[q].row = q /\ (Present(q) \/ subscriptions[q].created = 0))'
        BY <1>0, <3>1 DEF CurrentInv, Present
      <3>3. Current \subseteq Rows /\ \A p, q \in Current : p = q
        BY <1>0 DEF Current, CurrentInv
      <3>4. ASSUME NEW p \in Current, NEW q \in Rows, p # q, subscriptions'[q].status # "absent"
            PROVE  subscriptions'[p].provider = "stripe"
        BY <1>0, <3>1, <3>3, <3>4 DEF CurrentInv, Present
      <3>5. orgPlan = "free" \/ \E p \in Current : orgPlan = subscriptions'[p].plan
        BY <1>0, <3>1, <3>3 DEF CurrentInv
      <3> QED  BY <2>5, <2>6, <3>2, <3>3, <3>4, <3>5 DEF CurrentInv, Present
    <2>8. new.status # "absent"
      BY <2>2, <2>3 DEF Current, Present
    <2> QED  BY <1>4, <1>5, <2>2, <2>3, <2>6, <2>7, <2>8 DEF GraceElapses
  <1>6. ASSUME NEW r \in Rows, ExpireGracePeriods(r)
        PROVE  SubscriptionInv'
    <2>1. PICK new : new = [subscriptions[r] EXCEPT !.status = "canceled", !.ended = TRUE]
      OBVIOUS
    <2>2. new \in RowType /\ new.row = r /\ new.status # "absent" /\ new.ended
      <3>1. subscriptions[r] \in RowType /\ subscriptions[r].row = r
        BY <1>0 DEF CurrentInv
      <3> QED  BY <2>1, <3>1 DEF RowType, Statuses
    <2>3. Write(new) /\ subscriptions' = [subscriptions EXCEPT ![r] = new]
      BY <1>6, <2>1, <2>2 DEF ExpireGracePeriods, Write
    <2>4. Present(r)
      BY <1>6 DEF ExpireGracePeriods
    <2>5. orgPlan' \in Plans /\ CurrentInv'
      BY <1>0, <2>2, <2>3, <2>4, WriteStep
    <2> QED  BY <1>4, <1>6, <2>2, <2>3, <2>5 DEF ExpireGracePeriods
  <1>7. CASE UNCHANGED billingVars
    BY <1>0, <1>7
    DEF billingVars, SubscriptionInv, BillingTypeOK, EventAppliedOnce, HandlingInv, ReadInv,
        CurrentInv, Current, Present, IsUpdate
  <1> QED  BY <1>1, <1>2, <1>3, <1>5, <1>6, <1>7, LifecycleStep, UpdateStep DEF BillingNext

\* The invariant says what BillingInv says.
LEMMA SubscriptionInvImplies == SubscriptionInv => BillingInv
  <1> SUFFICES ASSUME SubscriptionInv PROVE BillingInv
    OBVIOUS
  <1>1. Cardinality(Current) =< 1
    <2>1. CASE Current = {}
      BY <2>1, FS_EmptySet
    <2>2. CASE Current # {}
      <3>1. PICK r \in Current : TRUE
        BY <2>2
      <3>2. \A q \in Current : q = r
        BY DEF SubscriptionInv, CurrentInv
      <3>3. Current = {r}
        BY <3>2
      <3>4. Cardinality(Current) = 1
        BY <3>3, FS_Singleton
      <3> QED  BY <3>4
    <2> QED  BY <2>1, <2>2
  <1>2. orgPlan \in {"free"} \cup {subscriptions[r].plan : r \in Current}
    BY DEF SubscriptionInv, CurrentInv
  <1> QED  BY <1>1, <1>2 DEF SubscriptionInv, BillingInv, NoPlanWithoutSubscription

\* The invariant holds in every state of the specification.
LEMMA SubscriptionInvariant == BillingSpec => []SubscriptionInv
  <1>1. BillingInit => SubscriptionInv
    BY BillingInitInv
  <1>2. SubscriptionInv /\ [BillingNext]_billingVars => SubscriptionInv'
    BY BillingNextInv
  <1> QED  BY <1>1, <1>2, PTL DEF BillingSpec

\* However often, in whatever order and however concurrently the provider delivers
\* its events, each is applied once, exactly when its key is stored as completed; the
\* organization has at most one current subscription and no plan but that one's or
\* the free plan.
THEOREM BillingInvariant == BillingSpec => []BillingInv
  BY SubscriptionInvImplies, SubscriptionInvariant, PTL

\* The three ways a row changes: a payment or cancellation event no older than it
\* writes the current row, an update no older than the row it read writes that row,
\* or time and the expiry job write a current row and keep its time.
LEMMA RowWrites ==
    ASSUME SubscriptionInv, BillingNext, NEW r \in Rows, subscriptions'[r] # subscriptions[r]
    PROVE  \/ \E e \in Events : /\ r \in Current /\ NotOlder(e, subscriptions[r])
                                /\ subscriptions'[r] = LifecycleRow(e, subscriptions[r])
           \/ \E d \in Deliveries, e \in Events :
                 /\ handling[d] # NoEvent /\ handling'[d] = NoEvent
                 /\ read[d] \in RowType /\ read[d] # NoRow /\ read[d].row = r
                 /\ NotOlder(e, read[d])
                 /\ subscriptions'[r] = UpdatedRow(e, subscriptions[r])
           \/ r \in Current /\ subscriptions'[r].created = subscriptions[r].created
  <1>0. /\ BillingTypeOK /\ CurrentInv /\ Current \subseteq Rows
        /\ subscriptions \in [Rows -> RowType]
    BY DEF SubscriptionInv, Current, BillingTypeOK
  <1>1. ASSUME NEW d \in Deliveries,
               (\E e \in Events : Deliver(d, e)) \/ Abort(d) \/ ReadSubscription(d)
        PROVE  FALSE
    BY <1>1 DEF Deliver, Abort, ReadSubscription
  <1>2. ASSUME NEW d \in Deliveries, ApplyLifecycleEvent(d)
        PROVE  \E e \in Events : /\ r \in Current /\ NotOlder(e, subscriptions[r])
                                 /\ subscriptions'[r] = LifecycleRow(e, subscriptions[r])
    <2>1. PICK e \in Events : e = handling[d]
      BY <1>0, <1>2 DEF ApplyLifecycleEvent, BillingTypeOK
    <2>2. \E q \in Current : NotOlder(e, subscriptions[q])
      BY <1>2, <2>1 DEF ApplyLifecycleEvent
    <2>3. PICK q \in Current : Write(LifecycleRow(e, subscriptions[q]))
      BY <1>2, <2>1, <2>2 DEF ApplyLifecycleEvent
    <2>4. PICK new : new = LifecycleRow(e, subscriptions[q])
      OBVIOUS
    <2>5. q \in Rows /\ new.row = q
      BY <1>0, <2>4, WrittenRows DEF CurrentInv
    <2>6. subscriptions' = [subscriptions EXCEPT ![q] = new]
      BY <2>3, <2>4, <2>5 DEF Write
    <2>7. r = q /\ subscriptions'[r] = new
      BY <1>0, <2>5, <2>6
    <2>8. NotOlder(e, subscriptions[r])
      BY <1>0, <2>2, <2>7 DEF CurrentInv
    <2> QED  BY <2>4, <2>7, <2>8
  <1>3. ASSUME NEW d \in Deliveries, WriteSubscription(d)
        PROVE  \E e \in Events :
                 /\ handling[d] # NoEvent /\ handling'[d] = NoEvent
                 /\ read[d] \in RowType /\ read[d] # NoRow /\ read[d].row = r
                 /\ NotOlder(e, read[d])
                 /\ subscriptions'[r] = UpdatedRow(e, subscriptions[r])
    <2>1. read[d] # NoRow /\ read[d] \in RowType /\ handling[d] # NoEvent
      BY <1>0, <1>3 DEF WriteSubscription, BillingTypeOK, SubscriptionInv, ReadInv
    <2>2. PICK e \in Events : e = handling[d]
      BY <1>0, <2>1 DEF BillingTypeOK
    <2>3. PICK q \in Rows : q = read[d].row
      BY <2>1 DEF RowType
    <2>4. NotOlder(e, read[d]) /\ Write(UpdatedRow(e, subscriptions[q]))
      BY <1>3, <2>2, <2>3 DEF WriteSubscription, UpdateTarget
    <2>5. PICK new : new = UpdatedRow(e, subscriptions[q])
      OBVIOUS
    <2>6. new.row = q
      BY <1>0, <2>5, WrittenRows DEF CurrentInv
    <2>7. subscriptions' = [subscriptions EXCEPT ![q] = new]
      BY <2>4, <2>5, <2>6 DEF Write
    <2>8. r = q /\ subscriptions'[r] = new
      BY <1>0, <2>7
    <2>9. handling'[d] = NoEvent
      BY <1>0, <1>3 DEF WriteSubscription, Commit, Release, BillingTypeOK
    <2> QED  BY <2>1, <2>3, <2>4, <2>5, <2>8, <2>9
  <1>4. ASSUME NEW q \in Rows, GraceElapses(q) \/ ExpireGracePeriods(q)
        PROVE  r \in Current /\ subscriptions'[r].created = subscriptions[r].created
    <2>1. subscriptions[q] \in RowType /\ subscriptions[q].row = q /\ q \in Current
      BY <1>0, <1>4 DEF CurrentInv, GraceElapses, ExpireGracePeriods, Expirable, Current
    <2>2. PICK new : /\ subscriptions' = [subscriptions EXCEPT ![q] = new]
                     /\ new.created = subscriptions[q].created
      <3>1. CASE GraceElapses(q)
        <4>1. PICK new : new = [subscriptions[q] EXCEPT !.graceOver = TRUE]
          OBVIOUS
        <4>2. new.created = subscriptions[q].created
          BY <2>1, <4>1 DEF RowType
        <4> QED  BY <3>1, <4>1, <4>2 DEF GraceElapses
      <3>2. CASE ExpireGracePeriods(q)
        <4>1. PICK new : new = [subscriptions[q] EXCEPT !.status = "canceled", !.ended = TRUE]
          OBVIOUS
        <4>2. new.created = subscriptions[q].created /\ new.row = q
          BY <2>1, <4>1 DEF RowType
        <4> QED  BY <3>2, <4>1, <4>2 DEF ExpireGracePeriods, Write
      <3> QED  BY <1>4, <3>1, <3>2
    <2>3. r = q /\ subscriptions'[r] = new
      BY <1>0, <2>2
    <2> QED  BY <2>1, <2>2, <2>3
  <1> QED  BY <1>1, <1>2, <1>3, <1>4 DEF BillingNext

\* A subscription that ended is never current again: payment and cancellation
\* events, time and the expiry job write current rows only, and an update leaves
\* ended_at as it finds it, however long ago it read the row.
THEOREM BillingEnded == BillingSpec => EndedStaysEnded
  <1>1. ASSUME SubscriptionInv, BillingNext, NEW r \in Rows, subscriptions[r].ended
        PROVE  subscriptions'[r].ended
    <2>1. subscriptions[r] \in RowType /\ r \notin Current
      BY <1>1 DEF SubscriptionInv, BillingTypeOK, Current
    <2>2. CASE subscriptions'[r] = subscriptions[r]
      BY <1>1, <2>2
    <2>3. CASE subscriptions'[r] # subscriptions[r]
      <3>1. PICK e \in Events : subscriptions'[r] = UpdatedRow(e, subscriptions[r])
        BY <1>1, <2>1, <2>3, RowWrites
      <3>2. subscriptions'[r].ended = subscriptions[r].ended
        BY <2>1, <3>1, WrittenRows
      <3> QED  BY <1>1, <3>2
    <2> QED  BY <2>2, <2>3
  <1>2. ASSUME SubscriptionInv, [BillingNext]_billingVars
        PROVE  [\A r \in Rows : subscriptions[r].ended => subscriptions'[r].ended]_billingVars
    BY <1>1, <1>2
  <1> QED  BY <1>2, SubscriptionInvariant, PTL DEF BillingSpec, EndedStaysEnded

\* An event that is done with a write: a payment or cancellation event wrote the
\* current row, which was no newer; an update wrote the row it had read, which was
\* no newer then, or a new row when none was current.
LEMMA AppliedEvent ==
    ASSUME SubscriptionInv, BillingNext, NEW d \in Deliveries,
           handling[d] # NoEvent, handling'[d] = NoEvent, subscriptions' # subscriptions
    PROVE  \E r \in Rows, new \in RowType :
             /\ subscriptions' = [subscriptions EXCEPT ![r] = new] /\ new.row = r
             /\ UniqueProviderId(new) /\ new.sub = handling[d].sub
             /\ \/ /\ r \in Current /\ NotOlder(handling[d], subscriptions[r])
                   /\ new.provider = subscriptions[r].provider
                \/ /\ read[d] # NoRow /\ read[d] \in RowType /\ read[d].row = r
                   /\ NotOlder(handling[d], read[d]) /\ new.provider = "stripe"
                   /\ Present(r) \/ Current = {}
  <1>0. /\ BillingTypeOK /\ CurrentInv /\ Current \subseteq Rows
        /\ subscriptions \in [Rows -> RowType]
    BY DEF SubscriptionInv, Current, BillingTypeOK
  <1>1. PICK e \in Events : e = handling[d]
    BY <1>0 DEF BillingTypeOK
  <1>2. ASSUME NEW o \in Deliveries, ApplyLifecycleEvent(o) \/ WriteSubscription(o)
        PROVE  o = d
    BY <1>0, <1>2 DEF ApplyLifecycleEvent, WriteSubscription, Commit, Release, BillingTypeOK
  <1>3. ApplyLifecycleEvent(d) \/ WriteSubscription(d)
    <2>1. ~ \E o \in Deliveries : (\E f \in Events : Deliver(o, f)) \/ ReadSubscription(o) \/ Abort(o)
      BY DEF Deliver, ReadSubscription, Abort
    <2>2. ~ \E r \in Rows : GraceElapses(r) \/ ExpireGracePeriods(r)
      BY DEF GraceElapses, ExpireGracePeriods
    <2> QED  BY <1>2, <2>1, <2>2 DEF BillingNext
  <1>4. CASE ApplyLifecycleEvent(d)
    <2>1. \E q \in Current : NotOlder(e, subscriptions[q])
      BY <1>1, <1>4 DEF ApplyLifecycleEvent
    <2>2. PICK r \in Current : /\ UniqueProviderId(LifecycleRow(e, subscriptions[r]))
                               /\ Write(LifecycleRow(e, subscriptions[r]))
      BY <1>1, <1>4, <2>1 DEF ApplyLifecycleEvent
    <2>3. PICK new : new = LifecycleRow(e, subscriptions[r])
      OBVIOUS
    <2>4. /\ r \in Rows /\ new \in RowType /\ new.row = r /\ new.sub = e.sub
          /\ new.provider = subscriptions[r].provider
      BY <1>0, <2>3, WrittenRows DEF CurrentInv
    <2>5. subscriptions' = [subscriptions EXCEPT ![r] = new] /\ UniqueProviderId(new)
      BY <2>2, <2>3, <2>4 DEF Write
    <2>6. NotOlder(e, subscriptions[r])
      BY <1>0, <2>1 DEF CurrentInv
    <2> QED  BY <1>1, <2>4, <2>5, <2>6
  <1>5. CASE WriteSubscription(d)
    <2>1. read[d] # NoRow /\ read[d] \in RowType
      BY <1>0, <1>5 DEF WriteSubscription, BillingTypeOK
    <2>2. PICK r \in Rows : r = read[d].row
      BY <2>1 DEF RowType
    <2>3. PICK new : new = UpdatedRow(e, subscriptions[r])
      OBVIOUS
    <2>4. new \in RowType /\ new.row = r /\ new.sub = e.sub /\ new.provider = "stripe"
      BY <1>0, <2>3, WrittenRows DEF CurrentInv
    <2>5. /\ NotOlder(e, read[d]) /\ UniqueProviderId(new) /\ Write(new)
          /\ read[d].status = "absent" => Current = {}
      BY <1>1, <1>5, <2>2, <2>3 DEF WriteSubscription, UpdateTarget
    <2>6. subscriptions' = [subscriptions EXCEPT ![r] = new]
      BY <2>4, <2>5 DEF Write
    <2>7. Present(r) \/ Current = {}
      BY <2>1, <2>2, <2>5 DEF SubscriptionInv, ReadInv
    <2> QED  BY <1>1, <2>1, <2>2, <2>4, <2>5, <2>6, <2>7
  <1> QED  BY <1>3, <1>4, <1>5

\* An event replaces what a newer one left only by an update whose unlocked read was
\* overtaken, or when the newer one ended a row that was still internal: every other
\* write compares the event with the row it locks, the update compares it with the
\* row it read, and the provider's own rows are kept apart by the unique index.
THEOREM BillingReverts == BillingSpec => OnlyOvertakenOrInternalRevert
  <1>1. ASSUME SubscriptionInv, BillingNext, NEW d \in Deliveries, NEW q \in Rows,
               handling[d] # NoEvent, handling'[d] = NoEvent, subscriptions' # subscriptions,
               handling[d].created < subscriptions[q].created,
               subscriptions[q].sub = handling[d].sub \/ subscriptions'[q] # subscriptions[q]
        PROVE  \/ /\ read[d] # NoRow /\ read[d].row = q
                  /\ read[d].created < subscriptions[q].created
               \/ /\ subscriptions[q].ended /\ subscriptions[q].provider = "internal"
                  /\ subscriptions'[q] = subscriptions[q]
    <2>1. /\ CurrentInv /\ subscriptions \in [Rows -> RowType] /\ handling[d] \in Events
          /\ subscriptions[q] \in RowType
      BY <1>1 DEF SubscriptionInv, BillingTypeOK
    <2>2. PICK r \in Rows, new \in RowType :
             /\ subscriptions' = [subscriptions EXCEPT ![r] = new] /\ new.row = r
             /\ UniqueProviderId(new) /\ new.sub = handling[d].sub
             /\ \/ /\ r \in Current /\ NotOlder(handling[d], subscriptions[r])
                   /\ new.provider = subscriptions[r].provider
                \/ /\ read[d] # NoRow /\ read[d] \in RowType /\ read[d].row = r
                   /\ NotOlder(handling[d], read[d]) /\ new.provider = "stripe"
                   /\ Present(r) \/ Current = {}
      BY <1>1, AppliedEvent
    <2>3. /\ handling[d].created \in Nat /\ subscriptions[q].created \in Nat
          /\ handling[d].sub \in SubscriptionIds /\ subscriptions[q].ended \in BOOLEAN
          /\ subscriptions[q].provider \in {"internal", "stripe"}
      BY <2>1, BillingConstants DEF RowType, EventType
    <2>4. CASE q = r
      <3>1. CASE r \in Current /\ NotOlder(handling[d], subscriptions[r])
        BY <1>1, <2>3, <2>4, <3>1 DEF NotOlder
      <3>2. CASE /\ read[d] # NoRow /\ read[d] \in RowType /\ read[d].row = r
                 /\ NotOlder(handling[d], read[d])
        <4>1. read[d].created \in Nat
          BY <3>2 DEF RowType
        <4> QED  BY <1>1, <2>3, <2>4, <3>2, <4>1 DEF NotOlder
      <3> QED  BY <2>2, <3>1, <3>2
    <2>5. CASE q # r
      <3>1. subscriptions'[q] = subscriptions[q] /\ subscriptions[q].sub = new.sub
        BY <1>1, <2>1, <2>2, <2>5
      <3>2. subscriptions[q].provider # new.provider
        BY <2>2, <2>5, <3>1 DEF UniqueProviderId
      <3>3. Present(q)
        BY <1>1, <2>1, <2>3 DEF CurrentInv
      <3>4. new.provider = "stripe" /\ q \notin Current
        <4>1. CASE r \in Current /\ new.provider = subscriptions[r].provider
          BY <2>1, <2>5, <3>3, <4>1 DEF CurrentInv
        <4>2. CASE new.provider = "stripe" /\ (Present(r) \/ Current = {})
          <5>1. q \in Current /\ Present(r) => subscriptions[q].provider = "stripe"
            BY <2>1, <2>5 DEF CurrentInv
          <5> QED  BY <3>2, <4>2, <5>1
        <4> QED  BY <2>2, <4>1, <4>2
      <3>5. subscriptions[q].ended
        BY <3>3, <3>4 DEF Current
      <3> QED  BY <2>3, <3>1, <3>2, <3>4, <3>5
    <2> QED  BY <2>4, <2>5
  <1>2. ASSUME SubscriptionInv, [BillingNext]_billingVars
        PROVE  [\A d \in Deliveries, q \in Rows :
                  /\ handling[d] # NoEvent /\ handling'[d] = NoEvent
                  /\ subscriptions' # subscriptions
                  /\ handling[d].created < subscriptions[q].created
                  /\ subscriptions[q].sub = handling[d].sub \/ subscriptions'[q] # subscriptions[q]
                  => \/ /\ read[d] # NoRow /\ read[d].row = q
                        /\ read[d].created < subscriptions[q].created
                     \/ /\ subscriptions[q].ended /\ subscriptions[q].provider = "internal"
                        /\ subscriptions'[q] = subscriptions[q]]_billingVars
    BY <1>1, <1>2
  <1> QED  BY <1>2, SubscriptionInvariant, PTL DEF BillingSpec, OnlyOvertakenOrInternalRevert
=============================================================================
