----------------------------- MODULE Membership -----------------------------
(***************************************************************************)
(* The members and invitations of one workspace                            *)
(* (server/services/member-service.ts).                                    *)
(*                                                                         *)
(* A request has two moments.  First its route loads the acting member or, *)
(* for an acceptance, the invitation, without any lock; then a transaction *)
(* does the work.  Between them other requests may change every role.  The *)
(* transactions that manage members lock the workspace and read the roles  *)
(* again; an acceptance does not lock it and relies on a guarded update.   *)
(***************************************************************************)
EXTENDS Naturals, FiniteSets

CONSTANTS
    Users,         \* accounts; each has one email address, which it stands for
    Verified,      \* accounts whose email address is verified
    Creator,       \* who created the workspace
    Invitations,   \* invitation rows that may be created
    MaxJoins       \* bound: memberships created for one user

ASSUME MembershipAssumption ==
    /\ Creator \in Users
    /\ Verified \subseteq Users
    /\ Invitations # {}
    /\ MaxJoins \in Nat

VARIABLES
    role,          \* role[u]: role in the Membership row of u, "none" without one
    joined,        \* joined[u]: which of the rows of u this is, its membershipId
    invitation,    \* invitation[i]: the Invitation row
    call           \* call[u]: the request of u between its two moments

vars == <<role, joined, invitation, call>>

Roles == {"OWNER", "ADMIN", "MEMBER", "VIEWER"}
RoleOrNone == Roles \cup {"none"}

NoCall == [op |-> "none", target |-> Creator, id |-> 0, role |-> "VIEWER",
           invitation |-> CHOOSE i \in Invitations : TRUE]

TypeOK ==
    /\ role \in [Users -> RoleOrNone]
    /\ joined \in [Users -> Nat]
    /\ invitation \in [Invitations ->
                         [state : {"unused", "open", "revoked", "consumed"},
                          email : Users, role : Roles, expired : BOOLEAN]]
    /\ call \in [Users -> [op : {"none", "invite", "revoke", "accept", "change", "remove"},
                           target : Users, id : Nat, role : Roles,
                           invitation : Invitations]]

\* createWithOwner made the creator the first owner.
Init ==
    /\ role = [u \in Users |-> IF u = Creator THEN "OWNER" ELSE "none"]
    /\ joined = [u \in Users |-> IF u = Creator THEN 1 ELSE 0]
    /\ invitation = [i \in Invitations |-> [state |-> "unused", email |-> Creator,
                                            role |-> "VIEWER", expired |-> FALSE]]
    /\ call = [u \in Users |-> NoCall]

Member(u) == role[u] # "none"
Owners    == {u \in Users : role[u] = "OWNER"}

-----------------------------------------------------------------------------
(* Permissions (server/auth/permissions.ts). *)

ManagesMembers(r) == r \in {"OWNER", "ADMIN"}
ManagesOwners(r)  == r = "OWNER"

\* Mutation: only the role of the target is looked at, not the one it gets.
CanModifyTarget(actor, target, new) ==
    IF target = "OWNER" THEN actor = "OWNER" ELSE ManagesMembers(actor)

\* canModifyMember; a removal passes the role of the target as the new one.
CanModify(actor, target, new) ==
    IF "OWNER" \in {target, new} THEN actor = "OWNER" ELSE ManagesMembers(actor)

\* Mutation: the last owner is protected from others, not from itself.
SparesLastOwnerOfOthers(u, t) == role[t] = "OWNER" /\ t # u => Cardinality(Owners) > 1

\* countByRole: somebody else still owns the workspace when t no longer does.
SparesLastOwner(u, t) == role[t] = "OWNER" => Cardinality(Owners) > 1

-----------------------------------------------------------------------------
(* First moment: the route. *)

Start(u, op, t, id, r, i) ==
    /\ call[u].op = "none"
    /\ call' = [call EXCEPT ![u] = [op |-> op, target |-> t, id |-> id, role |-> r,
                                    invitation |-> i]]
    /\ UNCHANGED <<role, joined, invitation>>

\* requireActor: only a member gets through; it may name any row it has seen.
AskInvite(u) ==
    /\ Member(u)
    /\ \E t \in Users, r \in Roles :
          Start(u, "invite", t, 0, r, NoCall.invitation)

AskRevoke(u) ==
    /\ Member(u)
    /\ \E i \in Invitations :
          /\ invitation[i].state # "unused"
          /\ Start(u, "revoke", Creator, 0, "VIEWER", i)

AskChange(u) ==
    /\ Member(u)
    /\ \E t \in Users, r \in Roles :
          /\ Member(t)
          /\ Start(u, "change", t, joined[t], r, NoCall.invitation)

AskRemove(u) ==
    /\ Member(u)
    /\ \E t \in Users :
          /\ Member(t)
          /\ Start(u, "remove", t, joined[t], "VIEWER", NoCall.invitation)

\* acceptInvitation up to its transaction: the invitation as it is now, the
\* verified email address and the address it was issued for.
AskAccept(u) ==
    \E i \in Invitations :
        /\ invitation[i].state = "open"
        /\ ~invitation[i].expired
        /\ u \in Verified
        /\ invitation[i].email = u
        /\ Start(u, "accept", u, 0, "VIEWER", i)

-----------------------------------------------------------------------------
(* Second moment: the transaction. *)

\* Mutation: a finished request is not forgotten.
DoneKept(u) == call' = [call EXCEPT ![u].op = "done"]

\* The request is answered.
Done(u) == call' = [call EXCEPT ![u] = NoCall]

\* An invitation is given a role that its creator may grant.
MayInvite(u) ==
    /\ Member(u)
    /\ ManagesMembers(role[u])
    /\ call[u].role = "OWNER" => ManagesOwners(role[u])

Invite(u) ==
    /\ call[u].op = "invite"
    /\ MayInvite(u)
    /\ \E i \in Invitations :
          /\ invitation[i].state = "unused"
          /\ invitation' = [invitation EXCEPT
                ![i] = [state |-> "open", email |-> call[u].target,
                        role |-> call[u].role, expired |-> FALSE]]
    /\ Done(u)
    /\ UNCHANGED <<role, joined>>

MayRevoke(u) ==
    /\ Member(u)
    /\ ManagesMembers(role[u])
    /\ invitation[call[u].invitation].state = "open"

Revoke(u) ==
    /\ call[u].op = "revoke"
    /\ MayRevoke(u)
    /\ invitation' = [invitation EXCEPT ![call[u].invitation].state = "revoked"]
    /\ Done(u)
    /\ UNCHANGED <<role, joined>>

\* Mutation: consume does not look at revokedAt again.
UsableIfUnconsumed(i) == invitation[i].state # "consumed" /\ ~invitation[i].expired

\* The WHERE clause of consume.
Usable(i) == invitation[i].state = "open" /\ ~invitation[i].expired

\* A second membership violates the unique key and rolls everything back.
MayAccept(u) == Usable(call[u].invitation) /\ ~Member(u)

\* The token is consumed and the membership created together.
Accept(u) ==
    /\ call[u].op = "accept"
    /\ MayAccept(u)
    /\ joined[u] < MaxJoins
    /\ invitation' = [invitation EXCEPT ![call[u].invitation].state = "consumed"]
    /\ role' = [role EXCEPT ![u] = invitation[call[u].invitation].role]
    /\ joined' = [joined EXCEPT ![u] = @ + 1]
    /\ Done(u)

\* The row that was named, if it is still there.
Target(u) == Member(call[u].target) /\ joined[call[u].target] = call[u].id

MayChange(u) ==
    LET t == call[u].target
    IN  /\ Member(u)
        /\ Target(u)
        /\ CanModify(role[u], role[t], call[u].role)
        /\ call[u].role # "OWNER" => SparesLastOwner(u, t)

ChangeRole(u) ==
    /\ call[u].op = "change"
    /\ MayChange(u)
    /\ role' = [role EXCEPT ![call[u].target] = call[u].role]
    /\ Done(u)
    /\ UNCHANGED <<joined, invitation>>

MayRemove(u) ==
    LET t == call[u].target
    IN  /\ Member(u)
        /\ Target(u)
        /\ t # u
        /\ CanModify(role[u], role[t], role[t])
        /\ SparesLastOwner(u, t)

Remove(u) ==
    /\ call[u].op = "remove"
    /\ MayRemove(u)
    /\ role' = [role EXCEPT ![call[u].target] = "none"]
    /\ Done(u)
    /\ UNCHANGED <<joined, invitation>>

\* The transaction throws.
Refuse(u) ==
    /\ \/ call[u].op = "invite" /\ ~MayInvite(u)
       \/ call[u].op = "revoke" /\ ~MayRevoke(u)
       \/ call[u].op = "accept" /\ ~MayAccept(u)
       \/ call[u].op = "change" /\ ~MayChange(u)
       \/ call[u].op = "remove" /\ ~MayRemove(u)
    /\ Done(u)
    /\ UNCHANGED <<role, joined, invitation>>

\* 72 hours pass.
Expire(i) ==
    /\ invitation[i].state = "open"
    /\ ~invitation[i].expired
    /\ invitation' = [invitation EXCEPT ![i].expired = TRUE]
    /\ UNCHANGED <<role, joined, call>>

Next ==
    \/ \E u \in Users :
          \/ AskInvite(u) \/ AskRevoke(u) \/ AskAccept(u) \/ AskChange(u) \/ AskRemove(u)
          \/ Invite(u) \/ Revoke(u) \/ Accept(u) \/ ChangeRole(u) \/ Remove(u)
          \/ Refuse(u)
    \/ \E i \in Invitations : Expire(i)

Spec == Init /\ [][Next]_vars

-----------------------------------------------------------------------------
(* What must hold. *)

\* A workspace always has an owner, whatever owners do to each other at the same
\* time (the last-owner checks of changeMemberRole and removeMember).
HasOwner == \E u \in Users : role[u] = "OWNER"

\* Who owns the workspace is decided by somebody who owns it at that moment, not
\* when the request came in: owners are demoted, removed, promoted or invited by
\* owners only (canModifyMember on the role read under the lock).
OwnersDecideOnOwners ==
    [][\A u \in Users :
          /\ call[u].op \in {"invite", "change", "remove"}
          /\ call'[u] # call[u]
          /\ \/ {t \in Users : role'[t] = "OWNER"} # Owners
             \/ \E i \in Invitations : /\ invitation[i].state = "unused"
                                       /\ invitation'[i].state = "open"
                                       /\ invitation'[i].role = "OWNER"
          => role[u] = "OWNER"]_vars

\* A membership appears only when an invitation to that address, open and not
\* expired at that moment, is consumed, and with its role; and an invitation is
\* consumed only when the membership appears.  So no token is used twice, used
\* after it was revoked, or burned by an acceptance that fails (acceptInvitation).
JoiningConsumesInvitation ==
    [][/\ \A u \in Users :
             ~Member(u) /\ role'[u] # "none"
             => \E i \in Invitations : /\ invitation[i].state = "open"
                                       /\ ~invitation[i].expired
                                       /\ invitation'[i].state = "consumed"
                                       /\ invitation[i].email = u
                                       /\ role'[u] = invitation[i].role
       /\ \A i \in Invitations :
             invitation[i].state # "consumed" /\ invitation'[i].state = "consumed"
             => ~Member(invitation[i].email) /\ role'[invitation[i].email] # "none"]_vars
=============================================================================
