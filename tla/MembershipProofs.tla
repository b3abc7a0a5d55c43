-------------------------- MODULE MembershipProofs --------------------------
(* Proofs about Membership, for any number of accounts and invitations.      *)
EXTENDS Membership, FiniteSetTheorems, TLAPS

InvitationRow == [state : {"unused", "open", "revoked", "consumed"},
                  email : Users, role : Roles, expired : BOOLEAN]

CallRecord == [op : {"none", "invite", "revoke", "accept", "change", "remove"},
               target : Users, id : Nat, role : Roles, invitation : Invitations]

(***************************************************************************)
(* A request that is not being made is a proper request record.            *)
(***************************************************************************)
LEMMA NoCallType == NoCall \in CallRecord
<1>1. (CHOOSE i \in Invitations : TRUE) \in Invitations
  BY MembershipAssumption
<1> QED BY <1>1, MembershipAssumption DEF NoCall, CallRecord, Roles

(***************************************************************************)
(* An owner that may be demoted or removed is not the only one: countByRole *)
(* counted more than one.                                                  *)
(***************************************************************************)
LEMMA AnotherOwner ==
    ASSUME NEW t \in Users, role[t] = "OWNER", Cardinality(Owners) > 1
    PROVE  \E u \in Users : u # t /\ role[u] = "OWNER"
<1>1. SUFFICES ASSUME \A u \in Users : role[u] = "OWNER" => u = t
               PROVE  FALSE
  OBVIOUS
<1>2. Owners = {t}
  BY <1>1 DEF Owners
<1>3. Cardinality(Owners) = 1
  BY <1>2, FS_Singleton
<1> QED BY <1>3

(***************************************************************************)
(* Field updates keep the rows well typed.                                 *)
(***************************************************************************)
LEMMA InvitationUpdate ==
    ASSUME NEW r \in InvitationRow
    PROVE  /\ \A s \in {"unused", "open", "revoked", "consumed"} :
                 [r EXCEPT !.state = s] \in InvitationRow
           /\ [r EXCEPT !.expired = TRUE] \in InvitationRow
BY DEF InvitationRow

LEMMA StartType ==
    ASSUME TypeOK, NEW u \in Users,
           NEW op \in {"invite", "revoke", "accept", "change", "remove"},
           NEW t \in Users, NEW id \in Nat, NEW r \in Roles, NEW i \in Invitations,
           Start(u, op, t, id, r, i)
    PROVE  TypeOK'
<1> DEFINE c == [op |-> op, target |-> t, id |-> id, role |-> r, invitation |-> i]
<1>1. c \in CallRecord
  BY DEF CallRecord
<1>2. call \in [Users -> CallRecord]
  BY DEF TypeOK, CallRecord
<1>3. call' = [call EXCEPT ![u] = c] /\ UNCHANGED <<role, joined, invitation>>
  BY DEF Start
<1> HIDE DEF c
<1>4. call' \in [Users -> CallRecord]
  BY <1>1, <1>2, <1>3
<1> QED BY <1>3, <1>4 DEF TypeOK, CallRecord

LEMMA DoneType ==
    ASSUME TypeOK, NEW u \in Users, Done(u)
    PROVE  call' \in [Users -> CallRecord]
<1>1. call \in [Users -> CallRecord]
  BY DEF TypeOK, CallRecord
<1> QED BY <1>1, NoCallType DEF Done

(***************************************************************************)
(* Membership rows, invitations and requests keep their types.             *)
(***************************************************************************)
THEOREM TypeCorrect == Spec => []TypeOK
<1>1. Init => TypeOK
  <2> SUFFICES ASSUME Init PROVE TypeOK
    OBVIOUS
  <2>1. call \in [Users -> CallRecord]
    BY NoCallType DEF Init
  <2>2. role \in [Users -> RoleOrNone] /\ joined \in [Users -> Nat]
    BY DEF Init, RoleOrNone, Roles
  <2>3. invitation \in [Invitations -> InvitationRow]
    BY MembershipAssumption DEF Init, InvitationRow, Roles
  <2> QED BY <2>1, <2>2, <2>3 DEF TypeOK, CallRecord, InvitationRow
<1>2. TypeOK /\ [Next]_vars => TypeOK'
  <2> SUFFICES ASSUME TypeOK, [Next]_vars PROVE TypeOK'
    OBVIOUS
  <2> USE DEF RoleOrNone
  <2>0. /\ invitation \in [Invitations -> InvitationRow]
        /\ call \in [Users -> CallRecord]
        /\ NoCall.invitation \in Invitations /\ Creator \in Users
    BY NoCallType, MembershipAssumption DEF TypeOK, CallRecord, InvitationRow
  <2>1. ASSUME NEW u \in Users, AskInvite(u) PROVE TypeOK'
    <3>1. PICK t \in Users, r \in Roles : Start(u, "invite", t, 0, r, NoCall.invitation)
      BY <2>1 DEF AskInvite
    <3> QED BY <3>1, <2>0, StartType
  <2>2. ASSUME NEW u \in Users, AskRevoke(u) PROVE TypeOK'
    <3>1. PICK i \in Invitations : Start(u, "revoke", Creator, 0, "VIEWER", i)
      BY <2>2 DEF AskRevoke
    <3> QED BY <3>1, <2>0, StartType DEF Roles
  <2>3. ASSUME NEW u \in Users, AskChange(u) PROVE TypeOK'
    <3>1. PICK t \in Users, r \in Roles : Start(u, "change", t, joined[t], r, NoCall.invitation)
      BY <2>3 DEF AskChange
    <3>2. joined[t] \in Nat
      BY DEF TypeOK
    <3> QED BY <3>1, <3>2, <2>0, StartType
  <2>4. ASSUME NEW u \in Users, AskRemove(u) PROVE TypeOK'
    <3>1. PICK t \in Users : Start(u, "remove", t, joined[t], "VIEWER", NoCall.invitation)
      BY <2>4 DEF AskRemove
    <3>2. joined[t] \in Nat
      BY DEF TypeOK
    <3> QED BY <3>1, <3>2, <2>0, StartType DEF Roles
  <2>5. ASSUME NEW u \in Users, AskAccept(u) PROVE TypeOK'
    <3>1. PICK i \in Invitations : Start(u, "accept", u, 0, "VIEWER", i)
      BY <2>5 DEF AskAccept
    <3> QED BY <3>1, <2>0, StartType DEF Roles
  <2>6. ASSUME NEW u \in Users, Invite(u) PROVE TypeOK'
    <3>1. PICK i \in Invitations :
             invitation' = [invitation EXCEPT
                ![i] = [state |-> "open", email |-> call[u].target,
                        role |-> call[u].role, expired |-> FALSE]]
      BY <2>6 DEF Invite
    <3>2. call[u].target \in Users /\ call[u].role \in Roles
      BY DEF TypeOK
    <3>3. [state |-> "open", email |-> call[u].target,
           role |-> call[u].role, expired |-> FALSE] \in InvitationRow
      BY <3>2 DEF InvitationRow
    <3>4. invitation' \in [Invitations -> InvitationRow]
      BY <3>1, <3>3, <2>0
    <3>5. call' \in [Users -> CallRecord] /\ UNCHANGED <<role, joined>>
      BY <2>6, DoneType DEF Invite
    <3> QED BY <3>4, <3>5 DEF TypeOK, CallRecord, InvitationRow
  <2>7. ASSUME NEW u \in Users, Revoke(u) PROVE TypeOK'
    <3>1. call[u].invitation \in Invitations
      BY DEF TypeOK
    <3>2. [invitation[call[u].invitation] EXCEPT !.state = "revoked"] \in InvitationRow
      BY <3>1, <2>0, InvitationUpdate
    <3>3. invitation' \in [Invitations -> InvitationRow]
      BY <2>7, <3>1, <3>2, <2>0 DEF Revoke
    <3>4. call' \in [Users -> CallRecord] /\ UNCHANGED <<role, joined>>
      BY <2>7, DoneType DEF Revoke
    <3> QED BY <3>3, <3>4 DEF TypeOK, CallRecord, InvitationRow
  <2>8. ASSUME NEW u \in Users, Accept(u) PROVE TypeOK'
    <3>1. call[u].invitation \in Invitations
      BY DEF TypeOK
    <3>2. [invitation[call[u].invitation] EXCEPT !.state = "consumed"] \in InvitationRow
      BY <3>1, <2>0, InvitationUpdate
    <3>3. invitation' \in [Invitations -> InvitationRow]
      BY <2>8, <3>1, <3>2, <2>0 DEF Accept
    <3>4. invitation[call[u].invitation].role \in Roles
      BY <3>1 DEF TypeOK
    <3>5. role' \in [Users -> RoleOrNone] /\ joined' \in [Users -> Nat]
      BY <2>8, <3>4 DEF Accept, TypeOK
    <3>6. call' \in [Users -> CallRecord]
      BY <2>8, DoneType DEF Accept
    <3> QED BY <3>3, <3>5, <3>6 DEF TypeOK, CallRecord, InvitationRow
  <2>9. ASSUME NEW u \in Users, ChangeRole(u) PROVE TypeOK'
    <3>1. call[u].role \in Roles
      BY DEF TypeOK
    <3>2. role' \in [Users -> RoleOrNone]
      BY <2>9, <3>1 DEF ChangeRole, TypeOK
    <3>3. call' \in [Users -> CallRecord] /\ UNCHANGED <<joined, invitation>>
      BY <2>9, DoneType DEF ChangeRole
    <3> QED BY <3>2, <3>3 DEF TypeOK, CallRecord
  <2>10. ASSUME NEW u \in Users, Remove(u) PROVE TypeOK'
    <3>1. role' \in [Users -> RoleOrNone]
      BY <2>10 DEF Remove, TypeOK
    <3>2. call' \in [Users -> CallRecord] /\ UNCHANGED <<joined, invitation>>
      BY <2>10, DoneType DEF Remove
    <3> QED BY <3>1, <3>2 DEF TypeOK, CallRecord
  <2>11. ASSUME NEW u \in Users, Refuse(u) PROVE TypeOK'
    <3>1. call' \in [Users -> CallRecord] /\ UNCHANGED <<role, joined, invitation>>
      BY <2>11, DoneType DEF Refuse
    <3> QED BY <3>1 DEF TypeOK, CallRecord
  <2>12. ASSUME NEW i \in Invitations, Expire(i) PROVE TypeOK'
    <3>1. [invitation[i] EXCEPT !.expired = TRUE] \in InvitationRow
      BY <2>0, InvitationUpdate
    <3>2. invitation' \in [Invitations -> InvitationRow]
      BY <2>12, <3>1, <2>0 DEF Expire
    <3> QED BY <2>12, <3>2 DEF Expire, TypeOK, InvitationRow
  <2>13. CASE UNCHANGED vars
    BY <2>13 DEF vars, TypeOK
  <2> QED
    BY <2>1, <2>2, <2>3, <2>4, <2>5, <2>6, <2>7, <2>8, <2>9, <2>10, <2>11, <2>12, <2>13
    DEF Next
<1> QED BY <1>1, <1>2, PTL DEF Spec

(***************************************************************************)
(* A change of one row leaves the other rows alone; the row that changes    *)
(* is not the last owner's.                                                *)
(***************************************************************************)
LEMMA OwnerRemains ==
    ASSUME TypeOK, HasOwner, NEW t \in Users, NEW r \in RoleOrNone,
           role' = [role EXCEPT ![t] = r],
           r # "OWNER" => (role[t] = "OWNER" => Cardinality(Owners) > 1)
    PROVE  HasOwner'
<1>0. role \in [Users -> RoleOrNone]
  BY DEF TypeOK
<1>1. CASE r = "OWNER"
  BY <1>0, <1>1 DEF HasOwner
<1>2. CASE r # "OWNER" /\ role[t] = "OWNER"
  <2>1. PICK u \in Users : u # t /\ role[u] = "OWNER"
    BY <1>2, AnotherOwner
  <2> QED BY <1>0, <2>1 DEF HasOwner
<1>3. CASE r # "OWNER" /\ role[t] # "OWNER"
  <2>1. PICK u \in Users : role[u] = "OWNER"
    BY DEF HasOwner
  <2> QED BY <1>0, <1>3, <2>1 DEF HasOwner
<1> QED BY <1>1, <1>2, <1>3

(***************************************************************************)
(* A workspace always has an owner.                                        *)
(***************************************************************************)
THEOREM AlwaysOwned == Spec => []HasOwner
<1>1. Init => HasOwner
  BY MembershipAssumption DEF Init, HasOwner
<1>2. TypeOK /\ HasOwner /\ [Next]_vars => HasOwner'
  <2> SUFFICES ASSUME TypeOK, HasOwner, [Next]_vars PROVE HasOwner'
    OBVIOUS
  <2>1. ASSUME UNCHANGED role PROVE HasOwner'
    BY <2>1 DEF HasOwner
  <2>2. ASSUME NEW u \in Users, Accept(u) PROVE HasOwner'
    <3>1. call[u].invitation \in Invitations
      BY DEF TypeOK
    <3>2. invitation[call[u].invitation].role \in RoleOrNone
      BY <3>1 DEF TypeOK, RoleOrNone
    <3>3. role[u] # "OWNER"
      BY <2>2 DEF Accept, MayAccept, Member
    <3>4. role' = [role EXCEPT ![u] = invitation[call[u].invitation].role]
      BY <2>2 DEF Accept
    <3> QED BY <3>2, <3>3, <3>4, OwnerRemains
  <2>3. ASSUME NEW u \in Users, ChangeRole(u) PROVE HasOwner'
    <3>1. call[u].target \in Users /\ call[u].role \in RoleOrNone
      BY DEF TypeOK, RoleOrNone
    <3>2. call[u].role # "OWNER"
          => (role[call[u].target] = "OWNER" => Cardinality(Owners) > 1)
      BY <2>3 DEF ChangeRole, MayChange, SparesLastOwner
    <3>3. role' = [role EXCEPT ![call[u].target] = call[u].role]
      BY <2>3 DEF ChangeRole
    <3> QED BY <3>1, <3>2, <3>3, OwnerRemains
  <2>4. ASSUME NEW u \in Users, Remove(u) PROVE HasOwner'
    <3>1. call[u].target \in Users /\ "none" \in RoleOrNone
      BY DEF TypeOK, RoleOrNone
    <3>2. role[call[u].target] = "OWNER" => Cardinality(Owners) > 1
      BY <2>4 DEF Remove, MayRemove, SparesLastOwner
    <3>3. role' = [role EXCEPT ![call[u].target] = "none"]
      BY <2>4 DEF Remove
    <3> QED BY <3>1, <3>2, <3>3, OwnerRemains
  <2> QED
    BY <2>1, <2>2, <2>3, <2>4
    DEF Next, vars, AskInvite, AskRevoke, AskAccept, AskChange, AskRemove, Start,
        Invite, Revoke, Refuse, Expire
<1> QED BY <1>1, <1>2, TypeCorrect, PTL DEF Spec

(***************************************************************************)
(* An acceptance under way is for an invitation that was created, and for  *)
(* the address of the one who accepts.                                     *)
(***************************************************************************)
Addressed ==
    \A u \in Users :
        call[u].op = "accept" => /\ invitation[call[u].invitation].state # "unused"
                                 /\ invitation[call[u].invitation].email = u

LEMMA AddressedKept == TypeOK /\ Addressed /\ [Next]_vars => Addressed'
<1> SUFFICES ASSUME TypeOK, Addressed, [Next]_vars,
                    NEW v \in Users, call'[v].op = "accept"
             PROVE  /\ invitation'[call'[v].invitation].state # "unused"
                    /\ invitation'[call'[v].invitation].email = v
  BY DEF Addressed
<1> DEFINE Kept(i) == /\ invitation[i].state # "unused"
                         => /\ invitation'[i].state # "unused"
                            /\ invitation'[i].email = invitation[i].email
<1>0. /\ DOMAIN call = Users
      /\ invitation \in [Invitations -> InvitationRow]
      /\ \A u \in Users : call[u].invitation \in Invitations
      /\ NoCall.op = "none"
  BY DEF TypeOK, InvitationRow, NoCall
<1>1. \A i \in Invitations : Kept(i)
  <2> SUFFICES ASSUME NEW i \in Invitations, invitation[i].state # "unused"
               PROVE  invitation'[i].state # "unused" /\ invitation'[i].email = invitation[i].email
    OBVIOUS
  <2>1. ASSUME UNCHANGED invitation PROVE Kept(i)
    BY <2>1
  <2>2. ASSUME NEW u \in Users, Invite(u) PROVE Kept(i)
    <3>1. PICK j \in Invitations :
             /\ invitation[j].state = "unused"
             /\ invitation' = [invitation EXCEPT
                  ![j] = [state |-> "open", email |-> call[u].target,
                          role |-> call[u].role, expired |-> FALSE]]
      BY <2>2 DEF Invite
    <3>2. invitation'[i] = invitation[i]
      BY <3>1, <1>0
    <3> QED BY <3>2
  <2>3. ASSUME NEW j \in Invitations, NEW x \in {"revoked", "consumed"},
               invitation' = [invitation EXCEPT ![j].state = x]
        PROVE  Kept(i)
    <3>1. CASE i = j
      <4>1. invitation'[i] = [invitation[i] EXCEPT !.state = x]
        BY <2>3, <3>1, <1>0
      <4>2. invitation[i] \in InvitationRow
        BY <1>0
      <4> QED BY <4>1, <4>2 DEF InvitationRow
    <3>2. CASE i # j
      BY <2>3, <3>2, <1>0
    <3> QED BY <3>1, <3>2
  <2>4. ASSUME NEW j \in Invitations, Expire(j) PROVE Kept(i)
    <3>1. CASE i = j
      <4>1. invitation'[i] = [invitation[i] EXCEPT !.expired = TRUE]
        BY <2>4, <3>1, <1>0 DEF Expire
      <4>2. invitation[i] \in InvitationRow
        BY <1>0
      <4> QED BY <4>1, <4>2 DEF InvitationRow
    <3>2. CASE i # j
      BY <2>4, <3>2, <1>0 DEF Expire
    <3> QED BY <3>1, <3>2
  <2>5. ASSUME NEW u \in Users, Revoke(u) PROVE Kept(i)
    BY <2>5, <2>3, <1>0 DEF Revoke
  <2>6. ASSUME NEW u \in Users, Accept(u) PROVE Kept(i)
    BY <2>6, <2>3, <1>0 DEF Accept
  <2> QED
    BY <2>1, <2>2, <2>4, <2>5, <2>6
    DEF Next, vars, AskInvite, AskRevoke, AskAccept, AskChange, AskRemove, Start,
        ChangeRole, Remove, Refuse
<1>2. CASE call'[v] = call[v]
  BY <1>0, <1>1, <1>2 DEF Addressed
<1>3. CASE call'[v] # call[v]
  <2>1. ASSUME NEW u \in Users, Done(u) PROVE FALSE
    BY <2>1, <1>0, <1>3 DEF Done
  <2>2. ASSUME NEW u \in Users, NEW op \in {"invite", "revoke", "change", "remove"},
               NEW t \in Users, NEW id \in Nat, NEW r \in Roles, NEW i \in Invitations,
               Start(u, op, t, id, r, i)
        PROVE  FALSE
    <3>1. call' = [call EXCEPT ![u] = [op |-> op, target |-> t, id |-> id, role |-> r,
                                      invitation |-> i]]
      BY <2>2 DEF Start
    <3>2. v = u
      BY <3>1, <1>0, <1>3
    <3>3. call'[v].op = op
      BY <3>1, <3>2, <1>0
    <3> QED BY <3>3
  <2>3. ASSUME NEW u \in Users, AskAccept(u)
        PROVE  /\ invitation'[call'[v].invitation].state # "unused"
               /\ invitation'[call'[v].invitation].email = v
    <3>1. PICK i \in Invitations : /\ invitation[i].state = "open"
                                   /\ invitation[i].email = u
                                   /\ Start(u, "accept", u, 0, "VIEWER", i)
      BY <2>3 DEF AskAccept
    <3>2. call' = [call EXCEPT ![u] = [op |-> "accept", target |-> u, id |-> 0,
                                       role |-> "VIEWER", invitation |-> i]]
      BY <3>1 DEF Start
    <3>3. v = u
      BY <3>2, <1>0, <1>3
    <3>4. call'[v].invitation = i
      BY <3>2, <3>3, <1>0
    <3> QED BY <3>1, <3>3, <3>4 DEF Start
  <2>4. /\ NoCall.invitation \in Invitations /\ Creator \in Users
        /\ \A t \in Users : joined[t] \in Nat
        /\ 0 \in Nat /\ "VIEWER" \in Roles
    BY NoCallType, MembershipAssumption DEF TypeOK, CallRecord, Roles
  <2>5. ASSUME NEW u \in Users, AskInvite(u) PROVE FALSE
    BY <2>5, <2>2, <2>4 DEF AskInvite
  <2>6. ASSUME NEW u \in Users, AskRevoke(u) PROVE FALSE
    BY <2>6, <2>2, <2>4 DEF AskRevoke
  <2>7. ASSUME NEW u \in Users, AskChange(u) PROVE FALSE
    BY <2>7, <2>2, <2>4 DEF AskChange
  <2>8. ASSUME NEW u \in Users, AskRemove(u) PROVE FALSE
    BY <2>8, <2>2, <2>4 DEF AskRemove
  <2>9. ASSUME UNCHANGED call PROVE FALSE
    BY <2>9, <1>3
  <2> QED
    BY <2>1, <2>3, <2>5, <2>6, <2>7, <2>8, <2>9
    DEF Next, vars, Invite, Revoke, Accept, ChangeRole, Remove, Refuse, Expire
<1> QED BY <1>2, <1>3

(***************************************************************************)
(* A membership appears exactly when an open invitation is consumed.       *)
(***************************************************************************)
THEOREM JoiningAlwaysConsumesInvitation == Spec => JoiningConsumesInvitation
<1> DEFINE Joins(u) ==
      ~Member(u) /\ role'[u] # "none"
      => \E i \in Invitations : /\ invitation[i].state = "open"
                                /\ ~invitation[i].expired
                                /\ invitation'[i].state = "consumed"
                                /\ invitation[i].email = u
                                /\ role'[u] = invitation[i].role
<1> DEFINE Consumes(i) ==
      invitation[i].state # "consumed" /\ invitation'[i].state = "consumed"
      => ~Member(invitation[i].email) /\ role'[invitation[i].email] # "none"
<1> DEFINE Exchange == /\ \A u \in Users : Joins(u)
                       /\ \A i \in Invitations : Consumes(i)
<1>1. Init => Addressed
  BY DEF Init, Addressed, NoCall
<1>2. TypeOK /\ Addressed /\ [Next]_vars => [Exchange]_vars
  <2> SUFFICES ASSUME TypeOK, Addressed, Next PROVE Exchange
    OBVIOUS
  <2>0. /\ role \in [Users -> RoleOrNone]
        /\ invitation \in [Invitations -> InvitationRow]
        /\ \A u \in Users : call[u].invitation \in Invitations
        /\ \A u \in Users : call[u].target \in Users
    BY DEF TypeOK, InvitationRow
  <2>1. ASSUME UNCHANGED <<role, invitation>> PROVE Exchange
    BY <2>1 DEF Member
  <2>2. ASSUME NEW u \in Users, Invite(u) PROVE Exchange
    <3>1. PICK j \in Invitations :
             invitation' = [invitation EXCEPT
                  ![j] = [state |-> "open", email |-> call[u].target,
                          role |-> call[u].role, expired |-> FALSE]]
      BY <2>2 DEF Invite
    <3>2. \A i \in Invitations : i # j => invitation'[i] = invitation[i]
      BY <3>1, <2>0
    <3>3. invitation'[j].state = "open"
      BY <3>1, <2>0
    <3>4. UNCHANGED role
      BY <2>2 DEF Invite
    <3> QED BY <3>2, <3>3, <3>4 DEF Member
  <2>3. ASSUME NEW u \in Users, Revoke(u) PROVE Exchange
    <3> DEFINE j == call[u].invitation
    <3>1. j \in Invitations /\ invitation' = [invitation EXCEPT ![j].state = "revoked"]
      BY <2>3, <2>0 DEF Revoke
    <3>2. UNCHANGED role
      BY <2>3 DEF Revoke
    <3> HIDE DEF j
    <3>3. \A i \in Invitations : i # j => invitation'[i] = invitation[i]
      BY <3>1, <2>0
    <3>4. invitation'[j].state = "revoked"
      <4>1. invitation'[j] = [invitation[j] EXCEPT !.state = "revoked"]
        BY <3>1, <2>0
      <4>2. invitation[j] \in InvitationRow
        BY <3>1, <2>0
      <4> QED BY <4>1, <4>2 DEF InvitationRow
    <3> QED BY <3>1, <3>2, <3>3, <3>4 DEF Member
  <2>4. ASSUME NEW u \in Users, Accept(u) PROVE Exchange
    <3> DEFINE j == call[u].invitation
    <3>1. /\ j \in Invitations
          /\ invitation' = [invitation EXCEPT ![j].state = "consumed"]
          /\ role' = [role EXCEPT ![u] = invitation[j].role]
          /\ invitation[j].state = "open" /\ ~invitation[j].expired
          /\ ~Member(u)
      BY <2>4, <2>0 DEF Accept, MayAccept, Usable
    <3>2. invitation[j].email = u
      BY <2>4 DEF Accept, Addressed
    <3> HIDE DEF j
    <3>3. \A i \in Invitations : i # j => invitation'[i] = invitation[i]
      BY <3>1, <2>0
    <3>4. invitation[j] \in InvitationRow
      BY <3>1, <2>0
    <3>5. invitation'[j].state = "consumed"
      <4>1. invitation'[j] = [invitation[j] EXCEPT !.state = "consumed"]
        BY <3>1, <2>0
      <4> QED BY <4>1, <3>4 DEF InvitationRow
    <3>6. role'[u] = invitation[j].role /\ role'[u] # "none"
      BY <3>1, <3>4, <2>0 DEF InvitationRow, Roles
    <3>7. \A v \in Users : v # u => role'[v] = role[v]
      BY <3>1, <2>0
    <3>8. \A v \in Users : Joins(v)
      BY <3>1, <3>2, <3>5, <3>6, <3>7 DEF Member
    <3>9. \A i \in Invitations : Consumes(i)
      BY <3>1, <3>2, <3>3, <3>6
    <3> QED BY <3>8, <3>9
  <2>5. ASSUME NEW u \in Users, ChangeRole(u) PROVE Exchange
    <3>1. /\ Member(call[u].target)
          /\ role' = [role EXCEPT ![call[u].target] = call[u].role]
          /\ UNCHANGED invitation
      BY <2>5 DEF ChangeRole, MayChange, Target
    <3> QED BY <3>1, <2>0 DEF Member
  <2>6. ASSUME NEW u \in Users, Remove(u) PROVE Exchange
    <3>1. /\ role' = [role EXCEPT ![call[u].target] = "none"]
          /\ UNCHANGED invitation
      BY <2>6 DEF Remove
    <3> QED BY <3>1, <2>0 DEF Member
  <2>7. ASSUME NEW j \in Invitations, Expire(j) PROVE Exchange
    <3>1. invitation' = [invitation EXCEPT ![j].expired = TRUE] /\ UNCHANGED role
      BY <2>7 DEF Expire
    <3>2. \A i \in Invitations : invitation'[i].state = invitation[i].state
      <4> TAKE i \in Invitations
      <4>1. CASE i = j
        <5>1. invitation'[i] = [invitation[i] EXCEPT !.expired = TRUE]
          BY <3>1, <4>1, <2>0
        <5>2. invitation[i] \in InvitationRow
          BY <2>0
        <5> QED BY <5>1, <5>2 DEF InvitationRow
      <4>2. CASE i # j
        BY <3>1, <4>2, <2>0
      <4> QED BY <4>1, <4>2
    <3> QED BY <3>1, <3>2 DEF Member
  <2> HIDE DEF Exchange
  <2> QED
    BY <2>1, <2>2, <2>3, <2>4, <2>5, <2>6, <2>7
    DEF Next, AskInvite, AskRevoke, AskAccept, AskChange, AskRemove, Start, Refuse
<1>3. JoiningConsumesInvitation <=> [][Exchange]_vars
  BY PTL DEF JoiningConsumesInvitation
<1> QED BY <1>1, <1>2, <1>3, AddressedKept, TypeCorrect, PTL DEF Spec

(***************************************************************************)
(* Only an owner decides who owns the workspace.                           *)
(***************************************************************************)
THEOREM OwnersAlwaysDecideOnOwners == Spec => OwnersDecideOnOwners
<1> DEFINE Decides(u) ==
      /\ call[u].op \in {"invite", "change", "remove"}
      /\ call'[u] # call[u]
      /\ \/ {t \in Users : role'[t] = "OWNER"} # Owners
         \/ \E i \in Invitations : /\ invitation[i].state = "unused"
                                   /\ invitation'[i].state = "open"
                                   /\ invitation'[i].role = "OWNER"
      => role[u] = "OWNER"
<1>1. TypeOK /\ [Next]_vars => [\A u \in Users : Decides(u)]_vars
  <2> SUFFICES ASSUME TypeOK, Next, NEW u \in Users,
                      call[u].op \in {"invite", "change", "remove"}, call'[u] # call[u],
                      \/ {t \in Users : role'[t] = "OWNER"} # Owners
                      \/ \E i \in Invitations : /\ invitation[i].state = "unused"
                                                /\ invitation'[i].state = "open"
                                                /\ invitation'[i].role = "OWNER"
               PROVE  role[u] = "OWNER"
    OBVIOUS
  <2>0. /\ role \in [Users -> RoleOrNone]
        /\ invitation \in [Invitations -> InvitationRow]
        /\ DOMAIN call = Users
        /\ call[u].target \in Users
    BY DEF TypeOK, InvitationRow
  <2>1. ASSUME UNCHANGED <<role, invitation>> PROVE FALSE
    BY <2>1 DEF Owners
  <2>2. ASSUME NEW v \in Users, Done(v) PROVE u = v
    BY <2>2, <2>0 DEF Done
  <2>3. ASSUME NEW v \in Users, Invite(v) PROVE role[u] = "OWNER"
    <3>1. u = v
      BY <2>2, <2>3 DEF Invite
    <3>2. PICK j \in Invitations :
             invitation' = [invitation EXCEPT
                  ![j] = [state |-> "open", email |-> call[v].target,
                          role |-> call[v].role, expired |-> FALSE]]
      BY <2>3 DEF Invite
    <3>3. UNCHANGED role
      BY <2>3 DEF Invite
    <3>4. PICK i \in Invitations : /\ invitation[i].state = "unused"
                                   /\ invitation'[i].state = "open"
                                   /\ invitation'[i].role = "OWNER"
      BY <3>3 DEF Owners
    <3>5. i = j
      BY <3>2, <3>4, <2>0
    <3>6. call[v].role = "OWNER"
      BY <3>2, <3>4, <3>5, <2>0
    <3> QED BY <2>3, <3>1, <3>6 DEF Invite, MayInvite, ManagesOwners
  <2>4. ASSUME NEW v \in Users, ChangeRole(v) PROVE role[u] = "OWNER"
    <3>1. u = v
      BY <2>2, <2>4 DEF ChangeRole
    <3>2. /\ role' = [role EXCEPT ![call[u].target] = call[u].role]
          /\ CanModify(role[u], role[call[u].target], call[u].role)
          /\ UNCHANGED invitation
      BY <2>4, <3>1 DEF ChangeRole, MayChange
    <3>3. role[call[u].target] = "OWNER" \/ call[u].role = "OWNER"
      BY <3>2, <2>0 DEF Owners
    <3> QED BY <3>2, <3>3 DEF CanModify
  <2>5. ASSUME NEW v \in Users, Remove(v) PROVE role[u] = "OWNER"
    <3>1. u = v
      BY <2>2, <2>5 DEF Remove
    <3>2. /\ role' = [role EXCEPT ![call[u].target] = "none"]
          /\ CanModify(role[u], role[call[u].target], role[call[u].target])
          /\ UNCHANGED invitation
      BY <2>5, <3>1 DEF Remove, MayRemove
    <3>3. role[call[u].target] = "OWNER"
      BY <3>2, <2>0 DEF Owners
    <3> QED BY <3>2, <3>3 DEF CanModify
  <2>6. ASSUME NEW v \in Users, Revoke(v) PROVE FALSE
    BY <2>2, <2>6 DEF Revoke
  <2>7. ASSUME NEW v \in Users, Accept(v) PROVE FALSE
    BY <2>2, <2>7 DEF Accept
  <2>8. ASSUME NEW i \in Invitations, Expire(i) PROVE FALSE
    BY <2>8 DEF Expire
  <2> QED
    BY <2>1, <2>3, <2>4, <2>5, <2>6, <2>7, <2>8
    DEF Next, AskInvite, AskRevoke, AskAccept, AskChange, AskRemove, Start, Refuse
<1>2. OwnersDecideOnOwners <=> [][\A u \in Users : Decides(u)]_vars
  BY PTL DEF OwnersDecideOnOwners
<1> QED BY <1>1, <1>2, TypeCorrect, PTL DEF Spec
=============================================================================
