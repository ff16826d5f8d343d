-------------------------- MODULE Memberships_proofs --------------------------
(***************************************************************************)
(* The last-lead rule of Memberships for any users, requests and invites.  *)
(* IInv is inductive: whoever passed the check holds the row lock of the   *)
(* group until the write, and until then another lead stays in place.      *)
(***************************************************************************)
EXTENDS Memberships, TLAPS

ChecksLead == {"role", "remove"}

(* An acceptance names an invite.                                          *)
RequestInv == \A q \in Requests : req[q].kind = "accept" => req[q].i \in Invites

(* A request between its check and its write holds the lock of its row.    *)
LockInv ==
  \A q \in Requests : At(q, Locking, "checked") =>
    /\ lock[Row(req[q])] = q
    /\ req[q].kind \in ChecksLead => exists[req[q].g] = "yes"

(* While a request that may take a lead away is on its way, its group has  *)
(* a lead other than its target.                                           *)
OtherLead(m) == \E v \in Users : v # m.u /\ role[m.g][v] = Lead[m.g]
CheckedInv ==
  \A q \in Requests :
    At(q, ChecksLead, "checked") /\ intact[req[q].g] /\ req[q].r # Lead[req[q].g]
      => OtherLead(req[q])

HasLead(g) == \E v \in Users : role[g][v] = Lead[g]
LeadInv == \A g \in Groups : exists[g] = "yes" /\ intact[g] => HasLead(g)

IInv == TypeOK /\ RequestInv /\ LockInv /\ CheckedInv /\ LeadInv

LEMMA LeadInvIsKeepsLead == LeadInv <=> KeepsLead
  BY DEF LeadInv, KeepsLead, HasLead, Leads

LEMMA RowType ==
  ASSUME TypeOK, RequestInv, NEW q \in Requests, req[q] # NoReq
  PROVE  Row(req[q]) \in Groups \cup Invites /\ req[q] \in Requested
  BY DEF TypeOK, RequestInv, Row, Requested

Asking(q) ==
  \/ \E a \in Users : \/ \E g \in Groups : AskInGroup(q, a, g)
                      \/ \E i \in Invites : AskAboutInvite(q, a, i)
  \/ AskPurge(q)

(* All a guard that lets a request in does is to record it.                *)
LEMMA AskingRecords ==
  ASSUME TypeOK, NEW q \in Requests, Asking(q)
  PROVE  /\ \E m \in Requested : /\ m.kind = "accept" => m.i \in Invites
                                /\ req' = [req EXCEPT ![q] = m]
         /\ pc' = [pc EXCEPT ![q] = "ready"]
         /\ UNCHANGED <<exists, trashed, role, invite, lock, intact>>
  <1> USE DEF Ask, Requested, Kinds, Locking
  <1>1. ASSUME NEW a \in Users, NEW g \in Groups, AskInGroup(q, a, g)
        PROVE  \E m \in Requested : /\ m.kind = "accept" => m.i \in Invites
                                   /\ req' = [req EXCEPT ![q] = m]
    BY <1>1 DEF AskInGroup, RolesOf
  <1>2. ASSUME NEW a \in Users, NEW i \in Invites, AskAboutInvite(q, a, i)
        PROVE  \E m \in Requested : /\ m.kind = "accept" => m.i \in Invites
                                   /\ req' = [req EXCEPT ![q] = m]
    BY <1>2 DEF AskAboutInvite, TypeOK
  <1>3. CASE AskPurge(q)
    BY <1>3 DEF AskPurge, Groups
  <1> QED
    BY <1>1, <1>2, <1>3 DEF Asking, AskInGroup, AskAboutInvite, AskPurge

LEMMA InitIInv == Init => IInv
  <1> SUFFICES ASSUME Init PROVE IInv
    OBVIOUS
  <1> USE DEF Init
  <1>1. TypeOK
    <2>1. role \in [Groups -> [Users -> OrgRoles \cup CaseRoles \cup {None}]]
      BY RolesAssumption
    <2>2. exists \in [Groups -> {"new", "yes", "gone"}] /\ intact \in [Groups -> BOOLEAN]
      OBVIOUS
    <2>3. /\ lock \in [Groups \cup Invites -> Requests \cup {None}]
          /\ pc \in [Requests -> {"idle", "ready", "checked"}]
          /\ req \in [Requests -> Requested \cup {NoReq}]
      OBVIOUS
    <2>4. /\ trashed \in BOOLEAN
          /\ invite \in [Invites -> [state : {"none", "live", "expired", "used", "gone"},
                                     g : Groups, u : Users \cup {None},
                                     r : OrgRoles \cup CaseRoles \cup {None}]]
      BY DEF NoInvite, Groups
    <2> QED
      BY <2>1, <2>2, <2>3, <2>4 DEF TypeOK
  <1>2. RequestInv /\ LockInv /\ CheckedInv
    BY DEF RequestInv, LockInv, CheckedInv, At, NoReq
  <1>3. LeadInv
    BY DEF LeadInv, HasLead, Groups, Lead
  <1> QED
    BY <1>1, <1>2, <1>3 DEF IInv

(* Every step keeps the variables in their types.                          *)
LEMMA StepTypeOK == TypeOK /\ RequestInv /\ [Next]_vars => TypeOK'
  <1> SUFFICES ASSUME TypeOK, RequestInv, [Next]_vars PROVE TypeOK'
    OBVIOUS
  <1> USE DEF TypeOK
  <1>1. ASSUME NEW q \in Requests, Serve(q) PROVE TypeOK'
    <2> USE DEF Done, Unlock, At
    <2>1. CASE Asking(q)
      BY <2>1, AskingRecords
    <2>2. CASE LockAndCheck(q)
      BY <2>2 DEF LockAndCheck
    <2>3. CASE ChangeMember(q)
      <3>1. req[q] \in Requested
        BY <2>3 DEF ChangeMember, NoReq
      <3>2. req[q].r \in OrgRoles \cup CaseRoles \cup {None} /\ req[q].g \in Groups
        BY <3>1 DEF Requested
      <3>3. role' \in [Groups -> [Users -> OrgRoles \cup CaseRoles \cup {None}]]
        BY <2>3, <3>2 DEF ChangeMember
      <3> QED
        BY <2>3, <3>3 DEF ChangeMember
    <2>4. CASE Join(q)
      <3>1. req[q] \in Requested
        BY <2>4 DEF Join, NoReq
      <3>2. req[q].r \in OrgRoles \cup CaseRoles \cup {None} /\ req[q].g \in Groups
        BY <3>1 DEF Requested
      <3>3. role' \in [Groups -> [Users -> OrgRoles \cup CaseRoles \cup {None}]]
        <4>1. CASE role' = role
          BY <4>1
        <4>2. CASE role' = [role EXCEPT ![req[q].g][req[q].u] = req[q].r]
          BY <3>2, <4>2
        <4> QED
          BY <2>4, <4>1, <4>2 DEF Join
      <3>4. req[q].i \in Invites
        BY <2>4 DEF Join, RequestInv
      <3>5. invite' \in [Invites -> [state : {"none", "live", "expired", "used", "gone"},
                                   g : Groups, u : Users \cup {None},
                                   r : OrgRoles \cup CaseRoles \cup {None}]]
        <4>1. CASE invite' = invite
          BY <4>1
        <4>2. CASE invite' = [invite EXCEPT ![req[q].i].state = "used"]
          <5> DEFINE Rows == [state : {"none", "live", "expired", "used", "gone"}, g : Groups,
                              u : Users \cup {None}, r : OrgRoles \cup CaseRoles \cup {None}]
          <5>0. PICK i \in Invites : i = req[q].i
            BY <3>4
          <5>1. invite[i] \in Rows
            OBVIOUS
          <5>2. [invite[i] EXCEPT !.state = "used"] \in Rows
            BY <5>1
          <5> QED
            BY <4>2, <5>0, <5>2
        <4> QED
          BY <2>4, <4>1, <4>2 DEF Join
      <3>6. UNCHANGED <<exists, trashed, intact>> /\ Done(q) /\ Unlock(q)
        BY <2>4 DEF Join
      <3> QED
        BY <3>3, <3>5, <3>6
    <2>5. CASE Read(q)
      BY <2>5 DEF Read
    <2>6. CASE Add(q)
      <3>1. req[q] \in Requested
        BY <2>6 DEF Add, NoReq
      <3>2. req[q].r \in OrgRoles \cup CaseRoles \cup {None} /\ req[q].g \in Groups
        BY <3>1 DEF Requested
      <3>3. role' \in [Groups -> [Users -> OrgRoles \cup CaseRoles \cup {None}]]
        BY <2>6, <3>2 DEF Add
      <3> QED
        BY <2>6, <3>3 DEF Add
    <2>7. CASE Revoke(q)
      BY <2>7 DEF Revoke, NoInvite, Groups
    <2>8. CASE SaveEdit(q)
      <3>1. trashed' \in BOOLEAN
        BY <2>8 DEF SaveEdit
      <3>2. exists' \in [Groups -> {"new", "yes", "gone"}] /\ intact' \in [Groups -> BOOLEAN]
        BY <2>8 DEF SaveEdit
      <3>3. UNCHANGED <<role, invite, lock>> /\ Done(q)
        BY <2>8 DEF SaveEdit
      <3> QED
        BY <3>1, <3>2, <3>3
    <2>9. CASE DropCase(q)
      BY <2>9 DEF DropCase, Cascade, NoInvite, Groups
    <2>10. CASE Purge(q)
      BY <2>10 DEF Purge, Cascade, NoInvite, Groups
    <2> QED
      BY <1>1, <2>1, <2>2, <2>3, <2>4, <2>5, <2>6, <2>7, <2>8, <2>9, <2>10 DEF Serve, Asking
  <1>2. ASSUME NEW u \in Users, CreateCase(u) PROVE TypeOK'
    BY <1>2, RolesAssumption DEF CreateCase, Groups
  <1>3. ASSUME NEW u \in Users, DeleteAccount(u) PROVE TypeOK'
    BY <1>3 DEF DeleteAccount
  <1>4. ASSUME NEW a \in Users, NEW u \in Users, NEW g \in Groups, NEW r \in RolesOf(g),
               CreateInvite(a, g, u, r)
        PROVE TypeOK'
    BY <1>4 DEF CreateInvite, RolesOf
  <1>5. ASSUME NEW i \in Invites, ExpireInvite(i) PROVE TypeOK'
    BY <1>5 DEF ExpireInvite
  <1>6. CASE SoftDelete \/ Restore
    BY <1>6 DEF SoftDelete, Restore
  <1>7. CASE UNCHANGED vars
    BY <1>7 DEF vars
  <1> QED
    BY <1>1, <1>2, <1>3, <1>4, <1>5, <1>6, <1>7 DEF Next

(* A step that serves q leaves the other requests as they were, and gives  *)
(* or takes no lock but that of q's row.                                   *)
LEMMA ServeIsLocal ==
  ASSUME TypeOK, LockInv, NEW q \in Requests, Serve(q), NEW p \in Requests, p # q
  PROVE  /\ pc'[p] = pc[p] /\ req'[p] = req[p]
         /\ \A row \in Groups \cup Invites : lock[row] = p => lock'[row] = p
  <1>1. CASE Asking(q)
    BY <1>1, AskingRecords DEF TypeOK
  <1>2. CASE LockAndCheck(q)
    BY <1>2, RolesAssumption DEF LockAndCheck, Done, Free, TypeOK
  <1>3. CASE ChangeMember(q) \/ Join(q)
    <2>1. lock[Row(req[q])] = q /\ Unlock(q) /\ Done(q)
      BY <1>3 DEF ChangeMember, Join, LockInv, At, Locking
    <2> QED
      BY <2>1 DEF Unlock, Done, TypeOK
  <1>4. CASE Read(q)
    BY <1>4 DEF Read, Done, TypeOK
  <1>5. CASE Add(q) \/ Revoke(q) \/ SaveEdit(q) \/ DropCase(q) \/ Purge(q)
    <2>1. UNCHANGED lock /\ Done(q)
      BY <1>5 DEF Add, Revoke, SaveEdit, DropCase, Purge
    <2> QED
      BY <2>1 DEF Done, TypeOK
  <1> QED
    BY <1>1, <1>2, <1>3, <1>4, <1>5 DEF Serve, Asking

(* A step may change the roles in a group whose row is locked only if it   *)
(* is the holder's, or takes a lead and says so.                           *)
LockedBy(g, p) == lock[g] = p /\ exists[g] = "yes"

LEMMA LockProtects ==
  ASSUME TypeOK, LockInv, NEW q \in Requests, Serve(q),
         NEW p \in Requests, p # q, NEW g \in Groups, LockedBy(g, p)
  PROVE  role'[g] = role[g] /\ exists'[g] = "yes" /\ (intact'[g] => intact[g])
  <1> USE RolesAssumption DEF LockedBy, Free, TypeOK
  <1>1. CASE Asking(q)
    BY <1>1, AskingRecords
  <1>2. CASE LockAndCheck(q) \/ Read(q) \/ Revoke(q)
    BY <1>2 DEF LockAndCheck, Read, Revoke
  <1>3. CASE ChangeMember(q)
    <2>1. lock[req[q].g] = q
      BY <1>3 DEF ChangeMember, LockInv, At, Row, Locking
    <2> QED
      BY <1>3, <2>1 DEF ChangeMember
  <1>4. CASE Join(q) \/ Add(q)
    <2>1. /\ lock[req[q].g] = None /\ UNCHANGED <<exists, intact>>
          /\ role' = role \/ role' = [role EXCEPT ![req[q].g][req[q].u] = req[q].r]
      BY <1>4 DEF Join, Add
    <2> QED
      BY <2>1
  <1>5. CASE SaveEdit(q)
    BY <1>5 DEF SaveEdit
  <1>6. CASE DropCase(q)
    BY <1>6 DEF DropCase, Cascade
  <1>7. CASE Purge(q)
    BY <1>7 DEF Purge, Cascade
  <1> QED
    BY <1>1, <1>2, <1>3, <1>4, <1>5, <1>6, <1>7 DEF Serve, Asking

(* What a step that serves no request leaves as it is.                     *)
LEMMA OutsideIsApart ==
  ASSUME TypeOK, [Next]_vars, ~\E q \in Requests : Serve(q)
  PROVE  UNCHANGED <<lock, pc, req>>
  BY DEF Next, vars, CreateCase, DeleteAccount, CreateInvite, ExpireInvite, SoftDelete, Restore

LEMMA StepRequestInv == TypeOK /\ RequestInv /\ [Next]_vars => RequestInv'
  <1> SUFFICES ASSUME TypeOK, RequestInv, [Next]_vars PROVE RequestInv'
    OBVIOUS
  <1>1. ASSUME NEW q \in Requests, Serve(q) PROVE RequestInv'
    <2>1. CASE Asking(q)
      BY <2>1, AskingRecords DEF RequestInv, TypeOK
    <2>2. CASE ~Asking(q)
      <3>1. req' = req \/ req' = [req EXCEPT ![q] = NoReq]
        BY <1>1, <2>2 DEF Serve, Asking, LockAndCheck, ChangeMember, Join, Read, Add, Revoke,
           SaveEdit, DropCase, Purge, Done
      <3>2. \A p \in Requests : req'[p] \in {req[p], NoReq}
        BY <3>1 DEF TypeOK
      <3> QED
        BY <3>2 DEF RequestInv, NoReq
    <2> QED
      BY <2>1, <2>2
  <1>2. CASE ~\E q \in Requests : Serve(q)
    BY <1>2, OutsideIsApart DEF RequestInv
  <1> QED
    BY <1>1, <1>2

(* The lock of a checked request stays with it until its write.            *)
LEMMA StepLockInv == IInv /\ [Next]_vars => LockInv'
  <1> SUFFICES ASSUME IInv, [Next]_vars, NEW p \in Requests,
                      At(p, Locking, "checked")'
               PROVE  /\ (lock[Row(req[p])] = p)'
                      /\ (req[p].kind \in ChecksLead => exists[req[p].g] = "yes")'
    BY DEF LockInv
  <1> USE DEF IInv
  <1>1. ASSUME NEW q \in Requests, Serve(q), p # q
        PROVE  /\ (lock[Row(req[p])] = p)'
               /\ (req[p].kind \in ChecksLead => exists[req[p].g] = "yes")'
    <2>1. pc'[p] = pc[p] /\ req'[p] = req[p]
      BY <1>1, ServeIsLocal
    <2>2. /\ At(p, Locking, "checked") /\ lock[Row(req[p])] = p
          /\ req[p].kind \in ChecksLead => exists[req[p].g] = "yes"
      BY <2>1 DEF LockInv, At
    <2>3. Row(req[p]) \in Groups \cup Invites /\ req[p] \in Requested
      BY <2>2, RowType DEF At, NoReq, Locking
    <2>4. lock'[Row(req[p])] = p
      BY <1>1, <2>2, <2>3, ServeIsLocal
    <2>5. ASSUME req[p].kind \in ChecksLead PROVE exists'[req[p].g] = "yes"
      <3>1. LockedBy(req[p].g, p) /\ req[p].g \in Groups
        BY <2>2, <2>3, <2>5 DEF LockedBy, Row, ChecksLead, Requested
      <3> QED
        BY <1>1, <3>1, LockProtects
    <2> QED
      BY <2>1, <2>4, <2>5 DEF Row
  <1>2. CASE Serve(p)
    <2>0. ~Asking(p)
      BY AskingRecords DEF TypeOK, At
    <2>1. (LockAndCheck(p) /\ ~RefusedLocked(req[p])) \/ Read(p)
      <3>1. pc'[p] # "idle"
        BY DEF At
      <3>2. ~Done(p)
        BY <3>1 DEF Done, TypeOK
      <3> QED
        BY <1>2, <2>0, <3>2 DEF Serve, Asking, LockAndCheck, ChangeMember, Join,
           Add, Revoke, SaveEdit, DropCase, Purge
    <2>2. CASE LockAndCheck(p) /\ ~RefusedLocked(req[p])
      <3>1. Row(req[p]) \in Groups \cup Invites /\ req[p] \in Requested
        BY <2>2, RowType DEF LockAndCheck, At, NoReq, Locking
      <3>2. lock' = [lock EXCEPT ![Row(req[p])] = p] /\ UNCHANGED <<req, exists>>
        BY <2>2 DEF LockAndCheck
      <3>3. req[p].kind \in ChecksLead => exists[req[p].g] = "yes"
        BY <2>2 DEF RefusedLocked, ChecksLead
      <3> QED
        BY <3>1, <3>2, <3>3 DEF TypeOK, Row
    <2>3. CASE Read(p)
      BY <2>3 DEF Read, At, Done, TypeOK, NoReq, Locking, Kinds
    <2> QED
      BY <2>1, <2>2, <2>3
  <1>3. CASE ~\E q \in Requests : Serve(q)
    <2>1. UNCHANGED <<lock, pc, req>>
      BY <1>3, OutsideIsApart
    <2>2. /\ At(p, Locking, "checked") /\ lock[Row(req[p])] = p
          /\ req[p].kind \in ChecksLead => exists[req[p].g] = "yes"
      BY <2>1 DEF LockInv, At
    <2>3. \A g \in Groups : exists[g] = "yes" => exists'[g] = "yes"
      BY <1>3 DEF Next, vars, CreateCase, DeleteAccount, CreateInvite, ExpireInvite,
         SoftDelete, Restore, TypeOK, Groups
    <2>4. req[p].kind \in ChecksLead => req[p].g \in Groups
      BY <2>2, RowType DEF At, Requested, NoReq, Locking
    <2> QED
      BY <2>1, <2>2, <2>3, <2>4 DEF Row
  <1> QED
    BY <1>1, <1>2, <1>3

(* A deleted account takes a lead away only from a group it marks.         *)
LEMMA DeletionSparesOthers ==
  ASSUME TypeOK, NEW u \in Users, DeleteAccount(u), NEW g \in Groups, intact'[g],
         NEW v \in Users, role[g][v] = Lead[g]
  PROVE  intact[g] /\ role'[g][v] = Lead[g]
  <1>1. intact[g] /\ role[g][u] # Lead[g]
    BY DEF DeleteAccount
  <1>2. v # u
    BY <1>1
  <1> QED
    BY <1>1, <1>2 DEF DeleteAccount, TypeOK

(* Until its write, a checked request finds a lead besides its target.     *)
LEMMA StepCheckedInv == IInv /\ [Next]_vars => CheckedInv'
  <1> SUFFICES ASSUME IInv, [Next]_vars, NEW p \in Requests,
                      At(p, ChecksLead, "checked")', intact'[req'[p].g],
                      (req[p].r # Lead[req[p].g])'
               PROVE  OtherLead(req[p])'
    BY DEF CheckedInv
  <1> USE DEF IInv
  <1>1. ASSUME NEW q \in Requests, Serve(q), p # q PROVE OtherLead(req[p])'
    <2>1. pc'[p] = pc[p] /\ req'[p] = req[p]
      BY <1>1, ServeIsLocal
    <2>2. At(p, ChecksLead, "checked")
      BY <2>1 DEF At
    <2>3. LockedBy(req[p].g, p) /\ req[p].g \in Groups
      BY <2>2, RowType DEF LockInv, LockedBy, At, Locking, ChecksLead, Row, Requested, NoReq
    <2>4. role'[req[p].g] = role[req[p].g] /\ intact[req[p].g]
      BY <1>1, <2>1, <2>3, LockProtects
    <2> QED
      BY <2>1, <2>2, <2>4 DEF CheckedInv, OtherLead
  <1>2. CASE Serve(p)
    <2>1. ~Asking(p)
      BY AskingRecords DEF TypeOK, At
    <2>2. pc'[p] # "idle" /\ ~Done(p)
      BY DEF At, Done, TypeOK
    <2>3. (LockAndCheck(p) /\ ~RefusedLocked(req[p])) \/ Read(p)
      BY <1>2, <2>1, <2>2 DEF Serve, Asking, LockAndCheck, ChangeMember, Join,
         Add, Revoke, SaveEdit, DropCase, Purge
    <2>4. LockAndCheck(p) /\ ~RefusedLocked(req[p]) /\ UNCHANGED <<role, req, intact, exists>>
      BY <2>2, <2>3 DEF Read, LockAndCheck, At, Locking, ChecksLead, Kinds
    <2>5. /\ req[p].kind \in ChecksLead /\ req[p].r # Lead[req[p].g]
          /\ intact[req[p].g] /\ exists[req[p].g] = "yes"
      BY <2>4 DEF At, RefusedLocked, ChecksLead
    <2>6. req[p].g \in Groups
      BY <2>5, RowType DEF Requested, ChecksLead, NoReq
    <2>7. PICK v \in Users : role[req[p].g][v] = Lead[req[p].g]
      BY <2>5, <2>6 DEF LeadInv, HasLead
    <2>8. ~LastLead(req[p])
      BY <2>4, <2>5 DEF RefusedLocked, ChecksLead
    <2>9. OtherLead(req[p])
      BY <2>5, <2>7, <2>8 DEF LastLead, OtherLead, Leads
    <2> QED
      BY <2>4, <2>9 DEF OtherLead
  <1>3. CASE ~\E q \in Requests : Serve(q)
    <2>1. UNCHANGED <<lock, pc, req>>
      BY <1>3, OutsideIsApart
    <2>2. At(p, ChecksLead, "checked") /\ req[p].r # Lead[req[p].g]
      BY <2>1 DEF At
    <2>3. req[p].g \in Groups /\ exists[req[p].g] = "yes"
      BY <2>2, RowType DEF LockInv, At, Locking, ChecksLead, Requested, NoReq
    <2>4. ASSUME NEW u \in Users, DeleteAccount(u) PROVE OtherLead(req[p])'
      <3>1. intact[req[p].g]
        BY <2>1, <2>3, <2>4 DEF DeleteAccount
      <3>2. OtherLead(req[p])
        BY <2>2, <3>1 DEF CheckedInv
      <3> QED
        BY <2>1, <2>3, <2>4, <3>2, DeletionSparesOthers DEF OtherLead
    <2>5. CASE ~\E u \in Users : DeleteAccount(u)
      <3>1. role'[req[p].g] = role[req[p].g] /\ UNCHANGED intact
        BY <1>3, <2>3, <2>5 DEF Next, vars, CreateCase, CreateInvite, ExpireInvite,
           SoftDelete, Restore, TypeOK, Groups
      <3> QED
        BY <2>1, <2>2, <3>1 DEF CheckedInv, OtherLead
    <2> QED
      BY <2>4, <2>5
  <1> QED
    BY <1>1, <1>2, <1>3

(* No step leaves an undisturbed group without a lead.                     *)
LEMMA StepLeadInv == IInv /\ [Next]_vars => LeadInv'
  <1> SUFFICES ASSUME IInv, [Next]_vars, NEW g \in Groups, exists'[g] = "yes", intact'[g]
               PROVE  HasLead(g)'
    BY DEF LeadInv
  <1> USE DEF IInv, TypeOK
  <1>0. Lead[g] # None
    BY RolesAssumption DEF Lead, Groups
  <1>1. ASSUME NEW q \in Requests, Serve(q) PROVE HasLead(g)'
    <2>1. CASE \/ Asking(q) \/ LockAndCheck(q) \/ Read(q) \/ Revoke(q)
      <3>1. UNCHANGED <<exists, role, intact>>
        BY <2>1, AskingRecords DEF LockAndCheck, Read, Revoke
      <3> QED
        BY <3>1 DEF LeadInv, HasLead
    <2>2. CASE ChangeMember(q)
      <3> DEFINE m == req[q]
      <3>1. m \in Requested /\ UNCHANGED <<exists, intact>>
        BY <2>2 DEF ChangeMember, At, NoReq
      <3>2. role' = [role EXCEPT ![m.g][m.u] = IF @ = None THEN None ELSE m.r]
        BY <2>2 DEF ChangeMember
      <3>3. PICK v \in Users : role[g][v] = Lead[g]
        BY <3>1 DEF LeadInv, HasLead
      <3>4. CASE g # m.g \/ v # m.u
        BY <3>1, <3>2, <3>3, <3>4 DEF HasLead, Requested
      <3>5. CASE g = m.g /\ v = m.u /\ m.r = Lead[g]
        BY <1>0, <3>1, <3>2, <3>3, <3>5 DEF HasLead, Requested
      <3>6. CASE g = m.g /\ m.r # Lead[g]
        <4>1. OtherLead(m)
          BY <2>2, <3>1, <3>6 DEF CheckedInv, ChangeMember, At, ChecksLead
        <4>2. PICK w \in Users : w # m.u /\ role[g][w] = Lead[g]
          BY <3>6, <4>1 DEF OtherLead
        <4> QED
          BY <3>1, <3>2, <3>6, <4>2 DEF HasLead, Requested
      <3> QED
        BY <3>4, <3>5, <3>6
    <2>3. CASE Join(q) \/ Add(q)
      <3> DEFINE m == req[q]
      <3>1. /\ UNCHANGED <<exists, intact>>
            /\ \/ role' = role
               \/ role[m.g][m.u] = None /\ role' = [role EXCEPT ![m.g][m.u] = m.r]
        BY <2>3 DEF Join, Add
      <3>2. PICK v \in Users : role[g][v] = Lead[g]
        BY <3>1 DEF LeadInv, HasLead
      <3>3. g # m.g \/ v # m.u \/ role' = role
        BY <1>0, <3>1, <3>2
      <3>4. role'[g][v] = role[g][v]
        <4>1. CASE role' = role
          BY <4>1
        <4>2. CASE (g # m.g \/ v # m.u) /\ role' = [role EXCEPT ![m.g][m.u] = m.r]
          BY <4>2
        <4> QED
          BY <3>1, <3>3, <4>1, <4>2
      <3> QED
        BY <3>2, <3>4 DEF HasLead
    <2>4. CASE SaveEdit(q)
      <3>1. role' = role /\ exists[g] = "yes" /\ intact[g]
        BY <2>4 DEF SaveEdit
      <3> QED
        BY <3>1 DEF LeadInv, HasLead
    <2>5. CASE DropCase(q) \/ Purge(q)
      <3>1. exists[g] = "yes" /\ role'[g] = role[g] /\ intact' = intact
        BY <2>5 DEF DropCase, Purge, Cascade
      <3> QED
        BY <3>1 DEF LeadInv, HasLead
    <2> QED
      BY <1>1, <2>1, <2>2, <2>3, <2>4, <2>5 DEF Serve, Asking
  <1>2. ASSUME NEW u \in Users, CreateCase(u) PROVE HasLead(g)'
    <2>1. CASE g = "case"
      BY <1>2, <2>1 DEF CreateCase, HasLead, Lead, Groups
    <2>2. CASE g # "case"
      BY <1>2, <2>2 DEF CreateCase, LeadInv, HasLead, Groups
    <2> QED
      BY <2>1, <2>2
  <1>3. ASSUME NEW u \in Users, DeleteAccount(u) PROVE HasLead(g)'
    <2>1. exists[g] = "yes" /\ intact[g]
      BY <1>3 DEF DeleteAccount
    <2>2. PICK v \in Users : role[g][v] = Lead[g]
      BY <2>1 DEF LeadInv, HasLead
    <2> QED
      BY <1>3, <2>2, DeletionSparesOthers DEF HasLead
  <1>4. CASE \/ \E a, u \in Users, h \in Groups : \E r \in RolesOf(h) : CreateInvite(a, h, u, r)
             \/ (\E i \in Invites : ExpireInvite(i)) \/ SoftDelete \/ Restore \/ UNCHANGED vars
    <2>1. UNCHANGED <<exists, role, intact>>
      BY <1>4 DEF CreateInvite, ExpireInvite, SoftDelete, Restore, vars
    <2> QED
      BY <2>1 DEF LeadInv, HasLead
  <1> QED
    BY <1>1, <1>2, <1>3, <1>4 DEF Next

(* The inductive invariant holds in every reachable state.                 *)
THEOREM MembershipsInvariance == Spec => []IInv
  <1>1. Init => IInv
    BY InitIInv
  <1>2. IInv /\ [Next]_vars => IInv'
    BY StepTypeOK, StepRequestInv, StepLockInv, StepCheckedInv, StepLeadInv DEF IInv
  <1> QED
    BY <1>1, <1>2, PTL DEF Spec

(* Whatever interleaves, the member and invite rows hold roles, and every  *)
(* lock is held by a request in flight: the types of the variables.        *)
THEOREM TypeCorrect == Spec => []TypeOK
  <1>1. IInv => TypeOK
    BY DEF IInv
  <1> QED
    BY <1>1, MembershipsInvariance, PTL

(* However many requests change the members of a group at once, they never *)
(* take away its last admin or owner: assertNotLastAdminOperation and      *)
(* assertNotLastOwnerOperation, run under the lock of the group's row, are *)
(* enough.                                                                 *)
THEOREM LastLeadStays == Spec => []KeepsLead
  <1>1. IInv => KeepsLead
    BY LeadInvIsKeepsLead DEF IInv
  <1> QED
    BY <1>1, MembershipsInvariance, PTL

(* An acceptance on its way to its write has an invite that is not used    *)
(* and not revoked; it may have expired since.                             *)
Valid(i) == invite[i].state \in {"live", "expired"}
InviteInv == \A q \in Requests : At(q, {"accept"}, "checked") => Valid(req[q].i)

(* An invite whose row another request has locked stays valid.             *)
LEMMA LockKeepsInvite ==
  ASSUME IInv, NEW q \in Requests, Serve(q),
         NEW p \in Requests, p # q, NEW i \in Invites, lock[i] = p, Valid(i)
  PROVE  Valid(i)'
  <1> USE RolesAssumption DEF IInv, TypeOK, Valid
  <1>1. CASE Asking(q)
    BY <1>1, AskingRecords
  <1>2. CASE \/ LockAndCheck(q) \/ ChangeMember(q) \/ Read(q) \/ Add(q) \/ SaveEdit(q)
    BY <1>2 DEF LockAndCheck, ChangeMember, Read, Add, SaveEdit
  <1>3. CASE Join(q)
    <2>1. lock[req[q].i] = q
      BY <1>3 DEF Join, LockInv, At, Row, Locking
    <2>2. invite' = invite \/ invite' = [invite EXCEPT ![req[q].i].state = "used"]
      BY <1>3 DEF Join
    <2> QED
      BY <2>1, <2>2
  <1>4. CASE Revoke(q)
    <2>1. lock[req[q].i] = None /\ invite' = [invite EXCEPT ![req[q].i] = NoInvite("gone")]
      BY <1>4 DEF Revoke, Free
    <2> QED
      BY <2>1
  <1>5. CASE DropCase(q) \/ Purge(q)
    <2>1. PICK gs : Cascade(gs)
      BY <1>5 DEF DropCase, Purge
    <2>2. lock[i] # None
      OBVIOUS
    <2> QED
      BY <2>1, <2>2 DEF Cascade, Free
  <1> QED
    BY <1>1, <1>2, <1>3, <1>4, <1>5 DEF Serve, Asking

LEMMA StepInviteInv == IInv /\ InviteInv /\ [Next]_vars => InviteInv'
  <1> SUFFICES ASSUME IInv, InviteInv, [Next]_vars, NEW p \in Requests,
                      At(p, {"accept"}, "checked")'
               PROVE  Valid(req[p].i)'
    BY DEF InviteInv
  <1> USE DEF IInv
  <1>1. ASSUME NEW q \in Requests, Serve(q), p # q PROVE Valid(req[p].i)'
    <2>1. pc'[p] = pc[p] /\ req'[p] = req[p]
      BY <1>1, ServeIsLocal
    <2>2. At(p, {"accept"}, "checked") /\ Valid(req[p].i)
      BY <2>1 DEF At, InviteInv
    <2>3. req[p].i \in Invites /\ lock[req[p].i] = p
      BY <2>2 DEF RequestInv, LockInv, At, Locking, Row
    <2>4. Valid(req[p].i) /\ (invite'[req[p].i].state \in {"live", "expired"})
      BY <1>1, <2>2, <2>3, LockKeepsInvite DEF Valid
    <2> QED
      BY <2>1, <2>4 DEF Valid
  <1>2. CASE Serve(p)
    <2>1. ~Asking(p)
      BY AskingRecords DEF TypeOK, At
    <2>2. pc'[p] # "idle" /\ ~Done(p)
      BY DEF At, Done, TypeOK
    <2>3. (LockAndCheck(p) /\ ~RefusedLocked(req[p])) \/ Read(p)
      BY <1>2, <2>1, <2>2 DEF Serve, Asking, LockAndCheck, ChangeMember, Join,
         Add, Revoke, SaveEdit, DropCase, Purge
    <2>4. LockAndCheck(p) /\ ~RefusedLocked(req[p]) /\ UNCHANGED <<req, invite>>
      BY <2>2, <2>3 DEF Read, LockAndCheck, At, Locking, Kinds
    <2>5. req[p].kind = "accept"
      BY <2>4 DEF At
    <2>6. Live(req[p].i)
      BY <2>4, <2>5 DEF RefusedLocked
    <2> QED
      BY <2>4, <2>6 DEF Live, Valid
  <1>3. CASE ~\E q \in Requests : Serve(q)
    <2>1. UNCHANGED <<lock, pc, req>>
      BY <1>3, OutsideIsApart
    <2>2. req[p].i \in Invites /\ Valid(req[p].i)
      BY <2>1 DEF At, InviteInv, RequestInv
    <2>3. \A i \in Invites : Valid(i) => invite'[i].state \in {"live", "expired"}
      <3>1. ASSUME NEW i \in Invites, ExpireInvite(i)
            PROVE  \A j \in Invites : Valid(j) => invite'[j].state \in {"live", "expired"}
        BY <3>1 DEF ExpireInvite, Valid, TypeOK
      <3>2. ASSUME NEW a \in Users, NEW u \in Users, NEW g \in Groups, NEW r \in RolesOf(g),
                   CreateInvite(a, g, u, r)
            PROVE  \A j \in Invites : Valid(j) => invite'[j].state \in {"live", "expired"}
        BY <3>2 DEF CreateInvite, Valid, TypeOK
      <3>3. CASE UNCHANGED invite
        BY <3>3 DEF Valid
      <3> QED
        BY <1>3, <3>1, <3>2, <3>3 DEF Next, vars, CreateCase, DeleteAccount, SoftDelete, Restore
    <2> QED
      BY <2>1, <2>2, <2>3 DEF Valid
  <1> QED
    BY <1>1, <1>2, <1>3

(* The lock on the invite row makes acceptance and revocation exclude each *)
(* other: org-invites.service.ts and invites.service.ts, accept.           *)
THEOREM RevocationHolds == Spec => RevokedAdmitsNobody
  <1>1. Init => InviteInv
    BY DEF Init, InviteInv, At
  <1>2. InviteInv /\ [Next]_vars =>
          [\A q \in Requests :
             At(q, {"accept"}, "checked") /\ pc'[q] = "idle" /\ role' # role
               => invite[req[q].i].state \in {"live", "expired"}]_vars
    BY DEF InviteInv, Valid
  <1> QED
    BY <1>1, <1>2, StepInviteInv, MembershipsInvariance, PTL DEF Spec, RevokedAdmitsNobody
=============================================================================
