----------------------------- MODULE Memberships -----------------------------
(***************************************************************************)
(* Who belongs to an organization and to one of its cases. The services    *)
(* organizations, org-invites, cases and invites change the two member     *)
(* tables; each HTTP request is checked by a guard, then runs statements   *)
(* that other requests interleave with, except where it holds a row lock.  *)
(*                                                                         *)
(* One organization ("org") and one case of it ("case"). A request slot    *)
(* holds a request from the guard's answer to the last statement. Deleting *)
(* an account cascades to the member rows and checks nothing; `intact`     *)
(* remembers which group it (or a save of a deleted case) has touched.     *)
(***************************************************************************)
CONSTANTS Users, Requests, Invites, None,
          OrgRoles,      \* the roles of organization-member.entity.ts in use
          CaseRoles      \* the roles of case-member.entity.ts in use

ASSUME RolesAssumption ==
  /\ "admin" \in OrgRoles /\ "owner" \in CaseRoles
  /\ None \notin OrgRoles \cup CaseRoles \cup Users \cup Requests

VARIABLES
  exists,    \* per group: "new" (no row yet), "yes", "gone"
  trashed,   \* the organization has a deletedAt
  role,      \* the member rows: role of a user in a group, or None
  invite,    \* the invite rows
  lock,      \* who holds SELECT ... FOR UPDATE on a group or an invite row
  pc,        \* how far a request is
  req,       \* what it asks for
  intact     \* no account deletion or late save took this group's leads

vars == <<exists, trashed, role, invite, lock, pc, req, intact>>

Groups == {"org", "case"}
Lead == [g \in Groups |-> IF g = "org" THEN "admin" ELSE "owner"]
RolesOf(g) == IF g = "org" THEN OrgRoles ELSE CaseRoles
Leads(g) == {u \in Users : role[g][u] = Lead[g]}

Locking == {"role", "remove", "accept"}
Kinds == Locking \cup {"add", "revoke", "edit", "drop", "purge"}
NoReq == [kind |-> "none", g |-> "org", u |-> None, r |-> None, i |-> None]
NoInvite(state) == [state |-> state, g |-> "org", u |-> None, r |-> None]
Row(m) == IF m.kind = "accept" THEN m.i ELSE m.g
Live(i) == invite[i].state = "live"
Free(row) == lock[row] = None

Init ==
  /\ exists = [g \in Groups |-> IF g = "org" THEN "yes" ELSE "new"]
  /\ trashed = FALSE
  /\ \E a \in Users :
       role = [g \in Groups |-> [u \in Users |->
                 IF g = "org" /\ u = a THEN "admin" ELSE None]]
  /\ invite = [i \in Invites |-> NoInvite("none")]
  /\ lock = [row \in Groups \cup Invites |-> None]
  /\ pc = [q \in Requests |-> "idle"]
  /\ req = [q \in Requests |-> NoReq]
  /\ intact = [g \in Groups |-> TRUE]

-----------------------------------------------------------------------------
(* The guards. An org admin without a row in the case is an implicit owner *)
(* of it, unless the organization is in the trash.                         *)
MayManage(a, g) ==
  /\ exists[g] = "yes"
  /\ \/ role[g][a] = Lead[g] /\ (g = "org" => ~trashed)
     \/ /\ g = "case" /\ role[g][a] = None
        /\ role["org"][a] = Lead["org"] /\ ~trashed

MayLeave(a, g) == exists[g] = "yes" /\ role[g][a] # None /\ (g = "org" => ~trashed)

(* A guard lets a request in.                                              *)
Ask(q, kind, g, u, r, i) ==
  /\ pc[q] = "idle"
  /\ pc' = [pc EXCEPT ![q] = "ready"]
  /\ req' = [req EXCEPT ![q] = [kind |-> kind, g |-> g, u |-> u, r |-> r, i |-> i]]
  /\ UNCHANGED <<exists, trashed, role, invite, lock, intact>>

(* What user a may ask for in group g.                                     *)
AskInGroup(q, a, g) ==
  \/ /\ MayManage(a, g)
     /\ \/ \E u \in Users : \/ \E k \in {"role", "add"}, r \in RolesOf(g) : Ask(q, k, g, u, r, None)
                            \/ Ask(q, "remove", g, u, None, None)
        \/ Ask(q, "edit", g, None, None, None)
        \/ g = "case" /\ Ask(q, "drop", g, None, None, None)
  \/ MayLeave(a, g) /\ Ask(q, "remove", g, a, None, None)

AskAboutInvite(q, a, i) ==
  /\ invite[i].state \notin {"none", "gone"}
  /\ \/ invite[i].u = a /\ Ask(q, "accept", invite[i].g, a, invite[i].r, i)
     \/ MayManage(a, invite[i].g)
        /\ Ask(q, "revoke", invite[i].g, invite[i].u, invite[i].r, i)

AskPurge(q) == Ask(q, "purge", "org", None, None, None)   \* the superadmin

Done(q) == pc' = [pc EXCEPT ![q] = "idle"] /\ req' = [req EXCEPT ![q] = NoReq]
At(q, kinds, step) == req[q].kind \in kinds /\ pc[q] = step

-----------------------------------------------------------------------------
(* Inside the transaction: the row lock, then what the service refuses.    *)
LastLead(m) ==
  m.r # Lead[m.g] /\ role[m.g][m.u] = Lead[m.g] /\ Leads(m.g) \subseteq {m.u}

RefusedLocked(m) ==
  \/ m.kind # "accept" /\ (exists[m.g] # "yes" \/ LastLead(m))
  \/ m.kind = "accept" /\ (Live(m.i) => m.g = "org" /\ trashed)

(* Mutants: the kinds given select their row without locking it.           *)
LockedExcept(unlocked, q) ==
  /\ At(q, Locking, "ready")
  /\ ~RefusedLocked(req[q])
  /\ pc' = [pc EXCEPT ![q] = "checked"]
  /\ lock' = IF req[q].kind \in unlocked THEN lock ELSE [lock EXCEPT ![Row(req[q])] = q]
  /\ UNCHANGED <<exists, trashed, role, invite, req, intact>>
LockAndCheck_GroupUnlocked(q) == LockedExcept({"role", "remove"}, q)
LockAndCheck_InviteUnlocked(q) == LockedExcept({"accept"}, q)

LockAndCheck(q) ==
  LET m == req[q] IN
  /\ At(q, Locking, "ready")
  /\ Free(Row(m))
  /\ IF RefusedLocked(m)
     THEN Done(q) /\ UNCHANGED lock
     ELSE /\ pc' = [pc EXCEPT ![q] = "checked"]
          /\ lock' = [lock EXCEPT ![Row(m)] = q]
          /\ UNCHANGED req
  /\ UNCHANGED <<exists, trashed, role, invite, intact>>

Unlock(q) == lock' = [lock EXCEPT ![Row(req[q])] = None]

ChangeMember(q) ==   \* the 404 of a user without a row changes nothing
  LET m == req[q] IN
  /\ At(q, {"role", "remove"}, "checked")
  /\ role' = [role EXCEPT ![m.g][m.u] = IF @ = None THEN None ELSE m.r]
  /\ Unlock(q) /\ Done(q)
  /\ UNCHANGED <<exists, trashed, invite, intact>>

(* The insert waits for a lock on the group's row (its foreign key). An    *)
(* existing row wins: the invite is then not consumed.                     *)
Join(q) ==
  LET m == req[q] IN
  /\ At(q, {"accept"}, "checked")
  /\ Free(m.g)
  /\ IF role[m.g][m.u] # None \/ exists[m.g] # "yes"
     THEN UNCHANGED <<role, invite>>
     ELSE /\ role' = [role EXCEPT ![m.g][m.u] = m.r]
          /\ invite' = [invite EXCEPT ![m.i].state = "used"]
  /\ Unlock(q) /\ Done(q)
  /\ UNCHANGED <<exists, trashed, intact>>

-----------------------------------------------------------------------------
(* Requests that hold no lock: what the first statements read, then the    *)
(* last one, which waits for the locks of others.                          *)
Passes(m) ==
  CASE m.kind = "add"    -> /\ exists[m.g] = "yes" /\ role[m.g][m.u] = None
                            /\ \/ m.g = "org" \/ role["org"][m.u] # None
                               \/ \E i \in Invites : /\ Live(i) /\ invite[i].g = "org"
                                                     /\ invite[i].u = m.u
    [] m.kind = "edit"   -> exists[m.g] = "yes" /\ (m.g = "org" => ~trashed)
    [] m.kind = "drop"   -> exists[m.g] = "yes"
    [] m.kind = "purge"  -> exists[m.g] = "yes" /\ trashed
    [] m.kind = "revoke" -> invite[m.i].state \in {"live", "expired"}
    [] OTHER             -> FALSE

Read(q) ==
  /\ At(q, Kinds \ Locking, "ready")
  /\ IF Passes(req[q])
     THEN pc' = [pc EXCEPT ![q] = "checked"] /\ UNCHANGED req
     ELSE Done(q)
  /\ UNCHANGED <<exists, trashed, role, invite, lock, intact>>

Add(q) ==            \* the unique index refuses a second row
  LET m == req[q] IN
  /\ At(q, {"add"}, "checked")
  /\ Free(m.g)
  /\ role' = IF exists[m.g] = "yes" /\ role[m.g][m.u] = None
             THEN [role EXCEPT ![m.g][m.u] = m.r] ELSE role
  /\ Done(q)
  /\ UNCHANGED <<exists, trashed, invite, lock, intact>>

(* Mutant: a revoked invite keeps its row, under a state of its own.       *)
Revoke_Kept(q) ==
  /\ At(q, {"revoke"}, "checked")
  /\ invite' = [invite EXCEPT ![req[q].i].state = "revoked"]
  /\ Done(q)
  /\ UNCHANGED <<exists, trashed, role, lock, intact>>

Revoke(q) ==         \* deletes the row by id, whatever became of it
  LET m == req[q] IN
  /\ At(q, {"revoke"}, "checked")
  /\ Free(m.i)
  /\ invite' = [invite EXCEPT ![m.i] = NoInvite("gone")]
  /\ Done(q)
  /\ UNCHANGED <<exists, trashed, role, lock, intact>>

(* save() writes every column that differs from the row, deletedAt too. A  *)
(* group deleted since the read is inserted again, without its members (a  *)
(* case only where its organization is there).                             *)
SaveEdit(q) ==
  LET m == req[q] IN
  /\ At(q, {"edit"}, "checked")
  /\ Free(m.g)
  /\ trashed' = IF m.g = "org" THEN FALSE ELSE trashed
  /\ IF exists[m.g] = "gone" /\ (m.g = "case" => exists["org"] = "yes")
     THEN /\ exists' = [exists EXCEPT ![m.g] = "yes"]
          /\ intact' = [intact EXCEPT ![m.g] = FALSE]
     ELSE UNCHANGED <<exists, intact>>
  /\ Done(q)
  /\ UNCHANGED <<role, invite, lock>>

(* DELETE of a group cascades to what belongs to it.                       *)
Cascade(gs) ==
  /\ \A g \in gs : Free(g)
  /\ \A i \in Invites : invite[i].g \in gs => Free(i)
  /\ exists' = [g \in Groups |-> IF g \in gs /\ exists[g] = "yes" THEN "gone" ELSE exists[g]]
  /\ role' = [g \in Groups |-> IF g \in gs THEN [u \in Users |-> None] ELSE role[g]]
  /\ invite' = [i \in Invites |-> IF invite[i].g \in gs /\ invite[i].state # "none"
                                  THEN NoInvite("gone") ELSE invite[i]]

DropCase(q) ==
  /\ At(q, {"drop"}, "checked")
  /\ Cascade({"case"})
  /\ Done(q)
  /\ UNCHANGED <<trashed, lock, intact>>

Purge(q) ==
  /\ At(q, {"purge"}, "checked")
  /\ Cascade(Groups)
  /\ Done(q)
  /\ UNCHANGED <<trashed, lock, intact>>

-----------------------------------------------------------------------------
(* Operations of one transaction whose statements do not disturb others.   *)
CreateCase(u) ==
  /\ exists["org"] = "yes" /\ ~trashed /\ role["org"][u] \notin {None, "guest"}
  /\ exists["case"] = "new" /\ Free("org")
  /\ exists' = [exists EXCEPT !["case"] = "yes"]
  /\ role' = [role EXCEPT !["case"][u] = "owner"]
  /\ UNCHANGED <<trashed, invite, lock, pc, req, intact>>

CreateInvite(a, g, u, r) ==
  /\ MayManage(a, g) /\ Free(g) /\ r \in RolesOf(g)
  /\ \E i \in Invites :
       /\ invite[i].state = "none"
       /\ invite' = [invite EXCEPT ![i] = [state |-> "live", g |-> g, u |-> u, r |-> r]]
  /\ UNCHANGED <<exists, trashed, role, lock, pc, req, intact>>

ExpireInvite(i) ==
  /\ Live(i)
  /\ invite' = [invite EXCEPT ![i].state = "expired"]
  /\ UNCHANGED <<exists, trashed, role, lock, pc, req, intact>>

SoftDelete ==
  /\ exists["org"] = "yes" /\ ~trashed /\ Free("org") /\ trashed' = TRUE
  /\ UNCHANGED <<exists, role, invite, lock, pc, req, intact>>

Restore ==
  /\ exists["org"] = "yes" /\ trashed /\ Free("org") /\ trashed' = FALSE
  /\ UNCHANGED <<exists, role, invite, lock, pc, req, intact>>

(* A used invite refers to who used it: then the DELETE fails. (It fails   *)
(* for who made an invite too, which the model does not record: it allows  *)
(* more deletions than the code.)                                          *)
DeleteAccount(u) ==
  /\ \A i \in Invites : invite[i].state = "used" => invite[i].u # u
  /\ role' = [g \in Groups |-> [role[g] EXCEPT ![u] = None]]
  /\ intact' = [g \in Groups |-> intact[g] /\ role[g][u] # Lead[g]]
  /\ UNCHANGED <<exists, trashed, invite, lock, pc, req>>

-----------------------------------------------------------------------------
Serve(q) ==
  \/ \E a \in Users : \/ \E g \in Groups : AskInGroup(q, a, g)
                      \/ \E i \in Invites : AskAboutInvite(q, a, i)
  \/ AskPurge(q)
  \/ LockAndCheck(q) \/ ChangeMember(q) \/ Join(q) \/ Read(q)
  \/ Add(q) \/ Revoke(q) \/ SaveEdit(q) \/ DropCase(q) \/ Purge(q)

Next ==
  \/ \E q \in Requests : Serve(q)
  \/ \E u \in Users : CreateCase(u) \/ DeleteAccount(u)
  \/ \E a, u \in Users, g \in Groups : \E r \in RolesOf(g) : CreateInvite(a, g, u, r)
  \/ \E i \in Invites : ExpireInvite(i)
  \/ SoftDelete \/ Restore

Spec == Init /\ [][Next]_vars

-----------------------------------------------------------------------------
Requested == [kind : Kinds, g : Groups, u : Users \cup {None},
              r : OrgRoles \cup CaseRoles \cup {None}, i : Invites \cup {None}]

(* The values the rows and the requests take.                              *)
TypeOK ==
  /\ exists \in [Groups -> {"new", "yes", "gone"}]
  /\ trashed \in BOOLEAN
  /\ role \in [Groups -> [Users -> OrgRoles \cup CaseRoles \cup {None}]]
  /\ invite \in [Invites -> [state : {"none", "live", "expired", "used", "gone"},
                             g : Groups, u : Users \cup {None},
                             r : OrgRoles \cup CaseRoles \cup {None}]]
  /\ lock \in [Groups \cup Invites -> Requests \cup {None}]
  /\ pc \in [Requests -> {"idle", "ready", "checked"}]
  /\ req \in [Requests -> Requested \cup {NoReq}]
  /\ intact \in [Groups -> BOOLEAN]

(* The last-admin and the last-owner rule: whatever requests are in flight *)
(* at once, demotions, removals and departures together never leave an     *)
(* existing group without a lead, as long as no account was deleted under  *)
(* it and no late save brought it back.                                    *)
KeepsLead == \A g \in Groups : exists[g] = "yes" /\ intact[g] => Leads(g) # {}

(* Accepting an invite adds a member only while its row is there, unused,  *)
(* so a revoked invite admits nobody even when the revocation overtakes an *)
(* acceptance that had already read the invite.                            *)
RevokedAdmitsNobody ==
  [][\A q \in Requests :
       At(q, {"accept"}, "checked") /\ pc'[q] = "idle" /\ role' # role
         => invite[req[q].i].state \in {"live", "expired"}]_vars

(* The rule as the documents word it, with no exception for accounts.      *)
AlwaysALead == \A g \in Groups : exists[g] = "yes" => Leads(g) # {}
=============================================================================
