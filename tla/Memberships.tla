----------------------------- MODULE Memberships -----------------------------
(***************************************************************************)
(* Who belongs to which company: the memberships rows, the accounts'       *)
(* platform_admin and disabled flags, and the calls that change them.      *)
(* invite_member, change_member_role, remove_member and set_user_disabled  *)
(* are transactions of several statements under READ COMMITTED.  They take *)
(* advisory locks on a phone number and on a company, and users rows FOR   *)
(* UPDATE; every audit row takes FOR KEY SHARE on the users rows of its    *)
(* actor and its target (foreign keys), so it waits for FOR UPDATE.        *)
(* A login reads in one statement and activates in a later one.            *)
(*                                                                         *)
(* A viewer passes no check that an employee does not, so one role stands  *)
(* for both.  Every person already has a users row.                        *)
(***************************************************************************)
EXTENDS Naturals, FiniteSets

CONSTANTS Users, Companies, Calls,
          FirstStaff,        \* the platform admins at the start
          MaxFlags,          \* bound: changes of platform_admin
          MaxLogins,         \* bound: logins under way at once
          Nobody, NoFirm

ASSUME MembershipAssumption ==
  /\ FirstStaff \subseteq Users
  /\ MaxFlags \in Nat /\ MaxLogins \in Nat
  /\ Nobody \notin Users
  /\ NoFirm \notin Companies

VARIABLES
  status, role,   \* the memberships row of a person in a company
  disabled,       \* users.disabled
  staff,          \* users.platform_admin
  founded,        \* the tenants
  pc, req, firm,  \* a call's progress, its request, the company it names or locks
  login,          \* how far a login of a person is
  unseen,         \* history: disabled by a call that saw no company to check
  flags           \* bound: changes of platform_admin made

people == <<status, role, founded>>
accounts == <<disabled, staff, unseen, flags>>
calls == <<pc, req, firm>>

vars == <<people, accounts, calls, login>>

-----------------------------------------------------------------------------
Statuses == {"none", "invited", "active", "removed"}
Roles == {"company_admin", "employee"}

MemberOps == {"invite", "role", "remove"}
AccountOps == {"disable", "enable"}

(* "phone", "tenant" and "person" wait for that lock, "audit" has decided  *)
(* and written, "commit" waits for the foreign keys of its audit row.      *)
Waiting == {"phone", "tenant", "person", "audit", "commit"}
Ended == {"done", "refused", "clash", "aborted"}

NoRequest == [op |-> "none", caller |-> Nobody, target |-> Nobody,
              role |-> "employee", staff |-> FALSE]

Request == [op : MemberOps \cup AccountOps, caller : Users, target : Users,
            role : Roles, staff : BOOLEAN]

Live(u, c) == status[u][c] \in {"invited", "active"}

BelongsSomewhere(u) == \E c \in Companies : Live(u, c)

Administers(u, c) == status[u][c] = "active" /\ role[u][c] = "company_admin"

(* Mutant: the rule before 20261020000005, any other admin counts.         *)
OtherAdminEvenDisabled(c, u) == \E v \in Users \ {u} : Administers(v, c)

(* "Only another admin who can actually sign in counts."                   *)
OtherAdmin(c, u) ==
  \E v \in Users \ {u} : Administers(v, c) /\ v \notin disabled

Init ==
  /\ status = [u \in Users |-> [c \in Companies |-> "none"]]
  /\ role = [u \in Users |-> [c \in Companies |-> "employee"]]
  /\ disabled = {}
  /\ staff = FirstStaff
  /\ founded = {}
  /\ pc = [k \in Calls |-> "idle"]
  /\ req = [k \in Calls |-> NoRequest]
  /\ firm = [k \in Calls |-> NoFirm]
  /\ login = [u \in Users |-> "out"]
  /\ unseen = {}
  /\ flags = 0

-----------------------------------------------------------------------------
(* The locks, all held to the end of their transaction.                    *)

HoldsPhone(k, u) ==
  /\ req[k].op = "invite" /\ req[k].target = u
  /\ pc[k] \in {"tenant", "person", "audit", "commit"}

HoldsTenant(k, c) ==
  /\ firm[k] = c
  /\ \/ pc[k] \in {"audit", "commit"}
     \/ pc[k] = "person" /\ req[k].op = "invite"

(* Mutant: invite_member without FOR UPDATE, as before 20261020000009.     *)
HoldsPersonToDisable(k, u) ==
  /\ req[k].target = u
  /\ req[k].op \in AccountOps
  /\ pc[k] \in {"audit", "commit"} \/ pc[k] = "tenant"

(* FOR UPDATE on the users row.                                            *)
HoldsPerson(k, u) ==
  /\ req[k].target = u
  /\ \/ req[k].op \in {"invite"} \cup AccountOps /\ pc[k] \in {"audit", "commit"}
     \/ req[k].op = "disable" /\ pc[k] = "tenant"

(* FOR UPDATE on the memberships row.                                      *)
HoldsMember(k, u, c) ==
  /\ req[k].op \in {"role", "remove"} /\ req[k].target = u /\ firm[k] = c
  /\ pc[k] \in {"audit", "commit"}

PersonFree(u) == \A k \in Calls : ~HoldsPerson(k, u)

(* The other calls that a call must see end before its next step.          *)
Awaits(k) ==
  {j \in Calls \ {k} :
     \/ pc[k] = "phone" /\ HoldsPhone(j, req[k].target)
     \/ pc[k] = "tenant" /\ HoldsTenant(j, firm[k])
     \/ pc[k] = "person" /\ HoldsPerson(j, req[k].target)
     \/ pc[k] = "commit" /\ \E u \in {req[k].caller, req[k].target} : HoldsPerson(j, u)}

GoesTo(k, stage) ==
  /\ pc' = [pc EXCEPT ![k] = stage]
  /\ UNCHANGED <<req, firm>>

Ends(k, outcome) ==
  /\ pc' = [pc EXCEPT ![k] = outcome]
  /\ req' = [req EXCEPT ![k] = NoRequest]
  /\ firm' = [firm EXCEPT ![k] = NoFirm]

-----------------------------------------------------------------------------
(* A call that passes the checks made before any lock.  A refused one      *)
(* leaves nothing behind.                                                  *)
Enter(k, o, a, u, r, c, stage) ==
  /\ pc[k] = "idle"
  /\ a \notin disabled
  /\ pc' = [pc EXCEPT ![k] = stage]
  /\ req' = [req EXCEPT ![k] = [op |-> o, caller |-> a, target |-> u,
                                role |-> r, staff |-> (a \in staff)]]
  /\ firm' = [firm EXCEPT ![k] = c]
  /\ UNCHANGED <<people, accounts, login>>

ManagesNow(a, c) == c \in founded /\ (a \in staff \/ Administers(a, c))

Invite(k, a, u, r, c) ==
  /\ ManagesNow(a, c)
  /\ Enter(k, "invite", a, u, r, c, "phone")

ChangeRole(k, a, u, r, c) ==
  /\ ManagesNow(a, c)
  /\ a # u
  /\ Enter(k, "role", a, u, r, c, "tenant")

RemoveMember(k, a, u, c) ==
  /\ ManagesNow(a, c)
  /\ a # u
  /\ Enter(k, "remove", a, u, "employee", c, "tenant")

SetDisabled(k, a, u, o) ==
  /\ o \in AccountOps
  /\ a \in staff
  /\ a # u
  /\ Enter(k, o, a, u, "employee", NoFirm, "person")

-----------------------------------------------------------------------------
(* invite_member                                                           *)

LockPhone(k) ==
  /\ pc[k] = "phone"
  /\ Awaits(k) = {}
  /\ GoesTo(k, "tenant")
  /\ UNCHANGED <<people, accounts, login>>

(* Mutant: the caller is asked once, before the locks.                     *)
StillManagesAsAtEntry(k) == req[k].caller \in Users

(* "The caller may have been demoted or removed while we waited": asked    *)
(* only of a caller who was no platform admin at the start.                *)
StillManages(k) ==
  \/ req[k].staff
  \/ Administers(req[k].caller, firm[k]) /\ req[k].caller \notin disabled

LockTenantToInvite(k) ==
  /\ pc[k] = "tenant" /\ req[k].op = "invite"
  /\ Awaits(k) = {}
  /\ IF StillManages(k) THEN GoesTo(k, "person") ELSE Ends(k, "refused")
  /\ UNCHANGED <<people, accounts, login>>

MayBeInvited(u) == u \notin staff /\ u \notin disabled /\ ~BelongsSomewhere(u)

LockPersonToInvite(k) ==
  /\ pc[k] = "person" /\ req[k].op = "invite"
  /\ Awaits(k) = {}
  /\ IF MayBeInvited(req[k].target) THEN GoesTo(k, "audit") ELSE Ends(k, "refused")
  /\ UNCHANGED <<people, accounts, login>>

-----------------------------------------------------------------------------
(* change_member_role and remove_member                                    *)

MayChange(k) == StillManages(k) /\ Live(req[k].target, firm[k])

SameRole(k) == req[k].op = "role" /\ req[k].role = role[req[k].target][firm[k]]

LeavesNoAdmin(c, u) == Administers(u, c) /\ ~OtherAdmin(c, u)

LockTenantToChange(k) ==
  /\ pc[k] = "tenant" /\ req[k].op \in {"role", "remove"}
  /\ Awaits(k) = {}
  /\ \/ ~MayChange(k) /\ Ends(k, "refused")
     \/ MayChange(k) /\ SameRole(k) /\ Ends(k, "done")
     \/ MayChange(k) /\ ~SameRole(k) /\ LeavesNoAdmin(firm[k], req[k].target) /\ Ends(k, "refused")
     \/ MayChange(k) /\ ~SameRole(k) /\ ~LeavesNoAdmin(firm[k], req[k].target) /\ GoesTo(k, "audit")
  /\ UNCHANGED <<people, accounts, login>>

-----------------------------------------------------------------------------
(* set_user_disabled.  It lists the companies the person administers when  *)
(* it has the users row, and locks each to look for another admin.         *)

AlreadyThere(k) == (req[k].op = "disable") <=> (req[k].target \in disabled)

LockPersonToSwitch(k) ==
  /\ pc[k] = "person" /\ req[k].op \in AccountOps
  /\ Awaits(k) = {}
  /\ \/ AlreadyThere(k) /\ Ends(k, "done")
     \/ /\ ~AlreadyThere(k)
        /\ req[k].op = "enable" \/ \A c \in Companies : ~Administers(req[k].target, c)
        /\ GoesTo(k, "audit")
     \/ /\ ~AlreadyThere(k) /\ req[k].op = "disable"
        /\ \E c \in Companies :
             /\ Administers(req[k].target, c)
             /\ firm' = [firm EXCEPT ![k] = c]
        /\ pc' = [pc EXCEPT ![k] = "tenant"]
        /\ UNCHANGED req
  /\ UNCHANGED <<people, accounts, login>>

LockTenantToDisable(k) ==
  /\ pc[k] = "tenant" /\ req[k].op = "disable"
  /\ Awaits(k) = {}
  /\ IF OtherAdmin(firm[k], req[k].target) THEN GoesTo(k, "audit") ELSE Ends(k, "refused")
  /\ UNCHANGED <<people, accounts, login>>

-----------------------------------------------------------------------------
(* The end of every call: its rows are written, the audit row is checked,  *)
(* waits for its foreign keys, and the transaction commits.                *)

MayAudit(k) ==
  LET a == req[k].caller
  IN  a \in staff \/ (req[k].op \in MemberOps /\ status[a][firm[k]] = "active")

Audit(k) ==
  /\ pc[k] = "audit"
  /\ IF MayAudit(k) THEN GoesTo(k, "commit") ELSE Ends(k, "refused")
  /\ UNCHANGED <<people, accounts, login>>

Commits(k, o) == pc[k] = "commit" /\ Awaits(k) = {} /\ req[k].op = o

(* The unique index on live memberships is the last resort.                *)
CommitInvite(k) ==
  /\ Commits(k, "invite")
  /\ IF BelongsSomewhere(req[k].target)
     THEN /\ Ends(k, "clash")
          /\ UNCHANGED people
     ELSE /\ status' = [status EXCEPT ![req[k].target][firm[k]] = "invited"]
          /\ role' = [role EXCEPT ![req[k].target][firm[k]] = req[k].role]
          /\ Ends(k, "done")
          /\ UNCHANGED founded
  /\ UNCHANGED <<accounts, login>>

CommitRole(k) ==
  /\ Commits(k, "role")
  /\ role' = [role EXCEPT ![req[k].target][firm[k]] = req[k].role]
  /\ Ends(k, "done")
  /\ UNCHANGED <<status, founded, accounts, login>>

CommitRemove(k) ==
  /\ Commits(k, "remove")
  /\ status' = [status EXCEPT ![req[k].target][firm[k]] = "removed"]
  /\ Ends(k, "done")
  /\ UNCHANGED <<role, founded, accounts, login>>

CommitDisable(k) ==
  /\ Commits(k, "disable")
  /\ disabled' = disabled \cup {req[k].target}
  /\ unseen' = IF firm[k] = NoFirm THEN unseen \cup {req[k].target} ELSE unseen
  /\ Ends(k, "done")
  /\ UNCHANGED <<people, staff, flags, login>>

CommitEnable(k) ==
  /\ Commits(k, "enable")
  /\ disabled' = disabled \ {req[k].target}
  /\ unseen' = unseen \ {req[k].target}
  /\ Ends(k, "done")
  /\ UNCHANGED <<people, staff, flags, login>>

(* Mutant: the company lock is kept where the database cannot see it.      *)
DeadlockedOnRowsOnly(K) ==
  /\ K # {}
  /\ \A k \in K : pc[k] # "tenant" /\ Awaits(k) \cap K # {}

(* Calls each of which waits for another one of them: PostgreSQL aborts    *)
(* one (40P01).                                                            *)
Deadlocked(K) ==
  /\ K # {}
  /\ \A k \in K : Awaits(k) \cap K # {}

DeadlockVictim(k) ==
  /\ \E K \in SUBSET Calls :
       /\ k \in K
       /\ Deadlocked(K)
       /\ \A L \in SUBSET K : Deadlocked(L) => L = K
  /\ Ends(k, "aborted")
  /\ UNCHANGED <<people, accounts, login>>

-----------------------------------------------------------------------------
(* setup_tenant_for_owner.  A person's users row is locked before the      *)
(* memberships are read.  A second call of the admin only edits the        *)
(* company's profile.                                                      *)
SetupCompany(u, c) ==
  /\ PersonFree(u)
  /\ u \notin disabled /\ u \notin staff
  /\ ~BelongsSomewhere(u)
  /\ c \notin founded
  /\ founded' = founded \cup {c}
  /\ status' = [status EXCEPT ![u][c] = "active"]
  /\ role' = [role EXCEPT ![u][c] = "company_admin"]
  /\ UNCHANGED <<accounts, calls, login>>

(* AdminService.setPlatformAdmin: a guarded UPDATE of somebody else.       *)
SetPlatformAdmin(a, u) ==
  /\ a \in staff /\ a \notin disabled
  /\ a # u
  /\ PersonFree(u)
  /\ flags < MaxFlags /\ flags' = flags + 1
  /\ staff' = IF u \in staff THEN staff \ {u} ELSE staff \cup {u}
  /\ UNCHANGED <<people, disabled, unseen, calls, login>>

(* verifyOtp finds the person not disabled ...                             *)
LoginStarts(u) ==
  /\ login[u] = "out"
  /\ Cardinality({v \in Users : login[v] # "out"}) < MaxLogins
  /\ u \notin disabled
  /\ login' = [login EXCEPT ![u] = "verified"]
  /\ UNCHANGED <<people, accounts, calls>>

(* ... reads the live membership, which an invitation makes it activate    *)
(* (activateMembership), ...                                               *)
LoginReads(u) ==
  /\ login[u] = "verified"
  /\ login' = [login EXCEPT ![u] =
                 IF u \notin staff /\ \E c \in Companies : status[u][c] = "invited"
                 THEN "invited" ELSE "out"]
  /\ UNCHANGED <<people, accounts, calls>>

(* Mutant: the update without its status filter.                           *)
ActivatedUnguarded(u) ==
  [c \in Companies |-> IF status[u][c] = "none" THEN "none" ELSE "active"]

(* ... and then updates whatever invitation the person has by then.        *)
Activated(u) ==
  [c \in Companies |-> IF status[u][c] = "invited" THEN "active" ELSE status[u][c]]

LoginActivates(u) ==
  /\ login[u] = "invited"
  /\ \A c \in Companies, k \in Calls :
       status[u][c] = "invited" => ~HoldsMember(k, u, c)
  /\ status' = [status EXCEPT ![u] = Activated(u)]
  /\ login' = [login EXCEPT ![u] = "out"]
  /\ UNCHANGED <<role, founded, accounts, calls>>

-----------------------------------------------------------------------------
CallStep(k) ==
  \/ LockPhone(k) \/ LockTenantToInvite(k) \/ LockPersonToInvite(k)
  \/ LockTenantToChange(k)
  \/ LockPersonToSwitch(k) \/ LockTenantToDisable(k)
  \/ Audit(k)
  \/ CommitInvite(k) \/ CommitRole(k) \/ CommitRemove(k)
  \/ CommitDisable(k) \/ CommitEnable(k)

Begin(k) ==
  \E a \in Users, u \in Users :
    \/ \E c \in Companies, r \in Roles : Invite(k, a, u, r, c) \/ ChangeRole(k, a, u, r, c)
    \/ \E c \in Companies : RemoveMember(k, a, u, c)
    \/ \E o \in AccountOps : SetDisabled(k, a, u, o)

PersonStep(u) ==
  \/ \E c \in Companies : SetupCompany(u, c)
  \/ \E a \in Users : SetPlatformAdmin(a, u)
  \/ LoginStarts(u) \/ LoginReads(u) \/ LoginActivates(u)

Next ==
  \/ \E k \in Calls : Begin(k) \/ CallStep(k) \/ DeadlockVictim(k)
  \/ \E u \in Users : PersonStep(u)

Spec == Init /\ [][Next]_vars

(* Statements of a running transaction settle, and PostgreSQL looks for    *)
(* deadlocks; nobody has to start anything.                                *)
FairSpec ==
  /\ Spec
  /\ \A k \in Calls : WF_vars(CallStep(k))
  /\ WF_vars(\E k \in Calls : DeadlockVictim(k))

-----------------------------------------------------------------------------
TypeOK ==
  /\ status \in [Users -> [Companies -> Statuses]]
  /\ role \in [Users -> [Companies -> Roles]]
  /\ disabled \subseteq Users /\ staff \subseteq Users /\ unseen \subseteq Users
  /\ founded \subseteq Companies
  /\ flags \in Nat
  /\ pc \in [Calls -> Waiting \cup Ended \cup {"idle"}]
  /\ req \in [Calls -> Request \cup {NoRequest}]
  /\ firm \in [Calls -> Companies \cup {NoFirm}]
  /\ login \in [Users -> {"out", "verified", "invited"}]
  /\ \A k \in Calls : req[k] = NoRequest <=> pc[k] \in Ended \cup {"idle"}

(* A company loses its last admin who can sign in only to a disable that   *)
(* had found no company to check: a login under way made the person its    *)
(* admin afterwards (set_user_disabled lists before it locks).             *)
StrandedOnlyByLateLogin ==
  \A c \in founded :
    \/ \E u \in Users : Administers(u, c) /\ u \notin disabled
    \/ \E u \in unseen : Administers(u, c) /\ u \in disabled

(* 20261020000009: "never leave a company without an active admin".        *)
AdminRemains ==
  \A c \in founded : \E u \in Users : Administers(u, c) /\ u \notin disabled

(* The users row that invite_member and setup_tenant_for_owner lock makes  *)
(* their check of the live memberships hold until they commit: the index   *)
(* memberships_one_live_per_user never has to refuse.                      *)
IndexNeverRefuses ==
  /\ \A k \in Calls : pc[k] # "clash"
  /\ \A u \in Users, c \in Companies, d \in Companies : Live(u, c) /\ Live(u, d) => c = d

(* A company-side caller is still an admin who can sign in when its change *)
(* commits, although it was asked only before and after the lock wait; the *)
(* disable that saw no company is again the exception.                     *)
CommitsAsManager ==
  [][\A k \in Calls :
       /\ pc[k] = "commit" /\ pc'[k] = "done"
       /\ req[k].op \in MemberOps /\ ~req[k].staff
       => /\ Administers(req[k].caller, firm[k])
          /\ req[k].caller \in disabled => req[k].caller \in unseen]_vars

(* A removed person comes back to that company by a new invitation only:   *)
(* no login that read the old one brings the membership back.              *)
RemovedUntilInvited ==
  [][\A u \in Users, c \in Companies :
       status[u][c] = "removed" => status'[u][c] \in {"removed", "invited"}]_vars

(* Every call ends, also those that wait for each other (set_user_disabled *)
(* locks the person before the company, the member changes after it).      *)
EveryCallEnds ==
  \A k \in Calls : pc[k] \in Waiting ~> pc[k] \in Ended

=============================================================================
