--------------------------- MODULE MembershipsProofs ---------------------------
(***************************************************************************)
(* What TLAPS proves of the memberships, for any numbers of people,        *)
(* companies, concurrent calls and logins.                                 *)
(***************************************************************************)
EXTENDS Memberships, TLAPS

(* An admin who can sign in, or was disabled by a call that saw nothing.   *)
Kept(u, c) == Administers(u, c) /\ (u \in disabled => u \in unseen)

(* Which company a call has, by its kind and stage.                        *)
Staged ==
  \A k \in Calls :
    /\ firm[k] \in founded \cup {NoFirm}
    /\ pc[k] \in Waiting /\ req[k].op \in MemberOps => firm[k] # NoFirm
    /\ pc[k] = "phone" => req[k].op = "invite"
    /\ pc[k] = "tenant" => firm[k] # NoFirm /\ req[k].op # "enable"
    /\ pc[k] = "person" /\ req[k].op \in AccountOps => firm[k] = NoFirm
    /\ req[k].op = "enable" => firm[k] = NoFirm

LocksExclude ==
  /\ \A j, k \in Calls, u \in Users : HoldsPerson(j, u) /\ HoldsPerson(k, u) => j = k
  /\ \A j, k \in Calls, c \in Companies : HoldsTenant(j, c) /\ HoldsTenant(k, c) => j = k

RowsFit ==
  /\ \A u \in Users, c \in Companies, d \in Companies : Live(u, c) /\ Live(u, d) => c = d
  /\ \A u \in Users, c \in Companies : status[u][c] # "none" => c \in founded
  /\ unseen \subseteq disabled

(* What a call found under its locks still holds when it commits.          *)
InviteSettled(k) ==
  req[k].op = "invite" /\ pc[k] \in {"audit", "commit"} => ~BelongsSomewhere(req[k].target)

DisableSettled(k) ==
  req[k].op = "disable" /\ firm[k] # NoFirm =>
    \A c \in Companies : Live(req[k].target, c) => c = firm[k]

SparesAnAdmin(k) ==
  /\ req[k].op \in {"role", "remove", "disable"} /\ pc[k] \in {"audit", "commit"}
  /\ firm[k] # NoFirm
  /\ req[k].op = "disable" \/ Administers(req[k].target, firm[k])
  => \E v \in Users \ {req[k].target} : Kept(v, firm[k])

CallerManages(k) ==
  req[k].op \in MemberOps /\ ~req[k].staff /\ HoldsTenant(k, firm[k]) =>
    Kept(req[k].caller, firm[k])

SettledCall(k) ==
  /\ pc[k] # "clash"
  /\ InviteSettled(k) /\ DisableSettled(k)
  /\ SparesAnAdmin(k) /\ CallerManages(k)

Settled == \A k \in Calls : SettledCall(k)

AdminKept == \A c \in founded : \E u \in Users : Kept(u, c)

IInv == TypeOK /\ Staged /\ LocksExclude /\ RowsFit /\ Settled /\ AdminKept

-----------------------------------------------------------------------------
(***************************************************************************)
(* Types.                                                                  *)
(***************************************************************************)

LEMMA RequestShape ==
  /\ \A q \in Request : /\ q.op \in MemberOps \cup AccountOps
                        /\ q.caller \in Users /\ q.target \in Users
                        /\ q.role \in Roles /\ q.staff \in BOOLEAN
                        /\ q # NoRequest
  /\ NoRequest.op = "none"
  /\ Waiting \cap (Ended \cup {"idle"}) = {}
BY DEF Request, NoRequest, MemberOps, AccountOps, Waiting, Ended, Roles

LEMMA InitTyped == Init => TypeOK
BY MembershipAssumption DEF MembershipAssumption, Init, TypeOK, Statuses, Roles

(* The calls' variables keep their types when one of them moves or ends.   *)
CallsTyped ==
  /\ pc \in [Calls -> Waiting \cup Ended \cup {"idle"}]
  /\ req \in [Calls -> Request \cup {NoRequest}]
  /\ firm \in [Calls -> Companies \cup {NoFirm}]
  /\ \A k \in Calls : req[k] = NoRequest <=> pc[k] \in Ended \cup {"idle"}

LEMMA CallMoves ==
  ASSUME CallsTyped, NEW k \in Calls, pc[k] \in Waiting,
         NEW stage \in Waiting, GoesTo(k, stage)
  PROVE  CallsTyped'
BY RequestShape DEF CallsTyped, GoesTo

LEMMA CallEnds ==
  ASSUME CallsTyped, NEW k \in Calls, NEW outcome \in Ended, Ends(k, outcome)
  PROVE  CallsTyped'
BY RequestShape DEF CallsTyped, Ends

LEMMA CallEnters ==
  ASSUME CallsTyped, NEW k \in Calls, NEW o \in MemberOps \cup AccountOps,
         NEW a \in Users, NEW u \in Users, NEW r \in Roles,
         NEW c \in Companies \cup {NoFirm}, NEW stage \in Waiting,
         Enter(k, o, a, u, r, c, stage)
  PROVE  CallsTyped'
<1> DEFINE q == [op |-> o, caller |-> a, target |-> u, role |-> r, staff |-> (a \in staff)]
<1>1. (a \in staff) \in BOOLEAN
  OBVIOUS
<1>2. q \in Request
  BY <1>1 DEF Request
<1>3. q # NoRequest
  BY <1>2, RequestShape
<1>4. /\ req' = [req EXCEPT ![k] = q]
      /\ pc' = [pc EXCEPT ![k] = stage] /\ firm' = [firm EXCEPT ![k] = c]
  BY DEF Enter
<1> HIDE DEF q
<1> QED BY <1>2, <1>3, <1>4, RequestShape DEF CallsTyped

(* Every call starts before its first lock.                                *)
LEMMA Begins ==
  ASSUME TypeOK, NEW k \in Calls, Begin(k)
  PROVE  \E o \in MemberOps \cup AccountOps, a \in Users, u \in Users, r \in Roles,
            c \in Companies \cup {NoFirm}, stage \in Waiting :
           /\ Enter(k, o, a, u, r, c, stage)
           /\ \/ c \in founded /\ o = "invite" /\ stage = "phone"
              \/ c \in founded /\ o \in {"role", "remove"} /\ stage = "tenant"
              \/ c = NoFirm /\ o \in AccountOps /\ stage = "person"
<1>0. PICK a \in Users, u \in Users :
        \/ \E c \in Companies, r \in Roles : Invite(k, a, u, r, c) \/ ChangeRole(k, a, u, r, c)
        \/ \E c \in Companies : RemoveMember(k, a, u, c)
        \/ \E o \in AccountOps : SetDisabled(k, a, u, o)
  BY DEF Begin
<1>1. CASE \E c \in Companies, r \in Roles : Invite(k, a, u, r, c) \/ ChangeRole(k, a, u, r, c)
  BY <1>1 DEF Invite, ChangeRole, ManagesNow, MemberOps, Waiting
<1>2. CASE \E c \in Companies : RemoveMember(k, a, u, c)
  BY <1>2 DEF RemoveMember, ManagesNow, MemberOps, Waiting, Roles
<1>3. CASE \E o \in AccountOps : SetDisabled(k, a, u, o)
  BY <1>3 DEF SetDisabled, MemberOps, Waiting, Roles
<1> QED BY <1>0, <1>1, <1>2, <1>3

(* The memberships, accounts and logins.                                   *)
RowsTyped ==
  /\ status \in [Users -> [Companies -> Statuses]]
  /\ role \in [Users -> [Companies -> Roles]]
  /\ disabled \subseteq Users /\ staff \subseteq Users /\ unseen \subseteq Users
  /\ founded \subseteq Companies
  /\ flags \in Nat
  /\ login \in [Users -> {"out", "verified", "invited"}]

LEMMA TypeSplit == TypeOK <=> RowsTyped /\ CallsTyped
BY DEF TypeOK, RowsTyped, CallsTyped

LEMMA TypeStep == TypeOK /\ [Next]_vars => TypeOK'
<1> SUFFICES ASSUME TypeOK, [Next]_vars PROVE RowsTyped' /\ CallsTyped'
  BY TypeSplit DEF TypeOK, RowsTyped, CallsTyped
<1> USE DEF CallsTyped
<1>0. RowsTyped /\ CallsTyped
  BY TypeSplit
<1>1. ASSUME NEW k \in Calls, Begin(k) PROVE RowsTyped' /\ CallsTyped'
  <2>1. CallsTyped'
    BY <1>0, <1>1, Begins, CallEnters
  <2>2. RowsTyped'
    BY <1>0, <1>1, Begins DEF Enter, RowsTyped, people, accounts
  <2> QED BY <2>1, <2>2
<1> HIDE DEF CallsTyped
<1>2. ASSUME NEW k \in Calls, CallStep(k) PROVE RowsTyped' /\ CallsTyped'
  <2>0. req[k] \in Request \/ pc[k] \notin Waiting
    BY <1>0, RequestShape DEF CallsTyped
  <2>1. CASE LockPhone(k)
    BY <1>0, <2>1, CallMoves DEF LockPhone, Waiting, RowsTyped, people, accounts
  <2>2. CASE LockTenantToInvite(k)
    BY <1>0, <2>2, CallMoves, CallEnds DEF LockTenantToInvite, Waiting, Ended, RowsTyped, people, accounts
  <2>3. CASE LockPersonToInvite(k)
    BY <1>0, <2>3, CallMoves, CallEnds DEF LockPersonToInvite, Waiting, Ended, RowsTyped, people, accounts
  <2>4. CASE LockTenantToChange(k)
    BY <1>0, <2>4, CallMoves, CallEnds DEF LockTenantToChange, Waiting, Ended, RowsTyped, people, accounts
  <2>5. CASE LockPersonToSwitch(k)
    <3>1. RowsTyped'
      BY <1>0, <2>5 DEF LockPersonToSwitch, RowsTyped, people, accounts
    <3>2. CASE Ends(k, "done") \/ GoesTo(k, "audit")
      BY <1>0, <2>5, <3>1, <3>2, CallMoves, CallEnds DEF LockPersonToSwitch, Waiting, Ended
    <3>3. CASE \E c \in Companies : /\ firm' = [firm EXCEPT ![k] = c]
                                    /\ pc' = [pc EXCEPT ![k] = "tenant"] /\ UNCHANGED req
      BY <1>0, <2>5, <3>1, <3>3, RequestShape DEF LockPersonToSwitch, CallsTyped, Waiting, Ended
    <3> QED BY <2>5, <3>2, <3>3 DEF LockPersonToSwitch
  <2>6. CASE LockTenantToDisable(k)
    BY <1>0, <2>6, CallMoves, CallEnds DEF LockTenantToDisable, Waiting, Ended, RowsTyped, people, accounts
  <2>7. CASE Audit(k)
    BY <1>0, <2>7, CallMoves, CallEnds DEF Audit, Waiting, Ended, RowsTyped, people, accounts
  <2>8. CASE \E o \in MemberOps \cup AccountOps : Commits(k, o)
    <3>1. req[k].target \in Users /\ req[k].role \in Roles
      BY <2>0, <2>8, RequestShape DEF Commits, Waiting
    <3>2. CASE CommitInvite(k)
      <4>1. CallsTyped'
        BY <1>0, <3>2, CallEnds DEF CommitInvite, Ended
      <4>2. CASE BelongsSomewhere(req[k].target)
        BY <1>0, <3>2, <4>1, <4>2 DEF CommitInvite, RowsTyped, people, accounts
      <4>3. CASE ~BelongsSomewhere(req[k].target)
        <5>0. /\ status' = [status EXCEPT ![req[k].target][firm[k]] = "invited"]
              /\ role' = [role EXCEPT ![req[k].target][firm[k]] = req[k].role]
              /\ UNCHANGED <<founded, accounts, login>>
          BY <3>2, <4>3, Zenon DEF CommitInvite
        <5>1. status' \in [Users -> [Companies -> Statuses]]
          BY <1>0, <3>1, <5>0 DEF RowsTyped, Statuses
        <5>2. role' \in [Users -> [Companies -> Roles]]
          BY <1>0, <3>1, <5>0 DEF RowsTyped
        <5> QED BY <1>0, <4>1, <5>0, <5>1, <5>2 DEF RowsTyped, accounts
      <4> QED BY <4>2, <4>3
    <3>3. CASE CommitRole(k)
      BY <1>0, <3>1, <3>3, CallEnds DEF CommitRole, Ended, RowsTyped, accounts
    <3>4. CASE CommitRemove(k)
      BY <1>0, <3>1, <3>4, CallEnds DEF CommitRemove, Ended, RowsTyped, accounts, Statuses
    <3>5. CASE CommitDisable(k)
      BY <1>0, <3>1, <3>5, CallEnds DEF CommitDisable, Ended, RowsTyped, people
    <3>6. CASE CommitEnable(k)
      BY <1>0, <3>1, <3>6, CallEnds DEF CommitEnable, Ended, RowsTyped, people
    <3>7. ~(LockPhone(k) \/ LockTenantToInvite(k) \/ LockPersonToInvite(k) \/ LockTenantToChange(k)
              \/ LockPersonToSwitch(k) \/ LockTenantToDisable(k) \/ Audit(k))
      BY <2>8 DEF Commits, LockPhone, LockTenantToInvite, LockPersonToInvite, LockTenantToChange,
                  LockPersonToSwitch, LockTenantToDisable, Audit
    <3> QED BY <1>2, <3>2, <3>3, <3>4, <3>5, <3>6, <3>7 DEF CallStep
  <2> QED BY <1>2, <2>1, <2>2, <2>3, <2>4, <2>5, <2>6, <2>7, <2>8
        DEF CallStep, CommitInvite, CommitRole, CommitRemove, CommitDisable, CommitEnable, MemberOps, AccountOps
<1>3. ASSUME NEW k \in Calls, DeadlockVictim(k) PROVE RowsTyped' /\ CallsTyped'
  BY <1>0, <1>3, CallEnds DEF DeadlockVictim, Ended, RowsTyped, people, accounts
<1>4. ASSUME NEW u \in Users, PersonStep(u) PROVE RowsTyped' /\ CallsTyped'
  <2>1. CallsTyped'
    BY <1>0, <1>4 DEF PersonStep, SetupCompany, SetPlatformAdmin, LoginStarts, LoginReads,
                      LoginActivates, CallsTyped, calls
  <2>2. CASE \E c \in Companies : SetupCompany(u, c)
    BY <1>0, <2>1, <2>2 DEF SetupCompany, RowsTyped, accounts, Statuses, Roles
  <2>3. CASE \E a \in Users : SetPlatformAdmin(a, u)
    BY <1>0, <2>1, <2>3 DEF SetPlatformAdmin, RowsTyped, people
  <2>4. CASE LoginStarts(u)
    BY <1>0, <2>1, <2>4 DEF LoginStarts, RowsTyped, people, accounts
  <2>5. CASE LoginReads(u)
    BY <1>0, <2>1, <2>5 DEF LoginReads, RowsTyped, people, accounts
  <2>6. CASE LoginActivates(u)
    <3>1. Activated(u) \in [Companies -> Statuses]
      BY <1>0 DEF Activated, RowsTyped, Statuses
    <3> QED BY <1>0, <2>1, <2>6, <3>1 DEF LoginActivates, RowsTyped, accounts
  <2> QED BY <1>4, <2>2, <2>3, <2>4, <2>5, <2>6 DEF PersonStep
<1>5. CASE UNCHANGED vars
  BY <1>0, <1>5 DEF vars, people, accounts, calls, RowsTyped, CallsTyped
<1> QED BY <1>1, <1>2, <1>3, <1>4, <1>5 DEF Next

-----------------------------------------------------------------------------
(***************************************************************************)
(* One call moves: what the others have and hold stays.                    *)
(***************************************************************************)

OnlyCall(k) ==
  \A j \in Calls \ {k} : pc'[j] = pc[j] /\ req'[j] = req[j] /\ firm'[j] = firm[j]

LEMMA OneCallMoves ==
  ASSUME TypeOK, NEW k \in Calls,
         \/ Begin(k) \/ CallStep(k) \/ DeadlockVictim(k)
  PROVE  OnlyCall(k)
<1>0. CallsTyped
  BY TypeSplit
<1>1. ASSUME NEW x, GoesTo(k, x) \/ Ends(k, x) PROVE OnlyCall(k)
  BY <1>0, <1>1 DEF CallsTyped, OnlyCall, GoesTo, Ends
<1>2. CASE Begin(k)
  BY <1>0, <1>2, Begins DEF Enter, CallsTyped, OnlyCall
<1>3. CASE LockPersonToSwitch(k)
  <2>1. CASE \E c \in Companies : /\ firm' = [firm EXCEPT ![k] = c]
                                  /\ pc' = [pc EXCEPT ![k] = "tenant"] /\ UNCHANGED req
    BY <1>0, <2>1 DEF CallsTyped, OnlyCall
  <2> QED BY <1>1, <1>3, <2>1 DEF LockPersonToSwitch
<1>4. CASE CallStep(k) /\ ~LockPersonToSwitch(k)
  BY <1>1, <1>4 DEF CallStep, LockPhone, LockTenantToInvite, LockPersonToInvite, LockTenantToChange,
        LockTenantToDisable, Audit, CommitInvite, CommitRole, CommitRemove, CommitDisable, CommitEnable
<1>5. CASE DeadlockVictim(k)
  BY <1>1, <1>5 DEF DeadlockVictim
<1> QED BY <1>2, <1>3, <1>4, <1>5

LEMMA OthersHold ==
  ASSUME NEW k \in Calls, OnlyCall(k), NEW j \in Calls \ {k}
  PROVE  /\ \A u : HoldsPerson(j, u)' <=> HoldsPerson(j, u)
         /\ \A c : HoldsTenant(j, c)' <=> HoldsTenant(j, c)
BY DEF OnlyCall, HoldsPerson, HoldsTenant

(* A lock is taken when nobody else has it.                                *)
LEMMA LocksTaken ==
  ASSUME LocksExclude, NEW k \in Calls, OnlyCall(k),
         \A u \in Users : HoldsPerson(k, u)' =>
           HoldsPerson(k, u) \/ \A j \in Calls \ {k} : ~HoldsPerson(j, u),
         \A c \in Companies : HoldsTenant(k, c)' =>
           HoldsTenant(k, c) \/ \A j \in Calls \ {k} : ~HoldsTenant(j, c)
  PROVE  LocksExclude'
<1>1. \A i \in Calls \ {k}, j \in Calls, u \in Users :
        HoldsPerson(i, u)' /\ HoldsPerson(j, u)' => i = j
  BY OthersHold DEF LocksExclude
<1>2. \A i \in Calls \ {k}, j \in Calls, c \in Companies :
        HoldsTenant(i, c)' /\ HoldsTenant(j, c)' => i = j
  BY OthersHold DEF LocksExclude
<1>3. \A i, j \in Calls, u \in Users : HoldsPerson(i, u)' /\ HoldsPerson(j, u)' => i = j
  BY <1>1
<1>4. \A i, j \in Calls, c \in Companies : HoldsTenant(i, c)' /\ HoldsTenant(j, c)' => i = j
  BY <1>2
<1> QED BY <1>3, <1>4 DEF LocksExclude

(* Memberships and accounts as they were: so are their invariants, and     *)
(* what the other calls found.                                             *)
LEMMA QuietRows ==
  ASSUME UNCHANGED <<people, accounts>>
  PROVE  /\ RowsFit => RowsFit'
         /\ AdminKept => AdminKept'
         /\ \A u, c : /\ Kept(u, c)' <=> Kept(u, c)
                      /\ Administers(u, c)' <=> Administers(u, c)
                      /\ Live(u, c)' <=> Live(u, c)
         /\ \A u : BelongsSomewhere(u)' <=> BelongsSomewhere(u)
BY DEF people, accounts, RowsFit, AdminKept, Kept, Administers, Live, BelongsSomewhere

LEMMA QuietSettled ==
  ASSUME UNCHANGED <<people, accounts>>, NEW k \in Calls, OnlyCall(k),
         Settled, SettledCall(k)'
  PROVE  Settled'
<1>1. ASSUME NEW j \in Calls \ {k} PROVE SettledCall(j)'
  <2>1. SettledCall(j)
    BY DEF Settled
  <2>2. pc'[j] = pc[j] /\ req'[j] = req[j] /\ firm'[j] = firm[j]
    BY DEF OnlyCall
  <2>3. InviteSettled(j)' /\ DisableSettled(j)'
    BY <2>1, <2>2, QuietRows DEF SettledCall, InviteSettled, DisableSettled
  <2>4. SparesAnAdmin(j)'
    BY <2>1, <2>2, QuietRows DEF SettledCall, SparesAnAdmin
  <2>5. CallerManages(j)'
    BY <2>1, <2>2, QuietRows DEF SettledCall, CallerManages, HoldsTenant
  <2> QED BY <2>1, <2>2, <2>3, <2>4, <2>5 DEF SettledCall
<1> QED BY <1>1 DEF Settled

(* A call that ends holds nothing any more and owes nothing.               *)
LEMMA EndedCall ==
  ASSUME TypeOK, NEW k \in Calls, NEW outcome \in Ended \ {"clash"}, Ends(k, outcome)
  PROVE  /\ SettledCall(k)'
         /\ \A u : ~HoldsPerson(k, u)'
         /\ \A c \in Companies : ~HoldsTenant(k, c)'
<1>1. pc'[k] = outcome /\ req'[k] = NoRequest /\ firm'[k] = NoFirm
  BY TypeSplit DEF CallsTyped, Ends
<1>2. pc'[k] \notin Waiting /\ pc'[k] # "clash"
  BY <1>1 DEF Waiting, Ended
<1>3. req'[k].op = "none"
  BY <1>1, RequestShape
<1>4. "none" \notin MemberOps
  BY DEF MemberOps
<1> QED BY <1>1, <1>2, <1>3, <1>4 DEF SettledCall, InviteSettled, DisableSettled, SparesAnAdmin,
        CallerManages, HoldsPerson, HoldsTenant, Waiting, Ended

LEMMA QuietEnd ==
  ASSUME IInv, NEW k \in Calls, NEW outcome \in Ended \ {"clash"}, Ends(k, outcome),
         OnlyCall(k), UNCHANGED <<people, accounts>>
  PROVE  LocksExclude' /\ RowsFit' /\ Settled' /\ AdminKept'
<1>1. LocksExclude'
  BY EndedCall, LocksTaken DEF IInv
<1> QED BY <1>1, EndedCall, QuietRows, QuietSettled DEF IInv

LEMMA StagedStep == TypeOK /\ Staged /\ RowsFit /\ [Next]_vars => Staged'
<1> SUFFICES ASSUME TypeOK, Staged, RowsFit, [Next]_vars PROVE Staged'
  OBVIOUS
<1>0. CallsTyped
  BY TypeSplit
<1>1. ASSUME NEW k \in Calls, Begin(k) PROVE Staged'
  <2>1. PICK o \in MemberOps \cup AccountOps, a \in Users, u \in Users, r \in Roles,
             c \in Companies \cup {NoFirm}, stage \in Waiting :
          /\ Enter(k, o, a, u, r, c, stage)
          /\ \/ c \in founded /\ o = "invite" /\ stage = "phone"
             \/ c \in founded /\ o \in {"role", "remove"} /\ stage = "tenant"
             \/ c = NoFirm /\ o \in AccountOps /\ stage = "person"
    BY <1>1, Begins
  <2>2. /\ pc'[k] = stage /\ req'[k].op = o /\ firm'[k] = c
        /\ \A j \in Calls \ {k} : pc'[j] = pc[j] /\ req'[j] = req[j] /\ firm'[j] = firm[j]
        /\ founded' = founded
    BY <1>0, <2>1 DEF Enter, CallsTyped, people
  <2>3. founded \subseteq Companies
    BY TypeSplit DEF RowsTyped
  <2> QED BY <2>1, <2>2, <2>3, MembershipAssumption
        DEF MembershipAssumption, Staged, Waiting, MemberOps, AccountOps
<1>2. ASSUME NEW k \in Calls, NEW x \in Ended, Ends(k, x), founded \subseteq founded' PROVE Staged'
  BY <1>0, <1>2, RequestShape DEF Ends, Staged, CallsTyped, Waiting, Ended, MemberOps, AccountOps
<1>3. ASSUME NEW k \in Calls, NEW x \in {"audit", "commit"}, GoesTo(k, x), pc[k] \in Waiting,
             UNCHANGED founded
      PROVE Staged'
  BY <1>0, <1>3 DEF GoesTo, Staged, CallsTyped, Waiting
<1>4. ASSUME NEW k \in Calls, CallStep(k) PROVE Staged'
  <2>1. CASE LockPhone(k)
    BY <1>0, <2>1, RequestShape DEF LockPhone, GoesTo, people, Staged, CallsTyped, Waiting, MemberOps
  <2>2. CASE LockTenantToInvite(k)
    BY <1>0, <1>2, <2>2, RequestShape DEF LockTenantToInvite, GoesTo, people, Staged, CallsTyped,
          Waiting, Ended, MemberOps, AccountOps
  <2>3. CASE LockPersonToInvite(k)
    BY <1>2, <1>3, <2>3 DEF LockPersonToInvite, people, Waiting, Ended
  <2>4. CASE LockTenantToChange(k)
    BY <1>2, <1>3, <2>4 DEF LockTenantToChange, people, Waiting, Ended
  <2>5. CASE LockPersonToSwitch(k)
    <3>1. CASE \E c \in Companies : /\ Administers(req[k].target, c)
                                    /\ firm' = [firm EXCEPT ![k] = c]
                                    /\ pc' = [pc EXCEPT ![k] = "tenant"] /\ UNCHANGED req
                                    /\ req[k].op = "disable"
      <4>1. PICK c \in Companies : /\ Administers(req[k].target, c)
                                   /\ firm' = [firm EXCEPT ![k] = c]
        BY <3>1
      <4>2. req[k].target \in Users
        BY <1>0, <2>5, RequestShape DEF LockPersonToSwitch, CallsTyped, Waiting, Ended
      <4>3. c \in founded /\ c # NoFirm
        BY <4>1, <4>2, MembershipAssumption DEF RowsFit, Administers, MembershipAssumption
      <4> QED BY <1>0, <2>5, <3>1, <4>1, <4>3
            DEF LockPersonToSwitch, people, Staged, CallsTyped, Waiting, MemberOps, AccountOps
    <3> QED BY <1>2, <1>3, <2>5, <3>1 DEF LockPersonToSwitch, people, Waiting, Ended
  <2>6. CASE LockTenantToDisable(k)
    BY <1>2, <1>3, <2>6 DEF LockTenantToDisable, people, Waiting, Ended
  <2>7. CASE Audit(k)
    BY <1>2, <1>3, <2>7 DEF Audit, people, Waiting, Ended
  <2>8. CASE CommitInvite(k) \/ CommitRole(k) \/ CommitRemove(k) \/ CommitDisable(k) \/ CommitEnable(k)
    BY <1>2, <2>8 DEF CommitInvite, CommitRole, CommitRemove, CommitDisable, CommitEnable, people, Ended
  <2> QED BY <1>4, <2>1, <2>2, <2>3, <2>4, <2>5, <2>6, <2>7, <2>8 DEF CallStep
<1>5. ASSUME NEW k \in Calls, DeadlockVictim(k) PROVE Staged'
  BY <1>2, <1>5 DEF DeadlockVictim, people, Ended
<1>6. ASSUME NEW u \in Users, PersonStep(u) PROVE Staged'
  BY <1>6 DEF PersonStep, SetupCompany, SetPlatformAdmin, LoginStarts, LoginReads, LoginActivates,
              calls, people, Staged
<1>7. CASE UNCHANGED vars
  BY <1>7 DEF vars, calls, people, Staged
<1> QED BY <1>1, <1>4, <1>5, <1>6, <1>7 DEF Next

-----------------------------------------------------------------------------
(***************************************************************************)
(* The steps that only take locks and decide.                              *)
(***************************************************************************)

Kept4 == LocksExclude /\ RowsFit /\ Settled /\ AdminKept

LEMMA QuietMove ==
  ASSUME IInv, NEW k \in Calls, OnlyCall(k), UNCHANGED <<people, accounts>>,
         SettledCall(k)',
         \A u \in Users : HoldsPerson(k, u)' =>
           HoldsPerson(k, u) \/ \A j \in Calls \ {k} : ~HoldsPerson(j, u),
         \A c \in Companies : HoldsTenant(k, c)' =>
           HoldsTenant(k, c) \/ \A j \in Calls \ {k} : ~HoldsTenant(j, c)
  PROVE  Kept4'
BY LocksTaken, QuietRows, QuietSettled DEF IInv, Kept4

LEMMA NobodyAwaited ==
  ASSUME NEW k \in Calls, Awaits(k) = {}
  PROVE  /\ pc[k] = "tenant" => \A j \in Calls \ {k} : ~HoldsTenant(j, firm[k])
         /\ pc[k] = "person" => \A j \in Calls \ {k} : ~HoldsPerson(j, req[k].target)
         /\ pc[k] = "commit" => \A j \in Calls \ {k} : /\ ~HoldsPerson(j, req[k].target)
                                                       /\ ~HoldsPerson(j, req[k].caller)
BY DEF Awaits

LEMMA Moved ==
  ASSUME TypeOK, NEW k \in Calls, NEW x, GoesTo(k, x)
  PROVE  pc'[k] = x /\ req'[k] = req[k] /\ firm'[k] = firm[k]
BY TypeSplit DEF CallsTyped, GoesTo

LEMMA BeginKeeps ==
  ASSUME IInv, NEW k \in Calls, Begin(k)
  PROVE  Kept4'
<1>0. TypeOK /\ OnlyCall(k)
  BY OneCallMoves DEF IInv
<1>1. PICK o \in MemberOps \cup AccountOps, a \in Users, u \in Users, r \in Roles,
           c \in Companies \cup {NoFirm}, stage \in Waiting :
        /\ Enter(k, o, a, u, r, c, stage)
        /\ \/ c \in founded /\ o = "invite" /\ stage = "phone"
           \/ c \in founded /\ o \in {"role", "remove"} /\ stage = "tenant"
           \/ c = NoFirm /\ o \in AccountOps /\ stage = "person"
  BY <1>0, Begins
<1>2. /\ pc'[k] = stage /\ req'[k].op = o /\ firm'[k] = c
      /\ UNCHANGED <<people, accounts>>
  BY <1>0, <1>1, TypeSplit DEF Enter, CallsTyped
<1>3. \A v : ~HoldsPerson(k, v)' /\ ~HoldsTenant(k, v)'
  BY <1>1, <1>2 DEF HoldsPerson, HoldsTenant, AccountOps
<1>4. SettledCall(k)'
  BY <1>1, <1>2, <1>3 DEF SettledCall, InviteSettled, DisableSettled, SparesAnAdmin,
     CallerManages, AccountOps
<1> QED BY <1>0, <1>2, <1>3, <1>4, QuietMove

LEMMA LockPhoneKeeps ==
  ASSUME IInv, NEW k \in Calls, LockPhone(k)
  PROVE  Kept4'
<1>0. TypeOK /\ OnlyCall(k) /\ CallStep(k)
  BY OneCallMoves DEF IInv, CallStep
<1>1. /\ pc[k] = "phone" /\ req[k].op = "invite" /\ GoesTo(k, "tenant")
      /\ UNCHANGED <<people, accounts>>
  BY DEF LockPhone, IInv, Staged
<1>2. pc'[k] = "tenant" /\ req'[k].op = "invite"
  BY <1>0, <1>1, Moved
<1>3. \A v : ~HoldsPerson(k, v)' /\ ~HoldsTenant(k, v)'
  BY <1>2 DEF HoldsPerson, HoldsTenant, AccountOps
<1>4. SettledCall(k)'
  BY <1>2, <1>3 DEF SettledCall, InviteSettled, DisableSettled, SparesAnAdmin, CallerManages
<1> QED BY <1>0, <1>1, <1>3, <1>4, QuietMove

(* What was asked at the lock makes the caller one who is kept.            *)
LEMMA StillKept ==
  ASSUME NEW k \in Calls, StillManages(k), ~req[k].staff
  PROVE  Kept(req[k].caller, firm[k])
BY DEF StillManages, Kept

LEMMA LockTenantToInviteKeeps ==
  ASSUME IInv, NEW k \in Calls, LockTenantToInvite(k)
  PROVE  Kept4'
<1>0. TypeOK /\ OnlyCall(k) /\ UNCHANGED <<people, accounts>>
  BY OneCallMoves DEF IInv, CallStep, LockTenantToInvite
<1>1. CASE Ends(k, "refused")
  BY <1>0, <1>1, QuietEnd DEF Ended, Kept4
<1>2. CASE StillManages(k) /\ GoesTo(k, "person")
  <2>1. /\ pc[k] = "tenant" /\ req[k].op = "invite"
        /\ pc'[k] = "person" /\ req'[k] = req[k] /\ firm'[k] = firm[k]
    BY <1>0, <1>2, Moved DEF LockTenantToInvite
  <2>2. \A u : ~HoldsPerson(k, u)'
    BY <2>1 DEF HoldsPerson
  <2>3. \A c : HoldsTenant(k, c)' => c = firm[k] /\ \A j \in Calls \ {k} : ~HoldsTenant(j, c)
    BY <2>1, NobodyAwaited DEF HoldsTenant, LockTenantToInvite
  <2>4. ~req[k].staff => Kept(req[k].caller, firm[k])'
    BY <1>0, <1>2, <2>1, StillKept, QuietRows
  <2>5. SettledCall(k)'
    BY <2>1, <2>4 DEF SettledCall, InviteSettled, DisableSettled, SparesAnAdmin, CallerManages
  <2> QED BY <1>0, <2>2, <2>3, <2>5, QuietMove
<1> QED BY <1>1, <1>2 DEF LockTenantToInvite

LEMMA LockPersonToInviteKeeps ==
  ASSUME IInv, NEW k \in Calls, LockPersonToInvite(k)
  PROVE  Kept4'
<1>0. TypeOK /\ OnlyCall(k) /\ UNCHANGED <<people, accounts>>
  BY OneCallMoves DEF IInv, CallStep, LockPersonToInvite
<1>1. CASE Ends(k, "refused")
  BY <1>0, <1>1, QuietEnd DEF Ended, Kept4
<1>2. CASE MayBeInvited(req[k].target) /\ GoesTo(k, "audit")
  <2>1. /\ pc[k] = "person" /\ req[k].op = "invite"
        /\ pc'[k] = "audit" /\ req'[k] = req[k] /\ firm'[k] = firm[k]
    BY <1>0, <1>2, Moved DEF LockPersonToInvite
  <2>2. \A u : HoldsPerson(k, u)' => u = req[k].target /\ \A j \in Calls \ {k} : ~HoldsPerson(j, u)
    BY <2>1, NobodyAwaited DEF HoldsPerson, LockPersonToInvite
  <2>3. \A c : HoldsTenant(k, c)' => HoldsTenant(k, c)
    BY <2>1 DEF HoldsTenant
  <2>4. CallerManages(k)'
    BY <1>0, <2>1, <2>3, QuietRows DEF IInv, Settled, SettledCall, CallerManages
  <2>5. InviteSettled(k)'
    BY <1>0, <1>2, <2>1, QuietRows DEF MayBeInvited, InviteSettled
  <2>6. SettledCall(k)'
    BY <2>1, <2>4, <2>5 DEF SettledCall, DisableSettled, SparesAnAdmin
  <2> QED BY <1>0, <2>2, <2>3, <2>6, QuietMove
<1> QED BY <1>1, <1>2 DEF LockPersonToInvite

LEMMA EnabledIsKept ==
  ASSUME NEW c, NEW u, OtherAdmin(c, u)
  PROVE  \E v \in Users \ {u} : Kept(v, c)
BY DEF OtherAdmin, Kept

LEMMA LockTenantToChangeKeeps ==
  ASSUME IInv, NEW k \in Calls, LockTenantToChange(k)
  PROVE  Kept4'
<1>0. TypeOK /\ OnlyCall(k) /\ UNCHANGED <<people, accounts>>
  BY OneCallMoves DEF IInv, CallStep, LockTenantToChange
<1>1. CASE \E x \in {"refused", "done"} : Ends(k, x)
  BY <1>0, <1>1, QuietEnd DEF Ended, Kept4
<1>2. CASE /\ MayChange(k) /\ ~LeavesNoAdmin(firm[k], req[k].target)
           /\ GoesTo(k, "audit")
  <2>1. /\ pc[k] = "tenant" /\ req[k].op \in {"role", "remove"}
        /\ pc'[k] = "audit" /\ req'[k] = req[k] /\ firm'[k] = firm[k]
    BY <1>0, <1>2, Moved DEF LockTenantToChange
  <2>2. \A u : ~HoldsPerson(k, u)'
    BY <2>1 DEF HoldsPerson, AccountOps
  <2>3. \A c : HoldsTenant(k, c)' => c = firm[k] /\ \A j \in Calls \ {k} : ~HoldsTenant(j, c)
    BY <2>1, NobodyAwaited DEF HoldsTenant, LockTenantToChange
  <2>4. ~req[k].staff => Kept(req[k].caller, firm[k])'
    BY <1>0, <1>2, <2>1, StillKept, QuietRows DEF MayChange
  <2>5. Administers(req[k].target, firm[k]) => \E v \in Users \ {req[k].target} : Kept(v, firm[k])
    BY <1>2, EnabledIsKept DEF LeavesNoAdmin
  <2>6. SparesAnAdmin(k)'
    BY <1>0, <2>1, <2>5, QuietRows DEF SparesAnAdmin
  <2>7. SettledCall(k)'
    BY <2>1, <2>4, <2>6 DEF SettledCall, InviteSettled, DisableSettled, CallerManages
  <2> QED BY <1>0, <2>2, <2>3, <2>7, QuietMove
<1> QED BY <1>1, <1>2 DEF LockTenantToChange

LEMMA LockPersonToSwitchKeeps ==
  ASSUME IInv, NEW k \in Calls, LockPersonToSwitch(k)
  PROVE  Kept4'
<1>0. /\ TypeOK /\ OnlyCall(k) /\ UNCHANGED <<people, accounts>>
      /\ pc[k] = "person" /\ req[k].op \in AccountOps /\ firm[k] = NoFirm
  BY OneCallMoves DEF IInv, CallStep, LockPersonToSwitch, Staged
<1>1. CASE Ends(k, "done")
  BY <1>0, <1>1, QuietEnd DEF Ended, Kept4
<1>2. CASE GoesTo(k, "audit")
  <2>1. pc'[k] = "audit" /\ req'[k] = req[k] /\ firm'[k] = firm[k]
    BY <1>0, <1>2, Moved
  <2>2. \A u : HoldsPerson(k, u)' => u = req[k].target /\ \A j \in Calls \ {k} : ~HoldsPerson(j, u)
    BY <1>0, <2>1, NobodyAwaited DEF HoldsPerson, LockPersonToSwitch
  <2>3. \A c \in Companies : ~HoldsTenant(k, c)'
    BY <1>0, <2>1, MembershipAssumption DEF HoldsTenant, MembershipAssumption
  <2>4. SettledCall(k)'
    BY <1>0, <2>1 DEF SettledCall, InviteSettled, DisableSettled, SparesAnAdmin, CallerManages,
         AccountOps, MemberOps
  <2> QED BY <1>0, <2>2, <2>3, <2>4, QuietMove
<1>3. CASE /\ req[k].op = "disable"
           /\ \E c \in Companies :
                /\ Administers(req[k].target, c)
                /\ firm' = [firm EXCEPT ![k] = c]
           /\ pc' = [pc EXCEPT ![k] = "tenant"]
           /\ UNCHANGED req
  <2>1. PICK c \in Companies : /\ Administers(req[k].target, c)
                               /\ firm' = [firm EXCEPT ![k] = c]
    BY <1>3
  <2>2. /\ pc'[k] = "tenant" /\ req'[k] = req[k] /\ req[k].op = "disable" /\ firm'[k] = c
        /\ req[k].target \in Users
    BY <1>0, <1>3, <2>1, TypeSplit, RequestShape DEF CallsTyped, Waiting, Ended
  <2>3. \A u : HoldsPerson(k, u)' => u = req[k].target /\ \A j \in Calls \ {k} : ~HoldsPerson(j, u)
    BY <1>0, <2>2, NobodyAwaited DEF HoldsPerson, LockPersonToSwitch
  <2>4. \A d : ~HoldsTenant(k, d)'
    BY <2>2 DEF HoldsTenant
  <2>5. \A d \in Companies : Live(req[k].target, d) => d = c
    BY <2>1, <2>2 DEF IInv, RowsFit, Live, Administers
  <2>6. DisableSettled(k)'
    BY <1>0, <2>2, <2>5, QuietRows DEF DisableSettled
  <2>7. SettledCall(k)'
    BY <2>2, <2>4, <2>6 DEF SettledCall, InviteSettled, SparesAnAdmin, CallerManages
  <2> QED BY <1>0, <2>3, <2>4, <2>7, QuietMove
<1> QED BY <1>1, <1>2, <1>3 DEF LockPersonToSwitch

LEMMA LockTenantToDisableKeeps ==
  ASSUME IInv, NEW k \in Calls, LockTenantToDisable(k)
  PROVE  Kept4'
<1>0. TypeOK /\ OnlyCall(k) /\ UNCHANGED <<people, accounts>>
  BY OneCallMoves DEF IInv, CallStep, LockTenantToDisable
<1>1. CASE Ends(k, "refused")
  BY <1>0, <1>1, QuietEnd DEF Ended, Kept4
<1>2. CASE OtherAdmin(firm[k], req[k].target) /\ GoesTo(k, "audit")
  <2>1. /\ pc[k] = "tenant" /\ req[k].op = "disable"
        /\ pc'[k] = "audit" /\ req'[k] = req[k] /\ firm'[k] = firm[k]
    BY <1>0, <1>2, Moved DEF LockTenantToDisable
  <2>2. \A u : HoldsPerson(k, u)' => HoldsPerson(k, u)
    BY <2>1 DEF HoldsPerson
  <2>3. \A c : HoldsTenant(k, c)' => c = firm[k] /\ \A j \in Calls \ {k} : ~HoldsTenant(j, c)
    BY <2>1, NobodyAwaited DEF HoldsTenant, LockTenantToDisable
  <2>4. SparesAnAdmin(k)'
    BY <1>0, <1>2, <2>1, EnabledIsKept, QuietRows DEF SparesAnAdmin
  <2>5. DisableSettled(k)'
    BY <1>0, <2>1, QuietRows DEF IInv, Settled, SettledCall, DisableSettled
  <2>6. SettledCall(k)'
    BY <2>1, <2>4, <2>5 DEF SettledCall, InviteSettled, CallerManages, MemberOps
  <2> QED BY <1>0, <2>2, <2>3, <2>6, QuietMove
<1> QED BY <1>1, <1>2 DEF LockTenantToDisable

LEMMA AuditKeeps ==
  ASSUME IInv, NEW k \in Calls, Audit(k)
  PROVE  Kept4'
<1>0. TypeOK /\ OnlyCall(k) /\ UNCHANGED <<people, accounts>> /\ pc[k] = "audit" /\ SettledCall(k)
  BY OneCallMoves DEF IInv, CallStep, Audit, Settled
<1>1. CASE Ends(k, "refused")
  BY <1>0, <1>1, QuietEnd DEF Ended, Kept4
<1>2. CASE GoesTo(k, "commit")
  <2>1. pc'[k] = "commit" /\ req'[k] = req[k] /\ firm'[k] = firm[k]
    BY <1>0, <1>2, Moved
  <2>2. \A v : (HoldsPerson(k, v)' => HoldsPerson(k, v)) /\ (HoldsTenant(k, v)' => HoldsTenant(k, v))
    BY <1>0, <2>1 DEF HoldsPerson, HoldsTenant
  <2>3. InviteSettled(k)' /\ DisableSettled(k)' /\ SparesAnAdmin(k)'
    BY <1>0, <2>1, QuietRows DEF SettledCall, InviteSettled, DisableSettled, SparesAnAdmin
  <2>4. CallerManages(k)'
    BY <1>0, <2>1, QuietRows DEF SettledCall, CallerManages, HoldsTenant
  <2> QED BY <1>0, <2>1, <2>2, <2>3, <2>4, QuietMove DEF SettledCall
<1> QED BY <1>1, <1>2 DEF Audit

LEMMA VictimKeeps ==
  ASSUME IInv, NEW k \in Calls, DeadlockVictim(k)
  PROVE  Kept4'
BY OneCallMoves, QuietEnd DEF IInv, DeadlockVictim, Ended, Kept4

-----------------------------------------------------------------------------
(***************************************************************************)
(* The steps that change memberships or accounts.  A call keeps what it    *)
(* found as long as they leave alone what its locks cover.                 *)
(***************************************************************************)

Undisturbed(j) ==
  /\ \A c \in Companies : HoldsTenant(j, c) => \A v \in Users : Kept(v, c) => Kept(v, c)'
  /\ \A u \in Users, c \in Companies :
       HoldsMember(j, u, c) /\ Administers(u, c)' => Administers(u, c)
  /\ \A u \in Users, c \in Companies : HoldsPerson(j, u) /\ Live(u, c)' => Live(u, c)

LEMMA CallShape ==
  ASSUME TypeOK, NEW k \in Calls
  PROVE  /\ firm[k] \in Companies \cup {NoFirm}
         /\ pc[k] \in Waiting <=> req[k].op \in MemberOps \cup AccountOps
         /\ pc[k] \in Waiting => req[k] \in Request /\ req[k].target \in Users /\ req[k].caller \in Users
BY TypeSplit, RequestShape DEF CallsTyped, Waiting, Ended, MemberOps, AccountOps

LEMMA UndisturbedSettled ==
  ASSUME IInv, NEW j \in Calls, Undisturbed(j),
         pc'[j] = pc[j], req'[j] = req[j], firm'[j] = firm[j]
  PROVE  SettledCall(j)'
<1>0. TypeOK /\ SettledCall(j)
  BY DEF IInv, Settled
<1>1. InviteSettled(j)'
  <2> SUFFICES ASSUME req[j].op = "invite", pc[j] \in {"audit", "commit"}
               PROVE  ~BelongsSomewhere(req[j].target)'
    BY DEF InviteSettled
  <2>1. HoldsPerson(j, req[j].target) /\ req[j].target \in Users
    BY <1>0, CallShape DEF HoldsPerson, Waiting
  <2>2. ~BelongsSomewhere(req[j].target)
    BY <1>0 DEF SettledCall, InviteSettled
  <2> QED BY <2>1, <2>2 DEF BelongsSomewhere, Undisturbed
<1>2. DisableSettled(j)'
  <2> SUFFICES ASSUME req[j].op = "disable", firm[j] # NoFirm,
                      NEW c \in Companies, Live(req[j].target, c)'
               PROVE  c = firm[j]
    BY DEF DisableSettled
  <2>1. pc[j] \in Waiting /\ pc[j] # "phone" /\ pc[j] # "person" /\ req[j].target \in Users
    BY <1>0, CallShape DEF IInv, Staged, AccountOps
  <2>2. HoldsPerson(j, req[j].target)
    BY <2>1 DEF HoldsPerson, Waiting, AccountOps
  <2>3. Live(req[j].target, c)
    BY <2>1, <2>2 DEF Undisturbed
  <2> QED BY <1>0, <2>3 DEF SettledCall, DisableSettled
<1>3. SparesAnAdmin(j)'
  <2> SUFFICES ASSUME req[j].op \in {"role", "remove", "disable"}, pc[j] \in {"audit", "commit"},
                      firm[j] # NoFirm,
                      req[j].op = "disable" \/ Administers(req[j].target, firm[j])'
               PROVE  \E v \in Users \ {req[j].target} : Kept(v, firm[j])'
    BY DEF SparesAnAdmin
  <2>1. firm[j] \in Companies /\ req[j].target \in Users /\ HoldsTenant(j, firm[j])
    BY <1>0, CallShape DEF HoldsTenant, Waiting
  <2>2. req[j].op # "disable" => HoldsMember(j, req[j].target, firm[j])
    BY DEF HoldsMember
  <2>3. req[j].op = "disable" \/ Administers(req[j].target, firm[j])
    BY <2>1, <2>2 DEF Undisturbed
  <2>4. PICK v \in Users \ {req[j].target} : Kept(v, firm[j])
    BY <1>0, <2>3 DEF SettledCall, SparesAnAdmin
  <2> QED BY <2>1, <2>4 DEF Undisturbed
<1>4. CallerManages(j)'
  <2> SUFFICES ASSUME req[j].op \in MemberOps, ~req[j].staff, HoldsTenant(j, firm[j])
               PROVE  Kept(req[j].caller, firm[j])'
    BY DEF CallerManages, HoldsTenant
  <2>1. pc[j] \in Waiting
    BY DEF HoldsTenant, Waiting
  <2>2. firm[j] \in Companies /\ req[j].caller \in Users
    BY <1>0, <2>1, CallShape DEF IInv, Staged
  <2>3. Kept(req[j].caller, firm[j])
    BY <1>0 DEF SettledCall, CallerManages
  <2> QED BY <2>2, <2>3 DEF Undisturbed
<1> QED BY <1>0, <1>1, <1>2, <1>3, <1>4 DEF SettledCall

LEMMA CommitSettled ==
  ASSUME IInv, NEW k \in Calls, OnlyCall(k), Ends(k, "done"),
         \A j \in Calls \ {k} : Undisturbed(j)
  PROVE  LocksExclude' /\ Settled'
<1>1. LocksExclude' /\ SettledCall(k)'
  BY EndedCall, LocksTaken DEF IInv, Ended
<1>2. \A j \in Calls \ {k} : SettledCall(j)'
  BY UndisturbedSettled DEF OnlyCall
<1> QED BY <1>1, <1>2 DEF Settled

(* Whoever commits has its company's lock, and its person's.               *)
LEMMA Committing ==
  ASSUME IInv, NEW k \in Calls, pc[k] = "commit"
  PROVE  /\ TypeOK /\ SettledCall(k)
         /\ req[k].target \in Users /\ req[k].op \in MemberOps \cup AccountOps
         /\ req[k].op \in MemberOps => firm[k] \in founded /\ firm[k] \in Companies
         /\ firm[k] \in founded \cup {NoFirm}
         /\ \A j \in Calls \ {k}, c \in Companies : HoldsTenant(j, c) => c # firm[k]
         /\ \A j \in Calls \ {k}, u \in Users :
              HoldsPerson(j, u) /\ req[k].op \in {"invite"} \cup AccountOps => u # req[k].target
<1>1. TypeOK /\ SettledCall(k) /\ LocksExclude /\ pc[k] \in Waiting
  BY DEF IInv, Settled, Waiting
<1>2. HoldsTenant(k, firm[k])
  BY DEF HoldsTenant
<1>3. req[k].op \in {"invite"} \cup AccountOps => HoldsPerson(k, req[k].target)
  BY DEF HoldsPerson
<1>4. /\ req[k].target \in Users /\ req[k].op \in MemberOps \cup AccountOps
      /\ firm[k] \in founded \cup {NoFirm}
      /\ req[k].op \in MemberOps => firm[k] # NoFirm
  BY <1>1, CallShape DEF IInv, Staged
<1>5. founded \subseteq Companies
  BY <1>1, TypeSplit DEF RowsTyped
<1> QED BY <1>1, <1>2, <1>3, <1>4, <1>5 DEF LocksExclude

LEMMA CommitInviteKeeps ==
  ASSUME IInv, NEW k \in Calls, CommitInvite(k)
  PROVE  Kept4'
<1> DEFINE t == req[k].target
           f == firm[k]
<1>0. /\ pc[k] = "commit" /\ req[k].op = "invite" /\ OnlyCall(k) /\ TypeOK
      /\ t \in Users /\ f \in founded /\ f \in Companies
      /\ \A j \in Calls \ {k}, c \in Companies : HoldsTenant(j, c) => c # f
      /\ \A j \in Calls \ {k}, u \in Users : HoldsPerson(j, u) => u # t
  BY OneCallMoves, Committing DEF IInv, CallStep, CommitInvite, Commits, MemberOps
<1>1. ~BelongsSomewhere(t)
  BY <1>0, Committing DEF SettledCall, InviteSettled
<1>2. /\ status' = [status EXCEPT ![t][f] = "invited"]
      /\ role' = [role EXCEPT ![t][f] = req[k].role]
      /\ Ends(k, "done")
      /\ UNCHANGED <<founded, accounts, login>>
  BY <1>1, Zenon DEF CommitInvite
<1>3. /\ status \in [Users -> [Companies -> Statuses]]
      /\ role \in [Users -> [Companies -> Roles]]
  BY <1>0, TypeSplit DEF RowsTyped
<1> HIDE DEF t, f
<1>4. /\ \A u \in Users, c \in Companies : u # t \/ c # f =>
           status'[u][c] = status[u][c] /\ role'[u][c] = role[u][c]
      /\ status'[t][f] = "invited"
      /\ founded' = founded /\ disabled' = disabled /\ unseen' = unseen
  BY <1>0, <1>2, <1>3 DEF accounts
<1>5. \A c \in Companies : ~Live(t, c)
  BY <1>1 DEF BelongsSomewhere
<1>6. ASSUME NEW u \in Users, NEW c \in Companies
      PROVE  /\ Kept(u, c) => Kept(u, c)'
             /\ Administers(u, c)' => Administers(u, c)
             /\ Live(u, c)' => Live(u, c) \/ (u = t /\ c = f)
  <2>1. CASE u = t /\ c = f
    BY <1>4, <1>5, <2>1 DEF Kept, Administers, Live
  <2>2. CASE u # t \/ c # f
    BY <1>4, <2>2 DEF Kept, Administers, Live
  <2> QED BY <2>1, <2>2
<1>7. \A j \in Calls \ {k} : Undisturbed(j)
  <2> SUFFICES ASSUME NEW j \in Calls \ {k} PROVE Undisturbed(j)
    OBVIOUS
  <2>1. \A u \in Users, c \in Companies : HoldsPerson(j, u) /\ Live(u, c)' => Live(u, c)
    BY <1>0, <1>6
  <2> QED BY <1>6, <2>1 DEF Undisturbed
<1>8. RowsFit'
  <2>1. \A u \in Users, c \in Companies, d \in Companies : Live(u, c)' /\ Live(u, d)' => c = d
    BY <1>5, <1>6 DEF IInv, RowsFit
  <2>2. \A u \in Users, c \in Companies : status'[u][c] # "none" => c \in founded
    BY <1>0, <1>4 DEF IInv, RowsFit
  <2>3. unseen' \subseteq disabled'
    BY <1>4 DEF IInv, RowsFit
  <2> QED BY <1>4, <2>1, <2>2, <2>3 DEF RowsFit
<1>9. AdminKept'
  <2>1. founded \subseteq Companies
    BY <1>0, TypeSplit DEF RowsTyped
  <2> QED BY <1>4, <1>6, <2>1 DEF IInv, AdminKept
<1> QED BY <1>0, <1>2, <1>7, <1>8, <1>9, CommitSettled DEF Kept4

LEMMA CommitRoleKeeps ==
  ASSUME IInv, NEW k \in Calls, CommitRole(k)
  PROVE  Kept4'
<1> DEFINE t == req[k].target
           f == firm[k]
<1>0. /\ pc[k] = "commit" /\ req[k].op = "role" /\ OnlyCall(k) /\ TypeOK
      /\ t \in Users /\ f \in founded /\ f \in Companies
      /\ \A j \in Calls \ {k}, c \in Companies : HoldsTenant(j, c) => c # f
  BY OneCallMoves, Committing DEF IInv, CallStep, CommitRole, Commits, MemberOps
<1>1. Administers(t, f) => \E v \in Users \ {t} : Kept(v, f)
  BY <1>0, Committing, MembershipAssumption DEF MembershipAssumption, SettledCall, SparesAnAdmin
<1>2. /\ role' = [role EXCEPT ![t][f] = req[k].role]
      /\ Ends(k, "done")
      /\ UNCHANGED <<status, founded, accounts, login>>
  BY DEF CommitRole
<1>3. role \in [Users -> [Companies -> Roles]] /\ founded \subseteq Companies
  BY <1>0, TypeSplit DEF RowsTyped
<1> HIDE DEF t, f
<1>4. /\ \A u \in Users, c \in Companies : u # t \/ c # f => role'[u][c] = role[u][c]
      /\ status' = status /\ founded' = founded /\ disabled' = disabled /\ unseen' = unseen
  BY <1>0, <1>2, <1>3 DEF accounts
<1>5. \A u \in Users, c \in Companies :
        /\ u # t \/ c # f => (Kept(u, c)' <=> Kept(u, c)) /\ (Administers(u, c)' <=> Administers(u, c))
        /\ Live(u, c)' <=> Live(u, c)
  BY <1>4 DEF Kept, Administers, Live
<1>6. \A j \in Calls \ {k} : Undisturbed(j)
  <2>1. \A j \in Calls \ {k}, u \in Users, c \in Companies : HoldsMember(j, u, c) => HoldsTenant(j, c)
    BY DEF HoldsMember, HoldsTenant
  <2> QED BY <1>0, <1>5, <2>1 DEF Undisturbed
<1>7. RowsFit'
  BY <1>4, <1>5 DEF IInv, RowsFit
<1>8. AdminKept'
  <2> SUFFICES ASSUME NEW c \in founded PROVE \E u \in Users : Kept(u, c)'
    BY <1>4 DEF AdminKept
  <2>1. PICK w \in Users : Kept(w, c)
    BY DEF IInv, AdminKept
  <2>2. CASE w = t /\ c = f
    <3>1. PICK v \in Users \ {t} : Kept(v, f)
      BY <1>1, <2>1, <2>2 DEF Kept
    <3> QED BY <1>0, <1>5, <2>2, <3>1
  <2> QED BY <1>3, <1>5, <2>1, <2>2
<1> QED BY <1>0, <1>2, <1>6, <1>7, <1>8, CommitSettled DEF Kept4

LEMMA CommitRemoveKeeps ==
  ASSUME IInv, NEW k \in Calls, CommitRemove(k)
  PROVE  Kept4'
<1> DEFINE t == req[k].target
           f == firm[k]
<1>0. /\ pc[k] = "commit" /\ req[k].op = "remove" /\ OnlyCall(k) /\ TypeOK
      /\ t \in Users /\ f \in founded /\ f \in Companies
      /\ \A j \in Calls \ {k}, c \in Companies : HoldsTenant(j, c) => c # f
  BY OneCallMoves, Committing DEF IInv, CallStep, CommitRemove, Commits, MemberOps
<1>1. Administers(t, f) => \E v \in Users \ {t} : Kept(v, f)
  BY <1>0, Committing, MembershipAssumption DEF MembershipAssumption, SettledCall, SparesAnAdmin
<1>2. /\ status' = [status EXCEPT ![t][f] = "removed"]
      /\ Ends(k, "done")
      /\ UNCHANGED <<role, founded, accounts, login>>
  BY DEF CommitRemove
<1>3. status \in [Users -> [Companies -> Statuses]] /\ founded \subseteq Companies
  BY <1>0, TypeSplit DEF RowsTyped
<1> HIDE DEF t, f
<1>4. /\ \A u \in Users, c \in Companies : u # t \/ c # f => status'[u][c] = status[u][c]
      /\ status'[t][f] = "removed"
      /\ role' = role /\ founded' = founded /\ disabled' = disabled /\ unseen' = unseen
  BY <1>0, <1>2, <1>3 DEF accounts
<1>5. \A u \in Users, c \in Companies :
        /\ u # t \/ c # f => (Kept(u, c)' <=> Kept(u, c))
        /\ Administers(u, c)' => Administers(u, c)
        /\ Live(u, c)' => Live(u, c)
  BY <1>4 DEF Kept, Administers, Live
<1>6. \A j \in Calls \ {k} : Undisturbed(j)
  BY <1>0, <1>5 DEF Undisturbed
<1>7. RowsFit'
  BY <1>0, <1>4, <1>5 DEF IInv, RowsFit
<1>8. AdminKept'
  <2> SUFFICES ASSUME NEW c \in founded PROVE \E u \in Users : Kept(u, c)'
    BY <1>4 DEF AdminKept
  <2>1. PICK w \in Users : Kept(w, c)
    BY DEF IInv, AdminKept
  <2>2. CASE w = t /\ c = f
    <3>1. PICK v \in Users \ {t} : Kept(v, f)
      BY <1>1, <2>1, <2>2 DEF Kept
    <3> QED BY <1>0, <1>5, <2>2, <3>1
  <2> QED BY <1>3, <1>5, <2>1, <2>2
<1> QED BY <1>0, <1>2, <1>6, <1>7, <1>8, CommitSettled DEF Kept4

(* A disable takes an admin away only from the company it has locked,      *)
(* or puts the person among the unseen.                                    *)
LEMMA CommitDisableKeeps ==
  ASSUME IInv, NEW k \in Calls, CommitDisable(k)
  PROVE  Kept4'
<1> DEFINE t == req[k].target
           f == firm[k]
<1>0. /\ pc[k] = "commit" /\ req[k].op = "disable" /\ OnlyCall(k) /\ TypeOK
      /\ t \in Users /\ SettledCall(k)
      /\ \A j \in Calls \ {k}, c \in Companies : HoldsTenant(j, c) => c # f
  BY OneCallMoves, Committing DEF IInv, CallStep, CommitDisable, Commits
<1>1. f # NoFirm => \E v \in Users \ {t} : Kept(v, f)
  BY <1>0 DEF SettledCall, SparesAnAdmin
<1>2. f # NoFirm => \A c \in Companies : Live(t, c) => c = f
  BY <1>0 DEF SettledCall, DisableSettled
<1>3. /\ disabled' = disabled \cup {t}
      /\ unseen' = IF f = NoFirm THEN unseen \cup {t} ELSE unseen
      /\ Ends(k, "done")
      /\ UNCHANGED people
  BY DEF CommitDisable
<1>4. founded \subseteq Companies
  BY <1>0, TypeSplit DEF RowsTyped
<1> HIDE DEF t, f
<1>5. status' = status /\ role' = role /\ founded' = founded
  BY <1>3 DEF people
<1>6. \A u, c : (Administers(u, c)' <=> Administers(u, c)) /\ (Live(u, c)' <=> Live(u, c))
  BY <1>5 DEF Administers, Live
<1>7. \A u \in Users, c \in Companies : (u # t \/ c # f) /\ Live(u, c) => (Kept(u, c) => Kept(u, c)')
  BY <1>2, <1>3, <1>6 DEF Kept
<1>8. \A u \in Users, c \in Companies : u # t \/ c # f => (Kept(u, c) => Kept(u, c)')
  BY <1>7 DEF Kept, Administers, Live
<1>9. f = NoFirm => \A u \in Users, c \in Companies : Kept(u, c) => Kept(u, c)'
  BY <1>3, <1>6 DEF Kept
<1>10. \A j \in Calls \ {k} : Undisturbed(j)
  BY <1>0, <1>6, <1>8 DEF Undisturbed
<1>11. RowsFit'
  BY <1>3, <1>5, <1>6 DEF IInv, RowsFit
<1>12. AdminKept'
  <2> SUFFICES ASSUME NEW c \in founded PROVE \E u \in Users : Kept(u, c)'
    BY <1>5 DEF AdminKept
  <2>1. PICK w \in Users : Kept(w, c)
    BY DEF IInv, AdminKept
  <2>2. CASE w = t /\ c = f /\ f # NoFirm
    BY <1>1, <1>4, <1>8, <2>2
  <2> QED BY <1>4, <1>8, <1>9, <2>1, <2>2
<1> QED BY <1>0, <1>3, <1>10, <1>11, <1>12, CommitSettled DEF Kept4

LEMMA CommitEnableKeeps ==
  ASSUME IInv, NEW k \in Calls, CommitEnable(k)
  PROVE  Kept4'
<1>0. /\ OnlyCall(k) /\ TypeOK
      /\ disabled' = disabled \ {req[k].target} /\ unseen' = unseen \ {req[k].target}
      /\ Ends(k, "done") /\ UNCHANGED people
  BY OneCallMoves DEF IInv, CallStep, CommitEnable
<1>1. status' = status /\ role' = role /\ founded' = founded
  BY <1>0 DEF people
<1>2. \A u, c : /\ Administers(u, c)' <=> Administers(u, c)
                /\ Live(u, c)' <=> Live(u, c)
                /\ Kept(u, c) => Kept(u, c)'
  BY <1>0, <1>1 DEF Administers, Live, Kept
<1>3. \A j \in Calls \ {k} : Undisturbed(j)
  BY <1>2 DEF Undisturbed
<1>4. RowsFit' /\ AdminKept'
  BY <1>0, <1>1, <1>2 DEF IInv, RowsFit, AdminKept
<1> QED BY <1>0, <1>3, <1>4, CommitSettled DEF Kept4

LEMMA SetupCompanyKeeps ==
  ASSUME IInv, NEW u \in Users, NEW d \in Companies, SetupCompany(u, d)
  PROVE  Kept4'
<1>0. /\ PersonFree(u) /\ ~BelongsSomewhere(u) /\ d \notin founded
      /\ founded' = founded \cup {d} /\ u \notin disabled
      /\ status' = [status EXCEPT ![u][d] = "active"]
      /\ role' = [role EXCEPT ![u][d] = "company_admin"]
      /\ UNCHANGED <<accounts, calls>>
  BY DEF SetupCompany
<1>1. /\ status \in [Users -> [Companies -> Statuses]]
      /\ role \in [Users -> [Companies -> Roles]]
      /\ founded \subseteq Companies
  BY TypeSplit DEF IInv, RowsTyped
<1>2. /\ \A v \in Users, c \in Companies : v # u \/ c # d =>
           status'[v][c] = status[v][c] /\ role'[v][c] = role[v][c]
      /\ status'[u][d] = "active" /\ role'[u][d] = "company_admin"
      /\ disabled' = disabled /\ unseen' = unseen
      /\ pc' = pc /\ req' = req /\ firm' = firm
  BY <1>0, <1>1 DEF accounts, calls
<1>3. \A c \in Companies : ~Live(u, c)
  BY <1>0 DEF BelongsSomewhere
<1>4. \A v \in Users, c \in Companies :
        /\ Kept(v, c) => Kept(v, c)'
        /\ Administers(v, c)' => Administers(v, c) \/ c = d
        /\ Live(v, c)' => Live(v, c) \/ (v = u /\ c = d)
  BY <1>2 DEF Kept, Administers, Live
<1>5. \A j \in Calls : Undisturbed(j)
  <2> SUFFICES ASSUME NEW j \in Calls PROVE Undisturbed(j)
    OBVIOUS
  <2>1. \A v \in Users, c \in Companies : HoldsPerson(j, v) /\ Live(v, c)' => Live(v, c)
    BY <1>0, <1>4 DEF PersonFree
  <2>2. \A v \in Users : HoldsMember(j, v, d) => FALSE
    <3>1. firm[j] \in founded \cup {NoFirm}
      BY DEF IInv, Staged
    <3>2. d # NoFirm
      BY MembershipAssumption DEF MembershipAssumption
    <3> QED BY <1>0, <3>1, <3>2 DEF HoldsMember
  <2> QED BY <1>4, <2>1, <2>2 DEF Undisturbed
<1>6. Settled'
  BY <1>2, <1>5, UndisturbedSettled DEF Settled
<1>7. LocksExclude'
  BY <1>2 DEF IInv, LocksExclude, HoldsPerson, HoldsTenant
<1>8. RowsFit'
  <2>1. \A v \in Users, c \in Companies, e \in Companies : Live(v, c)' /\ Live(v, e)' => c = e
    BY <1>3, <1>4 DEF IInv, RowsFit
  <2>2. \A v \in Users, c \in Companies : status'[v][c] # "none" => c \in founded'
    BY <1>0, <1>2 DEF IInv, RowsFit
  <2> QED BY <1>2, <2>1, <2>2 DEF IInv, RowsFit
<1>9. AdminKept'
  <2> SUFFICES ASSUME NEW c \in founded' PROVE \E v \in Users : Kept(v, c)'
    BY DEF AdminKept
  <2>1. CASE c = d
    BY <1>0, <1>2, <2>1 DEF Kept, Administers
  <2>2. CASE c # d
    BY <1>0, <1>1, <1>4, <2>2 DEF IInv, AdminKept
  <2> QED BY <2>1, <2>2
<1> QED BY <1>6, <1>7, <1>8, <1>9 DEF Kept4

(* The platform's own flag touches no membership.                          *)
LEMMA QuietPersonKeeps ==
  ASSUME IInv, UNCHANGED <<status, role, founded, disabled, unseen, pc, req, firm>>
  PROVE  Kept4'
<1>1. \A u, c : /\ Kept(u, c)' <=> Kept(u, c)
                /\ Administers(u, c)' <=> Administers(u, c)
                /\ Live(u, c)' <=> Live(u, c)
  BY DEF Kept, Administers, Live
<1>2. \A j \in Calls : Undisturbed(j)
  BY <1>1 DEF Undisturbed
<1>3. Settled'
  BY <1>2, UndisturbedSettled DEF Settled
<1>4. LocksExclude'
  BY DEF IInv, LocksExclude, HoldsPerson, HoldsTenant
<1>5. RowsFit' /\ AdminKept'
  BY <1>1 DEF IInv, RowsFit, AdminKept
<1> QED BY <1>3, <1>4, <1>5 DEF Kept4

(* A login makes admins, but no membership that was not live before.       *)
LEMMA LoginActivatesKeeps ==
  ASSUME IInv, NEW u \in Users, LoginActivates(u)
  PROVE  Kept4'
<1>0. /\ \A c \in Companies, k \in Calls : status[u][c] = "invited" => ~HoldsMember(k, u, c)
      /\ status' = [status EXCEPT ![u] = Activated(u)]
      /\ UNCHANGED <<role, founded, accounts, calls>>
  BY DEF LoginActivates
<1>1. status \in [Users -> [Companies -> Statuses]] /\ founded \subseteq Companies
  BY TypeSplit DEF IInv, RowsTyped
<1>2. /\ \A v \in Users, c \in Companies :
           \/ status'[v][c] = status[v][c]
           \/ v = u /\ status[v][c] = "invited" /\ status'[v][c] = "active"
      /\ role' = role /\ founded' = founded
      /\ disabled' = disabled /\ unseen' = unseen
      /\ pc' = pc /\ req' = req /\ firm' = firm
  BY <1>0, <1>1 DEF accounts, calls, Activated
<1>3. \A v \in Users, c \in Companies :
        /\ Kept(v, c) => Kept(v, c)'
        /\ Administers(v, c)' => Administers(v, c) \/ (v = u /\ status[u][c] = "invited")
        /\ Live(v, c)' <=> Live(v, c)
  BY <1>2 DEF Kept, Administers, Live
<1>4. \A j \in Calls : Undisturbed(j)
  BY <1>0, <1>3 DEF Undisturbed
<1>5. Settled'
  BY <1>2, <1>4, UndisturbedSettled DEF Settled
<1>6. LocksExclude'
  BY <1>2 DEF IInv, LocksExclude, HoldsPerson, HoldsTenant
<1>7. RowsFit'
  <2>1. \A v \in Users, c \in Companies, d \in Companies : Live(v, c)' /\ Live(v, d)' => c = d
    BY <1>3 DEF IInv, RowsFit
  <2>2. \A v \in Users, c \in Companies : status'[v][c] # "none" => c \in founded'
    BY <1>2 DEF IInv, RowsFit
  <2> QED BY <1>2, <2>1, <2>2 DEF IInv, RowsFit
<1>8. AdminKept'
  BY <1>1, <1>2, <1>3 DEF IInv, AdminKept
<1> QED BY <1>5, <1>6, <1>7, <1>8 DEF Kept4

-----------------------------------------------------------------------------
(***************************************************************************)
(* The inductive invariant and the theorems.                               *)
(***************************************************************************)

LEMMA KeptStep == IInv /\ [Next]_vars => Kept4'
<1> SUFFICES ASSUME IInv, [Next]_vars PROVE Kept4'
  OBVIOUS
<1>1. ASSUME NEW k \in Calls, Begin(k) PROVE Kept4'
  BY <1>1, BeginKeeps
<1>2. ASSUME NEW k \in Calls, CallStep(k) PROVE Kept4'
  BY <1>2, LockPhoneKeeps, LockTenantToInviteKeeps, LockPersonToInviteKeeps,
     LockTenantToChangeKeeps, LockPersonToSwitchKeeps, LockTenantToDisableKeeps, AuditKeeps,
     CommitInviteKeeps, CommitRoleKeeps, CommitRemoveKeeps, CommitDisableKeeps, CommitEnableKeeps
     DEF CallStep
<1>3. ASSUME NEW k \in Calls, DeadlockVictim(k) PROVE Kept4'
  BY <1>3, VictimKeeps
<1>4. ASSUME NEW u \in Users, PersonStep(u) PROVE Kept4'
  <2>1. CASE \E c \in Companies : SetupCompany(u, c)
    BY <2>1, SetupCompanyKeeps
  <2>2. CASE \E a \in Users : SetPlatformAdmin(a, u)
    BY <2>2, QuietPersonKeeps DEF SetPlatformAdmin, people, calls
  <2>3. CASE LoginStarts(u) \/ LoginReads(u)
    BY <2>3, QuietPersonKeeps DEF LoginStarts, LoginReads, people, accounts, calls
  <2>4. CASE LoginActivates(u)
    BY <2>4, LoginActivatesKeeps
  <2> QED BY <1>4, <2>1, <2>2, <2>3, <2>4 DEF PersonStep
<1>5. CASE UNCHANGED vars
  BY <1>5, QuietPersonKeeps DEF vars, people, accounts, calls
<1> QED BY <1>1, <1>2, <1>3, <1>4, <1>5 DEF Next

LEMMA Founding == Init => IInv
<1> SUFFICES ASSUME Init PROVE IInv
  OBVIOUS
<1>1. TypeOK
  BY InitTyped
<1>2. \A k \in Calls : pc[k] = "idle" /\ req[k].op = "none" /\ firm[k] = NoFirm
  BY RequestShape DEF Init
<1>3. \A u \in Users, c \in Companies : status[u][c] = "none"
  BY DEF Init
<1>4. founded = {} /\ unseen = {}
  BY DEF Init
<1>5. Staged
  BY <1>2, <1>4 DEF Staged, Waiting, AccountOps
<1>6. LocksExclude
  BY <1>2 DEF LocksExclude, HoldsPerson, HoldsTenant
<1>7. RowsFit /\ AdminKept
  BY <1>3, <1>4 DEF RowsFit, AdminKept, Live
<1>8. Settled
  BY <1>2 DEF Settled, SettledCall, InviteSettled, DisableSettled, SparesAnAdmin,
              CallerManages, MemberOps, HoldsTenant
<1> QED BY <1>1, <1>5, <1>6, <1>7, <1>8 DEF IInv

LEMMA Invariance == Spec => []IInv
<1>1. IInv /\ [Next]_vars => IInv'
  BY TypeStep, StagedStep, KeptStep DEF IInv, Kept4
<1> QED BY <1>1, Founding, PTL DEF Spec

(* Types, and a call has a request exactly while it runs.                  *)
THEOREM TypeCorrect == Spec => []TypeOK
<1>1. IInv => TypeOK
  BY DEF IInv
<1> QED BY <1>1, Invariance, PTL

(* However invitations, role changes, removals, disables, logins and       *)
(* founders interleave, a company without an admin who can sign in was     *)
(* left so by a disable that saw no company to check.                      *)
THEOREM AdminsSpared == Spec => []StrandedOnlyByLateLogin
<1>1. IInv => StrandedOnlyByLateLogin
  BY DEF IInv, AdminKept, Kept, StrandedOnlyByLateLogin, RowsFit
<1> QED BY <1>1, Invariance, PTL

(* A person has one live membership at most, and the unique index that     *)
(* would refuse a second one never has to.                                 *)
THEOREM OneLiveMembership == Spec => []IndexNeverRefuses
<1>1. IInv => IndexNeverRefuses
  BY DEF IInv, RowsFit, Settled, SettledCall, IndexNeverRefuses
<1> QED BY <1>1, Invariance, PTL

(* A member change commits for a caller who still manages the company.     *)
THEOREM CallersManage == Spec => CommitsAsManager
<1>1. ASSUME IInv, NEW k \in Calls, pc[k] = "commit", req[k].op \in MemberOps, ~req[k].staff
      PROVE  Administers(req[k].caller, firm[k]) /\ (req[k].caller \in disabled => req[k].caller \in unseen)
  BY <1>1, Committing DEF SettledCall, CallerManages, HoldsTenant, Kept
<1>2. IInv /\ [Next]_vars =>
        [\A k \in Calls :
           /\ pc[k] = "commit" /\ pc'[k] = "done"
           /\ req[k].op \in MemberOps /\ ~req[k].staff
           => /\ Administers(req[k].caller, firm[k])
              /\ req[k].caller \in disabled => req[k].caller \in unseen]_vars
  BY <1>1
<1> QED BY <1>2, Invariance, PTL DEF Spec, CommitsAsManager

(* Only the actions that write the memberships' status matter.             *)
LEMMA StatusWriters ==
  ASSUME [Next]_vars
  PROVE  \/ status' = status
         \/ \E k \in Calls : CommitInvite(k) \/ CommitRemove(k)
         \/ \E u \in Users : \/ \E c \in Companies : SetupCompany(u, c)
                             \/ LoginActivates(u)
<1>1. ASSUME NEW k \in Calls, Begin(k) \/ DeadlockVictim(k) PROVE status' = status
  BY <1>1 DEF Begin, Invite, ChangeRole, RemoveMember, SetDisabled, Enter, DeadlockVictim, people
<1>2. ASSUME NEW k \in Calls, CallStep(k), ~CommitInvite(k), ~CommitRemove(k)
      PROVE  status' = status
  BY <1>2 DEF CallStep, LockPhone, LockTenantToInvite, LockPersonToInvite, LockTenantToChange,
     LockPersonToSwitch, LockTenantToDisable, Audit, CommitRole, CommitDisable, CommitEnable, people
<1>3. ASSUME NEW u \in Users, PersonStep(u), ~LoginActivates(u), ~(\E c \in Companies : SetupCompany(u, c))
      PROVE  status' = status
  BY <1>3 DEF PersonStep, SetPlatformAdmin, LoginStarts, LoginReads, people
<1>4. UNCHANGED vars => status' = status
  BY DEF vars, people
<1> QED BY <1>1, <1>2, <1>3, <1>4 DEF Next

(* A removed membership comes back by a new invitation, never by a login   *)
(* that read the old one.                                                  *)
THEOREM RemovedStayOut == Spec => RemovedUntilInvited
<1>1. ASSUME IInv, [Next]_vars, NEW u \in Users, NEW c \in Companies, status[u][c] = "removed"
      PROVE  status'[u][c] \in {"removed", "invited"}
  <2>1. status \in [Users -> [Companies -> Statuses]]
    BY <1>1, TypeSplit DEF IInv, RowsTyped
  <2>2. ASSUME NEW k \in Calls, CommitInvite(k) PROVE status'[u][c] \in {"removed", "invited"}
    <3>1. CASE BelongsSomewhere(req[k].target)
      BY <1>1, <2>2, <3>1, Zenon DEF CommitInvite, people
    <3>2. CASE ~BelongsSomewhere(req[k].target)
      <4>1. status' = [status EXCEPT ![req[k].target][firm[k]] = "invited"]
        BY <2>2, <3>2, Zenon DEF CommitInvite
      <4> QED BY <1>1, <2>1, <4>1
    <3> QED BY <3>1, <3>2
  <2>3. ASSUME NEW k \in Calls, CommitRemove(k) PROVE status'[u][c] \in {"removed", "invited"}
    BY <1>1, <2>1, <2>3 DEF CommitRemove
  <2>4. ASSUME NEW v \in Users, NEW d \in Companies, SetupCompany(v, d)
        PROVE  status'[u][c] \in {"removed", "invited"}
    <3>1. c \in founded
      BY <1>1 DEF IInv, RowsFit
    <3> QED BY <1>1, <2>1, <2>4, <3>1 DEF SetupCompany
  <2>5. ASSUME NEW v \in Users, LoginActivates(v) PROVE status'[u][c] \in {"removed", "invited"}
    BY <1>1, <2>1, <2>5 DEF LoginActivates, Activated
  <2> QED BY <1>1, <2>2, <2>3, <2>4, <2>5, StatusWriters
<1>2. IInv /\ [Next]_vars =>
        [\A u \in Users, c \in Companies :
           status[u][c] = "removed" => status'[u][c] \in {"removed", "invited"}]_vars
  BY <1>1
<1> QED BY <1>2, Invariance, PTL DEF Spec, RemovedUntilInvited

================================================================================
