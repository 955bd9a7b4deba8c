---------------------------- MODULE MCMemberships ----------------------------
EXTENDS Memberships, TLC

CONSTANTS k1, k2, c1, c2, u1, u2, u3

(* A company with an admin, beside whom another person is invited as an    *)
(* admin, is one, or is an employee; the third person is a platform admin, *)
(* or a stranger who may be invited; the other company is yet to come.     *)
(* The platform admins change in the scenarios where nobody is invited.    *)
MCInit ==
  /\ \E second \in {<<"invited", "company_admin", FirstStaff, MaxFlags>>,
                    <<"active", "employee", FirstStaff, 0>>,
                    <<"active", "company_admin", {}, 0>>} :
       /\ status = [u \in Users |-> [c \in Companies |->
                     IF c # c1 \/ u = u1 THEN "none"
                     ELSE IF u = u2 THEN "active" ELSE second[1]]]
       /\ role = [u \in Users |-> [c \in Companies |->
                   IF c # c1 \/ u = u1 THEN "employee"
                   ELSE IF u = u2 THEN "company_admin" ELSE second[2]]]
       /\ staff = second[3]
       /\ flags = second[4]
  /\ founded = {c1}
  /\ disabled = {} /\ unseen = {}
  /\ pc = [k \in Calls |-> "idle"]
  /\ req = [k \in Calls |-> NoRequest]
  /\ firm = [k \in Calls |-> NoFirm]
  /\ login = [u \in Users |-> "out"]

MCSpec == MCInit /\ [][Next]_vars

(* Some call that is not blocked goes on, or the detector breaks a cycle.  *)
MCFairSpec == MCSpec /\ WF_vars(\E k \in Calls : CallStep(k) \/ DeadlockVictim(k))

=============================================================================
