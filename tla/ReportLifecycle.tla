--------------------------- MODULE ReportLifecycle ---------------------------
(***************************************************************************)
(* What the reports module promises an owner, with no worker in sight: a   *)
(* request is pending until it is delivered or refused, a delivered report *)
(* has its file, a refused one may be asked for again, and a company never *)
(* has more than MaxInFlight pending requests.                             *)
(***************************************************************************)
EXTENDS FiniteSets, Naturals

CONSTANTS Reports,      \* the rows report_requests may ever hold
          Tenants,      \* the companies
          TenantOf,     \* the company of a request
          MaxInFlight   \* the in-flight cap of the guard trigger (3)

VARIABLES state,        \* what GET /reports/:id tells the owner
          stored        \* the requests whose PDF is in the bucket

lifecycleVars == <<state, stored>>

States == {"absent", "pending", "ready", "failed"}

Pending(t) == {r \in Reports : TenantOf[r] = t /\ state[r] = "pending"}

Init ==
  /\ state = [r \in Reports |-> "absent"]
  /\ stored = {}

(* POST /reports and POST /reports/:id/retry: the row enters the in-flight *)
(* set, which the cap allows or refuses.                                   *)
Ask(r) ==
  /\ state[r] \in {"absent", "failed"}
  /\ Cardinality(Pending(TenantOf[r])) < MaxInFlight
  /\ state' = [state EXCEPT ![r] = "pending"]
  /\ UNCHANGED stored

Store(r) ==
  /\ state[r] # "absent"
  /\ stored' = stored \cup {r}
  /\ UNCHANGED state

Deliver(r) ==
  /\ state[r] = "pending"
  /\ r \in stored
  /\ state' = [state EXCEPT ![r] = "ready"]
  /\ UNCHANGED stored

Refuse(r) ==
  /\ state[r] = "pending"
  /\ state' = [state EXCEPT ![r] = "failed"]
  /\ UNCHANGED stored

Next == \E r \in Reports : Ask(r) \/ Store(r) \/ Deliver(r) \/ Refuse(r)

Spec == Init /\ [][Next]_lifecycleVars
=============================================================================
