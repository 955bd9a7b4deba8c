------------------------------ MODULE MCDelivery ------------------------------
(* Calls to the server that go on after their first statement, each in a scene *)
(* of its own: the push messages of two notices, the stored answer of a        *)
(* request, the reports of a company with room for both of its requests, the   *)
(* codes sent to phones, what an account asks for itself, the counters that    *)
(* slow a caller down, the reports of a photo, and the operator's purge beside  *)
(* the application.                                                            *)
EXTENDS PushSweep, IdempotentRequests, SignIn, RateLimits,
        PhotoModeration, AccountPurge, TLC

CONSTANTS n1, n2, ann, bob, t1, t2, s1, s2, a1, a2, a3,
          MaxHits,   \* bound: calls one counter counts
          MaxFiled   \* bound: deletion requests of one account

VARIABLES scene,
          counter,   \* the one counter of its scene
          status, lease, attempts, r2_key, created, objects, notices,
          pc, todo, seen, holder, runs, put, retries, crashes

Reports == {"r1", "r2"}
TenantOf == [r \in Reports |-> "t"]

Queue == INSTANCE ReportQueue
  WITH Tenants <- {"t"}, Workers <- {s1}, MaxInFlight <- 2, Concurrency <- 2,
       MaxAttempts <- 2, MaxRetries <- 1, MaxFaults <- 2, faults <- crashes

queueVars == <<status, lease, attempts, r2_key, created, objects, notices,
               pc, todo, seen, holder, runs, put, retries, crashes>>

(* One counter for each limit.                                                 *)
MCKind == [k1 |-> "autosuggest", k2 |-> "resolve", k3 |-> "reverse",
           k4 |-> "geocode", k5 |-> "otp", k6 |-> "taken", k7 |-> "failures"]
MCKeys == DOMAIN MCKind

(* own runs company a; tec works there, and did for company b, which boss      *)
(* runs; exa ran company a once.  tec2 is tec's phone signing up again.        *)
Person(phone) == [table |-> "users", refs |-> <<>>, phone |-> phone]
Member(user, tenant, role, state, at) ==
  [table |-> "memberships", refs |-> [user_id |-> user, tenant_id |-> tenant],
   role |-> role, status |-> state, created |-> at]
Row(table, refs) == [table |-> table, refs |-> refs]

MCData ==
  [own |-> Person("1"), tec |-> Person("2"), boss |-> Person("3"),
   exa |-> Person("4"), tec2 |-> Person("2"),
   a |-> Row("tenants", [created_by |-> "own"]),
   b |-> Row("tenants", [created_by |-> "boss"]),
   m_own |-> Member("own", "a", "company_admin", "active", 1),
   m_tec |-> Member("tec", "a", "employee", "active", 3),
   m_exa |-> Member("exa", "a", "company_admin", "removed", 2),
   m_boss |-> Member("boss", "b", "company_admin", "active", 1),
   m_tecb |-> Member("tec", "b", "employee", "removed", 2),
   kay |-> Row("customers", [tenant_id |-> "a"]),
   job |-> Row("jobs", [technician_id |-> "tec", customer_id |-> "kay", tenant_id |-> "a"]),
   jobb |-> Row("jobs", [technician_id |-> "tec", tenant_id |-> "b"]),
   log |-> Row("activity_logs", [actor_id |-> "own", job_id |-> "job", tenant_id |-> "a"]),
   logb |-> Row("activity_logs", [actor_id |-> "boss", job_id |-> "jobb", tenant_id |-> "b"]),
   upl |-> Row("attachment_uploads", [job_id |-> "job", tenant_id |-> "a"]),
   pic |-> Row("attachments", [job_id |-> "job", upload_id |-> "upl", tenant_id |-> "a"]),
   rep |-> Row("attachment_reports",
               [attachment_id |-> "pic", reporter_id |-> "own", tenant_id |-> "a"]),
   bell |-> Row("notifications", [user_id |-> "own", job_id |-> "job", tenant_id |-> "a"]),
   over |-> Row("attendance_day_overrides",
                [employee_id |-> "tec", created_by |-> "exa", tenant_id |-> "a"]),
   fix |-> Row("attendance_corrections",
               [employee_id |-> "tec", actor_id |-> "own", override_id |-> "over",
                tenant_id |-> "a"]),
   ask |-> Row("leave_requests",
               [employee_id |-> "tec", created_by |-> "exa", tenant_id |-> "a"]),
   event |-> Row("leave_events",
                 [employee_id |-> "tec", actor_id |-> "tec", leave_request_id |-> "ask",
                  tenant_id |-> "a"]),
   tok |-> Row("device_tokens", [user_id |-> "tec"]),
   aud |-> Row("audit_log",
               [actor_user_id |-> "tec", target_user_id |-> "exa", tenant_id |-> "a"])]

(* Added while the operator works, if at all.                                  *)
MCOriginal == DOMAIN MCData \ {"tec2", "fix", "event", "aud"}

Starts ==
  {f \in [Phones -> Accounts] : \A p, q \in Phones : p # q => f[p] # f[q]}

Init ==
  /\ scene \in {"push", "requests", "reports", "codes", "own", "limits", "photos", "purge"}
  /\ PushInit /\ RequestInit /\ Queue!Init
  /\ IF scene = "own" THEN \E f \in Starts : SignInInit(f)
     ELSE SignInInit([p \in Phones |-> NoAccount])
  /\ RateInit
  /\ IF scene = "limits" THEN counter \in Keys ELSE counter = "k1"
  /\ PhotoInit /\ PurgeInit
  /\ scene # "purge" => ~drifted

(* Codes are sent to phones without an account at first ...                    *)
CodesNext ==
  \/ \E c \in Calls : CodeStep(c) \/ CodeBegins(c)
  \/ \E s \in Sessions : Expire(s)
  \/ \E a \in Accounts : flipFlag(a)
  \/ SignInRestart

(* ... and two accounts, both platform admins, ask for something of their own. *)
OwnNext ==
  \/ \E c \in Calls : CodeStep(c) \/ AccountBegins(c)
  \/ \E admin, a \in Accounts, n \in 1..MaxFiled, verdict \in {"completed", "rejected"} :
       Resolve(admin, a, n, verdict)

LimitsNext ==
  \/ \E r \in Requests : RateStep(r) \/ Arrive(r, counter)
  \/ Tick
  \/ RateRestart

Next ==
  /\ UNCHANGED <<scene, counter>>
  /\ \/ /\ scene = "push"
        /\ UNCHANGED <<requestVars, queueVars, signInVars, limitVars, photoVars, purgeVars>>
        /\ PushNext
     \/ /\ scene = "requests"
        /\ UNCHANGED <<pushVars, queueVars, signInVars, limitVars, photoVars, purgeVars>>
        /\ RequestNext
     \/ /\ scene = "reports"
        /\ UNCHANGED <<pushVars, requestVars, signInVars, limitVars, photoVars, purgeVars>>
        /\ Queue!Next
     \/ /\ scene = "codes"
        /\ UNCHANGED <<pushVars, requestVars, queueVars, limitVars, photoVars, purgeVars>>
        /\ CodesNext
     \/ /\ scene = "own"
        /\ UNCHANGED <<pushVars, requestVars, queueVars, limitVars, photoVars, purgeVars>>
        /\ OwnNext
        /\ \A a \in Accounts : Cardinality(filed'[a]) <= MaxFiled
     \/ /\ scene = "limits"
        /\ UNCHANGED <<pushVars, requestVars, queueVars, signInVars, photoVars, purgeVars>>
        /\ LimitsNext
        /\ hits'[counter] <= MaxHits
     \/ /\ scene = "photos"
        /\ UNCHANGED <<pushVars, requestVars, queueVars, signInVars, limitVars, purgeVars>>
        /\ PhotoNext
     \/ /\ scene = "purge"
        /\ UNCHANGED <<pushVars, requestVars, queueVars, signInVars, limitVars, photoVars>>
        /\ PurgeNext

Spec ==
  /\ Init
  /\ [][Next]_<<scene, counter, pushVars, requestVars, queueVars, signInVars,
                limitVars, photoVars, purgeVars>>
  /\ WF_queueVars(scene = "reports" /\ Queue!WorkerStep(s1))
  /\ \A r \in Reports : WF_queueVars(scene = "reports" /\ Queue!LeaseExpires(r))

(* Every accepted request is eventually ready or failed, after at most         *)
(* MaxAttempts generations per queueing.                                       *)
RequestsSettleInBudget == []Queue!RunBudget /\ Queue!EveryRequestSettles
===============================================================================
