----------------------------- MODULE ReportQueue -----------------------------
(***************************************************************************)
(* The PDF report queue: the report_requests table, the owner's create and *)
(* retry calls, and the in-process workers that poll the table, claim a    *)
(* row under a lease, render, upload, stamp and notify.  One action per    *)
(* database call or upload of a worker, so that two server instances (a    *)
(* deploy overlaps them) interleave between any two awaits.                *)
(*                                                                         *)
(* A lease is "held" until LeaseExpires: a render may outlive its lease,   *)
(* because nothing in the pipeline times it out.  MaxRetries and MaxFaults *)
(* bound the owner's retries and the crashes and failed calls.             *)
(***************************************************************************)
EXTENDS Naturals, Sequences, FiniteSets, Functions

CONSTANTS Reports, Tenants, TenantOf,
          Workers,       \* the server instances, one poll worker each
          MaxInFlight,   \* v_max of the guard trigger (3)
          Concurrency,   \* REPORT_WORKER_CONCURRENCY (default 1)
          MaxAttempts,   \* REPORT_MAX_ATTEMPTS (default 3)
          MaxRetries, MaxFaults,
          Nobody

ASSUME QueueAssumption ==
  /\ IsFiniteSet(Reports)
  /\ TenantOf \in [Reports -> Tenants]
  /\ MaxInFlight \in Nat \ {0}
  /\ Concurrency \in Nat \ {0}
  /\ MaxAttempts \in Nat \ {0}
  /\ MaxRetries \in Nat
  /\ MaxFaults \in Nat
  /\ Nobody \notin Workers

VARIABLES
  \* the report_requests table, by column:
  status, lease, attempts, r2_key, created,
  objects,   \* the report PDFs in the R2 bucket
  notices,   \* the report notifications inserted
  pc,        \* where each worker's tick stands
  todo,      \* the candidates its tick still has to process, current one first
  seen,      \* the status its final re-read returned
  holder,    \* history: the worker whose claim of the row is the latest
  runs,      \* history: pipeline runs of the row since it was last queued
  put,       \* history: has this attempt's upload returned?
  retries, faults

row == <<status, lease, attempts, r2_key, created>>
tick == <<pc, todo>>
locals == <<seen, put>>
history == <<holder, runs>>

vars == <<row, objects, notices, tick, locals, history, retries, faults>>

-----------------------------------------------------------------------------
Statuses == {"none", "queued", "generating", "ready", "failed"}
InFlight == {"queued", "generating"}
Terminal == {"ready", "failed"}
Leases == {"none", "held", "expired"}

Candidate == [id : Reports, attempts : Nat]

(* "recover" is the second guarded UPDATE of claimAndProcess, "fail" the   *)
(* pipeline's catch, "giveUp" the exceeded-attempts branch.                *)
Busy == {"claim", "recover", "run", "stamp", "fail", "giveUp", "reread",
         "notify"}
Stages == {"idle", "stranded"} \cup Busy

InFlightOf(t) == {r \in Reports : TenantOf[r] = t /\ status[r] \in InFlight}

QueuedRows == {r \in Reports : status[r] = "queued"}

(* Mutant: recovery without the locked_until predicate.                    *)
StrandedRowsAnyLease == {r \in Reports : status[r] = "generating"}

StrandedRows ==
  {r \in Reports : status[r] = "generating" /\ lease[r] = "expired"}

(* The up to Concurrency rows a SELECT ... LIMIT may return.               *)
Limited(S) ==
  {s \in [1..(IF Cardinality(S) <= Concurrency THEN Cardinality(S)
                                               ELSE Concurrency) -> S] :
     IsInjective(s)}

(* ORDER BY created_at: whatever is older than a listed row precedes it.   *)
OldestFirst(S) ==
  {s \in Limited(S) :
     \A i \in DOMAIN s : \A r \in S :
       created[r] < created[s[i]] => \E j \in 1..(i - 1) : s[j] = r}

Candidates(s) ==
  [i \in DOMAIN s |-> [id |-> s[i], attempts |-> attempts[s[i]]]]

Sliced(s) == SubSeq(s, 1, IF Len(s) <= Concurrency THEN Len(s) ELSE Concurrency)

(* The report the worker is processing.                                    *)
Job(w) == Head(todo[w]).id

Fault == faults < MaxFaults /\ faults' = faults + 1

TypeOK ==
  /\ status \in [Reports -> Statuses]
  /\ lease \in [Reports -> Leases]
  /\ attempts \in [Reports -> Nat]
  /\ r2_key \in [Reports -> BOOLEAN]
  /\ created \in [Reports -> Nat]
  /\ objects \in SUBSET Reports
  /\ notices \in SUBSET (Reports \X Terminal)
  /\ pc \in [Workers -> Stages]
  /\ todo \in [Workers -> Seq(Candidate)]
  /\ seen \in [Workers -> Statuses]
  /\ holder \in [Reports -> Workers \cup {Nobody}]
  /\ runs \in [Reports -> Nat]
  /\ put \in [Workers -> BOOLEAN]
  /\ retries \in Nat
  /\ faults \in Nat

Init ==
  /\ status = [r \in Reports |-> "none"]
  /\ lease = [r \in Reports |-> "none"]
  /\ attempts = [r \in Reports |-> 0]
  /\ r2_key = [r \in Reports |-> FALSE]
  /\ created = [r \in Reports |-> 0]
  /\ objects = {}
  /\ notices = {}
  /\ pc = [w \in Workers |-> "idle"]
  /\ todo = [w \in Workers |-> <<>>]
  /\ seen = [w \in Workers |-> "none"]
  /\ holder = [r \in Reports |-> Nobody]
  /\ runs = [r \in Reports |-> 0]
  /\ put = [w \in Workers |-> FALSE]
  /\ retries = 0
  /\ faults = 0

-----------------------------------------------------------------------------
(* The owner.  The guard trigger counts under a per-tenant advisory lock   *)
(* held to commit, so the count and the write are one step.                *)

UnderCap(r) == Cardinality(InFlightOf(TenantOf[r])) < MaxInFlight

CreateReport(r) ==
  /\ status[r] = "none"
  /\ UnderCap(r)
  /\ status' = [status EXCEPT ![r] = "queued"]
  /\ created' = [created EXCEPT ![r] =
       Cardinality({q \in Reports : status[q] # "none"}) + 1]
  /\ UNCHANGED <<lease, attempts, r2_key, objects, notices, history, tick,
                 locals, retries, faults>>

(* Mutant: the guard trigger on INSERT only, as before migration ...009.   *)
RetryReportUncapped(r) ==
  /\ status[r] = "failed"
  /\ retries < MaxRetries
  /\ retries' = retries + 1
  /\ status' = [status EXCEPT ![r] = "queued"]
  /\ lease' = [lease EXCEPT ![r] = "none"]
  /\ attempts' = [attempts EXCEPT ![r] = 0]
  /\ runs' = [runs EXCEPT ![r] = 0]
  /\ UNCHANGED <<r2_key, created, objects, notices, holder, tick, locals,
                 faults>>

RetryReport(r) ==
  /\ status[r] = "failed"
  /\ UnderCap(r)
  /\ retries < MaxRetries
  /\ retries' = retries + 1
  /\ status' = [status EXCEPT ![r] = "queued"]
  /\ lease' = [lease EXCEPT ![r] = "none"]
  /\ attempts' = [attempts EXCEPT ![r] = 0]
  /\ runs' = [runs EXCEPT ![r] = 0]
  /\ UNCHANGED <<r2_key, created, objects, notices, holder, tick, locals,
                 faults>>

LeaseExpires(r) ==
  /\ status[r] = "generating"
  /\ lease[r] = "held"
  /\ lease' = [lease EXCEPT ![r] = "expired"]
  /\ UNCHANGED <<status, attempts, r2_key, created, objects, notices, history,
                 tick, locals, retries, faults>>

-----------------------------------------------------------------------------
(* A tick: the two candidate reads, then one candidate after the other.    *)

PollQueued(w) ==
  /\ pc[w] = "idle"
  /\ \E s \in OldestFirst(QueuedRows) :
       todo' = [todo EXCEPT ![w] = Candidates(s)]
  /\ pc' = [pc EXCEPT ![w] = "stranded"]
  /\ UNCHANGED <<row, objects, notices, history, locals, retries, faults>>

PollStranded(w) ==
  /\ pc[w] = "stranded"
  /\ \E s \in Limited(StrandedRows) :
       /\ todo' = [todo EXCEPT ![w] = Sliced(todo[w] \o Candidates(s))]
       /\ pc' = [pc EXCEPT ![w] =
            IF todo[w] \o Candidates(s) = <<>> THEN "idle" ELSE "claim"]
  /\ UNCHANGED <<row, objects, notices, history, locals, retries, faults>>

(* A failed read of candidateIds throws out of the tick.                   *)
PollFails(w) ==
  /\ pc[w] = "stranded"
  /\ Fault
  /\ pc' = [pc EXCEPT ![w] = "idle"]
  /\ todo' = [todo EXCEPT ![w] = <<>>]
  /\ UNCHANGED <<row, objects, notices, history, locals, retries>>

(* What claimAndProcess knew of the row is gone once it returns.           *)
Forget(w) ==
  /\ seen' = [seen EXCEPT ![w] = "none"]
  /\ put' = [put EXCEPT ![w] = FALSE]

(* processOne returned (or swallowed an error): on to the next candidate.  *)
NextCandidate(w) ==
  /\ todo' = [todo EXCEPT ![w] = Tail(@)]
  /\ pc' = [pc EXCEPT ![w] = IF Len(todo[w]) = 1 THEN "idle" ELSE "claim"]
  /\ Forget(w)

Goto(w, stage) ==
  /\ pc' = [pc EXCEPT ![w] = stage]
  /\ UNCHANGED <<todo, seen>>

-----------------------------------------------------------------------------
(* claimQueuedReport and recoverExpiredReport.                             *)

(* Mutant: the claim forgets locked_until.                                 *)
ClaimRowNoLease(w) ==
  /\ status' = [status EXCEPT ![Job(w)] = "generating"]
  /\ lease' = [lease EXCEPT ![Job(w)] = "none"]
  /\ attempts' = [attempts EXCEPT ![Job(w)] = Head(todo[w]).attempts + 1]
  /\ holder' = [holder EXCEPT ![Job(w)] = w]
  /\ UNCHANGED <<r2_key, created>>

(* Both UPDATEs write the same columns; attempt_count comes from the poll. *)
ClaimRow(w) ==
  /\ status' = [status EXCEPT ![Job(w)] = "generating"]
  /\ lease' = [lease EXCEPT ![Job(w)] = "held"]
  /\ attempts' = [attempts EXCEPT ![Job(w)] = Head(todo[w]).attempts + 1]
  /\ holder' = [holder EXCEPT ![Job(w)] = w]
  /\ UNCHANGED <<r2_key, created>>

StartRun(w) ==
  /\ Goto(w, "run")
  /\ runs' = [runs EXCEPT ![Job(w)] = @ + 1]
  /\ UNCHANGED <<put, faults>>

(* The UPDATE was applied and its reply was lost: the claim throws.        *)
ReplyLost(w) ==
  /\ Fault
  /\ NextCandidate(w)
  /\ UNCHANGED runs

ClaimQueued(w) ==
  /\ pc[w] = "claim"
  /\ status[Job(w)] = "queued"
  /\ ClaimRow(w)
  /\ StartRun(w) \/ ReplyLost(w)
  /\ UNCHANGED <<objects, notices, retries>>

ClaimMissed(w) ==
  /\ pc[w] = "claim"
  /\ status[Job(w)] # "queued"
  /\ Goto(w, "recover")
  /\ UNCHANGED <<row, objects, notices, history, put, retries, faults>>

Exhausted(w) == Head(todo[w]).attempts + 1 > MaxAttempts

GiveUp(w) ==
  /\ Goto(w, "giveUp")
  /\ UNCHANGED <<runs, put, faults>>

RecoverExpired(w) ==
  /\ pc[w] = "recover"
  /\ Job(w) \in StrandedRows
  /\ ClaimRow(w)
  /\ \/ Exhausted(w) /\ GiveUp(w)
     \/ ~Exhausted(w) /\ StartRun(w)
     \/ ReplyLost(w)
  /\ UNCHANGED <<objects, notices, retries>>

RecoverMissed(w) ==
  /\ pc[w] = "recover"
  /\ Job(w) \notin StrandedRows
  /\ NextCandidate(w)
  /\ UNCHANGED <<row, objects, notices, history, retries, faults>>

(* A claim, or the final re-read, fails before anything is written.        *)
CallFails(w) ==
  /\ pc[w] \in {"claim", "recover", "reread"}
  /\ Fault
  /\ NextCandidate(w)
  /\ UNCHANGED <<row, objects, notices, history, retries>>

-----------------------------------------------------------------------------
(* ReportPipelineService.run: fetch, build, render and upload write only   *)
(* the object; then the stamp, guarded on status = 'generating'.           *)

Upload(w) ==
  /\ pc[w] = "run"
  /\ objects' = objects \cup {Job(w)}
  /\ put' = [put EXCEPT ![w] = TRUE]
  /\ Goto(w, "stamp")
  /\ UNCHANGED <<row, notices, history, retries, faults>>

(* Mutant: an upload error is logged and the row stamped all the same.     *)
GenerateFailsSwallowed(w) ==
  /\ pc[w] = "run"
  /\ objects' \in {objects, objects \cup {Job(w)}}
  /\ Goto(w, "stamp")
  /\ UNCHANGED <<row, notices, history, put, retries, faults>>

(* Fetch, build or render throws, or the upload does, perhaps after the    *)
(* object was written.                                                     *)
GenerateFails(w) ==
  /\ pc[w] = "run"
  /\ objects' \in {objects, objects \cup {Job(w)}}
  /\ Goto(w, "fail")
  /\ UNCHANGED <<row, notices, history, put, retries, faults>>

(* Mutant: the stamp without its status guard.                             *)
StampReadyRowUnguarded(r) ==
  /\ status' = [status EXCEPT ![r] = "ready"]
  /\ r2_key' = [r2_key EXCEPT ![r] = TRUE]
  /\ UNCHANGED <<lease, attempts, created>>

(* A stamp is a guarded UPDATE: zero rows, and no error, once the row has  *)
(* left generating.                                                        *)
StampReadyRow(r) ==
  \/ /\ status[r] = "generating"
     /\ status' = [status EXCEPT ![r] = "ready"]
     /\ r2_key' = [r2_key EXCEPT ![r] = TRUE]
     /\ UNCHANGED <<lease, attempts, created>>
  \/ status[r] # "generating" /\ UNCHANGED row

MarkFailedRow(r) ==
  \/ /\ status[r] = "generating"
     /\ status' = [status EXCEPT ![r] = "failed"]
     /\ UNCHANGED <<lease, attempts, r2_key, created>>
  \/ status[r] # "generating" /\ UNCHANGED row

StampReady(w) ==
  /\ pc[w] = "stamp"
  /\ StampReadyRow(Job(w))
  /\ Goto(w, "reread")
  /\ UNCHANGED <<objects, notices, history, put, retries, faults>>

(* The stamp throws, applied or not, and run's catch marks the row failed. *)
StampReadyFails(w) ==
  /\ pc[w] = "stamp"
  /\ Fault
  /\ StampReadyRow(Job(w)) \/ UNCHANGED row
  /\ Goto(w, "fail")
  /\ UNCHANGED <<objects, notices, history, put, retries>>

MarkFailed(w) ==
  /\ pc[w] \in {"fail", "giveUp"}
  /\ MarkFailedRow(Job(w))
  /\ Goto(w, "reread")
  /\ UNCHANGED <<objects, notices, history, put, retries, faults>>

(* The pipeline swallows a failed stamp; the give-up branch throws it.     *)
MarkFailedFails(w) ==
  /\ Fault
  /\ \/ pc[w] = "fail" /\ Goto(w, "reread") /\ UNCHANGED put
     \/ pc[w] = "giveUp" /\ NextCandidate(w)
  /\ MarkFailedRow(Job(w)) \/ UNCHANGED row
  /\ UNCHANGED <<objects, notices, history, retries>>

-----------------------------------------------------------------------------
(* readRow, then notifyTerminal with the row it returned.                  *)

RereadTerminal(w) ==
  /\ pc[w] = "reread"
  /\ status[Job(w)] \in Terminal
  /\ seen' = [seen EXCEPT ![w] = status[Job(w)]]
  /\ pc' = [pc EXCEPT ![w] = "notify"]
  /\ UNCHANGED <<row, objects, notices, history, todo, put,
                 retries, faults>>

RereadUnfinished(w) ==
  /\ pc[w] = "reread"
  /\ status[Job(w)] \notin Terminal
  /\ NextCandidate(w)
  /\ UNCHANGED <<row, objects, notices, history, retries, faults>>

(* Mutant: the worker announces its own outcome instead of the row's.      *)
NotifyOwnOutcome(w) ==
  /\ pc[w] = "notify"
  /\ notices' = notices \cup {<<Job(w), IF put[w] THEN "ready" ELSE "failed">>}
  /\ NextCandidate(w)
  /\ UNCHANGED <<row, objects, history, retries, faults>>

Notify(w) ==
  /\ pc[w] = "notify"
  /\ notices' = notices \cup {<<Job(w), seen[w]>>}
  /\ NextCandidate(w)
  /\ UNCHANGED <<row, objects, history, retries, faults>>

(* The insert failed: logged and dropped.                                  *)
NotifyDropped(w) ==
  /\ pc[w] = "notify"
  /\ Fault
  /\ NextCandidate(w)
  /\ UNCHANGED <<row, objects, notices, history, retries>>

(* A deploy or a crash kills the instance; its successor starts polling.   *)
Crash(w) ==
  /\ pc[w] # "idle"
  /\ Fault
  /\ pc' = [pc EXCEPT ![w] = "idle"]
  /\ todo' = [todo EXCEPT ![w] = <<>>]
  /\ Forget(w)
  /\ UNCHANGED <<row, objects, notices, history, retries>>

-----------------------------------------------------------------------------
WorkerStep(w) ==
  \/ PollQueued(w) \/ PollStranded(w)
  \/ ClaimQueued(w) \/ ClaimMissed(w) \/ RecoverExpired(w) \/ RecoverMissed(w)
  \/ Upload(w) \/ GenerateFails(w) \/ StampReady(w) \/ MarkFailed(w)
  \/ RereadTerminal(w) \/ RereadUnfinished(w) \/ Notify(w)

FaultStep(w) ==
  \/ PollFails(w) \/ CallFails(w) \/ StampReadyFails(w) \/ MarkFailedFails(w)
  \/ NotifyDropped(w) \/ Crash(w)

Next ==
  \/ \E r \in Reports : CreateReport(r) \/ RetryReport(r) \/ LeaseExpires(r)
  \/ \E w \in Workers : WorkerStep(w) \/ FaultStep(w)

Spec == Init /\ [][Next]_vars

(* setInterval keeps ticking and every await of a tick settles; a lease is *)
(* a deadline, so it passes.                                               *)
Fairness ==
  /\ \A w \in Workers : WF_vars(WorkerStep(w))
  /\ \A r \in Reports : WF_vars(LeaseExpires(r))

FairSpec == Spec /\ Fairness

-----------------------------------------------------------------------------
(* A row is ready only when its PDF is in the bucket and its r2_key is set *)
(* ("a row is never ready without an uploaded file"), whatever crashed,    *)
(* failed or was recovered in between.                                     *)
ReadyHasFile ==
  \A r \in Reports :
    status[r] = "ready" => r \in objects /\ r2_key[r]

(* A company never has more than MaxInFlight queued and generating rows,   *)
(* across creates, retries, claims and recoveries.                         *)
CapHolds ==
  \A t \in Tenants : Cardinality(InFlightOf(t)) <= MaxInFlight

(* The owner is told a report is ready only when it is: a notice written   *)
(* by a worker that lost its row never announces another outcome.          *)
NoticesTruthful ==
  \A r \in Reports : <<r, "ready">> \in notices => status[r] = "ready"

(* No step changes a ready row: not a stale worker's stamp, a recovery, a  *)
(* retry or a claim of an old candidate.                                   *)
ReadyIsFinal ==
  [][\A r \in Reports : status[r] = "ready" =>
       /\ status'[r] = status[r] /\ attempts'[r] = attempts[r]
       /\ lease'[r] = lease[r] /\ r2_key'[r] = r2_key[r]]_vars

(* While a lease runs, nobody else takes the row over.                     *)
LeaseExcludes ==
  [][\A r \in Reports :
       status[r] = "generating" /\ lease[r] = "held"
         => holder'[r] = holder[r]]_vars

(* A request is generated at most MaxAttempts times per queueing           *)
(* (REPORT_MAX_ATTEMPTS "caps recovery re-runs").  One instance at a time: *)
(* of two, one may count from a candidate it read before the other's run.  *)
RunBudget == \A r \in Reports : runs[r] <= MaxAttempts

(* Every accepted request is eventually ready or failed: a crash strands a *)
(* row only until its lease expires and a later tick recovers it.          *)
EveryRequestSettles ==
  \A r \in Reports :
    status[r] \in InFlight ~> status[r] \in Terminal

(* The owner sees exactly the promised life cycle: statuses and the bucket *)
(* project to ReportLifecycle.                                             *)
Shown(s) ==
  CASE s = "none" -> "absent"
    [] s \in InFlight -> "pending"
    [] s = "ready" -> "ready"
    [] s = "failed" -> "failed"

Lifecycle == INSTANCE ReportLifecycle
  WITH state <- [r \in Reports |-> Shown(status[r])], stored <- objects

ImplementsLifecycle == Lifecycle!Spec

=============================================================================
