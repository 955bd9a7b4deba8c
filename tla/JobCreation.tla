----------------------------- MODULE JobCreation -----------------------------
(***************************************************************************)
(* POST /jobs: a call finds its customer, or finds or creates one by       *)
(* phone, checks the technician and the skill, and creates the job in one  *)
(* transaction that numbers it from the company's counter of the year.     *)
(* The request carries no idempotency key: a retry creates a second job.   *)
(***************************************************************************)
EXTENDS Customers

CONSTANTS Calls,      \* createJob requests
          LastYear,   \* years 1..LastYear pass
          Radix,      \* 10
          Highest,    \* 9999, the last number lpad(..., 4, '0') writes in full
          MaxSends    \* sends, first ones and retries

ASSUME CreationAssumption ==
  /\ IsFiniteSet(Calls)
  /\ LastYear \in Nat \ {0} /\ Radix \in Nat \ {0, 1}
  /\ Highest \in Nat /\ Highest >= Radix - 1
  /\ MaxSends \in Nat

VARIABLES
  stage,    \* per call: its next database call, or how it ended
  wants,    \* per call: the customer it names: by phone with an address, or by id
  attempt,  \* per call: findOrCreateByPhone's retries
  year,     \* the IST year
  counter,  \* job_sequences.last_seq
  jobs,     \* the jobs table: [year, number, customer, by]
  rung,     \* calls that rang their job's technician
  sends

creationVars == <<stage, wants, attempt, year, counter, jobs, rung, sends>>

Wants == [phone : Phones, new : BOOLEAN, own : BOOLEAN]

NoJobs ==
  /\ stage = [c \in Calls |-> "idle"]
  /\ wants \in [Calls -> Wants]
  /\ attempt = [c \in Calls |-> 0]
  /\ year = 1
  /\ counter = [y \in 1..LastYear |-> 0]
  /\ jobs = {}
  /\ rung = {}
  /\ sends = 0

Proceed(c, s) == stage' = [stage EXCEPT ![c] = s]

SendJob(c) ==
  /\ stage[c] \in {"idle", "refused", "failed", "collided"}
  /\ sends < MaxSends /\ sends' = sends + 1
  /\ Proceed(c, IF wants[c].new THEN "lookup" ELSE "byId")
  /\ attempt' = [attempt EXCEPT ![c] = 0]
  /\ UNCHANGED <<book, wants, year, counter, jobs, rung>>

(* Any read or write may fail; the write may have been done.               *)
CallFails(c) ==
  /\ stage[c] \in {"lookup", "insert", "byId", "check"}
  /\ Proceed(c, "failed")
  /\ UNCHANGED <<book, wants, attempt, year, counter, jobs, rung, sends>>

InsertReplyLost(c) ==
  /\ stage[c] = "insert"
  /\ Insert(wants[c].phone, "job_creation", None)
  /\ Proceed(c, "failed")
  /\ UNCHANGED <<wants, attempt, year, counter, jobs, rung, sends>>

ById(c) ==
  /\ stage[c] = "byId"
  /\ Proceed(c, IF Known(wants[c].phone) THEN "check" ELSE "refused")
  /\ UNCHANGED <<book, wants, attempt, year, counter, jobs, rung, sends>>

(* findOrCreateByPhone: link the stored customer, or insert one; the loser *)
(* of a race reads once more.                                              *)
LookUp(c) ==
  /\ stage[c] = "lookup"
  /\ Proceed(c, IF Known(wants[c].phone) THEN "check" ELSE "insert")
  /\ UNCHANGED <<book, wants, attempt, year, counter, jobs, rung, sends>>

InsertCustomer(c) ==
  /\ stage[c] = "insert"
  /\ Insert(wants[c].phone, "job_creation", None)
  /\ Proceed(c, "check")
  /\ UNCHANGED <<wants, attempt, year, counter, jobs, rung, sends>>

InsertRefused(c) ==
  /\ stage[c] = "insert" /\ Known(wants[c].phone)
  /\ \/ attempt[c] >= 1 /\ Proceed(c, "persisted") /\ UNCHANGED attempt
     \/ /\ attempt[c] < 1 /\ Proceed(c, "lookup")
        /\ attempt' = [attempt EXCEPT ![c] = @ + 1]
  /\ UNCHANGED <<book, wants, year, counter, jobs, rung, sends>>

(* The technician must be an active employee, the skill active and with a  *)
(* template; both are read before the transaction.                         *)
Checks(c) ==
  /\ stage[c] = "check"
  /\ \E ok \in BOOLEAN : Proceed(c, IF ok THEN "create" ELSE "refused")
  /\ UNCHANGED <<book, wants, attempt, year, counter, jobs, rung, sends>>

-----------------------------------------------------------------------------
(* lpad keeps the first digits: of the first number with one too many, all *)
(* but the last.  The counter moves with a job only, so it stops there.    *)
Label(n) == IF n <= Highest THEN n ELSE n \div Radix

Numbered(y) == {j \in jobs : j.year = y}
Taken(y, n) == \E j \in Numbered(y) : j.number = n

Job(c, n) == [year |-> year, number |-> n, customer |-> wants[c].phone, by |-> c]

(* Mutant: the counter is a sequence of its own, kept when the insert is    *)
(* rolled back.                                                            *)
RollBackNextval == /\ counter' = [counter EXCEPT ![year] = @ + 1]
                   /\ UNCHANGED jobs

RollBack == UNCHANGED <<counter, jobs>>

(* create_job_with_log: counter, job and log entry commit together or not  *)
(* at all; the unique index on the number may refuse the insert.           *)
Create(c) ==
  /\ stage[c] = "create"
  /\ LET n == Label(counter[year] + 1) IN
       \/ /\ ~Taken(year, n)
          /\ counter' = [counter EXCEPT ![year] = @ + 1]
          /\ jobs' = jobs \cup {Job(c, n)}
          /\ \E s \in {IF wants[c].own THEN "done" ELSE "ring", "failed"} : Proceed(c, s)
       \/ Taken(year, n) /\ RollBack /\ Proceed(c, "collided")
       \/ RollBack /\ Proceed(c, "failed")
  /\ UNCHANGED <<book, wants, attempt, year, rung, sends>>

(* insertJobAssignedNotification: a failure is logged and dropped.         *)
Ring(c) ==
  /\ stage[c] = "ring"
  /\ rung' \in {rung, rung \cup {c}}
  /\ Proceed(c, "done")
  /\ UNCHANGED <<book, wants, attempt, year, counter, jobs, sends>>

NewYear ==
  /\ year < LastYear
  /\ year' = year + 1
  /\ UNCHANGED <<book, stage, wants, attempt, counter, jobs, rung, sends>>

CreationStep(c) ==
  \/ SendJob(c) \/ CallFails(c) \/ InsertReplyLost(c)
  \/ ById(c) \/ LookUp(c) \/ InsertCustomer(c) \/ InsertRefused(c)
  \/ Checks(c) \/ Create(c) \/ Ring(c)

CreationNext == NewYear \/ \E c \in Calls : CreationStep(c)

(* A company's job creations beside its owner's edits.                     *)
CreationInit ==
  /\ CustomersType
  /\ NoJobs

CreationSpec ==
  CreationInit /\ [][CreationNext \/ (OwnerEdits /\ UNCHANGED creationVars)]_<<book, creationVars>>

-----------------------------------------------------------------------------
(* increment_job_counter: the numbers of a year's jobs are 1 to the        *)
(* counter, each on one job, whatever failed, collided or was retried; the *)
(* index on the number refuses a job only after the digits have run out.   *)
NumbersGapFree ==
  /\ \A y \in 1..LastYear :
       /\ {j.number : j \in Numbered(y)} = 1..counter[y]
       /\ Cardinality(Numbered(y)) = counter[y]
  /\ \A c \in Calls : stage[c] = "collided" =>
       \E y \in 1..LastYear : counter[y] = Highest

(* findOrCreateByPhone, "one re-read is enough for a genuine phone-        *)
(* uniqueness race": the insert after the second look-up is never refused, *)
(* whoever else adds customers meanwhile.                                  *)
SecondLookupFinds == \A c \in Calls : stage[c] # "persisted"

(* Every number on one job, every caller's phone on one customer.          *)
CreationsAccounted == NumbersGapFree /\ SecondLookupFinds
=============================================================================
