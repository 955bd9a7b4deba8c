----------------------------- MODULE JobWorkflow -----------------------------
(***************************************************************************)
(* One job: its jobs row, its activity_logs rows and the notifications it  *)
(* causes.  Every handler reads first and calls an RPC later; the RPCs     *)
(* lock the row and check again.  One action per database call, so reads   *)
(* go stale between them.                                                  *)
(*                                                                         *)
(* current_step is the index of the step in the stamped template, 0 for    *)
(* NULL.  Refusals that only answer an error, and edits of columns no      *)
(* other component reads (description, window, priority), change nothing   *)
(* modelled and are not actions.  MaxUpdates bounds the PATCH calls that   *)
(* carry a technicianId.                                                   *)
(***************************************************************************)
EXTENDS Naturals, Sequences, FiniteSets

CONSTANTS Admins,      \* the active company admins
          Employees,   \* whoever a job may have been assigned to, an admin
                       \* promoted since included
          Template,    \* the stamped template's steps
          NoOne,       \* the NULL actor or technician
          Idle,        \* no advance call in flight
          MaxUpdates

ASSUME JobAssumption ==
  /\ Template \in Seq([sets : {"keep", "in_progress", "completed"},
                       photo : BOOLEAN])
  /\ NoOne \notin Admins \cup Employees
  /\ Idle \notin Nat
  /\ MaxUpdates \in Nat

VARIABLES
  status, step, technician,  \* the jobs row
  stepLog,      \* its step_* log entries: who advanced it
  reassignLog,  \* its job_reassigned entries
  cancelLog,    \* its job_cancelled entries
  stepBells,    \* step notifications per admin and step
  assignBells,  \* job.assigned notifications per employee
  advance,      \* per employee: the step an advance call has read, or Idle
  updPc, updTarget, updSeen,  \* per admin: the reassigning PATCH in flight
  updates       \* bound: reassigning PATCHes so far

job == <<status, step, technician>>
logs == <<stepLog, reassignLog, cancelLog>>
upd == <<updPc, updTarget, updSeen>>

jobVars == <<job, logs, stepBells, assignBells, advance, upd, updates>>

-----------------------------------------------------------------------------
Statuses == {"scheduled", "in_progress", "completed", "cancelled"}
Open == {"scheduled", "in_progress"}

Assignable == Employees \ Admins

N == Len(Template)

JobInit ==
  /\ status = "scheduled"
  /\ step = 0
  /\ technician \in Employees
  /\ stepLog = <<>> /\ reassignLog = <<>> /\ cancelLog = <<>>
  /\ stepBells = [b \in Admins \X (1..N) |-> 0]
  /\ assignBells = [e \in Employees |-> 0]
  /\ advance = [e \in Employees |-> Idle]
  /\ updPc = [a \in Admins |-> "idle"]
  /\ updTarget = [a \in Admins |-> NoOne]
  /\ updSeen = [a \in Admins |-> NoOne]
  /\ updates = 0

-----------------------------------------------------------------------------
(* advance_workflow_step: the checks it makes under the row lock ...       *)
(* Mutant of the check: without the status.                                *)
AdvanceableAnyStatus(expected) == step = expected

Advanceable(expected) == status \in Open /\ step = expected

(* ... and what it writes: the row, the log, the other admins' bells.      *)
WriteAdvance(actor, k) ==
  /\ step' = k
  /\ status' = IF Template[k].sets = "keep" THEN status ELSE Template[k].sets
  /\ stepLog' = Append(stepLog, [step |-> k, by |-> actor])
  /\ stepBells' = [b \in Admins \X (1..N) |->
                     IF b[2] = k /\ b[1] # actor THEN stepBells[b] + 1
                     ELSE stepBells[b]]
  /\ UNCHANGED <<technician, reassignLog, cancelLog, assignBells>>

(* advanceWorkflowStep's read: ownership, open status, and a next step to  *)
(* ask for.  The call asks for the step after the one it saw.              *)
ReadJob(e) ==
  /\ advance[e] = Idle
  /\ technician = e
  /\ status \in Open
  /\ step < N
  /\ advance' = [advance EXCEPT ![e] = step]
  /\ UNCHANGED <<job, logs, stepBells, assignBells, upd, updates>>

AdvanceStep(e) ==
  /\ advance[e] # Idle
  /\ Advanceable(advance[e])
  /\ WriteAdvance(e, advance[e] + 1)
  /\ advance' = [advance EXCEPT ![e] = Idle]
  /\ UNCHANGED <<upd, updates>>

(* PT409, a failed call or a dead server: the job did not move.            *)
AdvanceRefused(e) ==
  /\ advance[e] # Idle
  /\ advance' = [advance EXCEPT ![e] = Idle]
  /\ UNCHANGED <<job, logs, stepBells, assignBells, upd, updates>>

-----------------------------------------------------------------------------
Modifiable == status = "scheduled"

CancelJob(a) ==
  /\ Modifiable
  /\ status' = "cancelled"
  /\ cancelLog' = Append(cancelLog, a)
  /\ UNCHANGED <<step, technician, stepLog, reassignLog, stepBells,
                 assignBells, advance, upd, updates>>

(* updateJob's read of the incumbent, NoOne when it fails, and its check   *)
(* that the target is an employee of the company.                          *)
ReadTechnician(a, target) ==
  /\ updPc[a] = "idle"
  /\ updates < MaxUpdates
  /\ updates' = updates + 1
  /\ \E seen \in {technician, NoOne} :
       updSeen' = [updSeen EXCEPT ![a] = seen]
  /\ updPc' = [updPc EXCEPT ![a] = "rpc"]
  /\ updTarget' = [updTarget EXCEPT ![a] = target]
  /\ UNCHANGED <<job, logs, stepBells, assignBells, advance>>

(* The handler's frame is dropped when the call returns.                   *)
EndUpdate(a) ==
  /\ updPc' = [updPc EXCEPT ![a] = "idle"]
  /\ updTarget' = [updTarget EXCEPT ![a] = NoOne]
  /\ updSeen' = [updSeen EXCEPT ![a] = NoOne]

(* The entry names the technician the lock holder found in the row.        *)
(* Mutant: it names the one the handler had read.                          *)
LogReassignAsRead(a, target) ==
  reassignLog' = IF target = updSeen[a] THEN reassignLog
                 ELSE Append(reassignLog, [old |-> updSeen[a], new |-> target])

LogReassign(a, target) ==
  reassignLog' = IF target = technician THEN reassignLog
                 ELSE Append(reassignLog, [old |-> technician, new |-> target])

Reassign(a) ==
  LET target == updTarget[a]
      seen == updSeen[a]
  IN /\ updPc[a] = "rpc"
     /\ Modifiable
     /\ technician' = target
     /\ LogReassign(a, target)
     /\ IF seen # NoOne /\ target # seen /\ target # a
        THEN /\ updPc' = [updPc EXCEPT ![a] = "ring"]
             /\ UNCHANGED <<updTarget, updSeen>>
        ELSE EndUpdate(a)
     /\ UNCHANGED <<status, step, stepLog, cancelLog, stepBells, assignBells,
                    advance, updates>>

(* PT409, a failed call, a dead server, or the notification dropped.       *)
UpdateEnds(a) ==
  /\ updPc[a] # "idle"
  /\ EndUpdate(a)
  /\ UNCHANGED <<job, logs, stepBells, assignBells, advance, updates>>

RingAssigned(a) ==
  /\ updPc[a] = "ring"
  /\ assignBells' = [assignBells EXCEPT ![updTarget[a]] = @ + 1]
  /\ EndUpdate(a)
  /\ UNCHANGED <<job, logs, stepBells, advance, updates>>

-----------------------------------------------------------------------------
(* The RPCs that take the row lock, and everything else.                   *)
JobLocking ==
  \/ \E e \in Employees : AdvanceStep(e)
  \/ \E a \in Admins : CancelJob(a) \/ Reassign(a)

JobUnlocked ==
  \/ \E e \in Employees : ReadJob(e) \/ AdvanceRefused(e)
  \/ \E a \in Admins : UpdateEnds(a) \/ RingAssigned(a)
  \/ \E a \in Admins, target \in Assignable : ReadTechnician(a, target)

JobNext == JobLocking \/ JobUnlocked

JobSpec == JobInit /\ [][JobNext]_jobVars

-----------------------------------------------------------------------------
JobTypeOK ==
  /\ status \in Statuses
  /\ step \in 0..N
  /\ technician \in Employees
  /\ stepLog \in Seq([step : 1..N, by : Employees \cup {NoOne}])
  /\ reassignLog \in Seq([old : Employees, new : Employees])
  /\ cancelLog \in Seq(Admins)
  /\ stepBells \in [Admins \X (1..N) -> Nat]
  /\ assignBells \in [Employees -> Nat]
  /\ advance \in [Employees -> (0..N) \cup {Idle}]
  /\ updPc \in [Admins -> {"idle", "rpc", "ring"}]
  /\ updTarget \in [Admins -> Assignable \cup {NoOne}]
  /\ updSeen \in [Admins -> Employees \cup {NoOne}]
  /\ updates \in 0..MaxUpdates

(* Whoever races - a stale advance, an offline replay, the photo confirm - *)
(* the step entries of the log are the template's steps up to current_step,*)
(* each once and in order.                                                 *)
StepsLoggedInOrder ==
  /\ Len(stepLog) = step
  /\ \A i \in 1..step : stepLog[i].step = i

(* The reassignment entries form a chain: each starts with the technician  *)
(* the one before it ended with, and the last ends with the incumbent,     *)
(* though two admins may reassign from the same stale page.                *)
ReassignChain ==
  /\ \A i \in 1..Len(reassignLog) :
       /\ reassignLog[i].old # reassignLog[i].new
       /\ i > 1 => reassignLog[i].old = reassignLog[i - 1].new
  /\ reassignLog # <<>> => reassignLog[Len(reassignLog)].new = technician

Lifecycle == INSTANCE JobLifecycle WITH Technicians <- Employees

(* The job behaves as JobLifecycle promises.                               *)
ImplementsJobLifecycle == Lifecycle!Lifecycle

(* Whoever raced, the two logs tell the job's whole story.                 *)
LogsTellTheJob == StepsLoggedInOrder /\ ReassignChain
=============================================================================
