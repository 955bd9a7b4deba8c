-------------------------- MODULE ReportQueueProofs --------------------------
(***************************************************************************)
(* What TLAPS proves of the report queue, for any number of requests,      *)
(* companies and workers and any cap, concurrency and attempt budget.      *)
(***************************************************************************)
EXTENDS ReportQueue, FiniteSetTheorems, SequenceTheorems, TLAPS

(***************************************************************************)
(* Lemmas about the operators of the model.                                *)
(***************************************************************************)

LEMMA CandidatesType ==
  ASSUME TypeOK, NEW S \in SUBSET Reports, NEW s \in Limited(S)
  PROVE  Candidates(s) \in Seq(Candidate)
<1>1. IsFiniteSet(S)
  BY QueueAssumption, FS_Subset DEF QueueAssumption
<1>2. Cardinality(S) \in Nat
  BY <1>1, FS_CardinalityType
<1>3. PICK n \in Nat : s \in [1..n -> S]
  BY <1>2, QueueAssumption DEF Limited, QueueAssumption
<1>4. Candidates(s) \in [1..n -> Candidate]
  BY <1>3 DEF Candidates, Candidate, TypeOK
<1> QED
  BY <1>4, SeqDef

LEMMA SlicedType ==
  ASSUME NEW X, NEW s \in Seq(X)
  PROVE  Sliced(s) \in Seq(X)
<1>1. CASE Len(s) <= Concurrency
  BY <1>1, SubSeqFull DEF Sliced
<1>2. CASE ~(Len(s) <= Concurrency)
  <2>1. Len(s) \in Nat /\ Concurrency \in Nat
    BY LenProperties, QueueAssumption DEF QueueAssumption
  <2>2. Concurrency \in 1 .. Len(s)
    BY <1>2, <2>1, QueueAssumption DEF QueueAssumption
  <2>3. SubSeq(s, 1, Concurrency) \in Seq(X)
    BY <2>1, <2>2, SubSeqProperties
  <2> QED BY <1>2, <2>3 DEF Sliced
<1> QED BY <1>1, <1>2

LEMMA SlicedNonempty ==
  ASSUME NEW X, NEW s \in Seq(X), s # <<>>
  PROVE  Sliced(s) # <<>>
<1>1. Len(s) \in Nat /\ Concurrency \in Nat /\ Concurrency >= 1
  BY LenProperties, QueueAssumption DEF QueueAssumption
<1>2. CASE Len(s) <= Concurrency
  BY <1>2, SubSeqFull DEF Sliced
<1>3. CASE ~(Len(s) <= Concurrency)
  <2>1. \A i \in 1 .. Concurrency : s[i] \in X
    BY <1>1, <1>3, LenProperties
  <2>2. Len(Sliced(s)) = Concurrency - 1 + 1
    BY <1>1, <1>3, <2>1, SubSeqProperties DEF Sliced
  <2> QED BY <1>1, <2>2, EmptySeq
<1> QED BY <1>2, <1>3

(***************************************************************************)
(* Type correctness.  A busy worker has a current candidate, and a worker  *)
(* about to notify has read a terminal status.                             *)
(***************************************************************************)
Structure ==
  \A w \in Workers : /\ pc[w] \in Busy => todo[w] # <<>>
                     /\ pc[w] = "notify" => seen[w] \in Terminal

TypeInv == TypeOK /\ Structure

RowTypeOK ==
  /\ status \in [Reports -> Statuses]
  /\ lease \in [Reports -> Leases]
  /\ attempts \in [Reports -> Nat]
  /\ r2_key \in [Reports -> BOOLEAN]
  /\ created \in [Reports -> Nat]

WorkerTypeOK ==
  /\ pc \in [Workers -> Stages]
  /\ todo \in [Workers -> Seq(Candidate)]
  /\ seen \in [Workers -> Statuses]
  /\ put \in [Workers -> BOOLEAN]

LEMMA JobType ==
  ASSUME TypeInv, NEW w \in Workers, pc[w] \in Busy
  PROVE  /\ Job(w) \in Reports
         /\ Head(todo[w]).attempts \in Nat
         /\ todo[w] \in Seq(Candidate) /\ todo[w] # <<>>
<1>1. todo[w] \in Seq(Candidate) /\ todo[w] # <<>>
  BY DEF TypeInv, TypeOK, Structure
<1>2. Head(todo[w]) \in Candidate
  BY <1>1, HeadTailProperties
<1> QED
  BY <1>1, <1>2 DEF Candidate, Job

LEMMA NextCandidateType ==
  ASSUME TypeInv, NEW w \in Workers, pc[w] \in Busy, NextCandidate(w)
  PROVE  WorkerTypeOK' /\ Structure'
<1>1. /\ todo[w] \in Seq(Candidate) /\ todo[w] # <<>>
      /\ Tail(todo[w]) \in Seq(Candidate)
      /\ Len(Tail(todo[w])) = Len(todo[w]) - 1
      /\ Len(todo[w]) \in Nat
  BY JobType, HeadTailProperties, LenProperties
<1>2. Len(todo[w]) # 1 => Tail(todo[w]) # <<>>
  <2> SUFFICES ASSUME Tail(todo[w]) = <<>> PROVE Len(todo[w]) = 1
    OBVIOUS
  <2>1. Len(Tail(todo[w])) = 0
    BY EmptySeq
  <2> QED BY <1>1, <2>1
<1>3. WorkerTypeOK'
  BY <1>1 DEF TypeInv, TypeOK, WorkerTypeOK, NextCandidate, Forget, Stages,
              Busy, Statuses
<1>4. Structure'
  BY <1>1, <1>2 DEF TypeInv, TypeOK, Structure, NextCandidate, Forget, Stages,
                    Busy
<1> QED BY <1>3, <1>4

LEMMA GotoType ==
  ASSUME TypeInv, NEW w \in Workers, pc[w] \in Busy,
         NEW stage \in Busy \ {"notify"}, Goto(w, stage)
  PROVE  /\ pc' \in [Workers -> Stages]
         /\ todo' \in [Workers -> Seq(Candidate)]
         /\ seen' \in [Workers -> Statuses]
         /\ Structure'
BY DEF TypeInv, TypeOK, Structure, Goto, Stages

LEMMA ClaimRowType ==
  ASSUME TypeInv, NEW w \in Workers, pc[w] \in Busy, ClaimRow(w)
  PROVE  /\ RowTypeOK'
         /\ holder' \in [Reports -> Workers \cup {Nobody}]
<1>1. Job(w) \in Reports /\ Head(todo[w]).attempts + 1 \in Nat
  BY JobType
<1> QED
  BY <1>1 DEF TypeInv, TypeOK, ClaimRow, RowTypeOK, Statuses, Leases

LEMMA StampType ==
  ASSUME TypeInv, NEW r \in Reports,
         StampReadyRow(r) \/ MarkFailedRow(r) \/ UNCHANGED row
  PROVE  RowTypeOK'
BY DEF TypeInv, TypeOK, RowTypeOK, StampReadyRow, MarkFailedRow, row, Statuses

LEMMA FaultType == ASSUME TypeInv, Fault PROVE faults' \in Nat
BY DEF TypeInv, TypeOK, Fault

LEMMA InitTypeInv == Init => TypeInv
<1> SUFFICES ASSUME Init PROVE TypeInv
  OBVIOUS
<1>1. <<>> \in Seq(Candidate)
  BY EmptySeq
<1> QED
  BY <1>1 DEF Init, TypeInv, TypeOK, Structure, Statuses, Leases,
              Stages, Busy

LEMMA OwnerStepTypeInv ==
  ASSUME TypeInv, NEW r \in Reports,
         CreateReport(r) \/ RetryReport(r) \/ LeaseExpires(r)
  PROVE  TypeInv'
<1>1. CASE CreateReport(r)
  <2>1. Cardinality({q \in Reports : status[q] # "none"}) + 1 \in Nat
    BY QueueAssumption, FS_Subset, FS_CardinalityType DEF QueueAssumption
  <2> QED
    BY <1>1, <2>1 DEF TypeInv, TypeOK, Structure, CreateReport, Statuses,
                      Leases, history, tick, locals
<1>2. CASE RetryReport(r)
  BY <1>2 DEF TypeInv, TypeOK, Structure, RetryReport, Statuses, Leases,
              tick, locals
<1>3. CASE LeaseExpires(r)
  BY <1>3 DEF TypeInv, TypeOK, Structure, LeaseExpires, Leases, history,
              tick, locals
<1> QED BY <1>1, <1>2, <1>3

LEMMA PollTypeInv ==
  ASSUME TypeInv, NEW w \in Workers,
         PollQueued(w) \/ PollStranded(w) \/ PollFails(w)
  PROVE  TypeInv'
<1>1. CASE PollQueued(w)
  <2>1. PICK s \in OldestFirst(QueuedRows) :
          todo' = [todo EXCEPT ![w] = Candidates(s)]
    BY <1>1 DEF PollQueued
  <2>2. QueuedRows \in SUBSET Reports /\ s \in Limited(QueuedRows)
    BY DEF QueuedRows, OldestFirst
  <2>3. Candidates(s) \in Seq(Candidate)
    BY <2>2, CandidatesType DEF TypeInv
  <2> QED
    BY <1>1, <2>1, <2>3 DEF TypeInv, TypeOK, Structure, PollQueued, Stages,
                            Busy, row, history, locals
<1>2. CASE PollStranded(w)
  <2>1. PICK s \in Limited(StrandedRows) :
          /\ todo' = [todo EXCEPT ![w] = Sliced(todo[w] \o Candidates(s))]
          /\ pc' = [pc EXCEPT ![w] =
               IF todo[w] \o Candidates(s) = <<>> THEN "idle" ELSE "claim"]
    BY <1>2 DEF PollStranded
  <2> DEFINE polled == todo[w] \o Candidates(s)
  <2>2. StrandedRows \in SUBSET Reports
    BY DEF StrandedRows
  <2>3. Candidates(s) \in Seq(Candidate)
    BY <2>2, CandidatesType DEF TypeInv
  <2>4. polled \in Seq(Candidate)
    BY <2>3, ConcatProperties DEF TypeInv, TypeOK
  <2>5. Sliced(polled) \in Seq(Candidate)
    BY <2>4, SlicedType
  <2>6. polled # <<>> => Sliced(polled) # <<>>
    BY <2>4, SlicedNonempty
  <2> HIDE DEF polled
  <2> QED
    BY <1>2, <2>1, <2>5, <2>6 DEF TypeInv, TypeOK, Structure, PollStranded,
                          Stages, Busy, row, history, locals, polled
<1>3. CASE PollFails(w)
  <2>1. <<>> \in Seq(Candidate)
    BY EmptySeq
  <2> QED
    BY <1>3, <2>1, FaultType DEF TypeInv, TypeOK, Structure, PollFails,
                          Stages, Busy, row, history, locals
<1> QED BY <1>1, <1>2, <1>3

LEMMA ClaimTypeInv ==
  ASSUME TypeInv, NEW w \in Workers,
         \/ ClaimQueued(w) \/ ClaimMissed(w)
         \/ RecoverExpired(w) \/ RecoverMissed(w) \/ CallFails(w)
  PROVE  TypeInv'
<1> DEFINE Continued == /\ WorkerTypeOK' /\ Structure'
                        /\ runs' \in [Reports -> Nat] /\ faults' \in Nat
<1>0. pc[w] \in Busy
  BY DEF ClaimQueued, ClaimMissed, RecoverExpired, RecoverMissed, CallFails,
         Busy
<1>1. Job(w) \in Reports
  BY <1>0, JobType
<1>2. ASSUME StartRun(w) PROVE Continued
  <2>1. Goto(w, "run") /\ "run" \in Busy \ {"notify"}
    BY <1>2 DEF StartRun, Busy
  <2>2. WorkerTypeOK' /\ Structure'
    BY <1>0, <1>2, <2>1, GotoType DEF StartRun, WorkerTypeOK, TypeInv, TypeOK
  <2>3. runs' \in [Reports -> Nat] /\ faults' \in Nat
    BY <1>1, <1>2 DEF StartRun, TypeInv, TypeOK
  <2> QED BY <2>2, <2>3
<1>3. ASSUME GiveUp(w) PROVE Continued
  <2>1. Goto(w, "giveUp") /\ "giveUp" \in Busy \ {"notify"}
    BY <1>3 DEF GiveUp, Busy
  <2> QED
    BY <1>0, <1>3, <2>1, GotoType DEF GiveUp, WorkerTypeOK, TypeInv, TypeOK
<1>4. ASSUME ReplyLost(w) PROVE Continued
  BY <1>0, <1>4, NextCandidateType, FaultType DEF ReplyLost, TypeInv, TypeOK
<1>5. CASE ClaimQueued(w) \/ RecoverExpired(w)
  <2>1. ClaimRow(w) /\ (StartRun(w) \/ GiveUp(w) \/ ReplyLost(w))
        /\ UNCHANGED <<objects, notices, retries>>
    BY <1>5 DEF ClaimQueued, RecoverExpired
  <2>2. RowTypeOK' /\ holder' \in [Reports -> Workers \cup {Nobody}]
    BY <1>0, <2>1, ClaimRowType
  <2>3. Continued
    BY <2>1, <1>2, <1>3, <1>4
  <2> QED
    BY <2>1, <2>2, <2>3 DEF TypeInv, TypeOK, RowTypeOK, WorkerTypeOK
<1>6. CASE ClaimMissed(w)
  <2>1. Goto(w, "recover") /\ "recover" \in Busy \ {"notify"}
    BY <1>6 DEF ClaimMissed, Busy
  <2> QED
    BY <1>0, <1>6, <2>1, GotoType
       DEF ClaimMissed, TypeInv, TypeOK, row, history
<1>7. CASE RecoverMissed(w)
  BY <1>0, <1>7, NextCandidateType
     DEF RecoverMissed, TypeInv, TypeOK, WorkerTypeOK, row, history
<1>8. CASE CallFails(w)
  BY <1>0, <1>8, NextCandidateType, FaultType
     DEF CallFails, TypeInv, TypeOK, WorkerTypeOK, row, history
<1> QED BY <1>5, <1>6, <1>7, <1>8

LEMMA PipelineTypeInv ==
  ASSUME TypeInv, NEW w \in Workers,
         \/ Upload(w) \/ GenerateFails(w)
         \/ StampReady(w) \/ StampReadyFails(w)
         \/ MarkFailed(w) \/ MarkFailedFails(w)
  PROVE  TypeInv'
<1>1. pc[w] \in Busy
  BY DEF Upload, GenerateFails, StampReady, StampReadyFails, MarkFailed,
         MarkFailedFails, Busy
<1>2. Job(w) \in Reports
  BY <1>1, JobType
<1>3. {"stamp", "fail", "reread"} \subseteq Busy \ {"notify"}
  BY DEF Busy
<1>4. CASE Upload(w)
  <2>1. Goto(w, "stamp")
    BY <1>4 DEF Upload
  <2> QED
    BY <1>1, <1>2, <1>3, <1>4, <2>1, GotoType
       DEF Upload, TypeInv, TypeOK, row, history
<1>5. CASE GenerateFails(w)
  <2>1. Goto(w, "fail")
    BY <1>5 DEF GenerateFails
  <2> QED
    BY <1>1, <1>2, <1>3, <1>5, <2>1, GotoType
       DEF GenerateFails, TypeInv, TypeOK, row, history
<1>6. CASE StampReady(w) \/ MarkFailed(w)
  <2>1. /\ Goto(w, "reread")
        /\ StampReadyRow(Job(w)) \/ MarkFailedRow(Job(w))
        /\ UNCHANGED <<objects, notices, history, put, retries, faults>>
    BY <1>6 DEF StampReady, MarkFailed
  <2>2. RowTypeOK'
    BY <1>2, <2>1, StampType
  <2> QED
    BY <1>1, <1>3, <2>1, <2>2, GotoType
       DEF TypeInv, TypeOK, RowTypeOK, history
<1>7. CASE StampReadyFails(w)
  <2>1. /\ Goto(w, "fail") /\ Fault
        /\ StampReadyRow(Job(w)) \/ UNCHANGED row
        /\ UNCHANGED <<objects, notices, history, put, retries>>
    BY <1>7 DEF StampReadyFails
  <2>2. RowTypeOK'
    BY <1>2, <2>1, StampType
  <2> QED
    BY <1>1, <1>3, <2>1, <2>2, GotoType, FaultType
       DEF TypeInv, TypeOK, RowTypeOK, history
<1>8. CASE MarkFailedFails(w)
  <2>1. /\ Fault
        /\ \/ Goto(w, "reread") /\ UNCHANGED put
           \/ NextCandidate(w)
        /\ MarkFailedRow(Job(w)) \/ UNCHANGED row
        /\ UNCHANGED <<objects, notices, history, retries>>
    BY <1>8 DEF MarkFailedFails
  <2>2. RowTypeOK'
    BY <1>2, <2>1, StampType
  <2>3. WorkerTypeOK' /\ Structure'
    BY <1>1, <1>3, <2>1, GotoType, NextCandidateType
       DEF TypeInv, TypeOK, WorkerTypeOK
  <2> QED
    BY <2>1, <2>2, <2>3, FaultType
       DEF TypeInv, TypeOK, RowTypeOK, WorkerTypeOK, history
<1> QED BY <1>4, <1>5, <1>6, <1>7, <1>8

LEMMA NotifyTypeInv ==
  ASSUME TypeInv, NEW w \in Workers,
         \/ RereadTerminal(w) \/ RereadUnfinished(w)
         \/ Notify(w) \/ NotifyDropped(w)
  PROVE  TypeInv'
<1>1. pc[w] \in Busy
  BY DEF RereadTerminal, RereadUnfinished, Notify, NotifyDropped, Busy
<1>2. Job(w) \in Reports
  BY <1>1, JobType
<1>3. CASE RereadTerminal(w)
  <2>1. "notify" \in Stages /\ Terminal \subseteq Statuses
    BY DEF Stages, Busy, Terminal, Statuses
  <2> QED
    BY <1>1, <1>3, <2>1 DEF RereadTerminal, TypeInv, TypeOK, Structure, row,
                            history
<1>4. CASE RereadUnfinished(w)
  BY <1>1, <1>4, NextCandidateType
     DEF RereadUnfinished, TypeInv, TypeOK, WorkerTypeOK, row, history
<1>5. CASE Notify(w)
  <2>1. <<Job(w), seen[w]>> \in Reports \X Terminal
    BY <1>2, <1>5 DEF Notify, TypeInv, Structure
  <2> QED
    BY <1>1, <1>5, <2>1, NextCandidateType
       DEF Notify, TypeInv, TypeOK, WorkerTypeOK, row, history
<1>6. CASE NotifyDropped(w)
  BY <1>1, <1>6, NextCandidateType, FaultType
     DEF NotifyDropped, TypeInv, TypeOK, WorkerTypeOK, row, history
<1> QED BY <1>3, <1>4, <1>5, <1>6

LEMMA CrashTypeInv ==
  ASSUME TypeInv, NEW w \in Workers, Crash(w)
  PROVE  TypeInv'
<1>1. <<>> \in Seq(Candidate)
  BY EmptySeq
<1> QED
  BY <1>1, FaultType DEF Crash, Forget, TypeInv, TypeOK, Structure, Stages,
                         Busy, Statuses, row, history

LEMMA StepTypeInv == TypeInv /\ [Next]_vars => TypeInv'
<1> SUFFICES ASSUME TypeInv, [Next]_vars PROVE TypeInv'
  OBVIOUS
<1>1. ASSUME NEW r \in Reports,
             CreateReport(r) \/ RetryReport(r) \/ LeaseExpires(r)
      PROVE  TypeInv'
  BY <1>1, OwnerStepTypeInv
<1>2. ASSUME NEW w \in Workers, WorkerStep(w) PROVE TypeInv'
  BY <1>2, PollTypeInv, ClaimTypeInv, PipelineTypeInv, NotifyTypeInv
     DEF WorkerStep
<1>3. ASSUME NEW w \in Workers, FaultStep(w) PROVE TypeInv'
  BY <1>3, PollTypeInv, ClaimTypeInv, PipelineTypeInv, NotifyTypeInv,
     CrashTypeInv DEF FaultStep
<1>4. CASE UNCHANGED vars
  BY <1>4 DEF vars, row, tick, locals, history, TypeInv, TypeOK, Structure
<1> QED BY <1>1, <1>2, <1>3, <1>4 DEF Next

(* Every reachable state of the queue is well typed: in particular a       *)
(* notification only ever carries a terminal status, and an attempt count  *)
(* written from a polled value is still a count.                           *)
THEOREM TypeCorrect == Spec => []TypeOK
<1>1. Spec => []TypeInv
  BY InitTypeInv, StepTypeInv, PTL DEF Spec
<1>2. TypeInv => TypeOK
  BY DEF TypeInv
<1> QED BY <1>1, <1>2, PTL

(***************************************************************************)
(* What a step may do to the table: a ready row is left alone, a row never *)
(* disappears, and a row becomes ready only by the stamp of a worker that  *)
(* is past its upload.                                                     *)
(***************************************************************************)
RowProgress(r) ==
  /\ status[r] = "ready" =>
       /\ status'[r] = "ready" /\ attempts'[r] = attempts[r]
       /\ lease'[r] = lease[r] /\ r2_key'[r] = r2_key[r]
  /\ status[r] # "none" => status'[r] # "none"
  /\ status'[r] = "ready" =>
       \/ status[r] = "ready"
       \/ r2_key'[r] /\ \E w \in Workers : pc[w] = "stamp" /\ Job(w) = r

LEMMA OwnerRowProgress ==
  ASSUME TypeInv, NEW r \in Reports, NEW q \in Reports,
         CreateReport(q) \/ RetryReport(q) \/ LeaseExpires(q)
  PROVE  RowProgress(r)
<1>1. CASE CreateReport(q)
  BY <1>1 DEF CreateReport, RowProgress, TypeInv, TypeOK
<1>2. CASE RetryReport(q)
  BY <1>2 DEF RetryReport, RowProgress, TypeInv, TypeOK
<1>3. CASE LeaseExpires(q)
  BY <1>3 DEF LeaseExpires, RowProgress, TypeInv, TypeOK
<1> QED BY <1>1, <1>2, <1>3

LEMMA WorkerRowProgress ==
  ASSUME TypeInv, NEW r \in Reports, NEW w \in Workers,
         WorkerStep(w) \/ FaultStep(w)
  PROVE  RowProgress(r)
<1>1. CASE UNCHANGED row
  BY <1>1 DEF row, RowProgress
<1>2. CASE ClaimQueued(w) \/ RecoverExpired(w)
  <2>1. pc[w] \in Busy /\ ClaimRow(w) /\ status[Job(w)] # "ready"
    BY <1>2 DEF ClaimQueued, RecoverExpired, Busy, StrandedRows
  <2>2. Job(w) \in Reports
    BY <2>1, JobType
  <2> QED
    BY <2>1, <2>2 DEF ClaimRow, RowProgress, TypeInv, TypeOK
<1>3. CASE StampReady(w) \/ StampReadyFails(w)
  <2>1. /\ pc[w] = "stamp"
        /\ StampReadyRow(Job(w)) \/ UNCHANGED row
    BY <1>3 DEF StampReady, StampReadyFails
  <2>2. Job(w) \in Reports
    BY <2>1, JobType DEF Busy
  <2> QED
    BY <1>1, <2>1, <2>2 DEF StampReadyRow, RowProgress, TypeInv, TypeOK
<1>4. CASE MarkFailed(w) \/ MarkFailedFails(w)
  <2>1. /\ pc[w] \in Busy
        /\ MarkFailedRow(Job(w)) \/ UNCHANGED row
    BY <1>4 DEF MarkFailed, MarkFailedFails, Busy
  <2>2. Job(w) \in Reports
    BY <2>1, JobType
  <2> QED
    BY <1>1, <2>1, <2>2 DEF MarkFailedRow, RowProgress, TypeInv, TypeOK
<1>5. UNCHANGED row \/ ClaimQueued(w) \/ RecoverExpired(w) \/ StampReady(w)
      \/ StampReadyFails(w) \/ MarkFailed(w) \/ MarkFailedFails(w)
  BY DEF WorkerStep, FaultStep, PollQueued, PollStranded, PollFails,
         ClaimMissed, RecoverMissed, CallFails, Upload, GenerateFails,
         RereadTerminal, RereadUnfinished, Notify, NotifyDropped, Crash
<1> QED BY <1>1, <1>2, <1>3, <1>4, <1>5

LEMMA StepRowProgress ==
  ASSUME TypeInv, [Next]_vars, NEW r \in Reports
  PROVE  RowProgress(r)
<1>1. CASE UNCHANGED vars
  BY <1>1 DEF vars, row, RowProgress
<1> QED
  BY <1>1, OwnerRowProgress, WorkerRowProgress DEF Next

(* Once the owner has been shown a ready report no later step takes it     *)
(* back or rewrites its row.                                               *)
THEOREM ReadyStays == Spec => ReadyIsFinal
<1>1. TypeInv /\ [Next]_vars =>
        [\A r \in Reports : status[r] = "ready" =>
           /\ status'[r] = status[r] /\ attempts'[r] = attempts[r]
           /\ lease'[r] = lease[r] /\ r2_key'[r] = r2_key[r]]_vars
  BY StepRowProgress DEF RowProgress
<1>2. Spec => []TypeInv
  BY InitTypeInv, StepTypeInv, PTL DEF Spec
<1> QED
  BY <1>1, <1>2, PTL DEF Spec, ReadyIsFinal

(***************************************************************************)
(* Ready means stored.  Inductive because a worker that is about to stamp  *)
(* has its object in the bucket, and one that is about to announce ready   *)
(* read it from a row that stays ready.                                    *)
(***************************************************************************)
StampBacked == \A w \in Workers : pc[w] = "stamp" => Job(w) \in objects

AnnouncementBacked ==
  \A w \in Workers :
    pc[w] = "notify" /\ seen[w] = "ready" => status[Job(w)] = "ready"

DeliveryInv ==
  TypeInv /\ ReadyHasFile /\ NoticesTruthful /\ StampBacked
          /\ AnnouncementBacked

LEMMA InitDeliveryInv == Init => DeliveryInv
BY InitTypeInv
   DEF Init, DeliveryInv, ReadyHasFile, NoticesTruthful, StampBacked,
       AnnouncementBacked

(* Nothing ever leaves the bucket, and one worker's step leaves the others *)
(* where they are.                                                         *)
LEMMA StepFrame ==
  ASSUME TypeInv, [Next]_vars
  PROVE  /\ objects \subseteq objects'
         /\ \A w \in Workers :
              \/ pc'[w] = pc[w] /\ todo'[w] = todo[w] /\ seen'[w] = seen[w]
              \/ WorkerStep(w) \/ FaultStep(w)
<1>1. CASE UNCHANGED vars
  BY <1>1 DEF vars, tick, locals
<1>2. ASSUME NEW r \in Reports,
             CreateReport(r) \/ RetryReport(r) \/ LeaseExpires(r)
      PROVE  UNCHANGED <<objects, pc, todo, seen>>
  BY <1>2 DEF CreateReport, RetryReport, LeaseExpires, tick, locals
<1>3. ASSUME NEW x \in Workers, WorkerStep(x) \/ FaultStep(x)
      PROVE  /\ objects \subseteq objects'
             /\ \A w \in Workers \ {x} :
                  /\ pc'[w] = pc[w] /\ todo'[w] = todo[w]
                  /\ seen'[w] = seen[w]
  BY <1>3 DEF WorkerStep, FaultStep, PollQueued, PollStranded, PollFails,
       ClaimQueued, ClaimMissed, RecoverExpired, RecoverMissed, CallFails,
       Upload, GenerateFails, StampReady, StampReadyFails, MarkFailed,
       MarkFailedFails, RereadTerminal, RereadUnfinished, Notify,
       NotifyDropped, Crash, StartRun, GiveUp, ReplyLost, NextCandidate,
       Forget, Goto, tick, locals, TypeInv, TypeOK
<1> QED BY <1>1, <1>2, <1>3 DEF Next

(* Only an upload leads to the ready stamp and only a terminal re-read to  *)
(* the notification.                                                       *)
LEMMA StageEntry ==
  ASSUME TypeInv, NEW w \in Workers, WorkerStep(w) \/ FaultStep(w)
  PROVE  /\ pc'[w] = "stamp" => Upload(w)
         /\ pc'[w] = "notify" => RereadTerminal(w)
BY DEF WorkerStep, FaultStep, PollQueued, PollStranded, PollFails,
       ClaimQueued, ClaimMissed, RecoverExpired, RecoverMissed, CallFails,
       GenerateFails, StampReady, StampReadyFails, MarkFailed,
       MarkFailedFails, RereadTerminal, RereadUnfinished, Notify, Upload,
       NotifyDropped, Crash, StartRun, GiveUp, ReplyLost, NextCandidate,
       Goto, TypeInv, TypeOK

LEMMA StepReadyHasFile ==
  ASSUME DeliveryInv, [Next]_vars
  PROVE  ReadyHasFile'
<1> SUFFICES ASSUME NEW r \in Reports, status'[r] = "ready"
             PROVE  r \in objects' /\ r2_key'[r]
  BY DEF ReadyHasFile
<1>1. RowProgress(r) /\ objects \subseteq objects'
  BY StepRowProgress, StepFrame DEF DeliveryInv
<1>2. CASE status[r] = "ready"
  BY <1>1, <1>2 DEF RowProgress, DeliveryInv, ReadyHasFile
<1>3. CASE r2_key'[r] /\ \E w \in Workers : pc[w] = "stamp" /\ Job(w) = r
  BY <1>1, <1>3 DEF DeliveryInv, StampBacked
<1> QED BY <1>1, <1>2, <1>3 DEF RowProgress

LEMMA StepStampBacked ==
  ASSUME DeliveryInv, [Next]_vars
  PROVE  StampBacked'
<1> SUFFICES ASSUME NEW w \in Workers, pc'[w] = "stamp"
             PROVE  Job(w)' \in objects'
  BY DEF StampBacked
<1>1. CASE pc'[w] = pc[w] /\ todo'[w] = todo[w]
  BY <1>1, StepFrame DEF DeliveryInv, StampBacked, Job
<1>2. CASE WorkerStep(w) \/ FaultStep(w)
  <2>1. Upload(w)
    BY <1>2, StageEntry DEF DeliveryInv
  <2> QED BY <2>1 DEF Upload, Goto, Job
<1> QED BY <1>1, <1>2, StepFrame DEF DeliveryInv

LEMMA StepAnnouncementBacked ==
  ASSUME DeliveryInv, [Next]_vars
  PROVE  AnnouncementBacked'
<1> SUFFICES ASSUME NEW w \in Workers, pc'[w] = "notify", seen'[w] = "ready"
             PROVE  status'[Job(w)'] = "ready"
  BY DEF AnnouncementBacked
<1>1. CASE /\ pc'[w] = pc[w] /\ todo'[w] = todo[w] /\ seen'[w] = seen[w]
  <2>1. Job(w) \in Reports /\ Job(w)' = Job(w) /\ status[Job(w)] = "ready"
    BY <1>1, JobType DEF DeliveryInv, AnnouncementBacked, Job, Busy
  <2> QED
    BY <2>1, StepRowProgress DEF DeliveryInv, RowProgress
<1>2. CASE WorkerStep(w) \/ FaultStep(w)
  <2>1. RereadTerminal(w)
    BY <1>2, StageEntry DEF DeliveryInv
  <2> QED
    BY <2>1 DEF RereadTerminal, Job, row, DeliveryInv, TypeInv, TypeOK
<1> QED BY <1>1, <1>2, StepFrame DEF DeliveryInv

LEMMA StepNoticesTruthful ==
  ASSUME DeliveryInv, [Next]_vars
  PROVE  NoticesTruthful'
<1> SUFFICES ASSUME NEW r \in Reports, <<r, "ready">> \in notices'
             PROVE  status'[r] = "ready"
  BY DEF NoticesTruthful
<1>1. CASE <<r, "ready">> \in notices
  BY <1>1, StepRowProgress DEF DeliveryInv, NoticesTruthful, RowProgress
<1>2. CASE \E w \in Workers : Notify(w) /\ <<r, "ready">> = <<Job(w), seen[w]>>
  <2>1. PICK w \in Workers : Notify(w) /\ r = Job(w) /\ seen[w] = "ready"
    BY <1>2
  <2> QED
    BY <2>1 DEF Notify, DeliveryInv, AnnouncementBacked, row
<1>3. UNCHANGED notices \/ \E w \in Workers : Notify(w)
  BY DEF Next, CreateReport, RetryReport, LeaseExpires, WorkerStep, FaultStep,
       PollQueued, PollStranded, PollFails, ClaimQueued, ClaimMissed,
       RecoverExpired, RecoverMissed, CallFails, Upload, GenerateFails,
       StampReady, StampReadyFails, MarkFailed, MarkFailedFails,
       RereadTerminal, RereadUnfinished, NotifyDropped, Crash, vars
<1>4. <<r, "ready">> \in notices
      \/ \E w \in Workers : Notify(w) /\ <<r, "ready">> = <<Job(w), seen[w]>>
  BY <1>3 DEF Notify
<1> QED BY <1>1, <1>2, <1>4

LEMMA StepDeliveryInv == DeliveryInv /\ [Next]_vars => DeliveryInv'
BY StepTypeInv, StepReadyHasFile, StepStampBacked, StepAnnouncementBacked,
   StepNoticesTruthful DEF DeliveryInv

LEMMA DeliveryInvariant == Spec => []DeliveryInv
BY InitDeliveryInv, StepDeliveryInv, PTL DEF Spec

(* A ready row always has its PDF in the bucket and its key set, whatever  *)
(* crashed, expired, was recovered or retried.                             *)
THEOREM DeliveryHonest == Spec => []ReadyHasFile
<1>1. DeliveryInv => ReadyHasFile
  BY DEF DeliveryInv
<1> QED BY <1>1, DeliveryInvariant, PTL

(* Every report_ready notification is about a row that is ready and stays  *)
(* so, though the worker that sent it may have lost its row since.         *)
THEOREM OnlyReadyAnnounced == Spec => []NoticesTruthful
<1>1. DeliveryInv => NoticesTruthful
  BY DEF DeliveryInv
<1> QED BY <1>1, DeliveryInvariant, PTL

(***************************************************************************)
(* A row changes hands by a claim only, and a claim takes a queued row or  *)
(* one whose lease is over.                                                *)
(***************************************************************************)
LEMMA StepHolder ==
  ASSUME TypeInv, [Next]_vars, NEW r \in Reports,
         status[r] = "generating", lease[r] = "held"
  PROVE  holder'[r] = holder[r]
<1>1. ASSUME NEW w \in Workers, ClaimQueued(w) \/ RecoverExpired(w)
      PROVE  holder'[r] = holder[r]
  <2>1. /\ holder' = [holder EXCEPT ![Job(w)] = w]
        /\ status[Job(w)] = "queued" \/ lease[Job(w)] = "expired"
    BY <1>1 DEF ClaimQueued, RecoverExpired, ClaimRow, StrandedRows
  <2>2. Job(w) # r
    BY <2>1
  <2> QED BY <2>1, <2>2 DEF TypeInv, TypeOK
<1>2. UNCHANGED holder \/ \E w \in Workers : ClaimQueued(w) \/ RecoverExpired(w)
  BY DEF Next, CreateReport, RetryReport, LeaseExpires, WorkerStep, FaultStep,
       PollQueued, PollStranded, PollFails, ClaimMissed, RecoverMissed, CallFails,
       Upload, GenerateFails, StampReady, StampReadyFails, MarkFailed,
       MarkFailedFails, RereadTerminal, RereadUnfinished, Notify, NotifyDropped,
       Crash, history, vars
<1> QED BY <1>1, <1>2

(* While a lease runs nobody takes its row over, for any number of         *)
(* instances that poll the table.                                          *)
THEOREM LeaseHolds == Spec => LeaseExcludes
<1>1. TypeInv /\ [Next]_vars =>
        [\A r \in Reports : status[r] = "generating" /\ lease[r] = "held"
           => holder'[r] = holder[r]]_vars
  BY StepHolder
<1>2. Spec => []TypeInv
  BY InitTypeInv, StepTypeInv, PTL DEF Spec
<1> QED BY <1>1, <1>2, PTL DEF Spec, LeaseExcludes

(***************************************************************************)
(* The in-flight cap.  Only a create or a retry brings a row into the      *)
(* in-flight set, and only under the cap; every other step keeps the set   *)
(* or shrinks it.                                                          *)
(***************************************************************************)
LEMMA InFlightFinite ==
  ASSUME NEW t
  PROVE  IsFiniteSet(InFlightOf(t)) /\ Cardinality(InFlightOf(t)) \in Nat
<1>1. InFlightOf(t) \in SUBSET Reports
  BY DEF InFlightOf
<1> QED
  BY <1>1, QueueAssumption, FS_Subset, FS_CardinalityType DEF QueueAssumption

LEMMA StepInFlight ==
  ASSUME TypeInv, [Next]_vars, NEW t \in Tenants
  PROVE  \/ InFlightOf(t)' \subseteq InFlightOf(t)
         \/ \E r \in Reports : /\ TenantOf[r] = t /\ UnderCap(r)
                               /\ InFlightOf(t)' = InFlightOf(t) \cup {r}
<1>1. CASE UNCHANGED status
  BY <1>1 DEF InFlightOf
<1>2. ASSUME NEW r \in Reports, CreateReport(r) \/ RetryReport(r)
      PROVE  \/ InFlightOf(t)' \subseteq InFlightOf(t)
             \/ /\ TenantOf[r] = t /\ UnderCap(r)
                /\ InFlightOf(t)' = InFlightOf(t) \cup {r}
  <2>1. UnderCap(r) /\ status' = [status EXCEPT ![r] = "queued"]
    BY <1>2 DEF CreateReport, RetryReport
  <2> QED
    BY <2>1 DEF InFlightOf, InFlight, TypeInv, TypeOK
<1>3. ASSUME NEW w \in Workers, ClaimQueued(w) \/ RecoverExpired(w)
      PROVE  InFlightOf(t)' \subseteq InFlightOf(t)
  <2>1. /\ status' = [status EXCEPT ![Job(w)] = "generating"]
        /\ status[Job(w)] \in InFlight
    BY <1>3 DEF ClaimQueued, RecoverExpired, ClaimRow, StrandedRows, InFlight
  <2> QED
    BY <2>1 DEF InFlightOf, InFlight, TypeInv, TypeOK
<1>4. ASSUME NEW w \in Workers,
             \/ StampReady(w) \/ StampReadyFails(w)
             \/ MarkFailed(w) \/ MarkFailedFails(w)
      PROVE  InFlightOf(t)' \subseteq InFlightOf(t)
  <2>1. \/ UNCHANGED status
        \/ \E s \in Terminal : status' = [status EXCEPT ![Job(w)] = s]
    BY <1>4 DEF StampReady, StampReadyFails, MarkFailed, MarkFailedFails,
                StampReadyRow, MarkFailedRow, Terminal, row
  <2> QED
    BY <2>1 DEF InFlightOf, InFlight, Terminal, TypeInv, TypeOK
<1>5. \/ UNCHANGED status
      \/ \E r \in Reports : CreateReport(r) \/ RetryReport(r)
      \/ \E w \in Workers : ClaimQueued(w) \/ RecoverExpired(w)
      \/ \E w \in Workers : \/ StampReady(w) \/ StampReadyFails(w)
                            \/ MarkFailed(w) \/ MarkFailedFails(w)
  BY DEF Next, LeaseExpires, WorkerStep, FaultStep,
       PollQueued, PollStranded, PollFails, ClaimMissed,
       RecoverMissed, CallFails, Upload, GenerateFails, RereadTerminal,
       RereadUnfinished, Notify, NotifyDropped, Crash, vars, row
<1> QED BY <1>1, <1>2, <1>3, <1>4, <1>5

LEMMA StepCap == TypeInv /\ CapHolds /\ [Next]_vars => CapHolds'
<1> SUFFICES ASSUME TypeInv, CapHolds, [Next]_vars, NEW t \in Tenants
             PROVE  Cardinality(InFlightOf(t)') <= MaxInFlight
  BY DEF CapHolds
<1>1. /\ IsFiniteSet(InFlightOf(t)) /\ Cardinality(InFlightOf(t)) \in Nat
      /\ Cardinality(InFlightOf(t)) <= MaxInFlight /\ MaxInFlight \in Nat
  BY InFlightFinite, QueueAssumption DEF CapHolds, QueueAssumption
<1>2. CASE InFlightOf(t)' \subseteq InFlightOf(t)
  <2>1. /\ Cardinality(InFlightOf(t)') <= Cardinality(InFlightOf(t))
        /\ Cardinality(InFlightOf(t)') \in Nat
    BY <1>1, <1>2, FS_Subset, FS_CardinalityType
  <2> QED BY <1>1, <2>1
<1>3. ASSUME NEW r \in Reports, TenantOf[r] = t, UnderCap(r),
             InFlightOf(t)' = InFlightOf(t) \cup {r}
      PROVE  Cardinality(InFlightOf(t)') <= MaxInFlight
  <2>1. Cardinality(InFlightOf(t)) < MaxInFlight
    BY <1>3 DEF UnderCap
  <2>2. Cardinality(InFlightOf(t)') =
          IF r \in InFlightOf(t) THEN Cardinality(InFlightOf(t))
                                 ELSE Cardinality(InFlightOf(t)) + 1
    BY <1>1, <1>3, FS_AddElement
  <2> QED BY <1>1, <2>1, <2>2
<1> QED BY <1>2, <1>3, StepInFlight

(* No company ever has more than MaxInFlight reports in flight, for any    *)
(* interleaving of creates, retries, claims and recoveries.                *)
THEOREM CapNeverExceeded == Spec => []CapHolds
<1>1. Init => CapHolds
  <2> SUFFICES ASSUME Init, NEW t \in Tenants
               PROVE  Cardinality(InFlightOf(t)) <= MaxInFlight
    BY DEF CapHolds
  <2>1. InFlightOf(t) = {}
    BY DEF Init, InFlightOf, InFlight
  <2> QED
    BY <2>1, FS_EmptySet, QueueAssumption DEF QueueAssumption
<1>2. Spec => []TypeInv
  BY InitTypeInv, StepTypeInv, PTL DEF Spec
<1> QED BY <1>1, <1>2, StepCap, PTL DEF Spec

(***************************************************************************)
(* Implementation of ReportLifecycle.  A worker's candidates are rows that *)
(* exist, so that an upload is for a report somebody asked for.            *)
(***************************************************************************)
CandidatesExist ==
  \A w \in Workers : \A i \in 1..Len(todo[w]) :
    status[todo[w][i].id] # "none"

LEMMA PolledExist ==
  ASSUME TypeInv, NEW S \in SUBSET Reports,
         \A r \in S : status[r] # "none", NEW s \in Limited(S)
  PROVE  \A i \in 1..Len(Candidates(s)) :
           /\ Candidates(s)[i].id \in Reports
           /\ status[Candidates(s)[i].id] # "none"
<1>1. IsFiniteSet(S)
  BY QueueAssumption, FS_Subset DEF QueueAssumption
<1>2. Cardinality(S) \in Nat
  BY <1>1, FS_CardinalityType
<1>3. PICK n \in Nat : s \in [1..n -> S]
  BY <1>2, QueueAssumption DEF Limited, QueueAssumption
<1>4. Candidates(s) \in Seq(Candidate)
  BY CandidatesType DEF TypeInv
<1>5. 1..Len(Candidates(s)) = 1..n
  BY <1>3, <1>4, LenProperties DEF Candidates
<1> QED BY <1>3, <1>5 DEF Candidates

LEMMA TodoStep ==
  ASSUME TypeInv, NEW w \in Workers, WorkerStep(w) \/ FaultStep(w)
  PROVE  \/ todo'[w] = todo[w]
         \/ pc[w] \in Busy /\ todo'[w] = Tail(todo[w])
         \/ todo'[w] = <<>>
         \/ PollQueued(w) \/ PollStranded(w)
BY DEF WorkerStep, FaultStep, PollFails, ClaimQueued, ClaimMissed,
       RecoverExpired, RecoverMissed, CallFails, Upload, GenerateFails,
       StampReady, StampReadyFails, MarkFailed, MarkFailedFails,
       RereadTerminal, RereadUnfinished, Notify, NotifyDropped, Crash,
       StartRun, GiveUp, ReplyLost, NextCandidate, Goto, TypeInv, TypeOK, Busy

LEMMA SlicedElements ==
  ASSUME NEW X, NEW s \in Seq(X), NEW i \in 1..Len(Sliced(s))
  PROVE  i \in 1..Len(s) /\ Sliced(s)[i] = s[i]
<1>1. Len(s) \in Nat /\ Concurrency \in Nat /\ Concurrency >= 1
  BY LenProperties, QueueAssumption DEF QueueAssumption
<1>2. CASE Len(s) <= Concurrency
  BY <1>2, SubSeqFull DEF Sliced
<1>3. CASE ~(Len(s) <= Concurrency)
  <2>1. \A j \in 1 .. Concurrency : s[j] \in X
    BY <1>1, <1>3, LenProperties
  <2>2. /\ Len(Sliced(s)) = Concurrency - 1 + 1
        /\ \A j \in 1 .. Concurrency - 1 + 1 : Sliced(s)[j] = s[1 + j - 1]
    BY <1>1, <1>3, <2>1, SubSeqProperties DEF Sliced
  <2> QED BY <1>1, <1>3, <2>2
<1> QED BY <1>2, <1>3

LEMMA StepCandidatesExist ==
  TypeInv /\ CandidatesExist /\ [Next]_vars => CandidatesExist'
<1> SUFFICES ASSUME TypeInv, CandidatesExist, [Next]_vars,
                    NEW w \in Workers, NEW i \in 1..Len(todo'[w])
             PROVE  status'[todo'[w][i].id] # "none"
  BY DEF CandidatesExist
<1> DEFINE Exists(c) == c.id \in Reports /\ status[c.id] # "none"
<1>1. todo[w] \in Seq(Candidate)
  BY DEF TypeInv, TypeOK
<1>2. \A j \in 1..Len(todo[w]) : Exists(todo[w][j])
  <2> SUFFICES ASSUME NEW j \in 1..Len(todo[w]) PROVE Exists(todo[w][j])
    OBVIOUS
  <2>1. todo[w][j] \in Candidate
    BY <1>1, ElementOfSeq
  <2> QED BY <2>1 DEF CandidatesExist, Candidate
<1>3. SUFFICES Exists(todo'[w][i])
  BY StepRowProgress DEF RowProgress
<1>4. CASE todo'[w] = todo[w]
  BY <1>2, <1>4
<1>5. CASE pc[w] \in Busy /\ todo'[w] = Tail(todo[w])
  <2>1. todo[w] # <<>>
    BY <1>5 DEF TypeInv, Structure
  <2>2. /\ Len(todo'[w]) = Len(todo[w]) - 1 /\ Len(todo[w]) \in Nat
        /\ todo'[w][i] = todo[w][i + 1]
    BY <1>1, <1>5, <2>1, HeadTailProperties, LenProperties
  <2> QED BY <1>2, <2>2
<1>6. CASE todo'[w] = <<>>
  BY <1>6, EmptySeq
<1>7. CASE PollQueued(w)
  <2>1. PICK s \in OldestFirst(QueuedRows) :
          todo' = [todo EXCEPT ![w] = Candidates(s)]
    BY <1>7 DEF PollQueued
  <2>2. /\ QueuedRows \in SUBSET Reports /\ s \in Limited(QueuedRows)
        /\ \A r \in QueuedRows : status[r] # "none"
    BY DEF QueuedRows, OldestFirst
  <2>3. todo'[w] = Candidates(s)
    BY <2>1 DEF TypeInv, TypeOK
  <2> QED BY <2>2, <2>3, PolledExist
<1>8. CASE PollStranded(w)
  <2>1. PICK s \in Limited(StrandedRows) :
          todo' = [todo EXCEPT ![w] = Sliced(todo[w] \o Candidates(s))]
    BY <1>8 DEF PollStranded
  <2> DEFINE polled == todo[w] \o Candidates(s)
  <2>2. /\ StrandedRows \in SUBSET Reports
        /\ \A r \in StrandedRows : status[r] # "none"
    BY DEF StrandedRows
  <2>3. \A j \in 1..Len(Candidates(s)) : Exists(Candidates(s)[j])
    BY <2>2, PolledExist
  <2>4. Candidates(s) \in Seq(Candidate)
    BY <2>2, CandidatesType DEF TypeInv
  <2>5. /\ polled \in Seq(Candidate)
        /\ Len(todo[w]) \in Nat /\ Len(Candidates(s)) \in Nat
        /\ Len(polled) = Len(todo[w]) + Len(Candidates(s))
        /\ \A j \in 1..Len(todo[w]) + Len(Candidates(s)) :
             polled[j] = IF j <= Len(todo[w]) THEN todo[w][j]
                         ELSE Candidates(s)[j - Len(todo[w])]
    BY <1>1, <2>4, ConcatProperties, LenProperties
  <2>6. \A j \in 1..Len(polled) : Exists(polled[j])
    <3> SUFFICES ASSUME NEW j \in 1..Len(polled) PROVE Exists(polled[j])
      OBVIOUS
    <3> HIDE DEF Exists, polled
    <3>1. CASE j <= Len(todo[w])
      BY <1>2, <2>5, <3>1
    <3>2. CASE ~(j <= Len(todo[w]))
      <4>1. j - Len(todo[w]) \in 1..Len(Candidates(s))
        BY <2>5, <3>2
      <4> QED BY <2>3, <2>5, <3>2, <4>1
    <3> QED BY <3>1, <3>2
  <2>7. todo'[w] = Sliced(polled)
    BY <2>1 DEF TypeInv, TypeOK
  <2> HIDE DEF Exists, polled
  <2>8. i \in 1..Len(polled) /\ todo'[w][i] = polled[i]
    BY <2>5, <2>7, SlicedElements
  <2> QED BY <2>6, <2>8
<1>9. todo'[w] = todo[w] \/ WorkerStep(w) \/ FaultStep(w)
  BY StepFrame
<1> HIDE DEF Exists
<1> QED BY <1>4, <1>5, <1>6, <1>7, <1>8, <1>9, TodoStep

Bar == [r \in Reports |-> Shown(status[r])]

LEMMA ShownValues ==
  /\ \A s \in InFlight : Shown(s) = "pending"
  /\ Shown("none") = "absent"
  /\ Shown("ready") = "ready"
  /\ Shown("failed") = "failed"
BY DEF Shown, InFlight

LEMMA PendingIsInFlight ==
  ASSUME TypeInv, NEW t
  PROVE  Lifecycle!Pending(t) = InFlightOf(t)
<1>1. \A s \in Statuses : Shown(s) = "pending" <=> s \in InFlight
  BY DEF Shown, Statuses, InFlight
<1> QED
  BY <1>1 DEF Lifecycle!Pending, InFlightOf, TypeInv, TypeOK

(* A step that keeps every row's shown state and the bucket is a stutter.  *)
LEMMA ShownStutter ==
  ASSUME TypeInv, UNCHANGED objects,
         \A r \in Reports : Shown(status'[r]) = Shown(status[r])
  PROVE  UNCHANGED Lifecycle!lifecycleVars
BY DEF Lifecycle!lifecycleVars

(* One row changes its status: the projection changes at that row only.    *)
LEMMA ShownUpdate ==
  ASSUME TypeInv, NEW r \in Reports, NEW s,
         status' = [status EXCEPT ![r] = s]
  PROVE  Bar' = [Bar EXCEPT ![r] = Shown(s)]
BY DEF Bar, TypeInv, TypeOK

(* A generating row settles: its owner saw it pending, and sees the end.   *)
LEMMA SettleShown ==
  ASSUME TypeInv, NEW r \in Reports, NEW s \in {"ready", "failed"},
         status[r] = "generating",
         status' = [status EXCEPT ![r] = s]
  PROVE  Bar' = [Bar EXCEPT ![r] = s] /\ Bar[r] = "pending"
<1>1. Shown(s) = s
  BY ShownValues
<1>2. Bar' = [Bar EXCEPT ![r] = s]
  BY <1>1, ShownUpdate
<1>3. Bar[r] = Shown("generating")
  BY DEF Bar
<1>4. Shown("generating") = "pending"
  BY ShownValues DEF InFlight
<1> QED BY <1>2, <1>3, <1>4

LEMMA OwnerRefines ==
  ASSUME TypeInv, NEW r \in Reports,
         CreateReport(r) \/ RetryReport(r) \/ LeaseExpires(r)
  PROVE  [Lifecycle!Next]_(Lifecycle!lifecycleVars)
<1>1. CASE CreateReport(r) \/ RetryReport(r)
  <2>1. /\ status[r] \in {"none", "failed"} /\ UnderCap(r)
        /\ status' = [status EXCEPT ![r] = "queued"] /\ UNCHANGED objects
    BY <1>1 DEF CreateReport, RetryReport
  <2>2. Bar' = [Bar EXCEPT ![r] = "pending"]
    BY <2>1, ShownUpdate, ShownValues DEF InFlight
  <2>3. Bar[r] \in {"absent", "failed"}
    BY <2>1, ShownValues DEF Bar
  <2>4. Cardinality(Lifecycle!Pending(TenantOf[r])) < MaxInFlight
    BY <2>1, PendingIsInFlight DEF UnderCap
  <2>5. Lifecycle!Ask(r)
    BY <2>1, <2>2, <2>3, <2>4 DEF Lifecycle!Ask, Lifecycle!Cardinality, Cardinality, Bar
  <2> QED BY <2>5 DEF Lifecycle!Next
<1>2. CASE LeaseExpires(r)
  BY <1>2, ShownStutter DEF LeaseExpires
<1> QED BY <1>1, <1>2

LEMMA WorkerRefines ==
  ASSUME DeliveryInv, CandidatesExist, NEW w \in Workers,
         WorkerStep(w) \/ FaultStep(w)
  PROVE  [Lifecycle!Next]_(Lifecycle!lifecycleVars)
<1>0. TypeInv
  BY DEF DeliveryInv
<1>1. CASE UNCHANGED <<status, objects>>
  BY <1>0, <1>1, ShownStutter
<1>2. CASE ClaimQueued(w) \/ RecoverExpired(w)
  <2>1. /\ status' = [status EXCEPT ![Job(w)] = "generating"]
        /\ status[Job(w)] \in InFlight /\ UNCHANGED objects
    BY <1>2 DEF ClaimQueued, RecoverExpired, ClaimRow, StrandedRows, InFlight
  <2>2. \A r \in Reports : Shown(status'[r]) = Shown(status[r])
    BY <1>0, <2>1, ShownValues DEF InFlight, TypeInv, TypeOK
  <2> QED BY <1>0, <2>1, <2>2, ShownStutter
<1>3. CASE Upload(w) \/ GenerateFails(w)
  <2>1. /\ pc[w] = "run" /\ UNCHANGED status
        /\ objects' = objects \/ objects' = objects \cup {Job(w)}
    BY <1>3 DEF Upload, GenerateFails, row
  <2>2. Job(w) \in Reports /\ todo[w] \in Seq(Candidate) /\ todo[w] # <<>>
    BY <1>0, <2>1, JobType DEF Busy
  <2>3. Len(todo[w]) \in Nat /\ Len(todo[w]) # 0 /\ Job(w) = todo[w][1].id
    BY <2>2, EmptySeq, LenProperties DEF Job
  <2>4. status[Job(w)] # "none"
    BY <2>3 DEF CandidatesExist
  <2>5. Bar[Job(w)] # "absent"
    BY <1>0, <2>2, <2>4 DEF Bar, Shown, InFlight, Statuses, TypeInv, TypeOK
  <2>6. CASE objects' = objects \cup {Job(w)}
    <3>1. Lifecycle!Store(Job(w))
      BY <2>1, <2>5, <2>6 DEF Lifecycle!Store, Bar
    <3> QED BY <2>2, <3>1 DEF Lifecycle!Next
  <2> QED BY <1>1, <2>1, <2>6
<1>4. CASE StampReady(w) \/ StampReadyFails(w)
  <2>1. /\ pc[w] = "stamp" /\ UNCHANGED objects
        /\ \/ UNCHANGED status
           \/ /\ status[Job(w)] = "generating"
              /\ status' = [status EXCEPT ![Job(w)] = "ready"]
    BY <1>4 DEF StampReady, StampReadyFails, StampReadyRow, row
  <2>2. Job(w) \in Reports /\ Job(w) \in objects
    BY <1>0, <2>1, JobType DEF Busy, DeliveryInv, StampBacked
  <2>3. ASSUME status[Job(w)] = "generating",
               status' = [status EXCEPT ![Job(w)] = "ready"]
        PROVE  Lifecycle!Deliver(Job(w))
    <3>1. Bar' = [Bar EXCEPT ![Job(w)] = "ready"] /\ Bar[Job(w)] = "pending"
      BY <1>0, <2>2, <2>3, SettleShown
    <3> QED BY <2>1, <2>2, <3>1 DEF Lifecycle!Deliver, Bar
  <2> QED BY <1>1, <2>1, <2>2, <2>3 DEF Lifecycle!Next
<1>5. CASE MarkFailed(w) \/ MarkFailedFails(w)
  <2>1. /\ pc[w] \in Busy /\ UNCHANGED objects
        /\ \/ UNCHANGED status
           \/ /\ status[Job(w)] = "generating"
              /\ status' = [status EXCEPT ![Job(w)] = "failed"]
    BY <1>5 DEF MarkFailed, MarkFailedFails, MarkFailedRow, row, Busy
  <2>2. Job(w) \in Reports
    BY <1>0, <2>1, JobType
  <2>3. ASSUME status[Job(w)] = "generating",
               status' = [status EXCEPT ![Job(w)] = "failed"]
        PROVE  Lifecycle!Refuse(Job(w))
    <3>1. Bar' = [Bar EXCEPT ![Job(w)] = "failed"] /\ Bar[Job(w)] = "pending"
      BY <1>0, <2>2, <2>3, SettleShown
    <3> QED BY <2>1, <2>2, <3>1 DEF Lifecycle!Refuse, Bar
  <2> QED BY <1>1, <2>1, <2>2, <2>3 DEF Lifecycle!Next
<1>6. \/ UNCHANGED <<status, objects>>
      \/ ClaimQueued(w) \/ RecoverExpired(w) \/ Upload(w) \/ GenerateFails(w)
      \/ StampReady(w) \/ StampReadyFails(w)
      \/ MarkFailed(w) \/ MarkFailedFails(w)
  BY DEF WorkerStep, FaultStep, PollQueued, PollStranded, PollFails,
         ClaimMissed, RecoverMissed, CallFails, RereadTerminal,
         RereadUnfinished, Notify, NotifyDropped, Crash, row
<1> QED BY <1>1, <1>2, <1>3, <1>4, <1>5, <1>6

(* The queue with its workers, leases, crashes and recoveries implements   *)
(* the life cycle an owner is promised, for every instance size.           *)
THEOREM QueueImplementsLifecycle == Spec => ImplementsLifecycle
<1> DEFINE Inv == DeliveryInv /\ CandidatesExist
<1>1. Init => Inv /\ Lifecycle!Init
  <2>1. Init => CandidatesExist
    BY EmptySeq DEF Init, CandidatesExist
  <2>2. Init => Lifecycle!Init
    BY ShownValues DEF Init, Lifecycle!Init
  <2> QED BY <2>1, <2>2, InitDeliveryInv
<1>2. Inv /\ [Next]_vars => Inv'
  BY StepDeliveryInv, StepCandidatesExist DEF DeliveryInv
<1>3. Inv /\ [Next]_vars => [Lifecycle!Next]_(Lifecycle!lifecycleVars)
  <2> SUFFICES ASSUME Inv, [Next]_vars
               PROVE  [Lifecycle!Next]_(Lifecycle!lifecycleVars)
    OBVIOUS
  <2>1. CASE UNCHANGED vars
    BY <2>1, ShownStutter DEF DeliveryInv, vars, row
  <2> QED
    BY <2>1, OwnerRefines, WorkerRefines DEF Next, DeliveryInv
<1> HIDE DEF Inv
<1> QED
  BY <1>1, <1>2, <1>3, PTL DEF Spec, ImplementsLifecycle, Lifecycle!Spec

-----------------------------------------------------------------------------
(***************************************************************************)
(* The run budget of one instance.  Its candidates are distinct rows, and  *)
(* one it has still to process counts every run its row has had: nobody    *)
(* else claims, and a retry only sets the count back.                      *)
(***************************************************************************)
Owed(w) ==
  \A i \in 1..Len(todo[w]) :
    i > 1 \/ pc[w] \in {"stranded", "claim", "recover"}
      => runs[todo[w][i].id] <= todo[w][i].attempts

Distinct(w) ==
  \A i, j \in 1..Len(todo[w]) : todo[w][i].id = todo[w][j].id => i = j

JustPolled(w) ==
  pc[w] = "stranded" => \A i \in 1..Len(todo[w]) : status[todo[w][i].id] = "queued"

ListInv(w) == Owed(w) /\ Distinct(w) /\ JustPolled(w)

Counted ==
  \A r \in Reports :
    /\ runs[r] \in Nat /\ runs[r] <= attempts[r] /\ runs[r] <= MaxAttempts
    /\ status[r] \in {"none", "queued"} => runs[r] = 0

LEMMA EntriesTyped ==
  ASSUME TypeInv, NEW w \in Workers
  PROVE  /\ Len(todo[w]) \in Nat
         /\ \A i \in 1..Len(todo[w]) : /\ todo[w][i].id \in Reports
                                       /\ todo[w][i].attempts \in Nat
<1>1. todo[w] \in Seq(Candidate)
  BY DEF TypeInv, TypeOK
<1>2. \A i \in 1..Len(todo[w]) : todo[w][i] \in Candidate
  BY <1>1, ElementOfSeq
<1> QED BY <1>1, <1>2, LenProperties DEF Candidate

LEMMA BusyJob ==
  ASSUME TypeInv, NEW w \in Workers, pc[w] \in Busy
  PROVE  1 \in 1..Len(todo[w]) /\ Job(w) = todo[w][1].id /\ Head(todo[w]) = todo[w][1]
<1>1. todo[w] \in Seq(Candidate) /\ todo[w] # <<>>
  BY DEF TypeInv, TypeOK, Structure
<1>2. Len(todo[w]) \in Nat /\ Len(todo[w]) # 0
  BY <1>1, EmptySeq, LenProperties
<1> QED BY <1>1, <1>2 DEF Job

LEMMA PolledEntries ==
  ASSUME TypeInv, NEW S \in SUBSET Reports, NEW s \in Limited(S)
  PROVE  /\ Candidates(s) \in Seq(Candidate)
         /\ \A i \in 1..Len(Candidates(s)) :
              /\ Candidates(s)[i].id \in S
              /\ Candidates(s)[i].attempts = attempts[Candidates(s)[i].id]
         /\ \A i, j \in 1..Len(Candidates(s)) :
              Candidates(s)[i].id = Candidates(s)[j].id => i = j
<1>1. IsFiniteSet(S)
  BY QueueAssumption, FS_Subset DEF QueueAssumption
<1>2. Cardinality(S) \in Nat
  BY <1>1, FS_CardinalityType
<1>3. PICK n \in Nat : s \in [1..n -> S]
  BY <1>2, QueueAssumption DEF Limited, QueueAssumption
<1>4. Candidates(s) \in Seq(Candidate)
  BY CandidatesType DEF TypeInv
<1>5. 1..Len(Candidates(s)) = 1..n
  BY <1>3, <1>4, LenProperties DEF Candidates
<1>6. \A i, j \in 1..n : s[i] = s[j] => i = j
  BY <1>3 DEF Limited, IsInjective
<1> QED BY <1>3, <1>4, <1>5, <1>6 DEF Candidates

(* The list as it is, or without its head, is what it was.                 *)
LEMMA ListStays ==
  ASSUME TypeInv, NEW w \in Workers, ListInv(w), todo'[w] = todo[w],
         pc'[w] = pc[w] \/ pc'[w] \notin {"stranded", "claim", "recover"}
           \/ (pc[w] = "claim" /\ pc'[w] = "recover"),
         \A r \in Reports : status[r] = "queued" => status'[r] = "queued" \/ pc'[w] # "stranded",
         \A r \in Reports : runs'[r] <= runs[r] \/ (pc'[w] = "run" /\ pc[w] \in Busy /\ r = Job(w)),
         \A r \in Reports : runs[r] \in Nat /\ runs'[r] \in Nat
  PROVE  ListInv(w)'
<1>1. Distinct(w)' /\ JustPolled(w)'
  BY EntriesTyped DEF ListInv, Distinct, JustPolled
<1>2. ASSUME NEW i \in 1..Len(todo[w]),
             i > 1 \/ pc'[w] \in {"stranded", "claim", "recover"}
      PROVE  runs'[todo[w][i].id] <= todo[w][i].attempts
  <2>1. runs[todo[w][i].id] <= todo[w][i].attempts
    BY <1>2 DEF ListInv, Owed
  <2>2. todo[w][i].id \in Reports /\ todo[w][i].attempts \in Nat
    BY EntriesTyped
  <2>3. CASE runs'[todo[w][i].id] <= runs[todo[w][i].id]
    BY <2>1, <2>2, <2>3
  <2>4. CASE pc'[w] = "run" /\ pc[w] \in Busy /\ todo[w][i].id = Job(w)
    BY <1>2, <2>4, BusyJob DEF ListInv, Distinct
  <2> QED BY <2>2, <2>3, <2>4
<1> QED BY <1>1, <1>2 DEF ListInv, Owed

LEMMA ListShrinks ==
  ASSUME TypeInv, NEW w \in Workers, ListInv(w), pc[w] \in Busy,
         todo'[w] = Tail(todo[w]), pc'[w] \in {"idle", "claim"}, UNCHANGED runs
  PROVE  ListInv(w)'
<1>1. todo[w] \in Seq(Candidate) /\ todo[w] # <<>> /\ Len(todo[w]) \in Nat
  BY EntriesTyped DEF TypeInv, TypeOK, Structure
<1>2. /\ Len(todo'[w]) = Len(todo[w]) - 1
      /\ \A i \in 1..Len(todo'[w]) : todo'[w][i] = todo[w][i + 1]
  BY <1>1, HeadTailProperties
<1>3. \A i \in 1..Len(todo'[w]) : i + 1 \in 1..Len(todo[w]) /\ i + 1 > 1
  BY <1>1, <1>2
<1>4. Owed(w)'
  BY <1>2, <1>3 DEF ListInv, Owed
<1>5. Distinct(w)'
  <2> SUFFICES ASSUME NEW i \in 1..Len(todo'[w]), NEW j \in 1..Len(todo'[w]),
                      todo'[w][i].id = todo'[w][j].id
               PROVE  i = j
    BY DEF Distinct
  <2>1. i + 1 = j + 1
    BY <1>2, <1>3 DEF ListInv, Distinct
  <2> QED BY <2>1
<1> QED BY <1>4, <1>5 DEF ListInv, JustPolled

LEMMA ListEmpty ==
  ASSUME NEW w \in Workers, todo'[w] = <<>>
  PROVE  ListInv(w)'
BY EmptySeq DEF ListInv, Owed, Distinct, JustPolled

LEMMA ListPolled ==
  ASSUME TypeInv, Counted, NEW w \in Workers, ListInv(w), PollQueued(w) \/ PollStranded(w)
  PROVE  ListInv(w)'
<1>1. CASE PollQueued(w)
  <2>1. PICK s \in OldestFirst(QueuedRows) : todo' = [todo EXCEPT ![w] = Candidates(s)]
    BY <1>1 DEF PollQueued
  <2>2. s \in Limited(QueuedRows) /\ QueuedRows \in SUBSET Reports
    BY DEF OldestFirst, QueuedRows
  <2>3. todo'[w] = Candidates(s)
    BY <2>1 DEF TypeInv, TypeOK
  <2>4. /\ \A i \in 1..Len(todo'[w]) :
             /\ todo'[w][i].id \in QueuedRows
             /\ todo'[w][i].attempts = attempts[todo'[w][i].id]
        /\ \A i, j \in 1..Len(todo'[w]) : todo'[w][i].id = todo'[w][j].id => i = j
    BY <2>2, <2>3, PolledEntries
  <2>5. UNCHANGED <<runs, status, attempts>>
    BY <1>1 DEF PollQueued, history, row
  <2> QED BY <2>4, <2>5 DEF ListInv, Owed, Distinct, JustPolled, Counted, QueuedRows
<1>2. CASE PollStranded(w)
  <2>1. PICK s \in Limited(StrandedRows) :
          todo' = [todo EXCEPT ![w] = Sliced(todo[w] \o Candidates(s))]
    BY <1>2 DEF PollStranded
  <2> DEFINE polled == todo[w] \o Candidates(s)
             found == Candidates(s)
             n == Len(todo[w])
  <2>2. /\ found \in Seq(Candidate)
        /\ \A i \in 1..Len(found) : /\ found[i].id \in StrandedRows
                                    /\ found[i].attempts = attempts[found[i].id]
        /\ \A i, j \in 1..Len(found) : found[i].id = found[j].id => i = j
    <3>1. StrandedRows \in SUBSET Reports
      BY DEF StrandedRows
    <3> QED BY <3>1, PolledEntries
  <2>3. todo[w] \in Seq(Candidate) /\ n \in Nat /\ Len(found) \in Nat
    BY <2>2, EntriesTyped, LenProperties DEF TypeInv, TypeOK
  <2>4. /\ polled \in Seq(Candidate) /\ Len(polled) = n + Len(found)
        /\ \A j \in 1..(n + Len(found)) :
             polled[j] = IF j <= n THEN todo[w][j] ELSE found[j - n]
    BY <2>2, <2>3, ConcatProperties
  <2>5. \A i \in 1..n : /\ status[todo[w][i].id] = "queued"
                        /\ runs[todo[w][i].id] <= todo[w][i].attempts
    BY <1>2 DEF PollStranded, ListInv, Owed, JustPolled
  <2>6. todo'[w] = Sliced(polled) /\ UNCHANGED runs /\ pc'[w] # "stranded"
    BY <1>2, <2>1 DEF PollStranded, TypeInv, TypeOK, history
  <2>7. \A i \in 1..Len(found) : status[found[i].id] = "generating"
                                 /\ runs[found[i].id] <= found[i].attempts
    BY <2>2 DEF StrandedRows, Counted
  <2> HIDE DEF polled, found, n
  <2>8. \A i \in 1..Len(todo'[w]) : i \in 1..Len(polled) /\ todo'[w][i] = polled[i]
    BY <2>4, <2>6, SlicedElements
  <2>9. \A i \in 1..Len(polled) : (i <= n /\ i \in 1..n) \/ (~(i <= n) /\ i - n \in 1..Len(found))
    BY <2>3, <2>4
  <2>10. \A i \in 1..Len(polled) : runs[polled[i].id] <= polled[i].attempts
    BY <2>4, <2>5, <2>7, <2>9
  <2>11. ASSUME NEW i \in 1..Len(polled), NEW j \in 1..Len(polled), polled[i].id = polled[j].id
         PROVE  i = j
    <3>1. CASE i <= n /\ j <= n
      BY <2>4, <2>9, <2>11, <3>1 DEF ListInv, Distinct, n
    <3>2. CASE ~(i <= n) /\ ~(j <= n)
      <4>1. i - n = j - n
        BY <2>2, <2>4, <2>9, <2>11, <3>2
      <4> QED BY <2>3, <4>1
    <3>3. CASE i <= n /\ ~(j <= n)
      BY <2>4, <2>5, <2>7, <2>9, <2>11, <3>3
    <3>4. CASE ~(i <= n) /\ j <= n
      BY <2>4, <2>5, <2>7, <2>9, <2>11, <3>4
    <3> QED BY <3>1, <3>2, <3>3, <3>4
  <2> QED BY <2>6, <2>8, <2>10, <2>11 DEF ListInv, Owed, Distinct, JustPolled
<1> QED BY <1>1, <1>2

(* A run is counted with an attempt that covers it.                        *)
LEMMA CountedStep ==
  ASSUME TypeInv, Counted, [Next]_vars, \A w \in Workers : ListInv(w)
  PROVE  Counted'
<1> USE QueueAssumption DEF QueueAssumption
<1>1. CASE UNCHANGED <<runs, attempts>> /\
           \A r \in Reports : status'[r] \in {"none", "queued"} => status[r] \in {"none", "queued"}
  BY <1>1 DEF Counted
<1>2. ASSUME NEW q \in Reports, RetryReport(q) PROVE Counted'
  BY <1>2 DEF RetryReport, Counted, TypeInv, TypeOK
<1>3. ASSUME NEW w \in Workers, ClaimQueued(w) PROVE Counted'
  <2>1. /\ pc[w] \in Busy /\ status[Job(w)] = "queued"
        /\ status' = [status EXCEPT ![Job(w)] = "generating"]
        /\ attempts' = [attempts EXCEPT ![Job(w)] = Head(todo[w]).attempts + 1]
        /\ UNCHANGED runs \/ runs' = [runs EXCEPT ![Job(w)] = @ + 1]
    BY <1>3 DEF ClaimQueued, ClaimRow, StartRun, ReplyLost, Busy
  <2>2. Job(w) \in Reports /\ Head(todo[w]).attempts \in Nat
    BY <2>1, BusyJob, EntriesTyped
  <2>3. runs[Job(w)] = 0 /\ runs'[Job(w)] \in 0..1 /\ attempts'[Job(w)] >= 1
    BY <2>1, <2>2 DEF Counted, TypeInv, TypeOK
  <2>4. \A r \in Reports \ {Job(w)} : /\ runs'[r] = runs[r] /\ attempts'[r] = attempts[r]
                                      /\ status'[r] = status[r]
    BY <2>1, <2>2 DEF TypeInv, TypeOK
  <2>5. status'[Job(w)] = "generating" /\ attempts'[Job(w)] \in Nat
    BY <2>1, <2>2 DEF TypeInv, TypeOK
  <2> QED BY <2>3, <2>4, <2>5 DEF Counted
<1>4. ASSUME NEW w \in Workers, RecoverExpired(w) PROVE Counted'
  <2> DEFINE c == Head(todo[w])
  <2>1. /\ pc[w] \in Busy /\ pc[w] = "recover"
        /\ status' = [status EXCEPT ![Job(w)] = "generating"]
        /\ attempts' = [attempts EXCEPT ![Job(w)] = c.attempts + 1]
        /\ \/ UNCHANGED runs
           \/ /\ runs' = [runs EXCEPT ![Job(w)] = @ + 1]
              /\ ~(c.attempts + 1 > MaxAttempts)
    BY <1>4 DEF RecoverExpired, ClaimRow, StartRun, GiveUp, ReplyLost, Exhausted, Busy
  <2>2. Job(w) \in Reports /\ c.attempts \in Nat /\ runs[Job(w)] <= c.attempts
    BY <2>1, BusyJob, EntriesTyped DEF ListInv, Owed
  <2>3. attempts'[Job(w)] = c.attempts + 1 /\ status'[Job(w)] = "generating"
    BY <2>1, <2>2 DEF TypeInv, TypeOK
  <2>4. /\ runs[Job(w)] \in Nat /\ runs[Job(w)] <= MaxAttempts
        /\ \/ runs'[Job(w)] = runs[Job(w)]
           \/ runs'[Job(w)] = runs[Job(w)] + 1 /\ ~(c.attempts + 1 > MaxAttempts)
    BY <2>1, <2>2 DEF Counted, TypeInv, TypeOK
  <2>5. \A r \in Reports \ {Job(w)} : /\ runs'[r] = runs[r] /\ attempts'[r] = attempts[r]
                                      /\ status'[r] = status[r]
    BY <2>1, <2>2 DEF TypeInv, TypeOK
  <2> HIDE DEF c
  <2>6. /\ runs'[Job(w)] \in Nat /\ runs'[Job(w)] <= attempts'[Job(w)]
        /\ runs'[Job(w)] <= MaxAttempts
    BY <2>2, <2>3, <2>4
  <2> QED BY <2>3, <2>5, <2>6 DEF Counted
<1>5. \/ UNCHANGED <<runs, attempts>> /\
           \A r \in Reports : status'[r] \in {"none", "queued"} => status[r] \in {"none", "queued"}
      \/ \E q \in Reports : RetryReport(q)
      \/ \E w \in Workers : ClaimQueued(w) \/ RecoverExpired(w)
  <2>1. ASSUME NEW r \in Reports, CreateReport(r) \/ LeaseExpires(r)
        PROVE  UNCHANGED <<runs, attempts>> /\
           \A q \in Reports : status'[q] \in {"none", "queued"} => status[q] \in {"none", "queued"}
    BY <2>1 DEF CreateReport, LeaseExpires, history, TypeInv, TypeOK
  <2>2. ASSUME NEW w \in Workers, WorkerStep(w) \/ FaultStep(w),
               ~ClaimQueued(w), ~RecoverExpired(w)
        PROVE  UNCHANGED <<runs, attempts>> /\
           \A q \in Reports : status'[q] \in {"none", "queued"} => status[q] \in {"none", "queued"}
    <3>1. CASE UNCHANGED row /\ UNCHANGED runs
      BY <3>1 DEF row
    <3>2. CASE StampReady(w) \/ StampReadyFails(w) \/ MarkFailed(w) \/ MarkFailedFails(w)
      <4>1. \/ UNCHANGED row
            \/ UNCHANGED attempts /\ \E x \in Terminal : status' = [status EXCEPT ![Job(w)] = x]
        BY <3>2 DEF StampReady, StampReadyFails, MarkFailed, MarkFailedFails,
                    StampReadyRow, MarkFailedRow, Terminal
      <4>2. UNCHANGED runs
        BY <3>2 DEF StampReady, StampReadyFails, MarkFailed, MarkFailedFails, history
      <4> QED BY <4>1, <4>2 DEF row, Terminal, TypeInv, TypeOK
    <3> QED BY <2>2, <3>1, <3>2 DEF WorkerStep, FaultStep, PollQueued, PollStranded, PollFails,
         ClaimMissed, RecoverMissed, CallFails, Upload, GenerateFails, RereadTerminal,
         RereadUnfinished, Notify, NotifyDropped, Crash, history
  <2> QED BY <2>1, <2>2 DEF Next, vars, row, history
<1> QED BY <1>1, <1>2, <1>3, <1>4, <1>5

LEMMA ListStep ==
  ASSUME NEW w, Workers = {w}, TypeInv, Counted, Counted', ListInv(w), [Next]_vars
  PROVE  ListInv(w)'
<1>0. w \in Workers /\ \A r \in Reports : runs[r] \in Nat /\ runs'[r] \in Nat
  BY DEF Counted
<1>1. CASE UNCHANGED vars
  BY <1>0, <1>1, ListStays DEF vars, row, tick, history
<1>2. ASSUME NEW q \in Reports, CreateReport(q) \/ RetryReport(q) \/ LeaseExpires(q)
      PROVE  ListInv(w)'
  <2>1. /\ UNCHANGED tick
        /\ \A r \in Reports : status[r] = "queued" => status'[r] = "queued"
        /\ \A r \in Reports : runs'[r] <= runs[r]
    <3>1. CASE CreateReport(q) \/ LeaseExpires(q)
      BY <1>0, <3>1 DEF CreateReport, LeaseExpires, history, TypeInv, TypeOK
    <3>2. CASE RetryReport(q)
      BY <1>0, <3>2 DEF RetryReport, TypeInv, TypeOK
    <3> QED BY <1>2, <3>1, <3>2
  <2> QED BY <1>0, <2>1, ListStays DEF tick
<1>3. CASE WorkerStep(w) \/ FaultStep(w)
  <2>1. CASE PollQueued(w) \/ PollStranded(w)
    BY <1>0, <2>1, ListPolled
  <2>2. CASE PollFails(w) \/ Crash(w)
    BY <1>0, <2>2, ListEmpty DEF PollFails, Crash, TypeInv, TypeOK
  <2>3. CASE NextCandidate(w) /\ pc[w] \in Busy /\ UNCHANGED runs
    BY <1>0, <2>3, ListShrinks DEF NextCandidate, TypeInv, TypeOK
  <2>4. ASSUME todo'[w] = todo[w], pc[w] \in Busy, pc'[w] # "stranded",
               \/ /\ UNCHANGED runs
                  /\ \/ pc'[w] \notin {"claim", "recover"}
                     \/ pc[w] = "claim" /\ pc'[w] = "recover"
               \/ pc'[w] = "run" /\ runs' = [runs EXCEPT ![Job(w)] = @ + 1]
        PROVE  ListInv(w)'
    <3>1. \A r \in Reports : runs'[r] <= runs[r] \/ (pc'[w] = "run" /\ r = Job(w))
      BY <1>0, <2>4 DEF TypeInv, TypeOK
    <3> QED BY <1>0, <2>4, <3>1, ListStays
  <2>5. CASE StartRun(w) /\ pc[w] \in Busy
    BY <1>0, <2>4, <2>5 DEF StartRun, Goto, TypeInv, TypeOK
  <2>6. ASSUME NEW stage \in Stages, Goto(w, stage), pc[w] \in Busy, UNCHANGED runs,
               stage \notin {"stranded", "claim"}, stage = "recover" => pc[w] = "claim"
        PROVE  ListInv(w)'
    BY <1>0, <2>4, <2>6 DEF Goto, TypeInv, TypeOK
  <2>7. CASE ClaimQueued(w) \/ RecoverExpired(w)
    BY <2>3, <2>5, <2>6, <2>7 DEF ClaimQueued, RecoverExpired, ReplyLost, GiveUp, Stages, Busy
  <2>8. CASE ClaimMissed(w) \/ Upload(w) \/ GenerateFails(w) \/ StampReady(w)
             \/ StampReadyFails(w) \/ MarkFailed(w)
    BY <2>6, <2>8 DEF ClaimMissed, Upload, GenerateFails, StampReady, StampReadyFails,
       MarkFailed, history, Stages, Busy
  <2>9. CASE RecoverMissed(w) \/ CallFails(w) \/ MarkFailedFails(w) \/ RereadUnfinished(w)
             \/ Notify(w) \/ NotifyDropped(w)
    BY <2>3, <2>6, <2>9 DEF RecoverMissed, CallFails, MarkFailedFails, RereadUnfinished,
       Notify, NotifyDropped, history, Stages, Busy
  <2>10. CASE RereadTerminal(w)
    BY <1>0, <2>4, <2>10 DEF RereadTerminal, history, Busy, TypeInv, TypeOK
  <2> QED BY <1>3, <2>1, <2>2, <2>7, <2>8, <2>9, <2>10 DEF WorkerStep, FaultStep
<1> QED BY <1>1, <1>2, <1>3 DEF Next

(* One instance generates a request at most MaxAttempts times each time it *)
(* is queued, whatever crashes, expires or is retried in between.          *)
THEOREM BudgetOfOneInstance ==
  ASSUME NEW w, Workers = {w}
  PROVE  Spec => []RunBudget
<1>1. Init => TypeInv /\ Counted /\ ListInv(w)
  <2> SUFFICES ASSUME Init PROVE Counted /\ ListInv(w)
    BY InitTypeInv
  <2>1. todo[w] = <<>>
    BY DEF Init
  <2> QED BY <2>1, EmptySeq, QueueAssumption
          DEF Init, Counted, ListInv, Owed, Distinct, JustPolled, QueueAssumption
<1>2. TypeInv /\ Counted /\ ListInv(w) /\ [Next]_vars => (TypeInv /\ Counted /\ ListInv(w))'
  BY StepTypeInv, CountedStep, ListStep
<1>3. Counted => RunBudget
  BY DEF Counted, RunBudget
<1> QED BY <1>1, <1>2, <1>3, PTL DEF Spec
=============================================================================
