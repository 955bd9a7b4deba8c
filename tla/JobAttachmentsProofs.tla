------------------------- MODULE JobAttachmentsProofs -------------------------
(***************************************************************************)
(* What TLAPS proves of a job and its attachments, for any template, any   *)
(* numbers of admins, employees, uploads and concurrent confirms, and any  *)
(* cap on its photos.                                                      *)
(***************************************************************************)
EXTENDS JobAttachments, FiniteSetTheorems, SequenceTheorems,
        WellFoundedInduction, TLAPS

(***************************************************************************)
(* The invariant.  The jobs row with what is recorded of it ...            *)
(***************************************************************************)
RowTyped ==
  /\ status \in Statuses
  /\ step \in 0..N
  /\ technician \in Employees
  /\ stepLog \in Seq([step : 1..N, by : Employees \cup {NoOne}])
  /\ reassignLog \in Seq([old : Employees, new : Employees])
  /\ cancelLog \in Seq(Admins)
  /\ stepBells \in [Admins \X (1..N) -> Nat]
  /\ assignBells \in [Employees -> Nat]

RowInv == RowTyped /\ LogsTellTheJob

(* ... the calls in flight, which ask for a step of the template and for   *)
(* an employee ...                                                         *)
CallsTyped ==
  /\ advance \in [Employees -> (0..N) \cup {Idle}]
  /\ updPc \in [Admins -> {"idle", "rpc", "ring"}]
  /\ updTarget \in [Admins -> Assignable \cup {NoOne}]
  /\ updSeen \in [Admins -> Employees \cup {NoOne}]
  /\ updates \in 0..MaxUpdates

CallsAim ==
  /\ \A e \in Employees : advance[e] # Idle => advance[e] \in 0..N /\ advance[e] < N
  /\ \A a \in Admins : updPc[a] # "idle" => updTarget[a] \in Assignable

CallInv == CallsTyped /\ CallsAim

(* ... the staging rows and what was stored ...                            *)
StoreTyped ==
  /\ staging \in [Uploads -> StagingStates]
  /\ events \subseteq Uploads
  /\ photoRows \subseteq Photos
  /\ signature \in Signatures \cup {NoUpload, Unlinked}
  /\ conflicts \in Seq(Signatures \cup {NoUpload, Unlinked})
  /\ signed \subseteq Signatures /\ overtaken \subseteq Signatures
  /\ faults \in 0..MaxFaults

TxTyped ==
  /\ txPc \in [Sessions -> TxStages]
  /\ txUpload \in [Sessions -> Uploads \cup {NoUpload}]
  /\ txActor \in [Sessions -> Employees \cup {NoOne}]
  /\ txSeen \in [Sessions -> Signatures \cup {NoUpload, Unlinked} \cup (0..N)]

(* ... and the confirms: what each stage has in hand.  A confirm past its  *)
(* INSERT of a photo still sees the row's step, which its key-share lock   *)
(* has kept.                                                               *)
TxAim ==
  \A x \in Sessions :
    /\ txPc[x] # "idle" => txUpload[x] \in Uploads
    /\ txPc[x] \in {"photo", "advance"} => txUpload[x] \in Photos
    /\ txPc[x] \in {"replace", "insert"} => txUpload[x] \in Signatures
    /\ txPc[x] = "advance" => txSeen[x] = step
    /\ txPc[x] = "replace" => txSeen[x] \in Signatures \cup {NoUpload, Unlinked}

LEMMA TypeSplit == TypeOK <=> RowTyped /\ CallsTyped /\ StoreTyped /\ TxTyped
BY DEF TypeOK, JobTypeOK, RowTyped, CallsTyped, StoreTyped, TxTyped

LEMMA LengthIsNat == N \in Nat
BY JobAssumption, LenProperties DEF JobAssumption, N

LEMMA LeastNatural ==
  ASSUME NEW S, S \subseteq Nat, S # {}
  PROVE  \E n \in S : \A m \in S : n <= m
<1>1. IsWellFoundedOn(OpToRel(<, Nat), Nat)
  BY NatLessThanWellFounded
<1>2. PICK n \in S : \A m \in S : <<m, n>> \notin OpToRel(<, Nat)
  BY <1>1, WFMin
<1>3. \A m \in S : ~(m < n)
  BY <1>2 DEF OpToRel
<1> QED BY <1>3

LEMMA PhotoStepIsAStep == PhotoStep \in 0..N
<1>1. CASE \E k \in 1..N : Template[k].photo
  <2> DEFINE S == {k \in 1..N : Template[k].photo}
             First(k) == Template[k].photo /\ \A j \in 1..(k - 1) : ~Template[j].photo
  <2>0. S \subseteq Nat /\ S # {}
    BY <1>1, LengthIsNat
  <2>1. PICK n \in S : \A m \in S : n <= m
    <3> HIDE DEF S
    <3> QED BY <2>0, LeastNatural
  <2>2. First(n) /\ n \in 1..N
    BY <2>1, LengthIsNat
  <2>3. (CHOOSE k \in 1..N : First(k)) \in 1..N
    BY <2>2
  <2> QED BY <1>1, <2>3, LengthIsNat DEF PhotoStep
<1> QED BY <1>1, LengthIsNat DEF PhotoStep

-----------------------------------------------------------------------------
(***************************************************************************)
(* The row.                                                                *)
(***************************************************************************)
LEMMA TemplateStep ==
  ASSUME NEW k \in 1..N
  PROVE  Template[k].sets \in {"keep"} \cup Statuses
<1>1. Template[k] \in [sets : {"keep", "in_progress", "completed"}, photo : BOOLEAN]
  BY JobAssumption, ElementOfSeq DEF JobAssumption, N
<1> QED BY <1>1 DEF Statuses

(* One entry more continues the log of steps.                              *)
LEMMA StepLogged ==
  ASSUME NEW actor \in Employees \cup {NoOne}, step \in 0..N, step < N,
         stepLog \in Seq([step : 1..N, by : Employees \cup {NoOne}]),
         StepsLoggedInOrder, WriteAdvance(actor, step + 1)
  PROVE  /\ stepLog' \in Seq([step : 1..N, by : Employees \cup {NoOne}])
         /\ StepsLoggedInOrder'
<1> DEFINE entry == [step |-> step + 1, by |-> actor]
           E == [step : 1..N, by : Employees \cup {NoOne}]
<1>1. entry \in E
  BY LengthIsNat
<1>2. stepLog' = Append(stepLog, entry) /\ step' = step + 1
  BY DEF WriteAdvance
<1>3. entry.step = step + 1
  OBVIOUS
<1>4. stepLog \in Seq(E) /\ Len(stepLog) = step /\ \A i \in 1..step : stepLog[i].step = i
  BY DEF StepsLoggedInOrder
<1> HIDE DEF entry, E
<1>5. /\ stepLog' \in Seq(E)
      /\ Len(stepLog') = step + 1
      /\ \A i \in 1..step : stepLog'[i] = stepLog[i]
      /\ stepLog'[step + 1] = entry
  BY <1>1, <1>2, <1>4, AppendProperties, LengthIsNat
<1>6. \A i \in 1..(step + 1) : stepLog'[i].step = i
  BY <1>3, <1>4, <1>5, LengthIsNat
<1> QED BY <1>2, <1>5, <1>6 DEF StepsLoggedInOrder, E

LEMMA AdvanceKeepsRow ==
  ASSUME NEW actor \in Employees \cup {NoOne}, RowInv, step < N,
         WriteAdvance(actor, step + 1)
  PROVE  RowInv'
<1> USE LengthIsNat DEF RowInv, RowTyped
<1>1. status' \in Statuses
  BY TemplateStep DEF WriteAdvance, Statuses
<1>2. step' \in 0..N
  BY DEF WriteAdvance
<1>3. stepBells' \in [Admins \X (1..N) -> Nat]
  BY DEF WriteAdvance
<1>4. StepsLoggedInOrder' /\ stepLog' \in Seq([step : 1..N, by : Employees \cup {NoOne}])
  BY StepLogged DEF LogsTellTheJob
<1>5. ReassignChain'
  BY DEF WriteAdvance, LogsTellTheJob, ReassignChain
<1> QED BY <1>1, <1>2, <1>3, <1>4, <1>5 DEF WriteAdvance, LogsTellTheJob

(* An entry with the technician of the row continues the chain.            *)
LEMMA ReassignLogged ==
  ASSUME RowInv, NEW target \in Employees, NEW a,
         LogReassign(a, target), technician' = target
  PROVE  ReassignChain' /\ reassignLog' \in Seq([old : Employees, new : Employees])
<1> DEFINE E == [old : Employees, new : Employees]
           entry == [old |-> technician, new |-> target]
<1>0. reassignLog \in Seq(E) /\ entry \in E /\ ReassignChain
  BY DEF RowInv, RowTyped, LogsTellTheJob
<1>1. CASE target = technician
  BY <1>0, <1>1 DEF LogReassign, ReassignChain
<1>2. CASE target # technician
  <2>1. reassignLog' = Append(reassignLog, entry)
    BY <1>2 DEF LogReassign
  <2>2. entry.old = technician /\ entry.new = target
    OBVIOUS
  <2> HIDE DEF entry, E
  <2>3. /\ reassignLog' \in Seq(E) /\ Len(reassignLog) \in Nat
        /\ Len(reassignLog') = Len(reassignLog) + 1
        /\ \A i \in 1..Len(reassignLog) : reassignLog'[i] = reassignLog[i]
        /\ reassignLog'[Len(reassignLog) + 1] = entry
    BY <1>0, <2>1, AppendProperties, LenProperties
  <2>4. ASSUME NEW i \in 1..Len(reassignLog')
        PROVE  /\ reassignLog'[i].old # reassignLog'[i].new
               /\ i > 1 => reassignLog'[i].old = reassignLog'[i - 1].new
    <3>1. CASE i \in 1..Len(reassignLog)
      BY <1>0, <2>3, <3>1 DEF ReassignChain
    <3>2. CASE i = Len(reassignLog) + 1
      <4>1. reassignLog'[i].old # reassignLog'[i].new
        BY <1>2, <2>2, <2>3, <3>2
      <4>2. ASSUME i > 1 PROVE reassignLog'[i].old = reassignLog'[i - 1].new
        <5>1. Len(reassignLog) \in 1..Len(reassignLog) /\ reassignLog # <<>>
          BY <1>0, <2>3, <3>2, <4>2, EmptySeq
        <5>2. reassignLog[Len(reassignLog)].new = technician
          BY <1>0, <5>1 DEF ReassignChain
        <5> QED BY <2>2, <2>3, <3>2, <5>1, <5>2
      <4> QED BY <4>1, <4>2
    <3> QED BY <2>3, <2>4, <3>1, <3>2
  <2>5. reassignLog'[Len(reassignLog')].new = technician'
    BY <2>2, <2>3
  <2> QED BY <2>3, <2>4, <2>5 DEF ReassignChain, E
<1> QED BY <1>1, <1>2

LEMMA UnchangedRow ==
  ASSUME RowInv, UNCHANGED <<job, logs, stepBells, assignBells>>
  PROVE  RowInv'
BY DEF RowInv, RowTyped, job, logs, LogsTellTheJob, StepsLoggedInOrder, ReassignChain

LEMMA UnchangedCalls ==
  ASSUME CallInv, UNCHANGED <<advance, upd, updates>>
  PROVE  CallInv'
BY DEF CallInv, CallsTyped, CallsAim, upd

(* A handler that is done forgets its frame.                               *)
LEMMA UpdateEnded ==
  ASSUME CallInv, NEW a \in Admins, EndUpdate(a), UNCHANGED <<advance, updates>>
  PROVE  CallInv'
BY DEF CallInv, CallsTyped, CallsAim, EndUpdate

LEMMA AdvanceEnded ==
  ASSUME CallInv, NEW e \in Employees, advance' = [advance EXCEPT ![e] = Idle],
         UNCHANGED <<upd, updates>>
  PROVE  CallInv'
BY DEF CallInv, CallsTyped, CallsAim, upd

LEMMA JobStep ==
  ASSUME RowInv, CallInv, JobNext
  PROVE  RowInv' /\ CallInv'
<1>1. ASSUME NEW e \in Employees, AdvanceStep(e) PROVE RowInv' /\ CallInv'
  <2>1. step = advance[e] /\ step < N /\ WriteAdvance(e, step + 1)
    BY <1>1 DEF AdvanceStep, Advanceable, CallInv, CallsAim
  <2> QED BY <1>1, <2>1, AdvanceKeepsRow, AdvanceEnded DEF AdvanceStep
<1>2. ASSUME NEW a \in Admins, CancelJob(a) PROVE RowInv' /\ CallInv'
  <2>1. cancelLog' \in Seq(Admins)
    BY <1>2, AppendProperties DEF CancelJob, RowInv, RowTyped
  <2>2. RowInv'
    BY <1>2, <2>1 DEF CancelJob, RowInv, RowTyped, Statuses, LogsTellTheJob,
         StepsLoggedInOrder, ReassignChain
  <2> QED BY <1>2, <2>2, UnchangedCalls DEF CancelJob
<1>3. ASSUME NEW a \in Admins, Reassign(a) PROVE RowInv' /\ CallInv'
  <2>1. updTarget[a] \in Assignable /\ updTarget[a] \in Employees
    BY <1>3 DEF Reassign, CallInv, CallsAim, Assignable
  <2>2. RowInv'
    <3>1. ReassignChain' /\ reassignLog' \in Seq([old : Employees, new : Employees])
      BY <1>3, <2>1, ReassignLogged DEF Reassign
    <3> QED BY <1>3, <2>1, <3>1 DEF Reassign, RowInv, RowTyped, LogsTellTheJob, StepsLoggedInOrder
  <2>3. CASE EndUpdate(a)
    BY <1>3, <2>2, <2>3, UpdateEnded DEF Reassign
  <2>4. CASE updPc' = [updPc EXCEPT ![a] = "ring"] /\ UNCHANGED <<updTarget, updSeen>>
    BY <1>3, <2>1, <2>2, <2>4 DEF Reassign, CallInv, CallsTyped, CallsAim
  <2> QED BY <1>3, <2>3, <2>4 DEF Reassign
<1>4. ASSUME NEW e \in Employees, ReadJob(e) PROVE RowInv' /\ CallInv'
  <2>1. CallInv'
    BY <1>4, JobAssumption, LengthIsNat
       DEF ReadJob, RowInv, RowTyped, CallInv, CallsTyped, CallsAim, upd
  <2> QED BY <1>4, <2>1, UnchangedRow DEF ReadJob
<1>5. ASSUME NEW e \in Employees, AdvanceRefused(e) PROVE RowInv' /\ CallInv'
  BY <1>5, UnchangedRow, AdvanceEnded DEF AdvanceRefused
<1>6. ASSUME NEW a \in Admins, UpdateEnds(a) PROVE RowInv' /\ CallInv'
  BY <1>6, UnchangedRow, UpdateEnded DEF UpdateEnds
<1>7. ASSUME NEW a \in Admins, RingAssigned(a) PROVE RowInv' /\ CallInv'
  <2>1. updTarget[a] \in Employees
    BY <1>7 DEF RingAssigned, CallInv, CallsAim, Assignable
  <2>2. RowInv'
    BY <1>7, <2>1 DEF RingAssigned, RowInv, RowTyped, job, logs, LogsTellTheJob,
         StepsLoggedInOrder, ReassignChain
  <2> QED BY <1>7, <2>2, UpdateEnded DEF RingAssigned
<1>8. ASSUME NEW a \in Admins, NEW target \in Assignable, ReadTechnician(a, target)
      PROVE  RowInv' /\ CallInv'
  <2>1. CallInv'
    BY <1>8, JobAssumption
       DEF ReadTechnician, RowInv, RowTyped, CallInv, CallsTyped, CallsAim, JobAssumption
  <2> QED BY <1>8, <2>1, UnchangedRow DEF ReadTechnician
<1> QED BY <1>1, <1>2, <1>3, <1>4, <1>5, <1>6, <1>7, <1>8 DEF JobNext, JobLocking, JobUnlocked

-----------------------------------------------------------------------------
(***************************************************************************)
(* The uploads and their confirms.                                         *)
(***************************************************************************)
Hand == StoreTyped /\ TxTyped /\ TxAim

(* No key-share lock, or no write to the step: the confirms stay right.    *)
LEMMA HandKept ==
  ASSUME Hand, UNCHANGED uploadVars, step' = step \/ JobSharers = {}
  PROVE  Hand'
<1>1. \A x \in Sessions : txPc[x] = "advance" => txSeen[x] = step'
  BY DEF Hand, TxAim, JobSharers
<1> QED BY <1>1 DEF Hand, StoreTyped, TxTyped, TxAim, uploadVars, store, tx

(* A session that leaves forgets its frame.                                *)
LEMMA SessionLeft ==
  ASSUME TxTyped, TxAim, NEW x \in Sessions, Leave(x),
         \A y \in Sessions \ {x} : txPc[y] = "advance" => txSeen[y] = step'
  PROVE  TxTyped' /\ TxAim'
<1>1. TxTyped'
  BY DEF TxTyped, Leave, TxStages
<1>2. /\ txPc'[x] = "idle"
      /\ \A y \in Sessions \ {x} : /\ txPc'[y] = txPc[y] /\ txUpload'[y] = txUpload[y]
                                   /\ txSeen'[y] = txSeen[y]
  BY DEF TxTyped, Leave
<1> QED BY <1>1, <1>2 DEF TxAim

LEMMA SessionGoes ==
  ASSUME TxTyped, TxAim, NEW x \in Sessions, NEW stage \in TxStages,
         NEW seen \in Signatures \cup {NoUpload, Unlinked} \cup (0..N),
         Goto(x, stage, seen), UNCHANGED step, txUpload[x] \in Uploads,
         stage \in {"photo", "advance"} => txUpload[x] \in Photos,
         stage \in {"replace", "insert"} => txUpload[x] \in Signatures,
         stage = "advance" => seen = step,
         stage = "replace" => seen \in Signatures \cup {NoUpload, Unlinked}
  PROVE  TxTyped' /\ TxAim'
<1>1. TxTyped'
  BY DEF TxTyped, Goto
<1>2. /\ txPc'[x] = stage /\ txSeen'[x] = seen
      /\ \A y \in Sessions \ {x} : txPc'[y] = txPc[y] /\ txSeen'[y] = txSeen[y]
      /\ UNCHANGED txUpload
  BY DEF TxTyped, Goto
<1> QED BY <1>1, <1>2 DEF TxAim

LEMMA SessionCalls ==
  ASSUME Hand, NEW x \in Sessions, NEW u \in Uploads, NEW actor \in Employees \cup {NoOne},
         Call(x, u, actor)
  PROVE  Hand'
<1>1. StoreTyped'
  BY DEF Hand, StoreTyped, Call, store
<1>2. TxTyped'
  BY DEF Hand, TxTyped, TxStages, Call
<1>3. /\ txPc'[x] = "call" /\ txUpload'[x] = u /\ UNCHANGED <<txSeen, step>>
      /\ \A y \in Sessions \ {x} : txPc'[y] = txPc[y] /\ txUpload'[y] = txUpload[y]
  BY DEF Hand, TxTyped, Call, jobVars, job
<1> QED BY <1>1, <1>2, <1>3 DEF Hand, TxAim

(* The queue's messages change only when a call ends.                      *)
LEMMA Answered ==
  ASSUME Hand, NEW x \in Sessions, NEW acked, Answer(x, acked), UNCHANGED step
  PROVE  TxTyped' /\ TxAim' /\ events' \subseteq events
BY SessionLeft DEF Hand, Answer, TxAim

LEMMA UploadingStep ==
  ASSUME Hand, NEW u \in Uploads, Uploading(u)
  PROVE  Hand' /\ UNCHANGED jobVars
<1>1. UNCHANGED jobVars /\ UNCHANGED tx
  BY DEF Uploading, RequestUpload, InsertStaging, PutObject, Expire, Cleanup
<1>2. StoreTyped'
  BY DEF Hand, StoreTyped, StagingStates, Uploading, RequestUpload, InsertStaging,
         PutObject, Expire, Cleanup, store
<1> QED BY <1>1, <1>2 DEF Hand, TxTyped, TxAim, tx, jobVars, job

(* Each commit confirms its upload's row and answers.                      *)
LEMMA Committed ==
  ASSUME Hand, NEW x \in Sessions, Commit(x), txUpload[x] \in Uploads,
         \A y \in Sessions \ {x} : txPc[y] = "advance" => txSeen[y] = step'
  PROVE  /\ TxTyped' /\ TxAim'
         /\ staging' \in [Uploads -> StagingStates]
         /\ events' \subseteq Uploads /\ faults' \in 0..MaxFaults
<1>1. Leave(x) /\ events' \subseteq events
  BY DEF Commit, Answer
<1>2. TxTyped' /\ TxAim'
  BY <1>1, SessionLeft DEF Hand
<1>3. faults' \in 0..MaxFaults
  <2>1. faults' = faults \/ (faults < MaxFaults /\ faults' = faults + 1)
    BY DEF Commit
  <2> QED BY <2>1, AttachmentAssumption DEF Hand, StoreTyped, AttachmentAssumption
<1> QED BY <1>1, <1>2, <1>3 DEF Commit, Hand, StoreTyped, StagingStates

(* A commit that advances takes the row from the step it saw.              *)
LEMMA CommitAdvancingWrites ==
  ASSUME RowInv, Hand, NEW x \in Sessions, CommitAdvancing(x)
  PROVE  /\ txSeen[x] = step /\ PhotoStep = step + 1 /\ PhotoStep \in 1..N
         /\ IF status \in Open THEN WriteAdvance(txActor[x], step + 1)
            ELSE UNCHANGED <<job, logs, stepBells, assignBells>>
<1>1. txSeen[x] = step
  BY DEF CommitAdvancing, CommitPhoto, Hand, TxAim
<1>2. PhotoStep # 0 /\ txSeen[x] = PhotoStep - 1
  BY DEF CommitAdvancing, WantsAdvance
<1>3. PhotoStep \in 1..N /\ PhotoStep = step + 1
  BY <1>1, <1>2, PhotoStepIsAStep, LengthIsNat
<1> QED BY <1>1, <1>3 DEF CommitAdvancing, Advanceable

LEMMA ConfirmingStep ==
  ASSUME RowInv, CallInv, Hand, NEW x \in Sessions, Confirming(x)
  PROVE  RowInv' /\ CallInv' /\ Hand'
<1>1. CASE ConfirmSettled(x) \/ DeadlockVictim(x)
  <2>1. UNCHANGED <<jobVars, staging, store, faults>> /\ \E acked : Answer(x, acked)
    BY <1>1 DEF ConfirmSettled, DeadlockVictim
  <2>2. TxTyped' /\ TxAim' /\ events' \subseteq events
    BY <2>1, Answered DEF jobVars, job
  <2> QED BY <2>1, <2>2, UnchangedRow, UnchangedCalls DEF Hand, StoreTyped, store, jobVars
<1>2. CASE LockUpload(x)
  <2>1. UNCHANGED <<jobVars, staging, events, store, faults>> /\ txUpload[x] \in Uploads
    BY <1>2 DEF LockUpload, Hand, TxAim
  <2>2. TxTyped' /\ TxAim'
    <3>1. CASE txUpload[x] \in Photos
      BY <1>2, <2>1, <3>1, SessionGoes DEF LockUpload, Hand, TxStages, jobVars, job
    <3>2. CASE txUpload[x] \notin Photos
      <4>1. Goto(x, "replace", signature) /\ txUpload[x] \in Signatures
        BY <1>2, <2>1, <3>2 DEF LockUpload, Uploads
      <4> QED BY <2>1, <4>1, SessionGoes DEF Hand, StoreTyped, TxStages, jobVars, job
    <3> QED BY <3>1, <3>2
  <2> QED BY <2>1, <2>2, UnchangedRow, UnchangedCalls DEF Hand, StoreTyped, store, jobVars
<1>3. CASE InsertPhoto(x) \/ NoSignatureYet(x)
  <2>1. UNCHANGED <<jobVars, staging, events, store, faults>> /\ txUpload[x] \in Uploads
    BY <1>3 DEF InsertPhoto, NoSignatureYet, Hand, TxAim
  <2>2. TxTyped' /\ TxAim'
    <3>1. CASE InsertPhoto(x)
      BY <2>1, <3>1, SessionGoes DEF InsertPhoto, Hand, TxAim, TxStages, RowInv, RowTyped, jobVars, job
    <3>2. CASE NoSignatureYet(x)
      BY <2>1, <3>2, SessionGoes DEF NoSignatureYet, Hand, TxAim, TxStages, jobVars, job
    <3> QED BY <1>3, <3>1, <3>2
  <2> QED BY <2>1, <2>2, UnchangedRow, UnchangedCalls DEF Hand, StoreTyped, store, jobVars
<1>4. CASE CommitAdvancing(x) \/ CommitPlain(x)
  <2>0. CommitPhoto(x) /\ txUpload[x] \in Photos /\ UNCHANGED <<advance, upd, updates>>
    BY <1>4 DEF CommitAdvancing, CommitPlain, CommitPhoto, Hand, TxAim
  <2>1. RowInv' /\ \A y \in Sessions \ {x} : txPc[y] = "advance" => txSeen[y] = step'
    <3>1. CASE CommitPlain(x)
      BY <3>1, UnchangedRow DEF CommitPlain, Hand, TxAim, job
    <3>2. CASE CommitAdvancing(x)
      <4>1. \A y \in Sessions \ {x} : txPc[y] # "advance"
        BY <3>2 DEF CommitAdvancing, JobSharers
      <4>2. CASE status \in Open
        <5>1. WriteAdvance(txActor[x], step + 1) /\ step < N
          BY <3>2, <4>2, CommitAdvancingWrites, LengthIsNat DEF RowInv, RowTyped
        <5>2. txActor[x] \in Employees \cup {NoOne}
          BY DEF Hand, TxTyped
        <5> QED BY <4>1, <5>1, <5>2, AdvanceKeepsRow
      <4>3. CASE status \notin Open
        BY <3>2, <4>1, <4>3, CommitAdvancingWrites, UnchangedRow
      <4> QED BY <4>2, <4>3
    <3> QED BY <1>4, <3>1, <3>2
  <2>2. StoreTyped' /\ TxTyped' /\ TxAim'
    BY <2>0, <2>1, Committed DEF CommitPhoto, Hand, StoreTyped, Uploads
  <2> QED BY <2>0, <2>1, <2>2, UnchangedCalls DEF Hand
<1>5. CASE ReplaceSignature(x) \/ InsertSignature(x)
  <2>1. /\ Commit(x) /\ UNCHANGED <<jobVars, photoRows>> /\ txUpload[x] \in Signatures
        /\ \A y \in Sessions \ {x} : txPc[y] = "advance" => txSeen[y] = step'
    BY <1>5 DEF ReplaceSignature, InsertSignature, CommitSignature, Hand, TxAim, jobVars, job
  <2>2. conflicts' \in Seq(Signatures \cup {NoUpload, Unlinked})
    <3>1. \A seen \in Signatures \cup {NoUpload, Unlinked} :
             Append(conflicts, seen) \in Seq(Signatures \cup {NoUpload, Unlinked})
      BY AppendProperties DEF Hand, StoreTyped
    <3> QED BY <1>5, <2>1, <3>1 DEF ReplaceSignature, InsertSignature, Hand, TxAim, StoreTyped
  <2>3. /\ signature' \in Signatures \cup {NoUpload, Unlinked}
        /\ signed' \subseteq Signatures /\ overtaken' \subseteq Signatures
    BY <1>5, <2>1 DEF ReplaceSignature, InsertSignature, CommitSignature, Hand, StoreTyped
  <2>4. StoreTyped' /\ TxTyped' /\ TxAim'
    BY <2>1, <2>2, <2>3, Committed DEF Hand, StoreTyped, Uploads
  <2> QED BY <2>1, <2>4, UnchangedRow, UnchangedCalls DEF Hand, jobVars
<1> QED BY <1>1, <1>2, <1>3, <1>4, <1>5 DEF Confirming

LEMMA InvInit == Init => RowInv /\ CallInv /\ Hand
<1> SUFFICES ASSUME Init PROVE RowInv /\ CallInv /\ Hand
  OBVIOUS
<1> USE DEF Init, NothingStored, JobInit
<1>1. RowInv
  BY EmptySeq, LengthIsNat DEF RowInv, RowTyped, Statuses, LogsTellTheJob,
     StepsLoggedInOrder, ReassignChain
<1>2. CallInv
  BY JobAssumption DEF CallInv, CallsTyped, CallsAim, JobAssumption
<1>3. Hand
  BY EmptySeq, AttachmentAssumption
     DEF Hand, StoreTyped, StagingStates, TxTyped, TxAim, TxStages, AttachmentAssumption
<1> QED BY <1>1, <1>2, <1>3

LEMMA InvStep == RowInv /\ CallInv /\ Hand /\ [Next]_vars => RowInv' /\ CallInv' /\ Hand'
<1> SUFFICES ASSUME RowInv, CallInv, Hand, [Next]_vars PROVE RowInv' /\ CallInv' /\ Hand'
  OBVIOUS
<1>1. CASE JobNext /\ (JobUnlocked \/ JobSharers = {}) /\ UNCHANGED uploadVars
  <2>1. step' = step \/ JobSharers = {}
    BY <1>1 DEF JobUnlocked, ReadJob, AdvanceRefused, UpdateEnds, RingAssigned, ReadTechnician, job
  <2> QED BY <1>1, <2>1, JobStep, HandKept
<1>2. ASSUME NEW u \in Uploads, Uploading(u) PROVE RowInv' /\ CallInv' /\ Hand'
  BY <1>2, UploadingStep, UnchangedRow, UnchangedCalls DEF jobVars
<1>3. ASSUME NEW x \in Sessions, NEW u \in Uploads, ConfirmUpload(x, u) \/ DeliverEvent(x, u)
      PROVE  RowInv' /\ CallInv' /\ Hand'
  <2>1. \E actor \in Employees \cup {NoOne} : Call(x, u, actor)
    BY <1>3 DEF ConfirmUpload, DeliverEvent, RowInv, RowTyped
  <2> QED BY <2>1, SessionCalls, UnchangedRow, UnchangedCalls DEF Call, jobVars
<1>4. ASSUME NEW x \in Sessions, Confirming(x) PROVE RowInv' /\ CallInv' /\ Hand'
  BY <1>4, ConfirmingStep
<1>5. ASSUME NEW x \in Sessions, RollBack(x) PROVE RowInv' /\ CallInv' /\ Hand'
  <2>1. UNCHANGED <<jobVars, staging, store>> /\ Answer(x, FALSE)
    BY <1>5 DEF RollBack
  <2>2. TxTyped' /\ TxAim' /\ events' \subseteq events
    BY <2>1, Answered DEF jobVars, job
  <2>3. faults' \in 0..MaxFaults
    BY <1>5, AttachmentAssumption DEF RollBack, Hand, StoreTyped, AttachmentAssumption
  <2> QED BY <2>1, <2>2, <2>3, UnchangedRow, UnchangedCalls DEF Hand, StoreTyped, store, jobVars
<1>6. CASE UNCHANGED vars
  BY <1>6, UnchangedRow, UnchangedCalls, HandKept DEF vars, jobVars, job
<1> QED BY <1>1, <1>2, <1>3, <1>4, <1>5, <1>6 DEF Next, JobNext

(* Every reachable state is well typed, and each call in flight has in     *)
(* hand what its stage needs: a step of the template, an employee, an      *)
(* upload of the right kind.                                               *)
THEOREM TypeCorrect == Spec => []TypeOK
<1>1. RowInv /\ CallInv /\ Hand => TypeOK
  BY TypeSplit DEF RowInv, CallInv, Hand
<1> QED BY <1>1, InvInit, InvStep, PTL DEF Spec

(* Whoever races - a stale advance, an offline replay, photo confirms of   *)
(* technician and webhook, two admins on one stale page - the step entries *)
(* are the template's steps up to current_step, each once and in order,    *)
(* and the reassignments form a chain that ends with the incumbent.        *)
THEOREM LogsComplete == Spec => []LogsTellTheJob
<1>1. RowInv => LogsTellTheJob
  BY DEF RowInv
<1> QED BY <1>1, InvInit, InvStep, PTL DEF Spec

-----------------------------------------------------------------------------
(***************************************************************************)
(* The job implements JobLifecycle: every write of the row is a step of    *)
(* it, and every other action leaves the row alone.                        *)
(***************************************************************************)
LEMMA AdvanceWalks ==
  ASSUME NEW actor, RowInv, step < N, status \in Open, WriteAdvance(actor, step + 1)
  PROVE  Lifecycle!Walk
BY DEF Lifecycle!Walk, Lifecycle!Open, WriteAdvance, Open, N

LEMMA JobStepImplements ==
  ASSUME RowInv, CallInv, JobNext
  PROVE  [Lifecycle!Walk \/ Lifecycle!CallOff \/ Lifecycle!HandOver]_(Lifecycle!job)
<1> USE DEF Lifecycle!job
<1>1. ASSUME NEW e \in Employees, AdvanceStep(e) PROVE Lifecycle!Walk
  <2>1. step = advance[e] /\ step < N /\ status \in Open /\ WriteAdvance(e, step + 1)
    BY <1>1 DEF AdvanceStep, Advanceable, CallInv, CallsAim
  <2> QED BY <2>1, AdvanceWalks
<1>2. ASSUME NEW a \in Admins, CancelJob(a) PROVE Lifecycle!CallOff
  BY <1>2 DEF CancelJob, Modifiable, Lifecycle!CallOff
<1>3. ASSUME NEW a \in Admins, Reassign(a) PROVE Lifecycle!HandOver
  BY <1>3 DEF Reassign, Modifiable, Lifecycle!HandOver, CallInv, CallsAim, Assignable
<1>4. CASE JobUnlocked
  BY <1>4 DEF JobUnlocked, ReadJob, AdvanceRefused, UpdateEnds, RingAssigned, ReadTechnician, job
<1> QED BY <1>1, <1>2, <1>3, <1>4 DEF JobNext, JobLocking

LEMMA ConfirmImplements ==
  ASSUME RowInv, Hand, NEW x \in Sessions, Confirming(x)
  PROVE  [Lifecycle!Walk]_(Lifecycle!job)
<1>1. CASE CommitAdvancing(x)
  <2>1. CASE status \in Open
    <3>1. WriteAdvance(txActor[x], step + 1) /\ step < N
      BY <1>1, <2>1, CommitAdvancingWrites, LengthIsNat DEF RowInv, RowTyped
    <3> QED BY <2>1, <3>1, AdvanceWalks
  <2>2. CASE status \notin Open
    BY <1>1, <2>2, CommitAdvancingWrites DEF Lifecycle!job, job
  <2> QED BY <2>1, <2>2
<1>2. CASE ~CommitAdvancing(x)
  BY <1>2 DEF Confirming, ConfirmSettled, LockUpload, InsertPhoto, CommitPlain,
     DeadlockVictim, ReplaceSignature, NoSignatureYet, InsertSignature, CommitSignature,
     Lifecycle!job, jobVars, job
<1> QED BY <1>1, <1>2

(* The job behaves as JobLifecycle promises, whatever races: it walks its  *)
(* template one step at a time, and only a scheduled job is called off or  *)
(* handed over.                                                            *)
THEOREM JobLifecycleImplemented == Spec => ImplementsJobLifecycle
<1>1. Init => Lifecycle!Fresh
  BY DEF Init, NothingStored, JobInit, Lifecycle!Fresh
<1>2. RowInv /\ CallInv /\ Hand /\ [Next]_vars
      => [Lifecycle!Walk \/ Lifecycle!CallOff \/ Lifecycle!HandOver]_(Lifecycle!job)
  <2> SUFFICES ASSUME RowInv, CallInv, Hand, [Next]_vars
               PROVE  [Lifecycle!Walk \/ Lifecycle!CallOff \/ Lifecycle!HandOver]_(Lifecycle!job)
    OBVIOUS
  <2>1. CASE JobNext
    BY <2>1, JobStepImplements
  <2>2. CASE \E x \in Sessions : Confirming(x)
    BY <2>2, ConfirmImplements
  <2>3. CASE UNCHANGED jobVars
    BY <2>3 DEF Lifecycle!job, jobVars, job
  <2>4. ASSUME NEW u \in Uploads, Uploading(u) PROVE UNCHANGED jobVars
    BY <2>4, UploadingStep
  <2> QED BY <2>1, <2>2, <2>3, <2>4
         DEF Next, JobNext, ConfirmUpload, DeliverEvent, Call, RollBack, vars
<1> QED BY <1>1, <1>2, InvInit, InvStep, PTL
       DEF Spec, ImplementsJobLifecycle, Lifecycle!Lifecycle

-----------------------------------------------------------------------------
(* A photo that commits while the open job stands right before its photo   *)
(* step takes it there.  The confirm still sees the step it read: its      *)
(* key-share lock kept the row from moving.                                *)
THEOREM PhotosAdvance == Spec => PhotoConfirmAdvances
<1> DEFINE Advances == photoRows' # photoRows /\ PhotoStep # 0 /\ step = PhotoStep - 1
                         /\ status \in Open => step' = PhotoStep
<1>1. RowInv /\ CallInv /\ Hand /\ [Next]_vars => [Advances]_vars
  <2> SUFFICES ASSUME RowInv, Hand, Next, photoRows' # photoRows, PhotoStep # 0,
                      step = PhotoStep - 1, status \in Open
               PROVE  step' = PhotoStep
    BY DEF vars
  <2>1. PICK x \in Sessions : CommitAdvancing(x) \/ CommitPlain(x)
    BY DEF Next, uploadVars, Uploading, RequestUpload, InsertStaging, PutObject, Expire, Cleanup,
       ConfirmUpload, DeliverEvent, Call, RollBack, Confirming, ConfirmSettled, LockUpload,
       InsertPhoto, DeadlockVictim, ReplaceSignature, NoSignatureYet, InsertSignature,
       CommitSignature, store
  <2>2. txSeen[x] = step
    BY <2>1 DEF CommitAdvancing, CommitPlain, CommitPhoto, Hand, TxAim
  <2>3. CommitAdvancing(x)
    BY <2>1, <2>2 DEF CommitPlain, WantsAdvance
  <2> QED BY <2>3, CommitAdvancingWrites DEF WriteAdvance
<1> QED BY <1>1, InvInit, InvStep, PTL DEF Spec, PhotoConfirmAdvances

-----------------------------------------------------------------------------
(***************************************************************************)
(* What the confirms leave behind.  A row is confirmed once: its upload is *)
(* held by one confirm, and a committed one finds no holder again.         *)
(***************************************************************************)
Holds(x) == txPc[x] \notin {"idle", "call"}

UploadsHeld ==
  /\ \A u \in events : staging[u] \notin {"none", "granted"}
  /\ \A x \in Sessions :
       /\ txPc[x] # "idle" => staging[txUpload[x]] \notin {"none", "granted"}
       /\ Holds(x) => staging[txUpload[x]] \in {"pending", "stale"}
  /\ \A x, y \in Sessions : Holds(x) /\ Holds(y) /\ txUpload[x] = txUpload[y] => x = y
  /\ \A u \in signed : staging[u] \in {"confirmed", "gone"}

(* The photo confirms in flight, which counted a photo below the cap.      *)
Photographing == {x \in Sessions : txPc[x] \in {"photo", "advance"}}

CapOverrun ==
  PhotoCount + Cardinality(Photographing) <= MaxPhotos + Cardinality(Sessions) - 1

EntriesInv == UploadsHeld /\ IsFiniteSet(signed) /\ OneEntryEach

(* The row that stands was confirmed.  A confirm about to replace it has   *)
(* seen that row, unless another confirm overtook it or the cleanup has    *)
(* cut the row off since; what it saw had been confirmed, too.             *)
StandsSigned == signature \in signed \cup {NoUpload, Unlinked}

SeenStands ==
  \A x \in Replacing :
    /\ txSeen[x] \in signed \cup {NoUpload, Unlinked}
    /\ signature = txSeen[x] \/ signature \in overtaken \/ signature = Unlinked

NamingInv == StandsSigned /\ SeenStands /\ NamedAreReplaced /\ ReplacedAreNamed

UploadInv == EntriesInv /\ NamingInv /\ CapOverrun

LEMMA UploadsUnchanged ==
  ASSUME UploadInv, UNCHANGED <<staging, events, store, tx>>
  PROVE  UploadInv'
<1>1. NamingInv'
  BY DEF UploadInv, NamingInv, StandsSigned, SeenStands, Replacing, NamedAreReplaced,
         ReplacedAreNamed, Named, Range, store, tx
<1>2. EntriesInv' /\ CapOverrun'
  BY DEF UploadInv, EntriesInv, UploadsHeld, Holds, OneEntryEach, CapOverrun, PhotoCount,
         Photographing, store, tx
<1> QED BY <1>1, <1>2 DEF UploadInv

(* A session that leaves holds nothing; the queue's messages only go.      *)
LEMMA LeavesHolding ==
  ASSUME Hand, UploadsHeld, NEW x \in Sessions, Leave(x), events' \subseteq events,
         UNCHANGED <<staging, signed>>
  PROVE  UploadsHeld'
<1>1. /\ txPc'[x] = "idle"
      /\ \A y \in Sessions \ {x} : txPc'[y] = txPc[y] /\ txUpload'[y] = txUpload[y]
  BY DEF Hand, TxTyped, Leave
<1> QED BY <1>1 DEF UploadsHeld, Holds

LEMMA UploadingHeld ==
  ASSUME Hand, UploadsHeld, NEW u \in Uploads, Uploading(u)
  PROVE  UploadsHeld'
<1>0. UNCHANGED <<signed, txPc, txUpload>> /\ \A x \in Sessions : Holds(x)' = Holds(x)
  BY DEF Uploading, RequestUpload, InsertStaging, PutObject, Expire, Cleanup, store, tx, Holds
<1>1. CASE PutObject(u)
  BY <1>0, <1>1 DEF PutObject, UploadsHeld
<1>2. ASSUME NEW next, staging' = [staging EXCEPT ![u] = next], UNCHANGED events,
             next \in {"none", "granted"} => staging[u] \in {"none", "granted"},
             (\E x \in Sessions : Holds(x) /\ txUpload[x] = u) => next = "stale",
             u \in signed => next = "gone"
      PROVE  UploadsHeld'
  <2>1. staging'[u] = next /\ \A v \in Uploads \ {u} : staging'[v] = staging[v]
    BY <1>2 DEF Hand, StoreTyped
  <2>2. \A x \in Sessions : txPc[x] # "idle" => txUpload[x] \in Uploads
    BY DEF Hand, TxAim
  <2>3. events \subseteq Uploads /\ signed \subseteq Uploads
    BY DEF Hand, StoreTyped, Uploads
  <2>4. \A v \in events' : staging'[v] \notin {"none", "granted"}
    BY <1>2, <2>1, <2>3 DEF UploadsHeld
  <2>5. ASSUME NEW x \in Sessions
        PROVE  /\ txPc'[x] # "idle" => staging'[txUpload'[x]] \notin {"none", "granted"}
               /\ Holds(x)' => staging'[txUpload'[x]] \in {"pending", "stale"}
    BY <1>0, <1>2, <2>1, <2>2 DEF UploadsHeld, Holds
  <2>6. \A v \in signed' : staging'[v] \in {"confirmed", "gone"}
    BY <1>0, <1>2, <2>1, <2>3 DEF UploadsHeld
  <2> QED BY <1>0, <2>4, <2>5, <2>6 DEF UploadsHeld
<1>3. CASE RequestUpload(u) \/ InsertStaging(u) \/ Expire(u) \/ Cleanup(u)
  <2>1. \A x \in Sessions : Holds(x) /\ txUpload[x] = u => Locked(u)
    BY DEF Holds, Locked
  <2>2. CASE RequestUpload(u)
    BY <1>2, <2>2 DEF RequestUpload, UploadsHeld
  <2>3. CASE InsertStaging(u)
    BY <1>2, <2>3 DEF InsertStaging, UploadsHeld
  <2>4. CASE Expire(u)
    BY <1>2, <2>4 DEF Expire, UploadsHeld
  <2>5. CASE Cleanup(u)
    BY <1>2, <2>1, <2>5 DEF Cleanup, UploadsHeld
  <2> QED BY <1>3, <2>2, <2>3, <2>4, <2>5
<1> QED BY <1>1, <1>3 DEF Uploading

(* A committed upload was held by its confirm alone and was not signed.    *)
LEMMA CommitHeld ==
  ASSUME Hand, UploadsHeld, NEW x \in Sessions, Holds(x), Commit(x),
         signed' = signed \/ signed' = signed \cup {txUpload[x]}
  PROVE  UploadsHeld' /\ txUpload[x] \notin signed
<1> DEFINE u == txUpload[x]
<1>1. u \in Uploads /\ staging[u] \in {"pending", "stale"}
  BY DEF Hand, TxAim, UploadsHeld, Holds
<1>2. staging'[u] = "confirmed" /\ \A v \in Uploads \ {u} : staging'[v] = staging[v]
  BY <1>1 DEF Commit, Hand, StoreTyped
<1>3. /\ txPc'[x] = "idle" /\ events' \subseteq events
      /\ \A y \in Sessions \ {x} : txPc'[y] = txPc[y] /\ txUpload'[y] = txUpload[y]
  BY DEF Hand, TxTyped, Commit, Answer, Leave
<1>4. \A y \in Sessions : txPc[y] # "idle" => txUpload[y] \in Uploads
  BY DEF Hand, TxAim
<1>5. \A y \in Sessions \ {x} : Holds(y) => txUpload[y] # u
  BY DEF UploadsHeld
<1>6. events \subseteq Uploads /\ signed \subseteq Uploads
  BY DEF Hand, StoreTyped, Uploads
<1>7. u \notin signed
  BY <1>1 DEF UploadsHeld
<1>8. \A v \in events' : staging'[v] \notin {"none", "granted"}
  BY <1>2, <1>3, <1>6 DEF UploadsHeld
<1>9. \A y \in Sessions :
        /\ txPc'[y] # "idle" => staging'[txUpload'[y]] \notin {"none", "granted"}
        /\ Holds(y)' => staging'[txUpload'[y]] \in {"pending", "stale"}
  BY <1>2, <1>3, <1>4, <1>5 DEF UploadsHeld, Holds
<1>10. \A y, z \in Sessions : Holds(y)' /\ Holds(z)' /\ txUpload'[y] = txUpload'[z] => y = z
  BY <1>3 DEF UploadsHeld, Holds
<1>11. \A v \in signed' : staging'[v] \in {"confirmed", "gone"}
  BY <1>1, <1>2, <1>6 DEF UploadsHeld
<1> QED BY <1>7, <1>8, <1>9, <1>10, <1>11 DEF UploadsHeld

(* Every commit of a signature adds one signed upload, and one entry       *)
(* unless it made the job's signature.                                     *)
LEMMA SignatureCommits ==
  ASSUME Hand, EntriesInv, NEW x \in Sessions, ReplaceSignature(x) \/ InsertSignature(x)
  PROVE  OneEntryEach' /\ IsFiniteSet(signed')
<1> DEFINE u == txUpload[x]
           X == Signatures \cup {NoUpload, Unlinked}
<1>1. u \in Signatures /\ u # NoUpload /\ signed' = signed \cup {u} /\ Holds(x) /\ Commit(x)
  BY AttachmentAssumption DEF Hand, TxAim, ReplaceSignature, InsertSignature, CommitSignature,
     Uploads, AttachmentAssumption, Holds
<1>2. u \notin signed
  BY <1>1, CommitHeld DEF EntriesInv
<1>3. IsFiniteSet(signed') /\ Cardinality(signed') = Cardinality(signed) + 1
  BY <1>1, <1>2, FS_AddElement DEF EntriesInv
<1>4. Cardinality(signed) = Len(conflicts) + (IF signature = NoUpload THEN 0 ELSE 1)
  BY DEF EntriesInv, OneEntryEach
<1>5. conflicts \in Seq(X) /\ Len(conflicts) \in Nat
  BY LenProperties DEF Hand, StoreTyped
<1>6. \A seen \in X : Len(Append(conflicts, seen)) = Len(conflicts) + 1
  BY <1>5, AppendProperties
<1>7. CASE ReplaceSignature(x)
  <2>1. /\ conflicts' = Append(conflicts, txSeen[x]) /\ txSeen[x] \in X
        /\ signature # NoUpload /\ signature' = u
    BY <1>7 DEF ReplaceSignature, Hand, TxAim
  <2> QED BY <1>1, <1>3, <1>4, <1>5, <1>6, <2>1 DEF OneEntryEach
<1>8. CASE InsertSignature(x)
  <2>1. CASE signature = NoUpload
    BY <1>1, <1>3, <1>4, <1>5, <1>8, <2>1 DEF InsertSignature, OneEntryEach
  <2>2. CASE signature # NoUpload
    <3>1. signature' = signature /\ conflicts' = Append(conflicts, u) /\ u \in X
      BY <1>1, <1>8, <2>2 DEF InsertSignature
    <3> QED BY <1>3, <1>4, <1>5, <1>6, <2>2, <3>1 DEF OneEntryEach
  <2> QED BY <2>1, <2>2
<1> QED BY <1>3, <1>7, <1>8

(* What the naming of entries rests on: nothing that was signed or named   *)
(* is taken back, and the row that stands stays or is cut off by cleanup.  *)
LEMMA NamingKept ==
  ASSUME Hand, NamingInv, UNCHANGED <<conflicts, signed, overtaken>>,
         \A u \in signed : staging[u] = "gone" => staging'[u] = "gone",
         \/ UNCHANGED signature
         \/ signature' = Unlinked /\ (signature \in signed => staging'[signature] = "gone"),
         \A x \in Replacing' :
           \/ x \in Replacing /\ txSeen'[x] = txSeen[x]
           \/ txSeen'[x] = signature /\ UNCHANGED signature
  PROVE  NamingInv'
<1>1. StandsSigned'
  BY DEF NamingInv, StandsSigned
<1>2. SeenStands'
  BY DEF NamingInv, SeenStands, StandsSigned
<1>3. NamedAreReplaced'
  <2>1. Named' = Named /\ Named \subseteq Signatures
    BY DEF Named, Range
  <2>2. Unlinked \notin Signatures
    BY AttachmentAssumption DEF AttachmentAssumption, Uploads
  <2> QED BY <2>1, <2>2 DEF NamingInv, NamedAreReplaced
<1>4. ReplacedAreNamed'
  <2>1. Named' = Named
    BY DEF Named, Range
  <2> QED BY <2>1 DEF NamingInv, ReplacedAreNamed
<1> QED BY <1>1, <1>2, <1>3, <1>4 DEF NamingInv

(* The names after one entry more.                                         *)
LEMMA NamedGrows ==
  ASSUME Hand, NEW v \in Signatures \cup {NoUpload, Unlinked},
         conflicts' = Append(conflicts, v)
  PROVE  Named' = Named \cup ({v} \cap Signatures)
<1> DEFINE X == Signatures \cup {NoUpload, Unlinked}
<1>1. conflicts \in Seq(X) /\ v \in X
  BY DEF Hand, StoreTyped
<1> HIDE DEF X
<1>2. /\ Len(conflicts) \in Nat /\ DOMAIN conflicts = 1..Len(conflicts)
      /\ DOMAIN conflicts' = 1..(Len(conflicts) + 1)
      /\ \A i \in 1..Len(conflicts) : conflicts'[i] = conflicts[i]
      /\ conflicts'[Len(conflicts) + 1] = v
  BY <1>1, LenProperties, AppendProperties
<1>3. Range(conflicts') = Range(conflicts) \cup {v}
  BY <1>2 DEF Range
<1> QED BY <1>3 DEF Named

(* A signature that replaces another one has been confirmed by nobody, and *)
(* whoever else has looked for the row meanwhile is overtaken by it.       *)
LEMMA SignatureNamed ==
  ASSUME Hand, EntriesInv, NamingInv, NEW x \in Sessions,
         ReplaceSignature(x) \/ InsertSignature(x)
  PROVE  NamingInv'
<1> DEFINE u == txUpload[x]
<1>0. {NoUpload, Unlinked} \cap Signatures = {} /\ NoUpload # Unlinked
  BY AttachmentAssumption DEF AttachmentAssumption, Uploads
<1>1. /\ u \in Signatures /\ CommitSignature(x) /\ Holds(x) /\ Commit(x)
      /\ signed' = signed \cup {u}
      /\ overtaken' = IF Replacing \subseteq {x} THEN overtaken ELSE overtaken \cup {u}
  BY DEF Hand, TxAim, ReplaceSignature, InsertSignature, CommitSignature, Holds
<1>2. u \notin signed
  BY <1>1, CommitHeld DEF EntriesInv
<1>3. /\ \A v \in signed : staging[v] = "gone" => staging'[v] = "gone"
      /\ \A y \in Replacing' : y \in Replacing \ {x} /\ txSeen'[y] = txSeen[y]
  <2>1. /\ txPc'[x] = "idle"
        /\ \A y \in Sessions \ {x} : txPc'[y] = txPc[y] /\ txSeen'[y] = txSeen[y]
    BY <1>1 DEF Commit, Answer, Leave, Hand, TxTyped
  <2>2. staging' = [staging EXCEPT ![u] = "confirmed"] /\ signed \subseteq Uploads
    BY <1>1 DEF Commit, Hand, StoreTyped, Uploads
  <2>3. \A v \in signed : staging'[v] = staging[v]
    BY <1>2, <2>2 DEF Hand, StoreTyped
  <2> QED BY <2>1, <2>3 DEF Replacing
<1>4. StandsSigned /\ SeenStands /\ NamedAreReplaced /\ ReplacedAreNamed
  BY DEF NamingInv
<1> HIDE DEF u
<1>5. CASE ReplaceSignature(x)
  <2>1. /\ x \in Replacing /\ signature # NoUpload /\ signature' = u
        /\ conflicts' = Append(conflicts, txSeen[x])
        /\ txSeen[x] \in Signatures \cup {NoUpload, Unlinked}
    BY <1>5 DEF ReplaceSignature, Replacing, Hand, TxAim, u
  <2>2. Named' = Named \cup ({txSeen[x]} \cap Signatures)
    BY <2>1, NamedGrows
  <2>3. StandsSigned'
    BY <1>1, <2>1 DEF StandsSigned
  <2>4. SeenStands'
    <3>1. ASSUME NEW y \in Replacing' PROVE signature' \in overtaken'
      BY <1>1, <1>3, <2>1
    <3> QED BY <1>1, <1>3, <1>4, <3>1 DEF SeenStands
  <2>5. NamedAreReplaced'
    <3>1. {txSeen[x]} \cap Signatures \subseteq signed
      BY <1>0, <1>4, <2>1 DEF SeenStands
    <3> QED BY <1>1, <1>2, <1>4, <2>1, <2>2, <3>1 DEF NamedAreReplaced
  <2>6. ReplacedAreNamed'
    <3> SUFFICES ASSUME NEW v \in signed, v # u
                 PROVE  v \in Named' \/ v \in overtaken' \/ staging'[v] = "gone"
      BY <1>1, <2>1 DEF ReplacedAreNamed
    <3>1. CASE v = signature
      <4>1. signature = txSeen[x] \/ signature \in overtaken
        BY <1>0, <1>4, <2>1, <3>1 DEF SeenStands, Hand, StoreTyped
      <4> QED BY <1>1, <2>2, <3>1, <4>1 DEF Hand, StoreTyped
    <3>2. CASE v # signature
      BY <1>1, <1>3, <1>4, <2>2, <3>2 DEF ReplacedAreNamed
    <3> QED BY <3>1, <3>2
  <2> QED BY <2>3, <2>4, <2>5, <2>6 DEF NamingInv
<1>6. CASE InsertSignature(x) /\ signature = NoUpload
  <2>1. signature' = u /\ UNCHANGED conflicts
    BY <1>6 DEF InsertSignature, u
  <2>2. Named' = Named
    BY <2>1 DEF Named, Range
  <2>3. StandsSigned'
    BY <1>1, <2>1 DEF StandsSigned
  <2>4. SeenStands'
    <3>1. ASSUME NEW y \in Replacing' PROVE signature' \in overtaken'
      BY <1>1, <1>3, <2>1
    <3> QED BY <1>1, <1>3, <1>4, <3>1 DEF SeenStands
  <2>5. NamedAreReplaced'
    BY <1>1, <1>2, <1>4, <2>1, <2>2 DEF NamedAreReplaced
  <2>6. ReplacedAreNamed'
    <3> SUFFICES ASSUME NEW v \in signed, v # u
                 PROVE  v \in Named' \/ v \in overtaken' \/ staging'[v] = "gone"
      BY <1>1, <2>1 DEF ReplacedAreNamed
    <3>1. v # signature
      BY <1>0, <1>6 DEF Hand, StoreTyped
    <3> QED BY <1>1, <1>3, <1>4, <2>2, <3>1 DEF ReplacedAreNamed
  <2> QED BY <2>3, <2>4, <2>5, <2>6 DEF NamingInv
<1>7. CASE InsertSignature(x) /\ signature # NoUpload
  <2>1. signature' = signature /\ conflicts' = Append(conflicts, u)
    BY <1>7 DEF InsertSignature, u
  <2>2. Named' = Named \cup {u}
    BY <1>1, <2>1, NamedGrows
  <2>3. StandsSigned'
    BY <1>1, <1>4, <2>1 DEF StandsSigned
  <2>4. SeenStands'
    BY <1>1, <1>3, <1>4, <2>1 DEF SeenStands
  <2>5. NamedAreReplaced'
    <3>1. u # signature
      BY <1>0, <1>1, <1>2, <1>4 DEF StandsSigned
    <3> QED BY <1>1, <1>4, <2>1, <2>2, <3>1 DEF NamedAreReplaced
  <2>6. ReplacedAreNamed'
    <3> SUFFICES ASSUME NEW v \in signed, v # signature
                 PROVE  v \in Named' \/ v \in overtaken' \/ staging'[v] = "gone"
      BY <1>1, <2>1, <2>2 DEF ReplacedAreNamed
    <3> QED BY <1>1, <1>3, <1>4, <2>2 DEF ReplacedAreNamed
  <2> QED BY <2>3, <2>4, <2>5, <2>6 DEF NamingInv
<1> QED BY <1>5, <1>6, <1>7

LEMMA CountsAreNat ==
  ASSUME Hand
  PROVE  /\ IsFiniteSet(photoRows) /\ PhotoCount \in Nat
         /\ IsFiniteSet(Photographing) /\ Cardinality(Photographing) \in Nat
         /\ Cardinality(Sessions) \in Nat
         /\ Cardinality(Photographing) <= Cardinality(Sessions)
<1>1. photoRows \in SUBSET Photos /\ Photographing \in SUBSET Sessions
  BY DEF Hand, StoreTyped, Photographing
<1>2. IsFiniteSet(Photos) /\ IsFiniteSet(Sessions)
  BY AttachmentAssumption DEF AttachmentAssumption
<1> QED BY <1>1, <1>2, FS_Subset, FS_CardinalityType DEF PhotoCount

(* A session that is done with its photo, or never had one.                *)
LEMMA OverrunShrinks ==
  ASSUME Hand, CapOverrun, NEW x \in Sessions, Leave(x),
         \/ UNCHANGED photoRows
         \/ x \in Photographing /\ photoRows' = photoRows \cup {txUpload[x]}
  PROVE  CapOverrun'
<1>1. Photographing' = Photographing \ {x}
  BY DEF Photographing, Leave, Hand, TxTyped
<1>2. Cardinality(Photographing') = IF x \in Photographing THEN Cardinality(Photographing) - 1
                                    ELSE Cardinality(Photographing)
  BY <1>1, CountsAreNat, FS_RemoveElement
<1>3. \/ PhotoCount' = PhotoCount
      \/ x \in Photographing /\ PhotoCount' \in {PhotoCount, PhotoCount + 1}
  BY CountsAreNat, FS_AddElement DEF PhotoCount
<1> QED BY <1>2, <1>3, CountsAreNat, AttachmentAssumption DEF CapOverrun, AttachmentAssumption

(* A confirm that starts on a photo found the count below the cap.         *)
LEMMA OverrunGrows ==
  ASSUME Hand, NEW x \in Sessions, txPc[x] = "call", PhotoCount < MaxPhotos,
         Goto(x, "photo", NoUpload), UNCHANGED photoRows
  PROVE  CapOverrun'
<1>1. Photographing' = Photographing \cup {x} /\ x \notin Photographing
  BY DEF Photographing, Goto, Hand, TxTyped
<1>2. Cardinality(Photographing') = Cardinality(Photographing) + 1
  BY <1>1, CountsAreNat, FS_AddElement
<1>3. Cardinality(Photographing') <= Cardinality(Sessions)
  <2>1. Photographing' \in SUBSET Sessions
    BY DEF Photographing
  <2> QED BY <2>1, AttachmentAssumption, FS_Subset DEF AttachmentAssumption
<1>4. PhotoCount' = PhotoCount /\ MaxPhotos \in Nat
  BY AttachmentAssumption DEF PhotoCount, AttachmentAssumption
<1> QED BY <1>2, <1>3, <1>4, CountsAreNat DEF CapOverrun

LEMMA OverrunUnchanged ==
  ASSUME CapOverrun, Photographing' = Photographing, UNCHANGED photoRows
  PROVE  CapOverrun'
BY DEF CapOverrun, PhotoCount

LEMMA ConfirmingKeepsUploads ==
  ASSUME Hand, UploadInv, NEW x \in Sessions, Confirming(x) \/ RollBack(x)
  PROVE  UploadInv'
<1> USE DEF UploadInv, EntriesInv
<1>1. CASE ConfirmSettled(x) \/ DeadlockVictim(x) \/ RollBack(x)
  <2>1. Leave(x) /\ events' \subseteq events /\ UNCHANGED <<staging, store>>
    BY <1>1 DEF ConfirmSettled, DeadlockVictim, RollBack, Answer
  <2>2. \A y \in Replacing' : y \in Replacing /\ txSeen'[y] = txSeen[y]
    BY <2>1 DEF Replacing, Leave, Hand, TxTyped
  <2>3. NamingInv'
    BY <2>1, <2>2, NamingKept DEF store
  <2>4. UploadsHeld' /\ CapOverrun'
    BY <2>1, LeavesHolding, OverrunShrinks DEF store
  <2> QED BY <2>1, <2>3, <2>4 DEF store, OneEntryEach
<1>2. CASE LockUpload(x)
  <2>1. /\ txPc[x] = "call" /\ ~Locked(txUpload[x]) /\ ~SettledBeforehand(txUpload[x])
        /\ UNCHANGED <<staging, events, store, txUpload>>
        /\ txPc'[x] \in {"photo", "replace"}
        /\ \A y \in Sessions \ {x} : txPc'[y] = txPc[y]
    BY <1>2 DEF LockUpload, Goto, Hand, TxTyped
  <2>2. txUpload[x] \in Uploads /\ staging[txUpload[x]] = "pending"
    BY <2>1 DEF Hand, TxAim, UploadsHeld, SettledBeforehand, StoreTyped, StagingStates
  <2>3. UploadsHeld'
    BY <2>1, <2>2 DEF UploadsHeld, Holds, Locked, store
  <2>4. CapOverrun'
    <3>1. CASE txUpload[x] \in Photos
      <4>1. ~(PhotoCount >= MaxPhotos)
        BY <2>1, <3>1 DEF SettledBeforehand
      <4>2. PhotoCount < MaxPhotos
        BY <4>1, CountsAreNat, AttachmentAssumption DEF AttachmentAssumption
      <4> QED BY <1>2, <2>1, <3>1, <4>2, OverrunGrows DEF LockUpload, store
    <3>2. CASE txUpload[x] \notin Photos
      <4>1. Photographing' = Photographing
        BY <1>2, <3>2 DEF LockUpload, Goto, Photographing, Hand, TxTyped
      <4> QED BY <2>1, <4>1, OverrunUnchanged DEF store
    <3> QED BY <3>1, <3>2
  <2>5. \A y \in Replacing' : \/ y \in Replacing /\ txSeen'[y] = txSeen[y]
                              \/ txSeen'[y] = signature
    BY <1>2 DEF LockUpload, Goto, Replacing, Hand, TxTyped
  <2>6. NamingInv'
    BY <2>1, <2>5, NamingKept DEF store
  <2> QED BY <2>1, <2>3, <2>4, <2>6 DEF store, OneEntryEach
<1>3. CASE InsertPhoto(x) \/ NoSignatureYet(x)
  <2>1. /\ UNCHANGED <<staging, events, store, txUpload>>
        /\ Holds(x) /\ Holds(x)' /\ \A y \in Sessions \ {x} : txPc'[y] = txPc[y]
    BY <1>3 DEF InsertPhoto, NoSignatureYet, Goto, Hand, TxTyped, Holds
  <2>2. UploadsHeld'
    BY <2>1 DEF UploadsHeld, Holds, store
  <2>3. Photographing' = Photographing
    BY <1>3 DEF InsertPhoto, NoSignatureYet, Goto, Photographing, Hand, TxTyped
  <2>4. \A y \in Replacing' : y \in Replacing /\ txSeen'[y] = txSeen[y]
    BY <1>3 DEF InsertPhoto, NoSignatureYet, Goto, Replacing, Hand, TxTyped
  <2>5. NamingInv'
    BY <2>1, <2>4, NamingKept DEF store
  <2>6. CapOverrun'
    BY <2>1, <2>3, OverrunUnchanged DEF store
  <2> QED BY <2>1, <2>2, <2>5, <2>6 DEF store, OneEntryEach
<1>4. CASE CommitAdvancing(x) \/ CommitPlain(x)
  <2>1. CommitPhoto(x) /\ Holds(x) /\ x \in Photographing
    BY <1>4 DEF CommitAdvancing, CommitPlain, CommitPhoto, Holds, Photographing
  <2>2. UploadsHeld'
    BY <2>1, CommitHeld DEF CommitPhoto
  <2>3. CapOverrun'
    BY <2>1, OverrunShrinks DEF CommitPhoto, Commit, Answer
  <2>4. NamingInv'
    <3>1. \A y \in Replacing' : y \in Replacing /\ txSeen'[y] = txSeen[y]
      BY <2>1 DEF CommitPhoto, Commit, Answer, Leave, Replacing, Hand, TxTyped
    <3>2. \A u \in signed : staging'[u] = staging[u]
      <4>1. txUpload[x] \notin signed
        BY <2>1, CommitHeld DEF CommitPhoto
      <4> QED BY <2>1, <4>1 DEF CommitPhoto, Commit, Hand, StoreTyped, Uploads
    <3> QED BY <2>1, <3>1, <3>2, NamingKept DEF CommitPhoto
  <2> QED BY <2>1, <2>2, <2>3, <2>4 DEF CommitPhoto, OneEntryEach
<1>5. CASE ReplaceSignature(x) \/ InsertSignature(x)
  <2>1. Holds(x) /\ Commit(x) /\ signed' = signed \cup {txUpload[x]} /\ UNCHANGED photoRows
    BY <1>5 DEF ReplaceSignature, InsertSignature, CommitSignature, Holds
  <2>2. UploadsHeld' /\ CapOverrun'
    BY <2>1, CommitHeld, OverrunShrinks DEF Commit, Answer
  <2> QED BY <1>5, <2>2, SignatureCommits, SignatureNamed
<1> QED BY <1>1, <1>2, <1>3, <1>4, <1>5 DEF Confirming

LEMMA UploadInvStep ==
  ASSUME Hand, UploadInv, [Next]_vars
  PROVE  UploadInv'
<1>1. ASSUME NEW u \in Uploads, Uploading(u) PROVE UploadInv'
  <2>1. UploadsHeld'
    BY <1>1, UploadingHeld DEF UploadInv, EntriesInv
  <2>2. UNCHANGED <<photoRows, conflicts, signed, overtaken, tx>>
    BY <1>1 DEF Uploading, RequestUpload, InsertStaging, PutObject, Expire, Cleanup, store
  <2>3. \/ UNCHANGED signature
        \/ signature' = Unlinked /\ signature = u /\ staging'[u] = "gone"
    BY <1>1 DEF Uploading, RequestUpload, InsertStaging, PutObject, Expire, Cleanup, store,
       Hand, StoreTyped
  <2>4. signature' = NoUpload <=> signature = NoUpload
    BY <2>3, AttachmentAssumption DEF AttachmentAssumption
  <2>5. \A v \in signed : staging[v] = "gone" => staging'[v] = "gone"
    BY <1>1 DEF Uploading, RequestUpload, InsertStaging, PutObject, Expire, Cleanup,
       Hand, StoreTyped, Uploads
  <2>6. NamingInv'
    <3>1. \A y \in Replacing' : y \in Replacing /\ txSeen'[y] = txSeen[y]
      BY <2>2 DEF Replacing, tx
    <3> QED BY <2>2, <2>3, <2>5, <3>1, NamingKept DEF UploadInv
  <2>7. CapOverrun'
    <3>1. Photographing' = Photographing
      BY <2>2 DEF Photographing, tx
    <3> QED BY <2>2, <3>1, OverrunUnchanged DEF UploadInv
  <2> QED BY <2>1, <2>2, <2>4, <2>6, <2>7 DEF UploadInv, EntriesInv, OneEntryEach
<1>2. ASSUME NEW x \in Sessions, NEW u \in Uploads, ConfirmUpload(x, u) \/ DeliverEvent(x, u)
      PROVE  UploadInv'
  <2>1. /\ staging[u] \notin {"none", "granted"} /\ txPc[x] = "idle"
        /\ UNCHANGED <<staging, events, store>>
        /\ txPc'[x] = "call" /\ txUpload'[x] = u
        /\ \A y \in Sessions \ {x} : txPc'[y] = txPc[y] /\ txUpload'[y] = txUpload[y]
    BY <1>2 DEF ConfirmUpload, DeliverEvent, Call, UploadInv, EntriesInv, UploadsHeld,
       Hand, TxTyped
  <2>2. UploadsHeld'
    BY <2>1 DEF UploadInv, EntriesInv, UploadsHeld, Holds, store
  <2>3. Photographing' = Photographing
    BY <1>2, <2>1 DEF Photographing
  <2>4. NamingInv'
    <3>1. \A y \in Replacing' : y \in Replacing /\ txSeen'[y] = txSeen[y]
      BY <1>2, <2>1 DEF ConfirmUpload, DeliverEvent, Call, Replacing
    <3> QED BY <2>1, <3>1, NamingKept DEF UploadInv, store
  <2>5. CapOverrun'
    BY <2>1, <2>3, OverrunUnchanged DEF UploadInv, store
  <2> QED BY <2>1, <2>2, <2>4, <2>5 DEF UploadInv, EntriesInv, OneEntryEach, store
<1>3. ASSUME NEW x \in Sessions, Confirming(x) \/ RollBack(x) PROVE UploadInv'
  BY <1>3, ConfirmingKeepsUploads
<1>4. CASE UNCHANGED uploadVars
  BY <1>4, UploadsUnchanged DEF uploadVars
<1> QED BY <1>1, <1>2, <1>3, <1>4 DEF Next, vars

LEMMA UploadInvInit == Init => UploadInv
<1> SUFFICES ASSUME Init PROVE UploadInv
  OBVIOUS
<1> USE DEF Init, NothingStored
<1>1. UploadsHeld
  BY DEF UploadsHeld, Holds
<1>2. IsFiniteSet(signed) /\ OneEntryEach
  BY FS_EmptySet, EmptySeq DEF OneEntryEach
<1>3. Photographing = {}
  BY DEF Photographing
<1>4. CapOverrun
  BY <1>3, FS_EmptySet, FS_CardinalityType, AttachmentAssumption
     DEF CapOverrun, PhotoCount, AttachmentAssumption
<1>5. NamingInv
  <2>1. Named = {} /\ Replacing = {}
    BY EmptySeq DEF Named, Range, Replacing
  <2> QED BY <2>1 DEF NamingInv, StandsSigned, SeenStands, NamedAreReplaced, ReplacedAreNamed
<1> QED BY <1>1, <1>2, <1>4, <1>5 DEF UploadInv, EntriesInv

(* Whoever wins the races between a technician's confirms and the          *)
(* webhook's, every confirm of a signature but the first leaves an entry;  *)
(* an entry names a signature that was replaced or lost; and each of those *)
(* is named by one, but for a signature that overtook another confirm      *)
(* between its SELECT and its UPDATE or that the cleanup had cut off.  The *)
(* photo cap is overrun only by confirms that were in flight together.     *)
THEOREM UploadsAreAccounted == Spec => []UploadsAccounted
<1>1. Hand /\ UploadInv => UploadsAccounted
  <2> SUFFICES ASSUME Hand, UploadInv PROVE PhotoOvershootBounded
    BY DEF UploadInv, EntriesInv, NamingInv, SignaturesAccounted, UploadsAccounted
  <2> QED BY CountsAreNat, AttachmentAssumption
          DEF UploadInv, CapOverrun, PhotoOvershootBounded, AttachmentAssumption
<1>2. RowInv /\ CallInv /\ Hand /\ UploadInv /\ [Next]_vars
      => (RowInv /\ CallInv /\ Hand /\ UploadInv)'
  BY InvStep, UploadInvStep
<1> QED BY <1>1, <1>2, InvInit, UploadInvInit, PTL DEF Spec
===============================================================================
