---------------------------- MODULE JobAttachments ----------------------------
(***************************************************************************)
(* JobWorkflow with its job's attachments: upload requests, the R2 event   *)
(* that reaches the backend through the Worker's queue, and the            *)
(* confirm_attachment transaction that both the technician and that queue  *)
(* call.  READ COMMITTED: each statement sees what had committed before    *)
(* it, so a confirm is several steps between which others commit.          *)
(*                                                                         *)
(* Two locks matter.  A confirm holds its staging row FOR UPDATE.  A       *)
(* photo's INSERT also takes FOR KEY SHARE on the jobs row (the foreign    *)
(* key), which blocks the FOR UPDATE of every RPC on the job until the     *)
(* confirm commits.                                                        *)
(***************************************************************************)
EXTENDS JobWorkflow, Functions

CONSTANTS Photos, Signatures,  \* the uploads that may be requested
          Sessions,            \* concurrent confirm_attachment calls
          MaxPhotos,           \* 5
          MaxFaults,
          NoUpload,            \* no signature row / no upload
          Unlinked             \* a row whose upload_id was SET NULL

Uploads == Photos \cup Signatures

ASSUME AttachmentAssumption ==
  /\ IsFiniteSet(Photos)
  /\ Photos \cap Signatures = {}
  /\ {NoUpload, Unlinked} \cap Uploads = {}
  /\ NoUpload # Unlinked
  /\ IsFiniteSet(Sessions)
  /\ MaxPhotos \in Nat \ {0}
  /\ MaxFaults \in Nat

VARIABLES
  staging,    \* the attachment_uploads rows
  events,     \* uploads whose R2 event is queued, not yet acknowledged
  photoRows,  \* the photo uploads with an attachments row (r2_key is unique)
  signature,  \* the upload_id of the job's signature row
  conflicts,  \* the replaced_upload_id of its conflict_resolved log entries
  signed,     \* history: the signature uploads whose confirm committed
  overtaken,  \* history: those that did while another confirm had looked for
              \* the signature row and not yet written it
  faults,     \* bound: rolled back calls
  txPc, txUpload, txActor, txSeen  \* the confirms in flight

tx == <<txPc, txUpload, txActor, txSeen>>
store == <<photoRows, signature, conflicts, signed, overtaken>>

uploadVars == <<staging, events, store, tx, faults>>

vars == <<jobVars, uploadVars>>

-----------------------------------------------------------------------------
(* "granted" is a request past its checks whose row is not inserted yet;   *)
(* "stale" a pending row past expires_at; "gone" deleted by the cleanup.   *)
StagingStates == {"none", "granted", "pending", "stale", "confirmed", "gone"}

TxStages == {"idle", "call", "photo", "advance", "replace", "insert"}

PhotoCount == Cardinality(photoRows)

(* The template's photo_confirm step, 0 when it has none.                  *)
PhotoStep ==
  IF \E k \in 1..N : Template[k].photo
  THEN CHOOSE k \in 1..N :
         /\ Template[k].photo
         /\ \A j \in 1..(k - 1) : ~Template[j].photo
  ELSE 0

(* Held from the lock statement to the commit.                             *)
Locked(u) == \E x \in Sessions : txPc[x] \notin {"idle", "call"} /\ txUpload[x] = u

(* The confirms that hold FOR KEY SHARE on the jobs row.                   *)
JobSharers == {x \in Sessions : txPc[x] = "advance"}

NothingStored ==
  /\ JobInit
  /\ events = {}
  /\ photoRows = {}
  /\ signature = NoUpload
  /\ conflicts = <<>>
  /\ signed = {} /\ overtaken = {}
  /\ faults = 0
  /\ txPc = [x \in Sessions |-> "idle"]
  /\ txUpload = [x \in Sessions |-> NoUpload]
  /\ txActor = [x \in Sessions |-> NoOne]
  /\ txSeen = [x \in Sessions |-> NoUpload]

Init == NothingStored /\ staging = [u \in Uploads |-> "none"]

-----------------------------------------------------------------------------
(* requestUpload: the incumbent asks, below the photo cap as it reads it.  *)
RequestUpload(u) ==
  /\ staging[u] = "none"
  /\ u \in Photos => PhotoCount < MaxPhotos
  /\ staging' = [staging EXCEPT ![u] = "granted"]
  /\ UNCHANGED <<jobVars, events, store, tx, faults>>

InsertStaging(u) ==
  /\ staging[u] = "granted"
  /\ staging' = [staging EXCEPT ![u] = "pending"]
  /\ UNCHANGED <<jobVars, events, store, tx, faults>>

(* The client PUTs the object to the presigned URL: R2 queues an event.    *)
PutObject(u) ==
  /\ staging[u] = "pending"
  /\ events' = events \cup {u}
  /\ UNCHANGED <<jobVars, staging, store, tx, faults>>

Expire(u) ==
  /\ staging[u] = "pending"
  /\ staging' = [staging EXCEPT ![u] = "stale"]
  /\ UNCHANGED <<jobVars, events, store, tx, faults>>

(* The daily cleanup deletes rows, confirmed ones too, a day past their    *)
(* expiry; the foreign key of attachments is SET NULL.                     *)
Cleanup(u) ==
  /\ staging[u] \in {"stale", "confirmed"}
  /\ ~Locked(u)
  /\ staging' = [staging EXCEPT ![u] = "gone"]
  /\ signature' = IF signature = u THEN Unlinked ELSE signature
  /\ UNCHANGED <<jobVars, events, photoRows, conflicts, signed, overtaken, tx, faults>>

-----------------------------------------------------------------------------
Call(x, u, actor) ==
  /\ txPc[x] = "idle"
  /\ txPc' = [txPc EXCEPT ![x] = "call"]
  /\ txUpload' = [txUpload EXCEPT ![x] = u]
  /\ txActor' = [txActor EXCEPT ![x] = actor]
  /\ UNCHANGED <<jobVars, staging, events, store, txSeen, faults>>

(* confirmUpload, past its ownership read: a retry of an answered or lost  *)
(* confirm looks the same.                                                 *)
ConfirmUpload(x, u) ==
  /\ staging[u] \notin {"none", "granted"}
  /\ Call(x, u, technician)

(* handleStorageEvent: the Worker delivers, and delivers again until a     *)
(* 2xx or a final 4xx.                                                     *)
DeliverEvent(x, u) == u \in events /\ Call(x, u, NoOne)

Leave(x) ==
  /\ txPc' = [txPc EXCEPT ![x] = "idle"]
  /\ txUpload' = [txUpload EXCEPT ![x] = NoUpload]
  /\ txActor' = [txActor EXCEPT ![x] = NoOne]
  /\ txSeen' = [txSeen EXCEPT ![x] = NoUpload]

(* The queue's message is acknowledged unless the answer was a 5xx.        *)
Answer(x, acked) ==
  /\ Leave(x)
  /\ events' = IF acked /\ txActor[x] = NoOne THEN events \ {txUpload[x]}
               ELSE events

(* A failed statement or a dead server: the queue retries.                 *)
RollBack(x) ==
  /\ txPc[x] # "idle"
  /\ faults < MaxFaults
  /\ faults' = faults + 1
  /\ Answer(x, FALSE)
  /\ UNCHANGED <<jobVars, staging, store>>

-----------------------------------------------------------------------------
Goto(x, stage, seen) ==
  /\ txPc' = [txPc EXCEPT ![x] = stage]
  /\ txSeen' = [txSeen EXCEPT ![x] = seen]
  /\ UNCHANGED <<txUpload, txActor>>

(* Not found, already confirmed, expired - the UPDATE to 'expired' is      *)
(* undone by the exception after it - or at the cap: nothing changes.      *)
SettledBeforehand(u) ==
  \/ staging[u] \in {"confirmed", "stale", "gone"}
  \/ u \in Photos /\ PhotoCount >= MaxPhotos

(* Mutant: the webhook answers a settled upload with a 5xx.                *)
ConfirmSettledAsError(x) ==
  /\ txPc[x] = "call" /\ ~Locked(txUpload[x])
  /\ SettledBeforehand(txUpload[x])
  /\ Answer(x, FALSE)
  /\ UNCHANGED <<jobVars, staging, store, faults>>

ConfirmSettled(x) ==
  /\ txPc[x] = "call" /\ ~Locked(txUpload[x])
  /\ SettledBeforehand(txUpload[x])
  /\ Answer(x, TRUE)
  /\ UNCHANGED <<jobVars, staging, store, faults>>

(* The staging row is locked and live; a photo found the count below the   *)
(* cap, a signature has read the row it would replace.                     *)
LockUpload(x) ==
  LET u == txUpload[x]
  IN /\ txPc[x] = "call" /\ ~Locked(u)
     /\ ~SettledBeforehand(u)
     /\ IF u \in Photos THEN Goto(x, "photo", NoUpload)
        ELSE Goto(x, "replace", signature)
     /\ UNCHANGED <<jobVars, staging, events, store, faults>>

(* The INSERT, which also locks the jobs row FOR KEY SHARE, then the read  *)
(* of current_step.                                                        *)
InsertPhoto(x) ==
  /\ txPc[x] = "photo"
  /\ txUpload[x] \notin photoRows
  /\ Goto(x, "advance", step)
  /\ UNCHANGED <<jobVars, staging, events, store, faults>>

(* Any photo confirmed at the photo step's predecessor advances to it.     *)
(* Mutant: the gate this replaced, the job's first photo only.             *)
WantsAdvanceFirstOnly(x) ==
  PhotoStep # 0 /\ txSeen[x] = PhotoStep - 1 /\ photoRows = {}

WantsAdvance(x) == PhotoStep # 0 /\ txSeen[x] = PhotoStep - 1

(* Section 5 and the commit; the 2xx may be lost on its way.               *)
Commit(x) ==
  /\ staging' = [staging EXCEPT ![txUpload[x]] = "confirmed"]
  /\ \/ Answer(x, TRUE) /\ UNCHANGED faults
     \/ Answer(x, FALSE) /\ faults < MaxFaults /\ faults' = faults + 1

CommitPhoto(x) ==
  /\ txPc[x] = "advance"
  /\ photoRows' = photoRows \cup {txUpload[x]}
  /\ Commit(x)
  /\ UNCHANGED <<signature, conflicts, signed, overtaken, advance, upd, updates>>

(* advance_workflow_step waits for the other photo confirms that hold the  *)
(* jobs row FOR KEY SHARE; a PT409 is swallowed.                           *)
CommitAdvancing(x) ==
  /\ WantsAdvance(x)
  /\ JobSharers = {x}
  /\ CommitPhoto(x)
  /\ IF Advanceable(txSeen[x]) THEN WriteAdvance(txActor[x], PhotoStep)
     ELSE UNCHANGED <<job, logs, stepBells, assignBells>>

CommitPlain(x) ==
  /\ ~WantsAdvance(x)
  /\ CommitPhoto(x)
  /\ UNCHANGED <<job, logs, stepBells, assignBells>>

(* Two photo confirms that both want the row FOR UPDATE wait for each      *)
(* other's FOR KEY SHARE: the server aborts one.                           *)
Deadlocked(x) ==
  /\ x \in JobSharers /\ WantsAdvance(x)
  /\ \E y \in JobSharers \ {x} : WantsAdvance(y)

DeadlockVictim(x) ==
  /\ Deadlocked(x)
  /\ Answer(x, FALSE)
  /\ UNCHANGED <<jobVars, staging, store, faults>>

-----------------------------------------------------------------------------
(* The confirms between their SELECT of the signature row and their write. *)
Replacing == {x \in Sessions : txPc[x] = "replace"}

CommitSignature(x) ==
  /\ signed' = signed \cup {txUpload[x]}
  /\ overtaken' = IF Replacing \subseteq {x} THEN overtaken
                  ELSE overtaken \cup {txUpload[x]}
  /\ Commit(x)
  /\ UNCHANGED <<jobVars, photoRows>>

(* Mutant: the entry names the upload that won, as the other branch does.  *)
ReplaceSignatureNamingNew(x) ==
  /\ txPc[x] = "replace"
  /\ signature # NoUpload
  /\ signature' = txUpload[x]
  /\ conflicts' = Append(conflicts, txUpload[x])
  /\ CommitSignature(x)

(* The UPDATE found a signature row, after waiting for whoever held it; it *)
(* need not be the row the SELECT saw, and the entry names the latter.     *)
ReplaceSignature(x) ==
  /\ txPc[x] = "replace"
  /\ signature # NoUpload
  /\ signature' = txUpload[x]
  /\ conflicts' = Append(conflicts, txSeen[x])
  /\ CommitSignature(x)

NoSignatureYet(x) ==
  /\ txPc[x] = "replace"
  /\ signature = NoUpload
  /\ Goto(x, "insert", NoUpload)
  /\ UNCHANGED <<jobVars, staging, events, store, faults>>

(* The INSERT waits for a concurrent one; a unique_violation is resolved   *)
(* as a conflict that this upload lost.                                    *)
InsertSignature(x) ==
  /\ txPc[x] = "insert"
  /\ IF signature = NoUpload
     THEN signature' = txUpload[x] /\ UNCHANGED conflicts
     ELSE conflicts' = Append(conflicts, txUpload[x]) /\ UNCHANGED signature
  /\ CommitSignature(x)

-----------------------------------------------------------------------------
Confirming(x) ==
  \/ ConfirmSettled(x) \/ LockUpload(x)
  \/ InsertPhoto(x) \/ CommitAdvancing(x) \/ CommitPlain(x)
  \/ DeadlockVictim(x)
  \/ ReplaceSignature(x) \/ NoSignatureYet(x) \/ InsertSignature(x)

Uploading(u) ==
  RequestUpload(u) \/ InsertStaging(u) \/ PutObject(u) \/ Expire(u) \/ Cleanup(u)

Next ==
  \/ JobLocking /\ JobSharers = {} /\ UNCHANGED uploadVars
  \/ JobUnlocked /\ UNCHANGED uploadVars
  \/ \E u \in Uploads : Uploading(u)
  \/ \E x \in Sessions, u \in Uploads : ConfirmUpload(x, u) \/ DeliverEvent(x, u)
  \/ \E x \in Sessions : Confirming(x) \/ RollBack(x)

Spec == Init /\ [][Next]_vars

-----------------------------------------------------------------------------
TypeOK ==
  /\ JobTypeOK
  /\ staging \in [Uploads -> StagingStates]
  /\ events \subseteq Uploads
  /\ photoRows \subseteq Photos
  /\ signature \in Signatures \cup {NoUpload, Unlinked}
  /\ conflicts \in Seq(Signatures \cup {NoUpload, Unlinked})
  /\ signed \subseteq Signatures /\ overtaken \subseteq Signatures
  /\ txPc \in [Sessions -> TxStages]
  /\ txUpload \in [Sessions -> Uploads \cup {NoUpload}]
  /\ txActor \in [Sessions -> Employees \cup {NoOne}]
  /\ txSeen \in [Sessions -> Signatures \cup {NoUpload, Unlinked} \cup (0..N)]
  /\ faults \in 0..MaxFaults

(* The signatures the conflict_resolved entries name.                      *)
Named == Range(conflicts) \cap Signatures

(* Whoever wins the races between the technician's confirms and the        *)
(* webhook's, every confirm of a signature but the first leaves an entry.  *)
OneEntryEach ==
  Cardinality(signed) =
    Len(conflicts) + (IF signature = NoUpload THEN 0 ELSE 1)

(* An entry names a signature that was confirmed and was then replaced, or *)
(* lost the race for the row: never the one that stands.                   *)
NamedAreReplaced == Named \subseteq signed \ {signature}

(* A confirmed signature is the job's or an entry names it, but for one    *)
(* whose confirm came between the SELECT and the UPDATE of another, which  *)
(* logs the older row or NULL, and for one whose staging row the cleanup   *)
(* had deleted by then (SET NULL).  The comment in the function rules both *)
(* out: "v_existing_id is non-NULL here" (20261002220000:103-105).         *)
ReplacedAreNamed ==
  \A u \in signed \ {signature} :
    u \in Named \/ u \in overtaken \/ staging[u] = "gone"

SignaturesAccounted == OneEntryEach /\ NamedAreReplaced /\ ReplacedAreNamed

(* The count at confirm time is not locked, so the cap can be overrun, but *)
(* only by confirms that were in flight together.                          *)
PhotoOvershootBounded ==
  PhotoCount <= MaxPhotos + Cardinality(Sessions) - 1

(* What the confirms of a job's uploads leave behind, signatures and photos. *)
UploadsAccounted == SignaturesAccounted /\ PhotoOvershootBounded

(* A photo that commits while the open job stands right before its photo   *)
(* step takes it there: the dead end of 20261002220000 does not return.    *)
PhotoConfirmAdvances ==
  [][photoRows' # photoRows /\ PhotoStep # 0 /\ step = PhotoStep - 1
       /\ status \in Open => step' = PhotoStep]_vars

(* The backend serves a call to its end and the Worker's queue redelivers. *)
(* Strong fairness where others come in between: calls that occupy the     *)
(* sessions, photo confirms that share the jobs row a waiter wants.        *)
Fairness ==
  /\ \A x \in Sessions : WF_vars(Confirming(x)) /\ SF_vars(CommitAdvancing(x))
  /\ \A u \in Uploads : SF_vars(\E x \in Sessions : DeliverEvent(x, u))

FairSpec == Spec /\ Fairness

(* Every object put in the bucket is confirmed or finally refused: no      *)
(* deadlocked, failed or repeated confirm keeps its event coming back.     *)
EventsSettle == \A u \in Uploads : u \in events ~> u \notin events

=============================================================================
