------------------------------ MODULE DeltaSync -------------------------------
(***************************************************************************)
(* GET /sync: a technician's device keeps its jobs up to date by asking    *)
(* for those whose updated_at lies after the serverTime of its last sync.  *)
(* updated_at is now() in the trigger, the start of the writing            *)
(* transaction, which may wait for a row lock or for other statements and  *)
(* commit later; serverTime is read before the query.  One clock stands    *)
(* for the server's and the database's.  A stamp has microseconds, while   *)
(* serverTime is cut to the millisecond: in half ticks, what starts in the *)
(* tick of a serverTime is stamped after it.                               *)
(***************************************************************************)
EXTENDS Integers, FiniteSets

CONSTANTS Jobs,
          Owners,    \* the technicians, the one with the device among them
          Device,    \* that technician
          Writers,   \* connections that change jobs
          LastTick, Limit,
          MaxVersion, \* versions of a job
          NoJob

ASSUME SyncAssumption ==
  /\ IsFiniteSet(Jobs) /\ IsFiniteSet(Writers) /\ Device \in Owners
  /\ LastTick \in Nat /\ MaxVersion \in Nat /\ Limit \in Nat \ {0}

VARIABLES
  clock,
  job,      \* committed: owner, version, updated_at
  tx,       \* per writer: its open transaction, or none
  device,   \* what the device holds: the version per job, its cursor
  sync,     \* a sync under way: since, serverTime
  spanned,  \* history: writers whose transaction was open as a sync took its time
  cut       \* history: jobs changed by a transaction so spanned, or past the limit

syncVars == <<clock, job, tx, device, sync, spanned, cut>>

NoTx == [state |-> "none", job |-> NoJob, start |-> 0]
NoSync == [state |-> "idle", since |-> 0, time |-> 0]

SyncInit ==
  /\ clock = 1
  /\ job \in [Jobs -> [owner : Owners, version : {1}, updated : {1}]]
  /\ tx = [w \in Writers |-> NoTx]
  /\ device = [holds |-> [j \in Jobs |-> 0], cursor |-> 0]
  /\ sync = NoSync
  /\ spanned = {} /\ cut = {}

Tick ==
  /\ clock < LastTick /\ clock' = clock + 1
  /\ UNCHANGED <<job, tx, device, sync, spanned, cut>>

(* A statement's transaction starts, then locks its row, then commits.     *)
Begin(w) ==
  /\ tx[w].state = "none"
  /\ tx' = [tx EXCEPT ![w] = [state |-> "open", job |-> NoJob, start |-> 2 * clock + 1]]
  /\ spanned' = spanned \ {w}
  /\ UNCHANGED <<clock, job, device, sync, cut>>

Lock(w, j) ==
  /\ tx[w].state = "open" /\ job[j].version < MaxVersion
  /\ \A v \in Writers : tx[v].job # j
  /\ tx' = [tx EXCEPT ![w].state = "locked", ![w].job = j]
  /\ UNCHANGED <<clock, job, device, sync, spanned, cut>>

Commit(w) ==
  /\ tx[w].state = "locked"
  /\ LET j == tx[w].job IN
       /\ \E o \in Owners :
            job' = [job EXCEPT ![j] = [owner |-> o, version |-> @.version + 1,
                                       updated |-> tx[w].start]]
       /\ cut' = IF w \in spanned THEN cut \cup {j} ELSE cut \ {j}
  /\ tx' = [tx EXCEPT ![w] = NoTx]
  /\ spanned' = spanned \ {w}
  /\ UNCHANGED <<clock, device, sync>>

RollBackTx(w) ==
  /\ tx[w].state # "none"
  /\ tx' = [tx EXCEPT ![w] = NoTx]
  /\ spanned' = spanned \ {w}
  /\ UNCHANGED <<clock, job, device, sync, cut>>

-----------------------------------------------------------------------------
StartSync ==
  /\ sync.state = "idle"
  /\ sync' = [state |-> "asked", since |-> device.cursor, time |-> 2 * clock]
  /\ spanned' = spanned \cup {w \in Writers : tx[w].state # "none"}
  /\ UNCHANGED <<clock, job, tx, device, cut>>

(* The jobs of the technician updated after the cursor, the newest Limit.  *)
Changed == {j \in Jobs : job[j].owner = Device /\ job[j].updated > sync.since}

Newest(found) ==
  {s \in SUBSET found :
     /\ Cardinality(s) = (IF Cardinality(found) < Limit THEN Cardinality(found) ELSE Limit)
     /\ \A j \in s, k \in found \ s : job[j].updated >= job[k].updated}

Take(sent, time) ==
  /\ device' = [holds |-> [j \in Jobs |-> IF j \in sent THEN job[j].version
                                                         ELSE device.holds[j]],
                cursor |-> time]
  /\ cut' = (cut \cup Changed) \ sent
  /\ sync' = NoSync

(* Mutant: serverTime is read after the query, not before it.              *)
AnswerLate ==
  /\ sync.state = "asked"
  /\ \E sent \in Newest(Changed) : Take(sent, 2 * clock)
  /\ UNCHANGED <<clock, job, tx, spanned>>

Answer ==
  /\ sync.state = "asked"
  /\ \E sent \in Newest(Changed) : Take(sent, sync.time)
  /\ UNCHANGED <<clock, job, tx, spanned>>

(* The query fails, or the reply is lost: the device keeps its cursor.     *)
SyncFails ==
  /\ sync.state = "asked"
  /\ sync' = NoSync
  /\ UNCHANGED <<clock, job, tx, device, spanned, cut>>

SyncNext ==
  \/ Tick
  \/ \E w \in Writers :
       Begin(w) \/ Commit(w) \/ RollBackTx(w) \/ \E j \in Jobs : Lock(w, j)
  \/ StartSync \/ Answer \/ SyncFails

SyncSpec == SyncInit /\ [][SyncNext]_syncVars

-----------------------------------------------------------------------------
(* A version of the technician's job that the device lacks and that no     *)
(* later sync will bring, for its stamp is not after the cursor.           *)
Missed(j) ==
  /\ job[j].owner = Device
  /\ device.holds[j] < job[j].version
  /\ job[j].updated <= device.cursor

(* A sync misses a version only when the version's transaction was open    *)
(* while a sync took its time, or more jobs had changed than one answer    *)
(* carries.  A job moved to another technician stays on the device.        *)
MissedOnlyIfOpen == \A j \in Jobs : Missed(j) => j \in cut

(* sync.service.ts:37, "client re-fetches anything that mutated during     *)
(* query execution on the next sync cycle": what was open when a sync took *)
(* its time reaches the device later.                                      *)
NextSyncFetches == \A j \in Jobs : ~Missed(j)
=============================================================================
