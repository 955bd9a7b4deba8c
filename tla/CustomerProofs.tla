---------------------------- MODULE CustomerProofs ----------------------------
(***************************************************************************)
(* What TLAPS proves of a company's customer imports and job creations,    *)
(* for any number of requests, keys, sheets, rows, phones, years, digits   *)
(* and failing calls, beside any edits of the owner.                       *)
(***************************************************************************)
EXTENDS CustomerImport, JobCreation, FiniteSetTheorems, SequenceTheorems, TLAPS

-----------------------------------------------------------------------------
(***************************************************************************)
(* The counts of a sheet's rows.                                           *)
(***************************************************************************)

(* A count is a number of rows; a row appended adds itself to its status.  *)
LEMMA CountIsANumber ==
  ASSUME NEW rs \in Seq(Statuses), NEW a
  PROVE  /\ IsFiniteSet({i \in DOMAIN rs : rs[i] = a})
         /\ Count(rs, a) \in Nat
<1>1. DOMAIN rs = 1..Len(rs) /\ Len(rs) \in Nat
  OBVIOUS
<1>2. IsFiniteSet(DOMAIN rs)
  BY <1>1, FS_Interval
<1>3. IsFiniteSet({i \in DOMAIN rs : rs[i] = a})
  BY <1>2, FS_Subset
<1> QED BY <1>3, FS_CardinalityType DEF Count

LEMMA CountOfNone ==
  ASSUME NEW a
  PROVE  Count(<<>>, a) = 0
<1>1. {i \in DOMAIN <<>> : <<>>[i] = a} = {}
  OBVIOUS
<1> QED BY <1>1, FS_EmptySet DEF Count

LEMMA CountAppended ==
  ASSUME NEW rs \in Seq(Statuses), NEW st \in Statuses, NEW a
  PROVE  Count(Append(rs, st), a) = Count(rs, a) + (IF a = st THEN 1 ELSE 0)
<1> DEFINE n     == Len(rs) + 1
           more  == Append(rs, st)
           those == {i \in DOMAIN rs : rs[i] = a}
<1>1. /\ n \in Nat /\ DOMAIN rs = 1..(n - 1) /\ DOMAIN more = 1..n
      /\ more[n] = st /\ \A i \in 1..(n - 1) : more[i] = rs[i]
  OBVIOUS
<1>2. IsFiniteSet(those) /\ Cardinality(those) = Count(rs, a) /\ Count(rs, a) \in Nat
  BY CountIsANumber DEF Count
<1> HIDE DEF more
<1>3. n \notin those
  BY <1>1
<1>4. CASE a = st
  <2>1. {i \in DOMAIN more : more[i] = a} = those \cup {n}
    BY <1>1, <1>4
  <2>2. Cardinality(those \cup {n}) = Cardinality(those) + 1
    BY <1>2, <1>3, FS_AddElement
  <2> QED BY <1>2, <1>4, <2>1, <2>2 DEF Count, more
<1>5. CASE a # st
  <2>1. {i \in DOMAIN more : more[i] = a} = those
    BY <1>1, <1>5
  <2>2. Count(more, a) = Cardinality(those)
    BY <2>1 DEF Count
  <2> QED BY <1>2, <1>5, <2>2 DEF more
<1> QED BY <1>4, <1>5

(* The rows of a run that the answer says were written.                    *)
Done(rs) == Count(rs, "created") + Count(rs, "updated")

LEMMA DoneAppended ==
  ASSUME NEW rs \in Seq(Statuses), NEW st \in Statuses
  PROVE  /\ Done(rs) \in Nat
         /\ Done(Append(rs, st)) = Done(rs) + (IF st = "failed" THEN 0 ELSE 1)
<1>1. /\ Count(rs, "created") \in Nat /\ Count(rs, "updated") \in Nat
      /\ Count(Append(rs, st), "created")
           = Count(rs, "created") + (IF "created" = st THEN 1 ELSE 0)
      /\ Count(Append(rs, st), "updated")
           = Count(rs, "updated") + (IF "updated" = st THEN 1 ELSE 0)
  BY CountIsANumber, CountAppended
<1>2. st = "created" \/ st = "updated" \/ st = "failed"
  BY DEF Statuses
<1> QED BY <1>1, <1>2 DEF Done

(* The three counts add up to the rows.                                    *)
LEMMA TallyAddsUp ==
  ASSUME NEW rs \in Seq(Statuses), NEW total \in Nat
  PROVE  /\ Tally(rs, total) \in [created : Nat, updated : Nat, failed : Int]
         /\ Tally(rs, total).created + Tally(rs, total).updated = Done(rs)
         /\ Tally(rs, total).created + Tally(rs, total).updated + Tally(rs, total).failed = total
<1>1. Count(rs, "created") \in Nat /\ Count(rs, "updated") \in Nat
  BY CountIsANumber
<1> QED BY <1>1 DEF Tally, Done

-----------------------------------------------------------------------------
(***************************************************************************)
(* The invariant, in two parts: the claims, and each run's account.        *)
(***************************************************************************)

Unwritten == {"idle", "read", "insert", "takeover", "refused", "validate", "batch", "release"}
Stages == Unwritten \cup Writing \cup {"replayed", "answered", "failed", "dead"}

BatchRows == [created : Nat, updated : Nat, failed : Int]

ClaimTypes ==
  /\ claim \in [Keys -> ClaimRows \cup {NoClaim}]
  /\ key \in [Runs -> Keys]
  /\ sheet \in [Runs -> Sheets]

RunTypes ==
  /\ pc \in [Runs -> Stages]
  /\ results \in [Runs -> Seq(Statuses)]
  /\ saved \in [Runs -> SUBSET Phones]
  /\ batch \in [Runs -> BatchRows \cup {NoBatch}]
  /\ faults \in Nat

(* A run that holds its key has a claim there, its own or the one that was *)
(* taken over from it, until the hourly job deletes it.                    *)
ClaimHeld == \A r \in Runs : Holding(r) => claim[key[r]] # NoClaim \/ key[r] \in purged

(* What a run has saved: nothing before its first row; then the phones of  *)
(* rows it is done with, one less per failed call than it reports.         *)
NothingSaved(r) == pc[r] \in Unwritten => saved[r] = {} /\ results[r] = <<>>

RowsLeft(r) == pc[r] \in {"write", "sync"} => Len(results[r]) < Total(r)

SavedEarlier(r) ==
  pc[r] \in Writing =>
    \A p \in saved[r] : \E i \in 1..Len(results[r]) : sheet[r][i].phone = p

SavedOrFailed(r) ==
  pc[r] \in Writing => Cardinality(saved[r]) - Done(results[r]) \in 0..faults

BatchHonest(r) ==
  batch[r] # NoBatch =>
    /\ batch[r].created + batch[r].updated + batch[r].failed = Total(r)
    /\ batch[r].created + batch[r].updated <= Cardinality(saved[r])

FinalCounts(r) ==
  /\ pc[r] \in {"audit", "complete", "answered"} => batch[r] = Tally(results[r], Total(r))
  /\ pc[r] \in {"complete", "answered"} => r \in audited

RunInv(r) ==
  /\ NothingSaved(r) /\ RowsLeft(r) /\ SavedEarlier(r) /\ SavedOrFailed(r)
  /\ BatchHonest(r) /\ FinalCounts(r)

ImportInv ==
  ClaimTypes /\ RunTypes /\ ClaimHeld /\ RunsExclude /\ \A r \in Runs : RunInv(r)

(* A sheet has rows, and a phone it saved is not the empty one.            *)
LEMMA SheetHasRows ==
  ASSUME ClaimTypes, NEW r \in Runs
  PROVE  /\ sheet[r] \in Seq(SheetRows) /\ Total(r) \in Nat \ {0}
         /\ DOMAIN sheet[r] = 1..Total(r)
<1>1. sheet[r] \in Seq(SheetRows) \ {<<>>}
  BY ImportAssumption DEF ImportAssumption, ClaimTypes
<1> QED BY <1>1 DEF Total

LEMMA SavedIsFinite ==
  ASSUME RunTypes, NEW r \in Runs
  PROVE  IsFiniteSet(saved[r]) /\ Cardinality(saved[r]) \in Nat
<1>1. saved[r] \subseteq Phones /\ IsFiniteSet(Phones)
  BY CustomerAssumption DEF CustomerAssumption, RunTypes
<1> QED BY <1>1, FS_Subset, FS_CardinalityType

-----------------------------------------------------------------------------
(***************************************************************************)
(* The claims.                                                             *)
(***************************************************************************)

(* A claim is no longer there only where the hourly job deleted it, and a  *)
(* run comes to hold a key only by claiming it, or keeps it.               *)
LEMMA ClaimsKept ==
  ASSUME ClaimHeld, RunsExclude, UNCHANGED key, purged \subseteq purged',
         \A k \in Keys : claim[k] # NoClaim => claim'[k] # NoClaim \/ k \in purged',
         key \in [Runs -> Keys],
         \A r \in Runs : Holding(r)' => Holding(r)
  PROVE  ClaimHeld' /\ RunsExclude'
<1>1. \A r \in Runs : key[r] \in Keys /\ key'[r] = key[r]
  OBVIOUS
<1>2. ClaimHeld'
  BY <1>1 DEF ClaimHeld
<1>3. RunsExclude'
  BY <1>1 DEF RunsExclude
<1> QED BY <1>2, <1>3

(* The run whose INSERT the unique index accepted.                         *)
LEMMA WinnerExcludes ==
  ASSUME ClaimTypes, RunTypes, ClaimHeld, RunsExclude, NEW r \in Runs,
         claim[key[r]] = NoClaim, Claim(r), UNCHANGED <<key, purged>>
  PROVE  ClaimHeld' /\ RunsExclude'
<1>1. /\ OwnClaim(r) # NoClaim
      /\ claim' = [claim EXCEPT ![key[r]] = OwnClaim(r)]
  <2>1. sheet[r] \in Sheets /\ NoClaim \notin ClaimRows
    BY ImportAssumption DEF ImportAssumption, ClaimTypes
  <2>2. OwnClaim(r) \in ClaimRows
    BY <2>1 DEF OwnClaim, ClaimRows, Ages
  <2> QED BY <2>1, <2>2 DEF Claim
<1>2. /\ \A k \in Keys : claim[k] # NoClaim => claim'[k] = claim[k]
      /\ claim'[key[r]] # NoClaim
  BY <1>1 DEF ClaimTypes
<1>3. \A s \in Runs : s # r => pc'[s] = pc[s]
  BY DEF Claim, Goto, RunTypes
<1>4. \A s \in Runs : key[s] \in Keys /\ key'[s] = key[s] /\ purged' = purged
  BY DEF ClaimTypes
<1>5. ClaimHeld'
  <2> SUFFICES ASSUME NEW s \in Runs, Holding(s)'
               PROVE  claim'[key[s]] # NoClaim \/ key[s] \in purged
    BY <1>4 DEF ClaimHeld
  <2>1. CASE s = r
    BY <1>2, <2>1
  <2>2. CASE s # r
    BY <1>2, <1>3, <1>4, <2>2 DEF ClaimHeld, Holding
  <2> QED BY <2>1, <2>2
<1>6. RunsExclude'
  <2>1. \A s \in Runs : s # r /\ Holding(s)' /\ key[s] = key[r] => key[r] \in purged
    BY <1>3 DEF ClaimHeld, Holding
  <2>2. \A s, t \in Runs :
          s # t /\ key[s] = key[t] /\ s # r /\ t # r /\ Holding(s)' /\ Holding(t)'
            => key[s] \in purged
    BY <1>3 DEF RunsExclude, Holding
  <2> QED BY <1>4, <2>1, <2>2 DEF RunsExclude
<1> QED BY <1>5, <1>6

(* What the claims are part of.                                            *)
ClaimInv == ClaimTypes /\ RunTypes /\ ClaimHeld /\ RunsExclude

(* The steps of a run that leave the claims alone.                         *)
LEMMA QuietStepKeepsClaims ==
  ASSUME ClaimInv, NEW r \in Runs, NEW st, Goto(r, st), UNCHANGED <<claim, request, purged>>,
         st \in Writing \cup {"validate", "batch"} => Holding(r)
  PROVE  ClaimTypes' /\ ClaimHeld' /\ RunsExclude'
<1>1. ClaimTypes'
  BY DEF ClaimInv, ClaimTypes, request
<1>2. \A s \in Runs : Holding(s)' => Holding(s)
  BY DEF ClaimInv, RunTypes, Holding, Goto
<1>3. key \in [Runs -> Keys] /\ UNCHANGED <<claim, key, purged>>
  BY DEF ClaimInv, ClaimTypes, request
<1>4. ClaimHeld' /\ RunsExclude'
  BY <1>2, <1>3, ClaimsKept DEF ClaimInv
<1> QED BY <1>1, <1>4

(* A run that writes a row under its key but does not go on to hold it.    *)
LEMMA RowStepKeepsClaims ==
  ASSUME ClaimInv, NEW r \in Runs, NEW st, Goto(r, st), UNCHANGED <<request, purged>>,
         st \notin Writing \cup {"validate", "batch"},
         NEW row \in ClaimRows, claim' = [claim EXCEPT ![key[r]] = row]
  PROVE  ClaimTypes' /\ ClaimHeld' /\ RunsExclude'
<1>1. ClaimTypes'
  BY DEF ClaimInv, ClaimTypes, request
<1>2. \A s \in Runs : Holding(s)' => Holding(s)
  BY DEF ClaimInv, RunTypes, Holding, Goto
<1>3. key \in [Runs -> Keys] /\ UNCHANGED <<key, purged>>
  BY DEF ClaimInv, ClaimTypes, request
<1>4. row # NoClaim
  BY ImportAssumption DEF ImportAssumption
<1>5. \A k \in Keys : claim[k] # NoClaim => claim'[k] # NoClaim
  BY <1>4 DEF ClaimInv, ClaimTypes
<1>6. ClaimHeld' /\ RunsExclude'
  BY <1>2, <1>3, <1>5, ClaimsKept DEF ClaimInv
<1> QED BY <1>1, <1>6

LEMMA OwnClaimIsARow ==
  ASSUME ClaimTypes, NEW r \in Runs
  PROVE  OwnClaim(r) \in ClaimRows
BY DEF ClaimTypes, OwnClaim, ClaimRows, Ages

(* The row under a run's key, when it is the run's own.                    *)
LEMMA OwnedIsARow ==
  ASSUME ClaimTypes, NEW r \in Runs, claim[key[r]] # NoClaim
  PROVE  key[r] \in Keys /\ claim[key[r]] \in ClaimRows
BY DEF ClaimTypes

LEMMA ClaimStepKeepsClaims ==
  ASSUME ClaimInv, NEW r \in Runs,
         InsertClaim(r) \/ TakeOver(r) \/ ClaimCallFails(r) \/ Release(r) \/ Complete(r)
  PROVE  ClaimTypes' /\ ClaimHeld' /\ RunsExclude'
<1>1. OwnClaim(r) \in ClaimRows /\ UNCHANGED <<request, purged>>
  BY OwnClaimIsARow DEF ClaimInv, InsertClaim, TakeOver, ClaimCallFails, Release, Complete
<1>2. CASE InsertClaim(r)
  <2>1. CASE claim[key[r]] = NoClaim /\ Claim(r)
    <3>1. ClaimTypes'
      BY <1>1, <2>1 DEF ClaimInv, ClaimTypes, Claim, request
    <3> QED BY <1>1, <2>1, <3>1, WinnerExcludes DEF ClaimInv, request
  <2>2. CASE Goto(r, "refused") /\ UNCHANGED claim
    BY <1>1, <2>2, QuietStepKeepsClaims DEF Writing
  <2> QED BY <1>2, <2>1, <2>2 DEF InsertClaim
<1>3. CASE TakeOver(r)
  <2>1. Goto(r, "refused")
    BY <1>3 DEF TakeOver
  <2>2. CASE claim' = [claim EXCEPT ![key[r]] = OwnClaim(r)]
    BY <1>1, <2>1, <2>2, RowStepKeepsClaims DEF Writing
  <2>3. CASE UNCHANGED claim
    BY <1>1, <2>1, <2>3, QuietStepKeepsClaims DEF Writing
  <2> QED BY <1>3, <2>2, <2>3 DEF TakeOver
<1>4. CASE ClaimCallFails(r)
  <2>1. Goto(r, "failed")
    BY <1>4 DEF ClaimCallFails
  <2>2. CASE claim' = [claim EXCEPT ![key[r]] = OwnClaim(r)]
    BY <1>1, <2>1, <2>2, RowStepKeepsClaims DEF Writing
  <2>3. CASE UNCHANGED claim
    BY <1>1, <2>1, <2>3, QuietStepKeepsClaims DEF Writing
  <2> QED BY <1>4, <2>2, <2>3 DEF ClaimCallFails
<1>5. CASE Release(r)
  <2>1. Goto(r, "failed")
    BY <1>5 DEF Release
  <2>2. CASE Owns(r)
    <3> DEFINE row == [claim[key[r]] EXCEPT !.age = "old"]
    <3>1. claim' = [claim EXCEPT ![key[r]] = row]
      BY <1>5, <2>2 DEF Release
    <3>2. row \in ClaimRows
      BY <2>2, OwnedIsARow DEF ClaimInv, Owns, ClaimRows, Ages
    <3> QED BY <1>1, <2>1, <3>1, <3>2, RowStepKeepsClaims DEF Writing
  <2>3. CASE UNCHANGED claim
    BY <1>1, <2>1, <2>3, QuietStepKeepsClaims DEF Writing
  <2> QED BY <1>5, <2>2, <2>3 DEF Release
<1>6. CASE Complete(r)
  <2>1. Goto(r, "answered")
    BY <1>6 DEF Complete
  <2>2. CASE Owns(r) /\ StoreAnswer(r)
    <3> DEFINE row == [claim[key[r]] EXCEPT !.answer = results[r]]
    <3>1. claim' = [claim EXCEPT ![key[r]] = row]
      BY <2>2 DEF StoreAnswer
    <3>2. row \in ClaimRows
      BY <2>2, OwnedIsARow DEF ClaimInv, RunTypes, Owns, ClaimRows
    <3> QED BY <1>1, <2>1, <3>1, <3>2, RowStepKeepsClaims DEF Writing
  <2>3. CASE UNCHANGED claim
    BY <1>1, <2>1, <2>3, QuietStepKeepsClaims DEF Writing
  <2> QED BY <1>6, <2>2, <2>3 DEF Complete, StoreAnswer
<1> QED BY <1>2, <1>3, <1>4, <1>5, <1>6

(* The clock and the hourly job.                                           *)
LEMMA HourKeepsClaims ==
  ASSUME ClaimInv, NEW k \in Keys, Grows(k) \/ Purge(k)
  PROVE  ClaimTypes' /\ ClaimHeld' /\ RunsExclude'
<1>1. /\ claim[k] \in ClaimRows /\ key \in [Runs -> Keys] /\ UNCHANGED <<key, pc>>
      /\ \A r \in Runs : Holding(r)' => Holding(r)
  BY DEF ClaimInv, ClaimTypes, Grows, Purge, request, Holding
<1>2. CASE Grows(k)
  <2>1. PICK age \in Older(claim[k].age) : claim' = [claim EXCEPT ![k].age = age]
    BY <1>2 DEF Grows
  <2> DEFINE row == [claim[k] EXCEPT !.age = age]
  <2>2. claim' = [claim EXCEPT ![k] = row]
    BY <2>1
  <2>3. row \in ClaimRows
    BY <1>1 DEF ClaimRows, Ages, Older
  <2>4. row # NoClaim
    BY <2>3, ImportAssumption DEF ImportAssumption
  <2> HIDE DEF row
  <2>5. ClaimTypes' /\ \A c \in Keys : claim[c] # NoClaim => claim'[c] # NoClaim
    BY <1>2, <2>2, <2>3, <2>4 DEF Grows, ClaimInv, ClaimTypes, request
  <2>6. UNCHANGED purged
    BY <1>2 DEF Grows
  <2> QED BY <1>1, <2>5, <2>6, ClaimsKept DEF ClaimInv
<1>3. CASE Purge(k)
  <2>1. /\ ClaimTypes' /\ purged' = purged \cup {k}
        /\ \A c \in Keys : claim[c] # NoClaim => claim'[c] # NoClaim \/ c \in purged'
    BY <1>3 DEF Purge, ClaimInv, ClaimTypes, request
  <2> QED BY <1>1, <2>1, ClaimsKept DEF ClaimInv
<1> QED BY <1>2, <1>3

-----------------------------------------------------------------------------
(***************************************************************************)
(* The runs' accounts.                                                     *)
(***************************************************************************)

AccountInv == ClaimTypes /\ RunTypes /\ \A r \in Runs : RunInv(r)

(* A step of one run leaves the accounts of the others alone.              *)
LEMMA OthersKept ==
  ASSUME AccountInv, NEW r \in Runs, RunInv(r)', UNCHANGED sheet,
         faults' \in Nat, faults' >= faults,
         \A s \in Runs : s # r =>
           /\ pc'[s] = pc[s] /\ results'[s] = results[s] /\ saved'[s] = saved[s]
           /\ batch'[s] = batch[s] /\ (s \in audited => s \in audited')
  PROVE  \A s \in Runs : RunInv(s)'
<1> SUFFICES ASSUME NEW s \in Runs, s # r PROVE RunInv(s)'
  OBVIOUS
<1>1. /\ pc'[s] = pc[s] /\ results'[s] = results[s] /\ saved'[s] = saved[s]
      /\ batch'[s] = batch[s] /\ (s \in audited => s \in audited') /\ Total(s)' = Total(s)
  BY DEF Total
<1>2. RunInv(s)
  BY DEF AccountInv
<1>3. faults \in Nat /\ Cardinality(saved[s]) \in Nat /\ Done(results[s]) \in Nat
  <2>1. results[s] \in Seq(Statuses) /\ "failed" \in Statuses
    BY DEF AccountInv, RunTypes, Statuses
  <2> QED BY <2>1, DoneAppended, SavedIsFinite DEF AccountInv, RunTypes
<1>4. SavedOrFailed(s)'
  <2>1. Cardinality(saved'[s]) = Cardinality(saved[s]) /\ Done(results'[s]) = Done(results[s])
    BY <1>1
  <2> QED BY <1>1, <1>2, <1>3, <2>1 DEF RunInv, SavedOrFailed, Done
<1>5. NothingSaved(s)' /\ RowsLeft(s)' /\ SavedEarlier(s)' /\ BatchHonest(s)' /\ FinalCounts(s)'
  BY <1>1, <1>2 DEF RunInv, NothingSaved, RowsLeft, SavedEarlier, BatchHonest, FinalCounts, Tally
<1> QED BY <1>4, <1>5 DEF RunInv

(* The steps that only move a run on, before its first row or to its end.  *)
LEMMA MoveKeeps ==
  ASSUME AccountInv, NEW r \in Runs, NEW st \in Stages, Goto(r, st),
         UNCHANGED <<request, results, batch, audited, saved>>,
         faults' \in Nat, faults' >= faults,
         st \in Unwritten => pc[r] \in Unwritten, st \notin Writing,
         st = "answered" => pc[r] = "complete"
  PROVE  RunTypes' /\ \A s \in Runs : RunInv(s)'
<1>1. UNCHANGED sheet
  BY DEF request
<1>2. RunTypes'
  BY DEF AccountInv, RunTypes, Goto
<1>3. pc'[r] = st /\ \A s \in Runs : s # r => pc'[s] = pc[s]
  BY DEF AccountInv, RunTypes, Goto
<1>4. RunInv(r)' 
  <2>1. RunInv(r) /\ Total(r)' = Total(r) /\ UNCHANGED <<results, batch, audited, saved>>
    BY <1>1 DEF AccountInv, Total
  <2>2. NothingSaved(r)' /\ RowsLeft(r)' /\ SavedEarlier(r)' /\ SavedOrFailed(r)'
    BY <1>3, <2>1 DEF RunInv, NothingSaved, RowsLeft, SavedEarlier, SavedOrFailed, Writing
  <2>3. BatchHonest(r)' /\ FinalCounts(r)'
    BY <1>3, <2>1 DEF RunInv, BatchHonest, FinalCounts, Writing, Tally
  <2> QED BY <2>2, <2>3 DEF RunInv
<1>5. \A s \in Runs : s # r =>
        /\ pc'[s] = pc[s] /\ results'[s] = results[s] /\ saved'[s] = saved[s]
        /\ batch'[s] = batch[s] /\ (s \in audited => s \in audited')
  BY <1>3
<1> QED BY <1>1, <1>2, <1>4, <1>5, OthersKept

(* The run's stage alone tells which of these a step is.                   *)
LEMMA MovesKeep ==
  ASSUME AccountInv, NEW r \in Runs,
         \/ Send(r) \/ InsertClaim(r) \/ TakeOver(r) \/ ClaimCallFails(r) \/ Validate(r)
         \/ EarlyError(r) /\ UNCHANGED batch
         \/ Release(r) \/ Complete(r) \/ Crash(r)
         \/ ReadClaim(r) /\ UNCHANGED results
  PROVE  RunTypes' /\ \A s \in Runs : RunInv(s)'
<1>1. /\ UNCHANGED <<request, results, batch, audited, saved>>
      /\ faults \in Nat /\ faults' \in Nat /\ faults' >= faults
  BY DEF AccountInv, RunTypes, Send, InsertClaim, TakeOver, ClaimCallFails, Validate,
         EarlyError, Release, Complete, Crash, ReadClaim, Fault
<1>2. \E st \in Stages :
        /\ Goto(r, st)
        /\ st \in Unwritten => pc[r] \in Unwritten
        /\ st \notin Writing
        /\ st = "answered" => pc[r] = "complete"
  <2>1. CASE Send(r)
    BY <2>1 DEF Send, Stages, Unwritten, Writing
  <2>2. CASE InsertClaim(r)
    BY <2>2 DEF InsertClaim, Claim, Stages, Unwritten, Writing
  <2>3. CASE TakeOver(r) \/ ClaimCallFails(r) \/ Validate(r) \/ EarlyError(r)
    BY <2>3 DEF TakeOver, ClaimCallFails, Validate, EarlyError, Stages, Unwritten, Writing
  <2>4. CASE Release(r) \/ Complete(r) \/ Crash(r)
    BY <2>4 DEF Release, Complete, Crash, Stages, Unwritten, Writing
  <2>5. CASE ReadClaim(r)
    <3>1. Verdict(claim[key[r]], sheet[r]) \in {"insert", "takeover", "replayed", "refused"}
      BY DEF Verdict
    <3>2. pc[r] = "read" /\ Goto(r, Verdict(claim[key[r]], sheet[r]))
      BY <2>5 DEF ReadClaim
    <3> HIDE DEF Verdict
    <3> QED BY <3>1, <3>2 DEF Stages, Unwritten, Writing
  <2> QED BY <2>1, <2>2, <2>3, <2>4, <2>5
<1> QED BY <1>1, <1>2, MoveKeeps

(* The answer of a finished run, replayed.                                 *)
LEMMA ReplayKeeps ==
  ASSUME AccountInv, NEW r \in Runs, ReadClaim(r)
  PROVE  RunTypes' /\ \A s \in Runs : RunInv(s)'
<1> DEFINE c == claim[key[r]]
           v == Verdict(c, sheet[r])
<1>1. /\ Goto(r, v)
      /\ results' = [results EXCEPT ![r] = IF v = "replayed" THEN c.answer ELSE results[r]]
      /\ UNCHANGED <<sheet, batch, audited, faults, saved>>
  BY DEF ReadClaim, request
<1>2. CASE v # "replayed"
  <2>1. results' = results
    BY <1>1, <1>2 DEF AccountInv, RunTypes
  <2> QED BY <2>1, MovesKeep
<1>3. CASE v = "replayed"
  <2>1. c # NoClaim /\ c.answer # NoAnswer
    BY <1>3 DEF Verdict
  <2>2. c.answer \in Seq(Statuses)
    BY <2>1, OwnedIsARow DEF AccountInv, ClaimRows
  <2> HIDE DEF c, v
  <2>3. /\ pc' = [pc EXCEPT ![r] = "replayed"] /\ results' = [results EXCEPT ![r] = c.answer]
    BY <1>1, <1>3 DEF Goto
  <2>4. RunTypes'
    BY <1>1, <2>2, <2>3 DEF AccountInv, RunTypes, Stages
  <2>5. RunInv(r)'
    BY <1>1, <2>3 DEF AccountInv, RunTypes, RunInv, NothingSaved, RowsLeft, SavedEarlier,
       SavedOrFailed, BatchHonest, FinalCounts, Unwritten, Writing, Total
  <2>6. /\ faults \in Nat /\ faults' >= faults /\ faults' \in Nat
        /\ \A s \in Runs : s # r =>
             /\ pc'[s] = pc[s] /\ results'[s] = results[s] /\ saved'[s] = saved[s]
             /\ batch'[s] = batch[s] /\ (s \in audited => s \in audited')
    BY <1>1, <2>3 DEF AccountInv, RunTypes
  <2> QED BY <1>1, <2>4, <2>5, <2>6, OthersKept
<1> QED BY <1>2, <1>3

(* The batch row, inserted before the first row with every row as failed.  *)
LEMMA BatchInserted ==
  ASSUME AccountInv, NEW r \in Runs, pc[r] = "batch",
         batch' = [batch EXCEPT ![r] = Tally(<<>>, Total(r))],
         Goto(r, "write") \/ Goto(r, "release"),
         UNCHANGED <<request, results, audited, saved>>, faults' \in Nat, faults' >= faults
  PROVE  RunTypes' /\ \A s \in Runs : RunInv(s)'
<1>1. UNCHANGED sheet /\ Total(r)' = Total(r) /\ Total(r) \in Nat \ {0}
  BY SheetHasRows DEF request, Total, AccountInv
<1>2. saved[r] = {} /\ results[r] = <<>> /\ <<>> \in Seq(Statuses)
  BY DEF AccountInv, RunInv, NothingSaved, Unwritten
<1> DEFINE row == Tally(<<>>, Total(r))
<1>3. /\ row \in BatchRows /\ row.created + row.updated = 0
      /\ row.created + row.updated + row.failed = Total(r) /\ Done(<<>>) = 0
  <2>1. /\ row \in BatchRows /\ row.created + row.updated = Done(<<>>)
        /\ row.created + row.updated + row.failed = Total(r)
    BY <1>1, <1>2, TallyAddsUp DEF BatchRows
  <2>2. Done(<<>>) = 0
    BY CountOfNone DEF Done
  <2> QED BY <2>1, <2>2
<1> HIDE DEF row
<1>4. /\ pc'[r] \in {"write", "release"} /\ batch'[r] = row
      /\ saved'[r] = {} /\ results'[r] = <<>>
      /\ \A s \in Runs : s # r =>
           /\ pc'[s] = pc[s] /\ results'[s] = results[s] /\ saved'[s] = saved[s]
           /\ batch'[s] = batch[s] /\ (s \in audited => s \in audited')
  BY <1>2 DEF AccountInv, RunTypes, Goto, row
<1>5. RunTypes'
  BY <1>3 DEF AccountInv, RunTypes, Goto, Stages, Writing, Unwritten, row
<1>6. Cardinality(saved'[r]) = 0 /\ Len(results'[r]) = 0 /\ Done(results'[r]) = 0
  BY <1>3, <1>4, FS_EmptySet
<1>7. RunInv(r)'
  <2>1. NothingSaved(r)' /\ RowsLeft(r)' /\ SavedEarlier(r)'
    BY <1>1, <1>4, <1>6 DEF NothingSaved, RowsLeft, SavedEarlier
  <2>2. SavedOrFailed(r)'
    BY <1>6 DEF SavedOrFailed, Done
  <2>3. BatchHonest(r)' /\ FinalCounts(r)'
    BY <1>1, <1>3, <1>4, <1>6 DEF BatchHonest, FinalCounts
  <2> QED BY <2>1, <2>2, <2>3 DEF RunInv
<1> QED BY <1>1, <1>4, <1>5, <1>7, OthersKept

(* A row whose write saved a phone, or nothing, and how it was reported.   *)
LEMMA RowKeeps ==
  ASSUME AccountInv, NEW r \in Runs, pc[r] = "write", NEW st \in Statuses, Record(r, st),
         UNCHANGED <<request, batch, audited>>, faults' \in Nat,
         \/ /\ UNCHANGED saved /\ st = "failed" /\ faults' >= faults
         \/ /\ Writable(sheet[r], Len(results[r]) + 1)
            /\ Save(r, sheet[r][Len(results[r]) + 1].phone)
            /\ \/ st # "failed" /\ faults' = faults
               \/ st = "failed" /\ faults' = faults + 1
  PROVE  RunTypes' /\ \A s \in Runs : RunInv(s)'
<1> DEFINE n == Len(results[r]) + 1
           p == sheet[r][n].phone
<1>1. /\ UNCHANGED sheet /\ Total(r)' = Total(r) /\ DOMAIN sheet[r] = 1..Total(r)
      /\ sheet[r] \in Seq(SheetRows) /\ Total(r) \in Nat \ {0}
  BY SheetHasRows DEF AccountInv, request, Total
<1>2. /\ results[r] \in Seq(Statuses) /\ Len(results[r]) < Total(r) /\ n \in Nat
      /\ n \in 1..Total(r) /\ RunInv(r) /\ faults \in Nat
  <2>1. results[r] \in Seq(Statuses) /\ Len(results[r]) < Total(r) /\ RunInv(r) /\ faults \in Nat
    BY DEF AccountInv, RunTypes, RunInv, RowsLeft
  <2> QED BY <1>1, <2>1
<1>3. /\ results'[r] = Append(results[r], st) /\ Len(results'[r]) = n
      /\ pc'[r] = AfterRow(r, n)
      /\ results' \in [Runs -> Seq(Statuses)]
      /\ \A s \in Runs : s # r => pc'[s] = pc[s] /\ results'[s] = results[s]
  BY <1>2 DEF Record, Goto, AccountInv, RunTypes
<1>4. /\ pc'[r] \in {"write", "sync", "final"} /\ (n = Total(r) => pc'[r] = "final")
      /\ pc' \in [Runs -> Stages]
  <2>1. /\ AfterRow(r, n) \in {"write", "sync", "final"}
        /\ n = Total(r) => AfterRow(r, n) = "final"
    BY DEF AfterRow
  <2> QED BY <1>3, <2>1 DEF Record, Goto, AccountInv, RunTypes, Stages, Writing
<1>5. /\ Done(results[r]) \in Nat
      /\ Done(results'[r]) = Done(results[r]) + (IF st = "failed" THEN 0 ELSE 1)
  BY <1>2, <1>3, DoneAppended
<1>6. IsFiniteSet(saved[r]) /\ Cardinality(saved[r]) \in Nat /\ saved[r] \subseteq Phones
  BY SavedIsFinite DEF AccountInv, RunTypes
<1>7. CASE UNCHANGED saved /\ st = "failed" /\ faults' >= faults
  <2>1. RunTypes'
    BY <1>3, <1>4, <1>7 DEF AccountInv, RunTypes
  <2>2. NothingSaved(r)' /\ RowsLeft(r)'
    BY <1>1, <1>2, <1>3, <1>4 DEF NothingSaved, RowsLeft, Unwritten
  <2>3. SavedEarlier(r)'
    BY <1>1, <1>2, <1>3, <1>7 DEF RunInv, SavedEarlier, Writing
  <2>4. SavedOrFailed(r)'
    <3>1. Cardinality(saved'[r]) = Cardinality(saved[r]) /\ Done(results'[r]) = Done(results[r])
      BY <1>5, <1>7
    <3>2. Cardinality(saved[r]) - Done(results[r]) \in 0..faults
      BY <1>2 DEF RunInv, SavedOrFailed, Writing
    <3> QED BY <1>2, <1>5, <1>6, <1>7, <3>1, <3>2 DEF SavedOrFailed, Done
  <2>5. BatchHonest(r)' /\ FinalCounts(r)'
    BY <1>1, <1>2, <1>4, <1>7 DEF RunInv, BatchHonest, FinalCounts
  <2>6. RunInv(r)'
    BY <2>2, <2>3, <2>4, <2>5 DEF RunInv
  <2> QED BY <1>1, <1>2, <1>3, <1>7, <2>1, <2>6, OthersKept
<1>8. CASE /\ Writable(sheet[r], n) /\ Save(r, p)
           /\ \/ st # "failed" /\ faults' = faults
              \/ st = "failed" /\ faults' = faults + 1
  <2>1. p \in Phones /\ p # None
    <3>1. sheet[r][n] \in SheetRows
      BY <1>1, <1>2
    <3>2. sheet[r][n].phone # None
      BY <1>8 DEF Writable, RowValid, PhoneParses
    <3> QED BY <3>1, <3>2 DEF SheetRows
  <2>2. p \notin saved[r]
    <3> SUFFICES ASSUME NEW i \in 1..Len(results[r]), sheet[r][i].phone = p PROVE FALSE
      BY <1>2 DEF RunInv, SavedEarlier, Writing
    <3>1. i \in DOMAIN sheet[r] /\ i # n
      BY <1>1, <1>2
    <3>2. Repeated(sheet[r], n)
      BY <2>1, <3>1 DEF Repeated, PhoneParses
    <3> QED BY <1>8, <3>2 DEF Writable
  <2>3. /\ saved'[r] = saved[r] \cup {p} /\ saved' \in [Runs -> SUBSET Phones]
        /\ \A s \in Runs : s # r => saved'[s] = saved[s]
    BY <1>8, <2>1 DEF Save, AccountInv, RunTypes
  <2>4. Cardinality(saved'[r]) = Cardinality(saved[r]) + 1
    <3> HIDE DEF p
    <3>1. Cardinality(saved[r] \cup {p}) = Cardinality(saved[r]) + 1
      BY <1>6, <2>2, FS_AddElement
    <3> QED BY <2>3, <3>1
  <2>5. RunTypes'
    BY <1>3, <1>4, <2>3 DEF AccountInv, RunTypes
  <2>6. NothingSaved(r)' /\ RowsLeft(r)'
    BY <1>1, <1>2, <1>3, <1>4 DEF NothingSaved, RowsLeft, Unwritten
  <2>7. SavedEarlier(r)'
    <3>1. n \in 1..Len(results'[r]) /\ sheet'[r][n].phone = p
      BY <1>1, <1>2, <1>3
    <3>2. \A q \in saved[r] : \E i \in 1..Len(results'[r]) : sheet'[r][i].phone = q
      BY <1>1, <1>2, <1>3 DEF RunInv, SavedEarlier, Writing
    <3> HIDE DEF p, n
    <3>3. \A q \in saved'[r] : \E i \in 1..Len(results'[r]) : sheet'[r][i].phone = q
      BY <2>3, <3>1, <3>2
    <3> QED BY <3>3 DEF SavedEarlier
  <2>8. SavedOrFailed(r)'
    <3>1. Cardinality(saved[r]) - Done(results[r]) \in 0..faults
      BY <1>2 DEF RunInv, SavedOrFailed, Writing
    <3>2. Cardinality(saved'[r]) - Done(results'[r]) \in 0..faults'
      BY <1>2, <1>5, <1>6, <1>8, <2>4, <3>1
    <3> QED BY <3>2 DEF SavedOrFailed, Done
  <2>9. BatchHonest(r)' /\ FinalCounts(r)'
    <3>1. batch'[r] = batch[r] /\ (batch[r] = NoBatch \/ batch[r] \in BatchRows)
      BY DEF AccountInv, RunTypes
    <3>2. BatchHonest(r)'
      BY <1>1, <1>2, <1>6, <2>4, <3>1 DEF RunInv, BatchHonest, BatchRows
    <3> QED BY <1>4, <3>2 DEF FinalCounts
  <2>10. RunInv(r)'
    BY <2>6, <2>7, <2>8, <2>9 DEF RunInv
  <2>11. faults' >= faults
    BY <1>2, <1>8
  <2> QED BY <1>1, <1>3, <2>3, <2>5, <2>10, <2>11, OthersKept
<1> QED BY <1>7, <1>8

LEMMA WritesKeep ==
  ASSUME AccountInv, NEW r \in Runs, WriteRow(r) \/ WriteRowThrows(r)
  PROVE  RunTypes' /\ \A s \in Runs : RunInv(s)'
<1> DEFINE i == Len(results[r]) + 1
           p == sheet[r][i].phone
<1>1. /\ pc[r] = "write" /\ UNCHANGED <<request, batch, audited>> /\ faults \in Nat
      /\ "created" \in Statuses /\ "updated" \in Statuses /\ "failed" \in Statuses
  BY DEF WriteRow, WriteRowThrows, AccountInv, RunTypes, Statuses
<1>2. CASE WriteRow(r)
  <2>1. /\ UNCHANGED faults
        /\ \/ Record(r, "failed") /\ UNCHANGED saved
           \/ /\ Writable(sheet[r], i) /\ Save(r, p)
              /\ Record(r, "updated") \/ Record(r, "created")
    BY <1>2 DEF WriteRow
  <2> QED BY <1>1, <2>1, RowKeeps
<1>3. CASE WriteRowThrows(r)
  <2>1. /\ faults' = faults + 1 /\ Record(r, "failed")
        /\ \/ UNCHANGED saved
           \/ Writable(sheet[r], i) /\ Save(r, p)
    BY <1>3 DEF WriteRowThrows, Fault
  <2> QED BY <1>1, <2>1, RowKeeps
<1> QED BY <1>2, <1>3

(* A call after a row: the counts it writes are the results' own, and a    *)
(* run that goes on has written them if it asked to.                       *)
LEMMA CountsKeep ==
  ASSUME AccountInv, NEW r \in Runs, SyncBatch(r) \/ FinalSync(r) \/ WriteAudit(r)
  PROVE  RunTypes' /\ \A s \in Runs : RunInv(s)'
<1> DEFINE row == Tally(results[r], Total(r))
<1>1. /\ UNCHANGED <<sheet, results, saved>> /\ Total(r)' = Total(r) /\ Total(r) \in Nat
      /\ faults \in Nat /\ faults' \in Nat /\ faults' >= faults
  BY SheetHasRows DEF AccountInv, RunTypes, SyncBatch, FinalSync, WriteAudit, Fault, request,
     Total
<1>2. /\ pc[r] \in Writing /\ RunInv(r) /\ results[r] \in Seq(Statuses)
      /\ batch[r] \in BatchRows \cup {NoBatch}
  BY DEF AccountInv, RunTypes, SyncBatch, FinalSync, WriteAudit, Writing
<1>3. /\ row \in BatchRows /\ row.created + row.updated = Done(results[r])
      /\ row.created + row.updated + row.failed = Total(r)
  BY <1>1, <1>2, TallyAddsUp DEF BatchRows
<1>4. /\ Cardinality(saved[r]) \in Nat /\ Done(results[r]) \in Nat
      /\ Cardinality(saved[r]) - Done(results[r]) \in 0..faults
  <2>1. "failed" \in Statuses
    BY DEF Statuses
  <2> QED BY <1>2, <2>1, DoneAppended, SavedIsFinite DEF AccountInv, RunInv, SavedOrFailed
<1>5. PICK st \in {"write", "audit", "complete", "failed"} : Goto(r, st) /\
        \/ st = "write" /\ pc[r] = "sync"
        \/ st = "audit" /\ WriteCounts(r) /\ UNCHANGED audited
        \/ st = "complete" /\ pc[r] = "audit" /\ UNCHANGED batch /\ audited' = audited \cup {r}
        \/ st = "failed"
  BY DEF SyncBatch, FinalSync, WriteAudit
<1>6. /\ batch' = batch \/ batch' = [batch EXCEPT ![r] = row]
      /\ audited' = audited \/ audited' = audited \cup {r}
  BY DEF SyncBatch, FinalSync, WriteAudit, WriteCounts
<1>7. st = "audit" => batch'[r] = row
  BY <1>5 DEF WriteCounts, AccountInv, RunTypes
<1> HIDE DEF row
<1>8. /\ pc'[r] = st /\ pc' \in [Runs -> Stages]
      /\ \A s \in Runs : s # r => pc'[s] = pc[s]
  BY <1>5 DEF Goto, AccountInv, RunTypes, Stages, Writing
<1>9. /\ batch' \in [Runs -> BatchRows \cup {NoBatch}] /\ batch'[r] \in {batch[r], row}
      /\ \A s \in Runs : s # r => batch'[s] = batch[s]
  BY <1>3, <1>6 DEF AccountInv, RunTypes
<1>10. RunTypes'
  BY <1>1, <1>8, <1>9 DEF AccountInv, RunTypes
<1>11. RunInv(r)'
  <2>1. NothingSaved(r)' /\ RowsLeft(r)' /\ SavedEarlier(r)'
    BY <1>1, <1>2, <1>5, <1>8 DEF RunInv, NothingSaved, RowsLeft, SavedEarlier, Unwritten,
                                  Writing
  <2>2. SavedOrFailed(r)'
    BY <1>1, <1>4 DEF SavedOrFailed, Done
  <2>3. BatchHonest(r)'
    <3>1. CASE batch'[r] = row
      BY <1>1, <1>3, <1>4, <3>1 DEF BatchHonest
    <3>2. CASE batch'[r] = batch[r]
      BY <1>1, <1>2, <3>2 DEF RunInv, BatchHonest
    <3> QED BY <1>9, <3>1, <3>2
  <2>4. FinalCounts(r)'
    <3>1. row = Tally(results'[r], Total(r)')
      BY <1>1 DEF row
    <3>2. CASE st \in {"write", "failed"}
      BY <1>8, <3>2 DEF FinalCounts
    <3>3. CASE st = "audit"
      BY <1>7, <1>8, <3>1, <3>3 DEF FinalCounts
    <3>4. CASE st = "complete"
      <4>1. batch'[r] = row /\ r \in audited'
        BY <1>2, <1>5, <3>4 DEF RunInv, FinalCounts, row
      <4> QED BY <1>8, <3>1, <3>4, <4>1 DEF FinalCounts
    <3> QED BY <3>2, <3>3, <3>4
  <2> QED BY <2>1, <2>2, <2>3, <2>4 DEF RunInv
<1>12. \A s \in Runs : s # r =>
         /\ pc'[s] = pc[s] /\ results'[s] = results[s] /\ saved'[s] = saved[s]
         /\ batch'[s] = batch[s] /\ (s \in audited => s \in audited')
  BY <1>1, <1>6, <1>8, <1>9
<1> QED BY <1>1, <1>10, <1>11, <1>12, OthersKept

-----------------------------------------------------------------------------
(***************************************************************************)
(* The theorems.                                                           *)
(***************************************************************************)

LEMMA ImportStart == ImportInit => ImportInv
<1> SUFFICES ASSUME ImportInit PROVE ImportInv
  OBVIOUS
<1>1. ClaimTypes /\ RunTypes
  BY DEF ImportInit, NothingImported, ClaimTypes, RunTypes, Stages, Unwritten
<1>2. \A r \in Runs : pc[r] = "idle"
  BY DEF ImportInit, NothingImported
<1>3. ClaimHeld /\ RunsExclude
  BY <1>2 DEF ClaimHeld, RunsExclude, Holding, Writing
<1>4. ASSUME NEW r \in Runs PROVE RunInv(r)
  <2>1. results[r] = <<>> /\ saved[r] = {} /\ batch[r] = NoBatch
    BY DEF ImportInit, NothingImported
  <2> QED BY <1>2, <2>1 DEF RunInv, NothingSaved, RowsLeft, SavedEarlier, SavedOrFailed,
                        BatchHonest, FinalCounts, Writing
<1> QED BY <1>1, <1>3, <1>4 DEF ImportInv

(* Whatever the imports' variables do not change leaves the invariant.     *)
LEMMA ImportStutters ==
  ASSUME ImportInv, UNCHANGED importVars
  PROVE  ImportInv'
<1>1. UNCHANGED <<claim, pc, key, sheet, results, batch, audited, faults, purged, saved>>
  BY DEF importVars, request
<1>2. ClaimTypes' /\ RunTypes' /\ ClaimHeld' /\ RunsExclude'
  BY <1>1 DEF ImportInv, ClaimTypes, RunTypes, ClaimHeld, RunsExclude, Holding
<1>3. \A r \in Runs : RunInv(r)'
  BY <1>1 DEF ImportInv, RunInv, NothingSaved, RowsLeft, SavedEarlier, SavedOrFailed,
              BatchHonest, FinalCounts, Total, Done, Tally
<1> QED BY <1>2, <1>3 DEF ImportInv

LEMMA ImportKeeps ==
  ASSUME ImportInv, ImportNext
  PROVE  ImportInv'
<1>1. ClaimInv /\ AccountInv
  BY DEF ImportInv, ClaimInv, AccountInv
<1>2. ASSUME NEW k \in Keys, Grows(k) \/ Purge(k) PROVE ImportInv'
  <2>1. ClaimTypes' /\ ClaimHeld' /\ RunsExclude'
    BY <1>1, <1>2, HourKeepsClaims
  <2>2. UNCHANGED <<pc, sheet, results, batch, audited, faults, saved>>
    BY <1>2 DEF Grows, Purge, request
  <2>3. RunTypes' /\ \A r \in Runs : RunInv(r)'
    BY <2>2 DEF ImportInv, RunTypes, RunInv, NothingSaved, RowsLeft, SavedEarlier,
                SavedOrFailed, BatchHonest, FinalCounts, Total, Done, Tally
  <2> QED BY <2>1, <2>3 DEF ImportInv
<1>3. ASSUME NEW r \in Runs, Send(r) \/ RunStep(r) \/ RunFails(r) PROVE ImportInv'
  <2>1. ClaimTypes' /\ ClaimHeld' /\ RunsExclude'
    <3>1. CASE InsertClaim(r) \/ TakeOver(r) \/ ClaimCallFails(r) \/ Release(r) \/ Complete(r)
      BY <1>1, <3>1, ClaimStepKeepsClaims
    <3>2. CASE Send(r) \/ ReadClaim(r)
      <4>1. PICK st : Goto(r, st) /\ st \notin Writing \cup {"validate", "batch"}
        <5>1. Verdict(claim[key[r]], sheet[r]) \in {"insert", "takeover", "replayed", "refused"}
          BY DEF Verdict
        <5> QED BY <3>2, <5>1 DEF Send, ReadClaim, Writing
      <4>2. UNCHANGED <<claim, request, purged>>
        BY <3>2 DEF Send, ReadClaim
      <4> QED BY <1>1, <4>1, <4>2, QuietStepKeepsClaims
    <3>3. CASE \/ Validate(r) \/ InsertBatch(r) \/ EarlyError(r) \/ WriteRow(r) \/ WriteRowThrows(r)
               \/ SyncBatch(r) \/ FinalSync(r) \/ WriteAudit(r) \/ Crash(r)
      <4>1. PICK st : Goto(r, st) /\ (st \in Writing \cup {"validate", "batch"} => Holding(r))
        <5>1. CASE \/ Validate(r) \/ InsertBatch(r) \/ WriteRow(r) \/ WriteRowThrows(r)
                   \/ SyncBatch(r) \/ FinalSync(r) \/ WriteAudit(r)
          <6>1. Holding(r)
            BY <5>1 DEF Validate, InsertBatch, WriteRow, WriteRowThrows, SyncBatch, FinalSync,
                        WriteAudit, Holding, Writing
          <6>2. \E st : Goto(r, st)
            BY <5>1 DEF Validate, InsertBatch, WriteRow, WriteRowThrows, SyncBatch, FinalSync,
                        WriteAudit, Record
          <6> QED BY <6>1, <6>2
        <5>2. CASE EarlyError(r) \/ Crash(r)
          BY <5>2 DEF EarlyError, Crash, Writing
        <5> QED BY <3>3, <5>1, <5>2
      <4>2. UNCHANGED <<claim, request, purged>>
        BY <3>3 DEF Validate, InsertBatch, EarlyError, WriteRow, WriteRowThrows, SyncBatch,
                    FinalSync, WriteAudit, Crash
      <4> QED BY <1>1, <4>1, <4>2, QuietStepKeepsClaims
    <3> QED BY <1>3, <3>1, <3>2, <3>3 DEF RunStep, RunFails
  <2>2. RunTypes' /\ \A s \in Runs : RunInv(s)'
    <3>1. CASE \/ Send(r) \/ InsertClaim(r) \/ TakeOver(r) \/ ClaimCallFails(r) \/ Validate(r)
               \/ Release(r) \/ Complete(r) \/ Crash(r)
      BY <1>1, <3>1, MovesKeep
    <3>2. CASE ReadClaim(r)
      BY <1>1, <3>2, ReplayKeeps
    <3>3. CASE EarlyError(r)
      <4>1. CASE UNCHANGED batch
        BY <1>1, <3>3, <4>1, MovesKeep
      <4>2. CASE pc[r] = "batch" /\ batch' = [batch EXCEPT ![r] = Tally(<<>>, Total(r))]
        <5>1. faults' \in Nat /\ faults' >= faults
          BY <3>3 DEF EarlyError, Fault, ImportInv, RunTypes
        <5> QED BY <1>1, <3>3, <4>2, <5>1, BatchInserted DEF EarlyError
      <4> QED BY <3>3, <4>1, <4>2 DEF EarlyError
    <3>4. CASE InsertBatch(r)
      <4>1. faults' \in Nat /\ faults' >= faults
        BY <3>4 DEF InsertBatch, ImportInv, RunTypes
      <4> QED BY <1>1, <3>4, <4>1, BatchInserted DEF InsertBatch
    <3>5. CASE WriteRow(r) \/ WriteRowThrows(r)
      BY <1>1, <3>5, WritesKeep
    <3>6. CASE SyncBatch(r) \/ FinalSync(r) \/ WriteAudit(r)
      BY <1>1, <3>6, CountsKeep
    <3> QED BY <1>3, <3>1, <3>2, <3>3, <3>4, <3>5, <3>6 DEF RunStep, RunFails
  <2> QED BY <2>1, <2>2 DEF ImportInv
<1> QED BY <1>2, <1>3 DEF ImportNext

LEMMA ImportAlways == ImportSpec => []ImportInv
<1>1. ImportInv /\ [ImportNext \/ (OwnerEdits /\ UNCHANGED importVars)]_<<book, importVars>>
        => ImportInv'
  BY ImportKeeps, ImportStutters
<1> QED BY <1>1, ImportStart, PTL DEF ImportSpec

(* claimImportKey: two requests with one idempotency key import together   *)
(* only after the hourly job deleted the claim of a run that still held it *)
(* or had released it: a claim that is taken over starts no run, and the   *)
(* unique index lets one INSERT win.                                       *)
THEOREM ImportsExclude == ImportSpec => []RunsExclude
<1>1. ImportInv => RunsExclude
  BY DEF ImportInv
<1> QED BY <1>1, ImportAlways, PTL

(* syncBatch, tally and writeAudit: a batch row's counts add up to its     *)
(* sheet and claim no customer that was not saved; what was saved but      *)
(* reported failed is at most one row per failed call; an answered run has *)
(* its final counts in its batch and its audit entry.                      *)
THEOREM ImportsAreAccounted == ImportSpec => []RunAccounted
<1>1. ImportInv => RunAccounted
  <2> SUFFICES ASSUME ImportInv, NEW r \in Runs
               PROVE  LET done == Tally(results[r], Total(r))
                          kept == Cardinality(saved[r])
                      IN /\ batch[r] # NoBatch =>
                              /\ batch[r].created + batch[r].updated + batch[r].failed = Total(r)
                              /\ batch[r].created + batch[r].updated <= kept
                         /\ pc[r] \in Writing =>
                              kept - (done.created + done.updated) \in 0..faults
                         /\ pc[r] = "answered" => batch[r] = done /\ r \in audited
    BY DEF RunAccounted
  <2>1. /\ RunInv(r) /\ results[r] \in Seq(Statuses) /\ Total(r) \in Nat
    BY SheetHasRows DEF ImportInv, RunTypes
  <2>2. Tally(results[r], Total(r)).created + Tally(results[r], Total(r)).updated
          = Done(results[r])
    BY <2>1, TallyAddsUp
  <2> QED BY <2>1, <2>2 DEF RunInv, BatchHonest, SavedOrFailed, FinalCounts
<1> QED BY <1>1, ImportAlways, PTL

-----------------------------------------------------------------------------
(***************************************************************************)
(* The creation of jobs.                                                   *)
(***************************************************************************)

CreationStages ==
  {"idle", "lookup", "insert", "byId", "check", "create", "ring", "done", "refused", "failed",
   "collided"}

Years == 1..LastYear

CreationTypes ==
  /\ stage \in [Calls -> CreationStages]
  /\ wants \in [Calls -> Wants]
  /\ attempt \in [Calls -> Nat]
  /\ year \in Years
  /\ counter \in [Years -> 0..Highest]
  /\ \A y \in Years : IsFiniteSet(Numbered(y))

(* A year's numbers are those up to its counter, each on one job.          *)
GapFree ==
  \A y \in Years : /\ {j.number : j \in Numbered(y)} = 1..counter[y]
                   /\ Cardinality(Numbered(y)) = counter[y]

OutOfDigits ==
  \A c \in Calls : stage[c] = "collided" => \E y \in Years : counter[y] = Highest

(* Whose INSERT was refused knows that its customer is there.              *)
RetriesKnow ==
  \A c \in Calls :
    /\ stage[c] = "lookup" /\ attempt[c] >= 1 => Known(wants[c].phone)
    /\ stage[c] = "insert" => attempt[c] = 0

NumbersInv == GapFree /\ OutOfDigits
CreationInv == CustomersType /\ CreationTypes /\ NumbersInv /\ RetriesKnow

(* No row is ever deleted.                                                 *)
LEMMA InsertKnows ==
  ASSUME CustomersType, NEW p \in Phones, NEW via \in Origins, NEW city \in Cities \cup {None},
         Insert(p, via, city)
  PROVE  CustomersType' /\ \A q \in Phones : Known(q) => Known(q)'
<1>1. [via |-> via, city |-> city] \in CustomerRows
  BY DEF CustomerRows
<1> QED BY <1>1 DEF CustomersType, Insert, Known

LEMMA OwnerKnows ==
  ASSUME CustomersType, OwnerEdits
  PROVE  CustomersType' /\ \A q \in Phones : Known(q) => Known(q)'
<1>1. PICK p \in Phones, city \in Cities \cup {None} :
        CreateCustomer(p, city) \/ UpdateCustomer(p, city)
  BY DEF OwnerEdits
<1>2. CASE CreateCustomer(p, city)
  BY <1>2, InsertKnows DEF CreateCustomer, Origins
<1>3. CASE UpdateCustomer(p, city)
  <2> DEFINE row == [book[p] EXCEPT !.city = city]
  <2>1. row \in CustomerRows
    BY <1>3 DEF UpdateCustomer, Known, CustomersType, CustomerRows
  <2>2. book' = [book EXCEPT ![p] = row]
    BY <1>3 DEF UpdateCustomer
  <2>3. row # NoCustomer
    BY <2>1, CustomerAssumption DEF CustomerAssumption
  <2> HIDE DEF row
  <2> QED BY <2>1, <2>2, <2>3 DEF CustomersType, Known
<1> QED BY <1>1, <1>2, <1>3

(* The number of the next job is its count, or one that is taken already.  *)
LEMMA NextNumber ==
  ASSUME CreationTypes, NumbersInv
  PROVE  /\ counter[year] = Highest => Taken(year, Label(counter[year] + 1))
         /\ counter[year] < Highest =>
              /\ Label(counter[year] + 1) = counter[year] + 1
              /\ ~Taken(year, counter[year] + 1)
<1> DEFINE n == counter[year] + 1
<1>1. /\ counter[year] \in 0..Highest /\ Highest \in Nat /\ Highest >= Radix - 1
      /\ Radix \in Nat /\ Radix >= 2
      /\ \A k : Taken(year, k) <=> k \in 1..counter[year]
  <2>1. \A k : Taken(year, k) <=> k \in {j.number : j \in Numbered(year)}
    BY DEF Taken
  <2> QED BY <2>1, CreationAssumption DEF CreationAssumption, CreationTypes, NumbersInv, GapFree
<1>2. CASE counter[year] = Highest
  <2>1. n \div Radix \in 1..Highest
    <3>1. n >= Radix /\ n \in Nat /\ n <= Highest + 1
      BY <1>1, <1>2
    <3>2. n \div Radix \in Nat /\ Radix * (n \div Radix) <= n /\ n < Radix * (n \div Radix) + Radix
      BY <1>1, <3>1
    <3>3. n \div Radix >= 1
      BY <1>1, <3>1, <3>2
    <3>4. 2 * (n \div Radix) <= n
      <4> DEFINE q == n \div Radix
      <4> HIDE DEF q
      <4>1. \A a, b \in Nat : b >= 2 => 2 * a <= b * a
        OBVIOUS
      <4>2. 2 * q <= Radix * q
        BY <1>1, <3>2, <4>1 DEF q
      <4> QED BY <3>1, <3>2, <4>2, <1>1 DEF q
    <3> QED BY <1>1, <3>1, <3>2, <3>3, <3>4
  <2> QED BY <1>1, <1>2, <2>1 DEF Label
<1>3. CASE counter[year] < Highest
  BY <1>1, <1>3 DEF Label
<1> QED BY <1>2, <1>3

(* Steps that add no job.                                                  *)
LEMMA NumbersKept ==
  ASSUME CreationTypes, NumbersInv, UNCHANGED <<counter, jobs>>,
         \A c \in Calls : stage'[c] = "collided" => stage[c] = "collided"
  PROVE  NumbersInv' /\ \A y \in Years : IsFiniteSet(Numbered(y)')
<1>1. \A y : Numbered(y)' = Numbered(y)
  BY DEF Numbered
<1> QED BY <1>1 DEF CreationTypes, NumbersInv, GapFree, OutOfDigits

LEMMA CreateKeeps ==
  ASSUME CreationInv, NEW c \in Calls, Create(c)
  PROVE  CreationInv'
<1> DEFINE n == Label(counter[year] + 1)
           j == Job(c, n)
<1>1. /\ UNCHANGED <<book, wants, attempt, year>> /\ year \in Years
      /\ counter[year] \in 0..Highest /\ Highest \in Nat
  BY CreationAssumption DEF CreationAssumption, Create, CreationInv, CreationTypes
<1>2. PICK st \in {"ring", "done", "failed", "collided"} :
        /\ Proceed(c, st)
        /\ st = "collided" => Taken(year, n)
        /\ \/ RollBack
           \/ /\ st # "collided" /\ ~Taken(year, n)
              /\ counter' = [counter EXCEPT ![year] = counter[year] + 1]
              /\ jobs' = jobs \cup {j}
  BY DEF Create
<1> HIDE DEF n, j
<1>3. /\ stage' \in [Calls -> CreationStages] /\ stage'[c] = st
      /\ \A d \in Calls : d # c => stage'[d] = stage[d]
  BY <1>2 DEF Proceed, CreationInv, CreationTypes, CreationStages
<1>4. CustomersType' /\ RetriesKnow'
  BY <1>1, <1>2, <1>3 DEF CreationInv, CustomersType, RetriesKnow, Known
<1>5. CASE RollBack
  <2>1. \A y : Numbered(y)' = Numbered(y)
    BY <1>5 DEF RollBack, Numbered
  <2>2. GapFree' /\ CreationTypes'
    BY <1>1, <1>3, <1>5, <2>1 DEF RollBack, CreationInv, CreationTypes, NumbersInv, GapFree
  <2>3. OutOfDigits'
    <3>1. st = "collided" => counter[year] = Highest
      <4>1. CASE counter[year] < Highest
        BY <1>2, <4>1, NextNumber DEF CreationInv, n
      <4> QED BY <1>1, <4>1
    <3> QED BY <1>1, <1>3, <1>5, <3>1 DEF RollBack, CreationInv, NumbersInv, OutOfDigits
  <2> QED BY <1>4, <2>2, <2>3 DEF CreationInv, NumbersInv
<1>6. CASE /\ st # "collided" /\ ~Taken(year, n)
           /\ counter' = [counter EXCEPT ![year] = counter[year] + 1]
           /\ jobs' = jobs \cup {j}
  <2>1. counter[year] < Highest /\ n = counter[year] + 1
    <3>1. counter[year] # Highest
      BY <1>6, NextNumber DEF CreationInv, n
    <3>2. counter[year] < Highest
      BY <1>1, <3>1
    <3> QED BY <3>2, NextNumber DEF CreationInv, n
  <2>2. j.year = year /\ j.number = n
    BY DEF j, Job
  <2>3. \A y : Numbered(y)' = IF y = year THEN Numbered(y) \cup {j} ELSE Numbered(y)
    BY <1>6, <2>2 DEF Numbered
  <2>4. j \notin Numbered(year)
    BY <1>6, <2>2 DEF Taken
  <2>5. /\ counter'[year] = n /\ counter' \in [Years -> 0..Highest]
        /\ \A y \in Years : y # year => counter'[y] = counter[y]
    BY <1>1, <1>6, <2>1 DEF CreationInv, CreationTypes
  <2>6. IsFiniteSet(Numbered(year)) /\ Cardinality(Numbered(year)) = counter[year]
    BY <1>1 DEF CreationInv, CreationTypes, NumbersInv, GapFree
  <2>7. /\ IsFiniteSet(Numbered(year) \cup {j})
        /\ Cardinality(Numbered(year) \cup {j}) = n
    BY <2>1, <2>4, <2>6, FS_AddElement
  <2>8. CreationTypes'
    <3>1. \A y \in Years : IsFiniteSet(Numbered(y)')
      <4>1. \A y \in Years : y # year => IsFiniteSet(Numbered(y))
        BY DEF CreationInv, CreationTypes
      <4>2. \A y \in Years : y = year => IsFiniteSet(Numbered(y) \cup {j})
        BY <2>7
      <4> QED BY <2>3, <4>1, <4>2
    <3> QED BY <1>1, <1>3, <2>5, <3>1 DEF CreationInv, CreationTypes
  <2>9. GapFree'
    <3>1. {k.number : k \in Numbered(year) \cup {j}} = 1..n
      <4>1. {k.number : k \in Numbered(year)} = 1..counter[year]
        BY <1>1 DEF CreationInv, NumbersInv, GapFree
      <4>2. {k.number : k \in Numbered(year) \cup {j}}
              = {k.number : k \in Numbered(year)} \cup {n}
        BY <2>2
      <4> QED BY <1>1, <2>1, <4>1, <4>2
    <3>2. \A y \in Years : y = year =>
            /\ {k.number : k \in Numbered(y)'} = 1..counter'[y]
            /\ Cardinality(Numbered(y)') = counter'[y]
      BY <2>3, <2>5, <2>7, <3>1
    <3>3. \A y \in Years : y # year =>
            /\ {k.number : k \in Numbered(y)'} = 1..counter'[y]
            /\ Cardinality(Numbered(y)') = counter'[y]
      BY <2>3, <2>5 DEF CreationInv, NumbersInv, GapFree
    <3>4. \A y \in Years : /\ {k.number : k \in Numbered(y)'} = 1..counter'[y]
                           /\ Cardinality(Numbered(y)') = counter'[y]
      BY <1>1, <3>2, <3>3
    <3> QED BY <3>4 DEF GapFree
  <2>10. OutOfDigits'
    <3> SUFFICES ASSUME NEW d \in Calls, stage'[d] = "collided"
                 PROVE  \E y \in Years : counter'[y] = Highest
      BY DEF OutOfDigits
    <3>1. d # c /\ stage[d] = "collided"
      BY <1>3, <1>6
    <3>2. PICK y \in Years : counter[y] = Highest
      BY <3>1 DEF CreationInv, NumbersInv, OutOfDigits
    <3>3. y # year
      BY <1>1, <2>1, <3>2
    <3> QED BY <2>5, <3>2, <3>3
  <2> QED BY <1>4, <2>8, <2>9, <2>10 DEF CreationInv, NumbersInv
<1> QED BY <1>2, <1>5, <1>6

(* The steps that look a customer up or insert one.                        *)
LEMMA CallKeeps ==
  ASSUME CreationInv, NEW c \in Calls,
         \/ SendJob(c) \/ CallFails(c) \/ InsertReplyLost(c) \/ ById(c) \/ LookUp(c)
         \/ InsertCustomer(c) \/ InsertRefused(c) \/ Checks(c) \/ Ring(c)
  PROVE  CreationInv'
<1>1. UNCHANGED <<wants, year, counter, jobs>> /\ wants[c].phone \in Phones
  BY DEF SendJob, CallFails, InsertReplyLost, ById, LookUp, InsertCustomer, InsertRefused,
         Checks, Ring, CreationInv, CreationTypes, Wants
<1>2. PICK st \in CreationStages : Proceed(c, st) /\ st # "collided"
  <2>1. CASE InsertRefused(c)
    <3>1. attempt[c] = 0
      BY <2>1 DEF InsertRefused, CreationInv, RetriesKnow
    <3> QED BY <2>1, <3>1 DEF InsertRefused, CreationStages
  <2>2. CASE \/ SendJob(c) \/ CallFails(c) \/ InsertReplyLost(c) \/ ById(c) \/ LookUp(c)
             \/ InsertCustomer(c) \/ Checks(c) \/ Ring(c)
    BY <2>2 DEF SendJob, CallFails, InsertReplyLost, ById, LookUp, InsertCustomer, Checks, Ring,
                CreationStages
  <2> QED BY <2>1, <2>2
<1>3. /\ stage' \in [Calls -> CreationStages] /\ stage'[c] = st
      /\ \A d \in Calls : d # c => stage'[d] = stage[d]
  BY <1>2 DEF Proceed, CreationInv, CreationTypes
<1>4. CustomersType' /\ \A p \in Phones : Known(p) => Known(p)'
  <2>1. CASE InsertReplyLost(c) \/ InsertCustomer(c)
    <3>1. "job_creation" \in Origins /\ Insert(wants[c].phone, "job_creation", None)
      BY <2>1 DEF InsertReplyLost, InsertCustomer, Origins
    <3> QED BY <1>1, <3>1, InsertKnows DEF CreationInv
  <2>2. CASE UNCHANGED book
    BY <2>2 DEF CreationInv, CustomersType, Known
  <2> QED BY <2>1, <2>2 DEF SendJob, CallFails, ById, LookUp, InsertRefused, Checks, Ring
<1>5. NumbersInv' /\ \A y \in Years : IsFiniteSet(Numbered(y)')
  <2>1. \A d \in Calls : stage'[d] = "collided" => stage[d] = "collided"
    BY <1>2, <1>3
  <2> QED BY <1>1, <2>1, NumbersKept DEF CreationInv
<1>6. /\ attempt' \in [Calls -> Nat]
      /\ \A d \in Calls : d # c => attempt'[d] = attempt[d]
  BY DEF SendJob, CallFails, InsertReplyLost, ById, LookUp, InsertCustomer, InsertRefused,
         Checks, Ring, CreationInv, CreationTypes
<1>7. CreationTypes'
  BY <1>1, <1>3, <1>5, <1>6 DEF CreationInv, CreationTypes
<1>8. RetriesKnow'
  <2>1. /\ st = "lookup" /\ attempt'[c] >= 1 => Known(wants[c].phone)'
        /\ st = "insert" => attempt'[c] = 0
    <3>1. CASE SendJob(c)
      <4>1. attempt'[c] = 0 
        BY <3>1 DEF SendJob, CreationInv, CreationTypes
      <4>2. st # "insert"
        BY <1>2, <1>3, <3>1 DEF SendJob, Proceed, CreationInv, CreationTypes
      <4> QED BY <4>1, <4>2
    <3>2. CASE LookUp(c)
      <4>1. /\ stage[c] = "lookup" /\ attempt' = attempt /\ attempt[c] \in Nat
            /\ st = IF Known(wants[c].phone) THEN "check" ELSE "insert"
        BY <1>3, <3>2 DEF LookUp, Proceed, CreationInv, CreationTypes
      <4>2. Known(wants[c].phone) \/ ~(attempt[c] >= 1)
        BY <4>1 DEF CreationInv, RetriesKnow
      <4> QED BY <4>1, <4>2
    <3>3. CASE InsertRefused(c)
      <4>1. Known(wants[c].phone) /\ st # "insert"
        BY <1>3, <3>3 DEF InsertRefused, Proceed, CreationInv, CreationTypes
      <4> QED BY <1>1, <1>4, <4>1
    <3>4. CASE \/ CallFails(c) \/ InsertReplyLost(c) \/ ById(c) \/ InsertCustomer(c)
               \/ Checks(c) \/ Ring(c)
      <4>1. st \notin {"lookup", "insert"}
        BY <1>3, <3>4 DEF CallFails, InsertReplyLost, ById, InsertCustomer, Checks, Ring,
                          Proceed, CreationInv, CreationTypes
      <4> QED BY <4>1
    <3> QED BY <3>1, <3>2, <3>3, <3>4
  <2>2. \A d \in Calls : d # c =>
          /\ stage'[d] = "lookup" /\ attempt'[d] >= 1 => Known(wants[d].phone)'
          /\ stage'[d] = "insert" => attempt'[d] = 0
    <3>1. \A d \in Calls : wants[d].phone \in Phones
      BY DEF CreationInv, CreationTypes, Wants
    <3> QED BY <1>1, <1>3, <1>4, <1>6, <3>1 DEF CreationInv, RetriesKnow
  <2> QED BY <1>1, <1>3, <2>1, <2>2 DEF RetriesKnow
<1> QED BY <1>4, <1>5, <1>7, <1>8 DEF CreationInv

LEMMA CreationStart == CreationInit => CreationInv
<1> SUFFICES ASSUME CreationInit PROVE CreationInv
  OBVIOUS
<1>1. 1 \in Years /\ 0 \in 0..Highest
  BY CreationAssumption DEF CreationAssumption, Years
<1>2. \A y : Numbered(y) = {}
  BY DEF CreationInit, NoJobs, Numbered
<1>3. counter = [y \in Years |-> 0]
  BY DEF CreationInit, NoJobs, Years
<1>4. CreationTypes
  BY <1>1, <1>2, <1>3, FS_EmptySet DEF CreationInit, NoJobs, CreationTypes, CreationStages
<1>5. GapFree
  BY <1>2, <1>3, FS_EmptySet DEF GapFree
<1> QED BY <1>4, <1>5 DEF CreationInit, NoJobs, CreationInv, NumbersInv, OutOfDigits, RetriesKnow

LEMMA CreationKeeps ==
  CreationInv /\ [CreationNext \/ (OwnerEdits /\ UNCHANGED creationVars)]_<<book, creationVars>>
    => CreationInv'
<1> SUFFICES ASSUME CreationInv,
                    [CreationNext \/ (OwnerEdits /\ UNCHANGED creationVars)]_<<book, creationVars>>
             PROVE  CreationInv'
  OBVIOUS
<1>1. CASE NewYear
  <2>1. /\ UNCHANGED <<book, stage, wants, attempt, counter, jobs>> /\ year' \in Years
    BY <1>1, CreationAssumption DEF CreationAssumption, NewYear, CreationInv, CreationTypes, Years
  <2>2. NumbersInv' /\ \A y \in Years : IsFiniteSet(Numbered(y)')
    BY <2>1, NumbersKept DEF CreationInv
  <2> QED BY <2>1, <2>2 DEF CreationInv, CustomersType, CreationTypes, RetriesKnow, Known
<1>2. ASSUME NEW c \in Calls, CreationStep(c) PROVE CreationInv'
  BY <1>2, CallKeeps, CreateKeeps DEF CreationStep
<1>3. CASE UNCHANGED creationVars /\ (OwnerEdits \/ UNCHANGED book)
  <2>1. UNCHANGED <<stage, wants, attempt, year, counter, jobs>>
    BY <1>3 DEF creationVars
  <2>2. CustomersType' /\ \A p \in Phones : Known(p) => Known(p)'
    <3>1. CASE OwnerEdits
      BY <3>1, OwnerKnows DEF CreationInv
    <3>2. CASE UNCHANGED book
      BY <3>2 DEF CreationInv, CustomersType, Known
    <3> QED BY <1>3, <3>1, <3>2
  <2>3. NumbersInv' /\ \A y \in Years : IsFiniteSet(Numbered(y)')
    BY <2>1, NumbersKept DEF CreationInv
  <2>4. RetriesKnow'
    <3>1. \A c \in Calls : wants[c].phone \in Phones
      BY DEF CreationInv, CreationTypes, Wants
    <3> QED BY <2>1, <2>2, <3>1 DEF CreationInv, RetriesKnow
  <2> QED BY <2>1, <2>2, <2>3, <2>4 DEF CreationInv, CreationTypes
<1> QED BY <1>1, <1>2, <1>3 DEF CreationNext

(* increment_job_counter and findOrCreateByPhone: the numbers of a year's  *)
(* jobs are 1 to the counter, each on one job, whatever failed, collided   *)
(* or was retried; the index refuses a job only when the digits have run   *)
(* out; and the insert after the second look-up is never refused.          *)
THEOREM CreationsAreAccounted == CreationSpec => []CreationsAccounted
<1>1. CreationInv => CreationsAccounted
  <2> SUFFICES ASSUME CreationInv PROVE CreationsAccounted
    OBVIOUS
  <2>1. NumbersGapFree
    BY DEF CreationInv, NumbersInv, GapFree, OutOfDigits, NumbersGapFree, Years
  <2>2. SecondLookupFinds
    BY DEF CreationInv, CreationTypes, CreationStages, SecondLookupFinds
  <2> QED BY <2>1, <2>2 DEF CreationsAccounted
<1>2. CreationSpec => []CreationInv
  BY CreationStart, CreationKeeps, PTL DEF CreationSpec
<1> QED BY <1>1, <1>2, PTL

===============================================================================
