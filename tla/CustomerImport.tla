---------------------------- MODULE CustomerImport ----------------------------
(***************************************************************************)
(* POST /customers/import/commit: a run claims the request's idempotency   *)
(* key, validates the sheet against the stored customers, inserts its      *)
(* batch row, writes the rows one by one, refreshes the batch counts,      *)
(* writes the audit entry and stores its answer under the key.  Each step  *)
(* is a database call of its own; a call may fail before or after it took  *)
(* effect, and the process may die between any two.                        *)
(***************************************************************************)
EXTENDS Customers

CONSTANTS Runs,           \* requests
          Keys,           \* idempotency keys
          Sheets,         \* each a sequence of rows [phone, city, faulty]
          ProgressEvery,  \* 25
          MaxFaults,
          NoClaim, NoBatch, NoAnswer

(* What the parsers of a row's other fields may refuse.  A row is [phone,   *)
(* city, faulty]: its parsed values and the fields that did not parse.     *)
Fields == {"name", "address", "coordinates", "extras"}

SheetRows == [phone : Phones \cup {None}, city : Cities \cup {None}, faulty : SUBSET Fields]

(* How a row ended, and a claim: its answer is the status of every row.    *)
Statuses == {"created", "updated", "failed"}
Ages == {"young", "stale", "old"}

ClaimRows == [sheet : Sheets, token : Runs, age : Ages,
              answer : Seq(Statuses) \cup {NoAnswer}]

(* An empty sheet is refused before its run begins.                        *)
ASSUME ImportAssumption ==
  /\ IsFiniteSet(Runs) /\ IsFiniteSet(Keys)
  /\ ProgressEvery \in Nat \ {0}
  /\ MaxFaults \in Nat
  /\ Sheets \subseteq Seq(SheetRows) \ {<<>>}
  /\ NoClaim \notin ClaimRows

VARIABLES
  claim,    \* idempotency_log: per key the sheet's hash, the owner's token, the age, the answer
  pc,       \* per run: its next call, or how it ended
  key, sheet,
  limit,    \* the age past which the claim it read may be taken over
  existing, \* the phones that validation found
  results,  \* the status of the rows written so far
  batch,    \* import_batches: one row per run
  audited,  \* runs with an audit entry
  faults,
  purged,   \* history: the keys whose claim the hourly job deleted
  saved     \* history: the phones of the rows each run has saved

request == <<key, sheet>>
importVars == <<claim, pc, request, limit, existing, results, batch, audited, faults, purged, saved>>

-----------------------------------------------------------------------------
(* The age of a claim: "young", past 10 minutes "stale", past 24 hours or  *)
(* backdated by a release "old".                                           *)
Older(age) == IF age = "old" THEN {"old"} ELSE {"stale", "old"}
Expired(c, lim) == IF c = NoClaim THEN FALSE ELSE c.age \in Older(lim)

Writing == {"write", "sync", "final", "audit", "complete"}
Running == {"insert", "takeover", "validate", "batch", "release"} \cup Writing

Total(r) == Len(sheet[r])

PhoneParses(row) == row.phone # None

(* A row on its own is valid when its phone and its fields parse; a phone  *)
(* that occurs twice in the sheet invalidates every occurrence.            *)
RowValid(row) == PhoneParses(row) /\ row.faulty = {}

Repeated(s, i) == PhoneParses(s[i]) /\ \E j \in DOMAIN s : j # i /\ s[j].phone = s[i].phone

Writable(s, i) == RowValid(s[i]) /\ ~Repeated(s, i)

(* The counts of the batch row: rows not yet written count as failed.      *)
Count(rs, status) == Cardinality({i \in DOMAIN rs : rs[i] = status})

Tally(rs, total) ==
  LET created == Count(rs, "created")
      updated == Count(rs, "updated")
  IN [created |-> created, updated |-> updated, failed |-> total - created - updated]

NothingImported ==
  /\ claim = [k \in Keys |-> NoClaim]
  /\ pc = [r \in Runs |-> "idle"]
  /\ key \in [Runs -> Keys]
  /\ sheet \in [Runs -> Sheets]
  /\ limit = [r \in Runs |-> "stale"]
  /\ existing = [r \in Runs |-> {}]
  /\ results = [r \in Runs |-> <<>>]
  /\ batch = [r \in Runs |-> NoBatch]
  /\ audited = {}
  /\ faults = 0
  /\ purged = {}
  /\ saved = [r \in Runs |-> {}]

-----------------------------------------------------------------------------
Goto(r, stage) == pc' = [pc EXCEPT ![r] = stage]

Fault == faults < MaxFaults /\ faults' = faults + 1

(* A request, or the retry of one that was refused before it claimed.      *)
Send(r) ==
  /\ pc[r] \in {"idle", "refused"}
  /\ Goto(r, "read")
  /\ UNCHANGED <<book, claim, request, limit, existing, results, batch, audited, faults, purged, saved>>

(* claimImportKey's read, and what it decides.                             *)
LimitOf(c) == IF c.answer = NoAnswer THEN "stale" ELSE "old"

Verdict(c, s) ==
  CASE c = NoClaim -> "insert"
    [] c # NoClaim /\ Expired(c, LimitOf(c)) -> "takeover"
    [] OTHER -> IF c.sheet = s /\ c.answer # NoAnswer THEN "replayed" ELSE "refused"

ReadClaim(r) ==
  /\ pc[r] = "read"
  /\ LET c == claim[key[r]] IN
       /\ Goto(r, Verdict(c, sheet[r]))
       /\ limit' = [limit EXCEPT ![r] = IF c = NoClaim THEN "stale" ELSE LimitOf(c)]
       /\ results' = [results EXCEPT ![r] =
                        IF Verdict(c, sheet[r]) = "replayed" THEN c.answer ELSE @]
  /\ UNCHANGED <<book, claim, request, existing, batch, audited, faults, purged, saved>>

OwnClaim(r) == [sheet |-> sheet[r], token |-> r, age |-> "young", answer |-> NoAnswer]

Claim(r) ==
  /\ claim' = [claim EXCEPT ![key[r]] = OwnClaim(r)]
  /\ Goto(r, "validate")

(* insertClaim: the unique (key, tenant, scope) lets one request win.      *)
InsertClaim(r) ==
  /\ pc[r] = "insert"
  /\ \/ claim[key[r]] = NoClaim /\ Claim(r)
     \/ claim[key[r]] # NoClaim /\ Goto(r, "refused") /\ UNCHANGED claim
  /\ UNCHANGED <<book, request, limit, existing, results, batch, audited, faults, purged, saved>>

(* Mutant: the UPDATE selects the row it changed and the request runs on.   *)
TakeOverRuns(r) ==
  /\ pc[r] = "takeover"
  /\ LET c == claim[key[r]] IN
       IF Expired(c, limit[r]) THEN Claim(r) ELSE Goto(r, "refused") /\ UNCHANGED claim
  /\ UNCHANGED <<book, request, limit, existing, results, batch, audited, faults, purged, saved>>

(* takeOver: one UPDATE, guarded only by the row's age.  The client library *)
(* returns the changed row only to a call that selects it, as every other  *)
(* UPDATE here does; this one does not, so the request that wrote its      *)
(* token finds no row and is refused like the one that came too late.      *)
TakeOver(r) ==
  /\ pc[r] = "takeover"
  /\ claim' = IF Expired(claim[key[r]], limit[r])
              THEN [claim EXCEPT ![key[r]] = OwnClaim(r)] ELSE claim
  /\ Goto(r, "refused")
  /\ UNCHANGED <<book, request, limit, existing, results, batch, audited, faults, purged, saved>>

(* A claiming call that fails, before or after it took effect.             *)
ClaimCallFails(r) ==
  /\ Fault
  /\ \/ pc[r] \in {"read", "insert", "takeover"} /\ UNCHANGED claim
     \/ /\ \/ pc[r] = "insert" /\ claim[key[r]] = NoClaim
           \/ pc[r] = "takeover" /\ Expired(claim[key[r]], limit[r])
        /\ claim' = [claim EXCEPT ![key[r]] = OwnClaim(r)]
  /\ Goto(r, "failed")
  /\ UNCHANGED <<book, request, limit, existing, results, batch, audited, purged, saved>>

(* The claim's clock, and the hourly purge of rows older than a day.      *)
Grows(k) ==
  /\ claim[k] # NoClaim
  /\ \E age \in Older(claim[k].age) \ {claim[k].age} : claim' = [claim EXCEPT ![k].age = age]
  /\ UNCHANGED <<book, pc, request, limit, existing, results, batch, audited, faults, purged, saved>>

Purge(k) ==
  /\ claim[k] # NoClaim /\ claim[k].age = "old"
  /\ claim' = [claim EXCEPT ![k] = NoClaim]
  /\ purged' = purged \cup {k}
  /\ UNCHANGED <<book, pc, request, limit, existing, results, batch, audited, faults, saved>>

-----------------------------------------------------------------------------
Validate(r) ==
  /\ pc[r] = "validate"
  /\ existing' = [existing EXCEPT ![r] =
                    {p \in Phones : Known(p) /\ \E i \in DOMAIN sheet[r] : sheet[r][i].phone = p}]
  /\ Goto(r, "batch")
  /\ UNCHANGED <<book, claim, request, limit, results, batch, audited, faults, purged, saved>>

InsertBatch(r) ==
  /\ pc[r] = "batch"
  /\ batch' = [batch EXCEPT ![r] = Tally(<<>>, Total(r))]
  /\ Goto(r, "write")
  /\ UNCHANGED <<book, claim, request, limit, existing, results, audited, faults, purged, saved>>

(* Until the first row is written an error gives the key back.             *)
EarlyError(r) ==
  /\ Fault
  /\ \/ pc[r] = "validate" /\ UNCHANGED batch
     \/ pc[r] = "batch" /\ \/ UNCHANGED batch
                           \/ batch' = [batch EXCEPT ![r] = Tally(<<>>, Total(r))]
  /\ Goto(r, "release")
  /\ UNCHANGED <<book, claim, request, limit, existing, results, audited, purged, saved>>

Owns(r) == claim[key[r]] # NoClaim /\ claim[key[r]].token = r

Release(r) ==
  /\ pc[r] = "release"
  /\ claim' = IF Owns(r) THEN [claim EXCEPT ![key[r]].age = "old"] ELSE claim
  /\ Goto(r, "failed")
  /\ UNCHANGED <<book, request, limit, existing, results, batch, audited, faults, purged, saved>>

-----------------------------------------------------------------------------
(* What an import sets on a stored customer: the fields its row fills.     *)
Filled(stored, row) == IF row.city = None THEN stored ELSE [stored EXCEPT !.city = row.city]

(* The call after row number n: a refresh of the counts when one is due.   *)
AfterRow(r, n) ==
  IF n = Total(r) THEN "final" ELSE IF n % ProgressEvery = 0 THEN "sync" ELSE "write"

Record(r, status) ==
  /\ results' = [results EXCEPT ![r] = Append(@, status)]
  /\ Goto(r, AfterRow(r, Len(results[r]) + 1))

Save(r, p) == saved' = [saved EXCEPT ![r] = @ \cup {p}]

(* Mutant: an insert that meets a stored phone is counted as an update.     *)
WriteRowTaken(r) ==
  /\ pc[r] = "write"
  /\ LET i == Len(results[r]) + 1
         row == sheet[r][i]
     IN \/ ~Writable(sheet[r], i) /\ Record(r, "failed") /\ UNCHANGED <<book, saved>>
        \/ /\ Writable(sheet[r], i) /\ row.phone \in existing[r]
           /\ book' = [book EXCEPT ![row.phone] = Filled(@, row)]
           /\ Record(r, "updated") /\ Save(r, row.phone)
        \/ /\ Writable(sheet[r], i) /\ row.phone \notin existing[r]
           /\ \/ /\ Insert(row.phone, "bulk_import", row.city)
                 /\ Record(r, "created") /\ Save(r, row.phone)
              \/ /\ Known(row.phone)
                 /\ Record(r, "updated") /\ UNCHANGED <<book, saved>>
  /\ UNCHANGED <<claim, request, limit, existing, batch, audited, faults, purged>>

(* writeImportRow: validation's snapshot decides between update and        *)
(* insert; a phone that somebody inserted since fails the row.             *)
WriteRow(r) ==
  /\ pc[r] = "write"
  /\ LET i == Len(results[r]) + 1
         row == sheet[r][i]
     IN \/ /\ ~Writable(sheet[r], i)
           /\ Record(r, "failed") /\ UNCHANGED <<book, saved>>
        \/ /\ Writable(sheet[r], i) /\ row.phone \in existing[r]
           /\ book' = [book EXCEPT ![row.phone] = Filled(@, row)]
           /\ Record(r, "updated") /\ Save(r, row.phone)
        \/ /\ Writable(sheet[r], i) /\ row.phone \notin existing[r]
           /\ \/ /\ Insert(row.phone, "bulk_import", row.city)
                 /\ Record(r, "created") /\ Save(r, row.phone)
              \/ /\ Known(row.phone)
                 /\ Record(r, "failed") /\ UNCHANGED <<book, saved>>
  /\ UNCHANGED <<claim, request, limit, existing, batch, audited, faults, purged>>

(* The write throws, having committed or not: the row is reported failed.  *)
WriteRowThrows(r) ==
  /\ pc[r] = "write"
  /\ Fault
  /\ LET i == Len(results[r]) + 1
         row == sheet[r][i]
     IN /\ Writable(sheet[r], i)
        /\ \/ UNCHANGED <<book, saved>>
           \/ /\ row.phone \in existing[r]
              /\ book' = [book EXCEPT ![row.phone] = Filled(@, row)]
              /\ Save(r, row.phone)
           \/ /\ row.phone \notin existing[r]
              /\ Insert(row.phone, "bulk_import", row.city)
              /\ Save(r, row.phone)
        /\ Record(r, "failed")
  /\ UNCHANGED <<claim, request, limit, existing, batch, audited, purged>>

WriteCounts(r) == batch' = [batch EXCEPT ![r] = Tally(results[r], Total(r))]

(* A refresh on the way may fail; the last one must land.                  *)
SyncBatch(r) ==
  /\ pc[r] = "sync"
  /\ \/ WriteCounts(r) /\ UNCHANGED faults
     \/ Fault /\ UNCHANGED batch
  /\ Goto(r, "write")
  /\ UNCHANGED <<book, claim, request, limit, existing, results, audited, purged, saved>>

FinalSync(r) ==
  /\ pc[r] = "final"
  /\ \/ WriteCounts(r) /\ Goto(r, "audit") /\ UNCHANGED faults
     \/ Fault /\ (WriteCounts(r) \/ UNCHANGED batch) /\ Goto(r, "failed")
  /\ UNCHANGED <<book, claim, request, limit, existing, results, audited, purged, saved>>

WriteAudit(r) ==
  /\ pc[r] = "audit"
  /\ \/ audited' = audited \cup {r} /\ Goto(r, "complete") /\ UNCHANGED faults
     \/ Fault /\ audited' \in {audited, audited \cup {r}} /\ Goto(r, "failed")
  /\ UNCHANGED <<book, claim, request, limit, existing, results, batch, purged, saved>>

(* completeImportKey never throws: a run whose claim was taken over        *)
(* matches no row, a failure leaves the claim unfinished.                  *)
StoreAnswer(r) ==
  claim' = IF Owns(r) THEN [claim EXCEPT ![key[r]].answer = results[r]] ELSE claim

Complete(r) ==
  /\ pc[r] = "complete"
  /\ \/ StoreAnswer(r) /\ UNCHANGED faults
     \/ Fault /\ UNCHANGED claim
  /\ Goto(r, "answered")
  /\ UNCHANGED <<book, request, limit, existing, results, batch, audited, purged, saved>>

Crash(r) ==
  /\ pc[r] \in Running
  /\ Fault
  /\ Goto(r, "dead")
  /\ UNCHANGED <<book, claim, request, limit, existing, results, batch, audited, purged, saved>>

-----------------------------------------------------------------------------
RunStep(r) ==
  \/ ReadClaim(r) \/ InsertClaim(r) \/ TakeOver(r)
  \/ Validate(r) \/ InsertBatch(r) \/ Release(r)
  \/ WriteRow(r) \/ SyncBatch(r) \/ FinalSync(r) \/ WriteAudit(r) \/ Complete(r)

RunFails(r) == ClaimCallFails(r) \/ EarlyError(r) \/ WriteRowThrows(r) \/ Crash(r)

ImportNext ==
  \/ \E r \in Runs : Send(r) \/ RunStep(r) \/ RunFails(r)
  \/ \E k \in Keys : Grows(k) \/ Purge(k)

(* A company's imports beside its owner's edits.                           *)
ImportInit ==
  /\ CustomersType
  /\ NothingImported

ImportSpec ==
  ImportInit /\ [][ImportNext \/ (OwnerEdits /\ UNCHANGED importVars)]_<<book, importVars>>

-----------------------------------------------------------------------------
(* PROPERTIES                                                              *)
(* The comment of claimImportKey: two requests with one key never import   *)
(* together.  They do only when the hourly job deleted the claim of a run  *)
(* that had lasted a day (or had released it).                             *)
Holding(r) == pc[r] \in Writing \cup {"validate", "batch"}

RunsExclude ==
  \A r, s \in Runs :
    r # s /\ key[r] = key[s] /\ Holding(r) /\ Holding(s) => key[r] \in purged

(* syncBatch, tally, writeAudit: whatever failed on the way, a batch row's *)
(* three counts add up to its rows and never claim a customer that was not *)
(* saved; what was saved but reported failed is one per failed call; an    *)
(* answered run has its final counts in its batch and an audit entry.      *)
RunAccounted ==
  \A r \in Runs :
    LET done == Tally(results[r], Total(r))
        kept == Cardinality(saved[r])
    IN /\ batch[r] # NoBatch =>
            /\ batch[r].created + batch[r].updated + batch[r].failed = Total(r)
            /\ batch[r].created + batch[r].updated <= kept
       /\ pc[r] \in Writing => kept - (done.created + done.updated) \in 0..faults
       /\ pc[r] = "answered" => batch[r] = done /\ r \in audited

(* import-commit.replay.ts:66, "expired / abandoned -> taken over and      *)
(* claimed", and the test import-commit.claim.qa.spec.ts:63, "is taken     *)
(* over and the import runs again": nobody is refused while the fresh      *)
(* claim on the key is its own.                                            *)
TakenOverClaimRuns ==
  \A k \in Keys :
    claim[k] # NoClaim /\ claim[k].answer = NoAnswer => pc[claim[k].token] # "refused"

=============================================================================
