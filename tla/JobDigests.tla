------------------------------ MODULE JobDigests ------------------------------
(***************************************************************************)
(* What is told of many jobs at once: the technicians' job report, the     *)
(* customers' cards with their job counts, and the people named in a       *)
(* profile's jobs.  Each is put together from several queries while the    *)
(* jobs change, proofs of work are attached and technicians leave.  The    *)
(* report counts its jobs once and reads them in batches, each a query of  *)
(* its own from an offset; the other reads take what one answer of the     *)
(* database holds.  A planned time passes with its day.                    *)
(***************************************************************************)
EXTENDS Feeds, Sums

CONSTANTS Customers, CustomerOf, \* a job's customer never changes
          Stranger,              \* a customer of another company
          BatchSize, ProofBatch, \* PAGE_SIZE of the report's reads
          MaxJobs,               \* REPORT_MAX_JOBS
          AnswerLimit,           \* rows in one answer of the database
          MaxProofs              \* photos and signatures, per job

ASSUME DigestsAssumption ==
  /\ CustomerOf \in [Ids -> Customers] /\ Stranger \notin Customers
  /\ {BatchSize, ProofBatch, AnswerLimit} \subseteq Nat \ {0}
  /\ MaxJobs \in Nat /\ MaxProofs \in Nat

VARIABLES
  standing, \* per technician: member, removed or disabled
  proofs,   \* per job: photos and signatures
  digest,   \* one call under way
  shifts    \* history: changes of jobs since its first read

digestVars == <<standing, proofs, digest, shifts>>

NoDigest(kind, asked, until) ==
  [kind |-> kind, state |-> "idle", asked |-> asked, until |-> until, count |-> 0,
   found |-> <<>>,     \* the jobs read: id, row, and history: the proofs there were
   stays |-> {},       \* history: jobs at one place in the range since the first read
   ties |-> FALSE,     \* history: two of them planned at the same time
   named |-> {}, proofs |-> [i \in Ids |-> 0], vague |-> FALSE,
   cards |-> [c \in Customers |-> [jobs |-> 0, last |-> 0]],
   customer |-> Stranger, history |-> {}]

Goes(state) == digest' = [digest EXCEPT !.state = state]

-----------------------------------------------------------------------------
(* fetchJobsInRange: from the first day to the last one asked for, ordered *)
(* by the planned start alone, so equal starts come in any order.  Jobs of *)
(* every technician are read, whoever was selected.                        *)
Ranged == {i \in Stored : rows[i].start <= digest.until}

Tied == \E i, j \in Ranged : i # j /\ rows[i].start = rows[j].start

ByStart(S) ==
  {s \in [1..Cardinality(S) -> S] :
     \A m, n \in DOMAIN s : m < n => s[m] # s[n] /\ rows[s[m]].start <= rows[s[n]].start}

Taken(ids) == [n \in DOMAIN ids |-> [id |-> ids[n], row |-> rows[ids[n]], had |-> proofs[ids[n]]]]

Batch(s, from) == Taken(SubSeq(s, from + 1, Min({from + BatchSize, Len(s)})))

FetchJobs ==
  /\ digest.kind = "report" /\ digest.state = "idle"
  /\ \/ Cardinality(Ranged) > MaxJobs /\ Goes("too_large")
     \/ /\ Cardinality(Ranged) <= MaxJobs
        /\ \E s \in ByStart(Ranged) :
             digest' = [digest EXCEPT !.state = "paging", !.count = Len(s),
                          !.found = Batch(s, 0), !.stays = Ranged, !.ties = Tied]
  /\ UNCHANGED <<feedVars, standing, proofs, shifts>>

(* The next batch starts after as many rows as were read; an empty one     *)
(* ends the reading early.                                                 *)
FetchBatch ==
  /\ digest.kind = "report" /\ digest.state = "paging"
  /\ Len(digest.found) < digest.count
  /\ \E s \in ByStart(Ranged) :
       LET batch == Batch(s, Len(digest.found))
       IN digest' = [digest EXCEPT !.found = @ \o batch, !.ties = @ \/ Tied,
                       !.state = IF batch = <<>> THEN "jobs" ELSE @]
  /\ UNCHANGED <<feedVars, standing, proofs, shifts>>

LastBatch ==
  /\ digest.kind = "report" /\ digest.state = "paging"
  /\ Len(digest.found) >= digest.count
  /\ Goes("jobs")
  /\ UNCHANGED <<feedVars, standing, proofs, shifts>>

IdsOf(S) == {i \in Ids : \E f \in S : f.id = i}
FoundJobs == IdsOf(ToSet(digest.found))
Performers == {f.row.technician : f \in ToSet(digest.found)}

(* listCompanyMembers with the removed: the disabled are left out of every *)
(* reading.                                                                *)
Named(people) == {t \in people : standing[t] # "disabled"}

(* fetchTechnicianNames: those selected and those of the jobs read.        *)
FetchNames ==
  /\ digest.kind = "report" /\ digest.state \in {"jobs", "proofs"}
  /\ digest' = [digest EXCEPT !.named = Named(digest.asked \cup Performers),
                  !.state = IF @ = "jobs" THEN "names" ELSE "built"]
  /\ UNCHANGED <<feedVars, standing, proofs, shifts>>

(* fetchAttachmentCounts: batches without an order.  One that is not full  *)
(* is exact; from two on, rows may come twice and others not at all.       *)
ProofsOf(S) == SumOf([i \in S |-> proofs[i]])

FetchProofs ==
  LET all == ProofsOf(FoundJobs)
      exact == [i \in Ids |-> IF i \in FoundJobs THEN proofs[i] ELSE 0]
      read == IF all < ProofBatch THEN {exact}
              ELSE {c \in [Ids -> 0..all] :
                      SumOf(c) = all /\ \A i \in Ids : exact[i] = 0 => c[i] = 0}
  IN /\ digest.kind = "report" /\ digest.state \in {"jobs", "names"}
     /\ \E c \in read :
          digest' = [digest EXCEPT !.proofs = c, !.vague = all >= ProofBatch,
                       !.state = IF @ = "jobs" THEN "proofs" ELSE "built"]
     /\ UNCHANGED <<feedVars, standing, proofs, shifts>>

(* The report's sections and its overall line: the metrics of some of the  *)
(* rows read, counted over places in the list, since a job may be twice.   *)
Sections == digest.asked \cup Performers

SectionOf(t) == {n \in DOMAIN digest.found : digest.found[n].row.technician = t}

Metrics(S) ==
  LET of(statuses) == {n \in S : digest.found[n].row.status \in statuses}
  IN [total |-> Cardinality(S),
      completed |-> Cardinality(of({"completed"})),
      cancelled |-> Cardinality(of({"cancelled"})),
      open |-> Cardinality(of(Open)),
      customers |-> Cardinality({CustomerOf[digest.found[n].id] : n \in S}),
      proofs |-> SumOf([n \in S |-> digest.proofs[digest.found[n].id]])]

(* computeFlags: what needs the owner's attention, as of now.              *)
Flag(f) ==
  CASE f.row.status \in Open /\ f.row.start < today -> "late"
    [] f.row.status = "completed" /\ digest.proofs[f.id] = 0 -> "no_proof"
    [] f.row.status = "cancelled" -> "cancelled"
    [] OTHER -> "none"

-----------------------------------------------------------------------------
(* listCustomers and its getJobStats: one answer with the jobs of all      *)
(* customers of the page, in no order and cut at the database's limit.     *)
ReadStats ==
  /\ digest.kind = "card" /\ digest.state = "idle"
  /\ \E S \in SUBSET Stored :
       /\ Cardinality(S) = Min({Cardinality(Stored), AnswerLimit})
       /\ digest' = [digest EXCEPT !.state = "listed", !.count = Cardinality(Stored),
            !.cards = [c \in Customers |->
              LET own == {i \in S : CustomerOf[i] = c}
              IN [jobs |-> Cardinality(own),
                  last |-> IF own = {} THEN 0 ELSE Max({rows[i].start : i \in own})]]]
  /\ UNCHANGED <<feedVars, standing, proofs, shifts>>

(* getCustomerDetail: the customer first, another company's is not found;  *)
(* then the history, a query of its own.                                   *)
FindCustomer(c) ==
  /\ digest.kind = "card" /\ digest.state = "listed"
  /\ digest' = [digest EXCEPT !.customer = c,
                  !.state = IF c = Stranger THEN "not_found" ELSE "found"]
  /\ UNCHANGED <<feedVars, standing, proofs, shifts>>

ReadHistory ==
  /\ digest.kind = "card" /\ digest.state = "found"
  /\ digest' = [digest EXCEPT !.state = "shown",
       !.history = {[id |-> i, start |-> rows[i].start] :
                      i \in {j \in Stored : CustomerOf[j] = digest.customer}}]
  /\ UNCHANGED <<feedVars, standing, proofs, shifts>>

(* listProfileJobs and its embeds: a page of the jobs, then the people by  *)
(* id; someone not found leaves the job with an id and no name.            *)
ReadProfileJobs ==
  /\ digest.kind = "profile" /\ digest.state = "idle"
  /\ \E s \in ByStart(Stored) : digest' = [digest EXCEPT !.state = "jobs", !.found = Taken(s)]
  /\ UNCHANGED <<feedVars, standing, proofs, shifts>>

EmbedPeople ==
  /\ digest.kind = "profile" /\ digest.state = "jobs"
  /\ digest' = [digest EXCEPT !.state = "built", !.named = Named(Performers)]
  /\ UNCHANGED <<feedVars, standing, proofs, shifts>>

DigestStep ==
  \/ FetchJobs \/ FetchBatch \/ LastBatch \/ FetchNames \/ FetchProofs
  \/ ReadStats \/ ReadHistory
  \/ \E c \in Customers \cup {Stranger} : FindCustomer(c)
  \/ ReadProfileJobs \/ EmbedPeople

-----------------------------------------------------------------------------
(* What happens meanwhile: a job is added, edited or moved on ...          *)
JobsChange ==
  /\ WriteStep
  /\ shifts' = IF rows' = rows \/ digest.state = "idle" THEN shifts ELSE shifts + 1
  /\ digest' = [digest EXCEPT !.stays = {i \in @ : rows'[i].start = rows[i].start}]
  /\ UNCHANGED <<standing, proofs>>

(* ... a photo or a signature is confirmed: none is ever taken off ...     *)
AddProof(i) ==
  /\ i \in Stored /\ rows[i].status = "in_progress" /\ proofs[i] < MaxProofs
  /\ proofs' = [proofs EXCEPT ![i] = @ + 1]
  /\ UNCHANGED <<feedVars, standing, digest, shifts>>

(* ... a technician is removed or disabled.                                *)
Leave(t) ==
  /\ standing[t] = "member"
  /\ \E s \in {"removed", "disabled"} : standing' = [standing EXCEPT ![t] = s]
  /\ UNCHANGED <<feedVars, proofs, digest, shifts>>

DigestNext ==
  \/ DigestStep
  \/ JobsChange
  \/ \E i \in Ids : AddProof(i)
  \/ \E t \in Technicians : Leave(t)

QueriesInit ==
  /\ FeedsInit
  /\ standing \in [Technicians -> {"member", "removed", "disabled"}]
  /\ proofs \in [Ids -> 0..MaxProofs]
  /\ \E asked \in SUBSET Technicians, until \in Int :
       digest \in {NoDigest("report", asked, until), NoDigest("card", {}, until),
                  NoDigest("profile", {}, until)}
  /\ shifts = 0

QueriesNext ==
  \/ (PageStep \/ ProfileStep \/ DetailStep) /\ UNCHANGED digestVars
  \/ DigestNext

QueriesSpec == QueriesInit /\ [][QueriesNext]_<<feedVars, digestVars>>

-----------------------------------------------------------------------------
(* A job that stays in the range is in the report once, but for one per    *)
(* change made while it is read: each may push one job over the edge of a  *)
(* batch and another off the end.  Jobs planned at the same time are not   *)
(* ordered, and with two or more batches any of them may be told twice or  *)
(* not at all.  None was planned outside the range when it was read.       *)
Told(i) == Cardinality({n \in DOMAIN digest.found : digest.found[n].id = i})

Read == digest.state \in {"jobs", "names", "proofs", "built"}

ReportReadsOnce ==
  digest.kind = "report" /\ Read =>
    LET missed == {i \in digest.stays : Told(i) = 0}
        repeated == {i \in digest.stays : Told(i) > 1}
    IN /\ \/ digest.ties /\ digest.count > BatchSize
          \/ Cardinality(missed) <= shifts /\ Cardinality(repeated) <= shifts
       /\ \A f \in ToSet(digest.found) : f.row.start <= digest.until

(* The sections add up to the overall line, whatever was selected and      *)
(* whoever got a job in between.                                           *)
SectionsAddUp ==
  digest.kind = "report" /\ digest.state = "built" =>
    LET all == Metrics(DOMAIN digest.found)
        part(f) == SumOf([t \in Sections |-> Metrics(SectionOf(t))[f]])
    IN /\ \A f \in {"total", "completed", "cancelled", "open", "proofs"} : part(f) = all[f]
       /\ all.customers <= part("customers")
       /\ all.completed + all.cancelled + all.open = all.total

(* A job the report calls done without proof had none when it was read,    *)
(* unless the attachments of the report fill a batch.                      *)
NoProofFlagHolds ==
  digest.kind = "report" /\ digest.state = "built" /\ ~digest.vague =>
    \A f \in ToSet(digest.found) : Flag(f) = "no_proof" => f.had = 0

(* A section or a job without a name is one of somebody disabled, never of *)
(* somebody removed from the company.                                      *)
NamelessOnlyDisabled ==
  digest.state = "built" =>
    \A t \in (Performers \cup digest.asked) \ digest.named : standing[t] = "disabled"

(* A customer's card never counts more jobs than the history opened next   *)
(* shows.  Its count and its last date are those of the history but for    *)
(* the changes in between, and a page with more jobs than one answer of    *)
(* the database holds may tell less.                                       *)
CardsHold ==
  digest.kind = "card" /\ digest.state = "shown" =>
    LET card == digest.cards[digest.customer]
        last == Max({j.start : j \in digest.history} \cup {0})
    IN /\ card.jobs <= Cardinality(digest.history)
       /\ card.last <= last \/ shifts > 0
       /\ digest.count <= AnswerLimit /\ shifts = 0 =>
            card = [jobs |-> Cardinality(digest.history), last |-> last]

DigestsHold ==
  /\ ReportReadsOnce
  /\ SectionsAddUp
  /\ NoProofFlagHolds
  /\ NamelessOnlyDisabled
  /\ CardsHold

(* All that is read in several queries fits together.                      *)
QueriesFitTogether == ReadsFitTogether /\ DigestsHold
=============================================================================
