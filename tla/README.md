# A verification project for the Jobzo backend (fenzit-be)

TLA+ models of the backend's own logic, TLC configurations that check them on small instances, and
theorems that TLAPS proves for every instance. Paths are relative to the repository root:
`src/` is the NestJS server, `supabase/migrations/` the PostgreSQL schema and its functions,
`cloudflare-worker/` the storage-event relay. In `PROJECT.json` the same paths start with one more
`src/`.

Contents: [1 the system](#1-the-system) · [2 what is hard](#2-what-is-hard-in-it) ·
[3 modules](#3-modules) · [4 runs](#4-runs) · [5 fairness](#5-fairness) · [6 proofs](#6-proofs) ·
[7 disagreements found](#7-disagreements-between-the-code-and-what-it-says) ·
[8 abstractions](#8-abstractions-and-bounds) · [9 not modelled](#9-not-modelled) · [10 plan](#10-plan)

## 1 The system

One NestJS process (two while a deploy overlaps) serves the owners' and technicians' apps. The state
is in PostgreSQL (Supabase) and in Cloudflare R2; the process itself keeps only a cache: the sessions
of codes sent to phones, and the counters that slow callers down. Handlers come in two styles, and
the models follow them:

* **one call, one statement** - a supabase-js call each of which commits on its own: reports, jobs
  before their RPC, customers, the import, lists, photo reports, the login. Between two awaits
  anybody may act.
* **one transaction** - a plpgsql function or `PgService.withTransaction`: attendance under an
  advisory lock per employee or company, memberships under locks per phone number and company, the
  attachment confirm under row locks, the job's numbering. READ COMMITTED: each statement sees what
  had committed before it, and `now()` is fixed at BEGIN, before any lock is waited for.

| Component | State | Operations | Talks to |
|---|---|---|---|
| **Report queue** `src/reports/engine`, `reports.service.ts` | `report_requests` (status, lease, attempts, r2_key), R2 objects | create, retry; the worker's tick: poll, claim, recover, render, upload, stamp, re-read, notify | trigger that caps the company's in-flight rows; notifications |
| **Jobs** `src/jobs`, `advance_workflow_step`, `update_job_with_log`, `create_job_with_log` | `jobs` row, `activity_logs`, the yearly counter | create; read + advance, cancel, read + reassign, bell | customers; notifications |
| **Attachments** `attachments.service.ts`, `confirm_attachment`, the Worker's queue | `attachment_uploads`, `attachments`, R2 | request, PUT, expire, cleanup, confirm by technician or webhook | advances the job to its photo step |
| **Photo reports** `attachment-reports.service.ts`, `admin-reports.service.ts` | `attachment_reports`, `hidden_at` of a photo, the job's stamp | report; dismiss, hide | the job feed of the technician's device |
| **Customers, import** `src/customers` | customers, import keys, batches | create, edit, find or create by phone; claim, validate, write rows, answer, take over | job creation |
| **Attendance** `src/attendance`, `src/common/day-status` | enrolments, assignments, offices and their rules, weekly offs, day records, overrides, leave days, holidays, attempts | the owner's and the employee's calls; the setup wizard | coverage guard at COMMIT; notices |
| **Attendance screens** `day-status`, `dashboard*.ts`, `monthly.ts`, `leave-read.service.ts` | none of their own | calendar cells, tiles, strips, sums, report; leave lists and previews | read the rows above |
| **Lists, counts, digests** `users`, `jobs`, `customers`, `src/reports/registry` | a caller's cursor | keyset pages, five counts, job detail, job report in batches, customer cards | read jobs and members |
| **Delta sync** `src/sync` | the device's cursor | what changed since | jobs |
| **Push** `src/push` | `notifications.pushed_at`, `device_tokens` | sweep: claim, look up, send, retry, delete dead tokens; register, unregister | FCM |
| **Idempotency** `idempotency.interceptor.ts` | `idempotency_log` | look up, run, store; hourly deletion | every POST that carries a key |
| **Memberships** `src/members`, migrations `20261020000001`-`09` | `memberships`, `users.platform_admin`, `users.disabled`, `audit_log` | invite, change role, remove, disable, enable; company setup; platform-admin flag | the guard of every request |
| **Signing in** `src/auth`, `src/account-deletion` | sessions and counters in the process, users, e-mails, deletion requests | send a code, check it, find or create the user, link an e-mail; ask for deletion, review | MSG91; memberships |
| **Places** `src/places` | counters in the process | four rate-limited look-ups | Google |
| **Purge and restore** `scripts/super` | the whole database, a backup file | check, back up, remove logins, delete; restore | beside everything else |
| **The rest** | single rows | reminders, company, skills, contact requests, app config, storage, telemetry | - |

What makes each component correct:

* *Report queue*: a ready row has its file and stays; nobody takes a row over while its lease runs;
  a notice is true; the cap holds across creates, retries, claims and recoveries; every accepted
  request settles after at most `MaxAttempts` renderings.
* *Jobs*: the log, the row and the bells tell one story, whichever stale reads race; a job only
  walks its stamped template; a cancelled job was never started; job numbers have no gap and a race
  for one phone number ends with one customer.
* *Attachments and photos*: a photo confirmed before the photo step advances the job exactly once;
  every replaced signature has its own conflict entry, which names it unless another confirm was
  overtaken (7); every storage event settles; a hidden photo leaves the reviewers' queue and, with
  the next sync, the technician's device.
* *Import*: two runs under one key never write at once; a batch accounts for every row saved.
* *Attendance*: the rows the calls leave never lock the owner out of enabling or disabling; a
  tracked day has a live office with a rule; the plan of weekly offs is what the owner set and every
  change is announced; two leave requests never hold one day; leave and work never both count; the
  past changes only by the calls meant to change it; the attempts' limit, block and alerts hold; every
  reader of a day and every screen made of days tells the same.
* *Reads*: a row that does not change is on exactly one page; what several queries tell differs from
  one moment's data by the changes made meanwhile at most; a sync misses only what was open when it
  took its time.
* *Push, repeats, signing in, limits*: a push goes to its recipient's phone, and again only after a
  failed call; a repeated request runs again only while its answer is unknown; a session lets in
  once and after a bounded number of wrong answers not at all; a counter falls short only by
  overlapping calls, the places' not at all.
* *Memberships*: a company keeps an admin who can sign in; a person has one live membership; a call
  commits only for a caller who may still make it; a removal is undone only by a new invitation.
* *Purge*: nothing outside the plan is lost, what is lost without a backup is what a foreign key
  cascades to, and rows that arrive meanwhile stop it.

## 2 What is hard in it

`PROJECT.json` lists each hazard at its line. By kind:

* *Stale reads.* A handler reads, awaits, then calls an RPC that checks less than the handler did
  (jobs), a transaction checks before a lock wait and must check again after it (memberships), a
  reviewer hides a photo of a report another reviewer has dismissed since.
* *Reads in several statements.* A page after a page, five counts, a report in batches, a summary of
  six tables: rows move, leave and arrive in between.
* *Locks in two orders.* Two photo confirms upgrade a shared lock on the jobs row. A disable locks
  the person before the company, every member change the company before the person.
* *A clock that stands still.* A transaction that began before midnight and waited for a lock acts
  for a day that is over; a job is stamped with the start of the transaction that commits later.
* *Crashes and failed calls between awaits.* A worker dies between claim, upload, stamp and notice;
  an import between any two rows; a push instance between claim and send; a purge between removing
  logins and deleting rows.
* *Redelivery and retries.* The storage events repeat until a 2xx; a request is repeated while its
  answer is not stored yet; FCM is called again after an error that may have delivered.
* *Counters read and written apart.* Limits kept in a cache: two calls read the same count.
* *Long legal sequences.* Enables, scheduled disables, reassignments, archives, queued and moved
  weekly offs rewrite dated rows; partial cancels, revokes and midnights shrink a leave request.

## 3 Modules

| Module | Models | State and actions |
|---|---|---|
| `ReportLifecycle` | what an owner is promised of a report request | `Ask`, `Store`, `Deliver`, `Refuse` |
| `ReportQueue` | table, owner's calls, workers | one action per database call or upload of a worker: `PollQueued`, `PollStranded`, `ClaimQueued`, `RecoverExpired`, `Upload`, `StampReady`, `MarkFailed`, `RereadTerminal`, `Notify`, each with its missed or failing form; `LeaseExpires`; `Crash` |
| `JobLifecycle` | what a job promises: it walks its template, is called off unstarted, is handed over unstarted | `Walk`, `CallOff`, `HandOver` |
| `JobWorkflow` | one job | the read and the RPC of a call are two actions (`ReadJob` / `AdvanceStep`, `ReadTechnician` / `Reassign` / `RingAssigned`) |
| `JobAttachments` | `EXTENDS JobWorkflow`: uploads, events, `confirm_attachment` statement by statement | `LockUpload`, `InsertPhoto`, `CommitAdvancing`, `CommitPlain`, `ReplaceSignature`, `NoSignatureYet`, `InsertSignature`, `DeadlockVictim`; the SELECT of the signature row and the UPDATE are two steps, and the entry names what the SELECT saw; a photo INSERT holds the jobs row FOR KEY SHARE, so no job RPC runs until it commits |
| `PhotoModeration` | reports of a job's photos, two reviewers, one device | each statement of a report and of a resolution; the job's stamp and the feed |
| `Customers` | the rows of one company by phone number | operators of `CustomerImport` and `JobCreation` |
| `CustomerImport` | `EXTENDS Customers`: runs of one import | claim, take-over, one action per row and refresh, audit, answer, release; `Crash`, failed calls, the nightly deletion |
| `JobCreation` | `EXTENDS Customers`: calls that create a job | customer by id or phone, insert, second look-up, numbered insert, lost replies and retries |
| `Enrolments` | one employee's dated rows, the plan that rewrites them (`Clip`), the coverage guard (`Covered`) | operators that the calls of `AttendanceDays` and `Offices` are composed of |
| `AttendanceDays` | `EXTENDS Enrolments`: a day's record, correction, leave and holiday, and what the ladder credits (`Credit`) | one action per call; each takes the clock of its BEGIN from `Clocks` |
| `LeaveReads` | `EXTENDS AttendanceDays`: derived status, previews | operators over its state, no actions |
| `Offices` | `EXTENDS Enrolments`: offices, pins, rules, one member's place | create, edit, address, timings, archive; the member's calls |
| `WeeklyOffs` | `EXTENDS Enrolments`: the company's days off and one override | `SetDefault`, `SetOverride`, `RemoveOverride` |
| `DayContext` | `EXTENDS Offices, WeeklyOffs`: the readers of one day's facts; setup | day context, grid and span reads as operators; the summary statement by statement; the wizard's calls |
| `CheckInAttempts` | two employees' attempts | one action per call, with its replay, its count, its block and its alert |
| `DayViews` | one employee's days as the screens show them | `DayPasses`, `CorrectDay`, `RemoveCorrection`, `EndTracking`, `ArchivePlace`; the ladder with minutes, lateness and markers |
| `Feeds` | the paged lists, the profile's counts, a job's detail, over one table | `FirstPage`, `NextPage`, `Count`, `FetchJob`, `FetchLog`; `Add`, `Edit`, `MoveOn`, `Midnight` |
| `JobDigests` | `EXTENDS Feeds`: job report, customer cards, people of a profile | `FetchJobs`, `FetchBatch`, `LastBatch`, `FetchNames`, `FetchProofs`, `ReadStats`, `ReadHistory`, `EmbedPeople`; `AddProof`, `Leave` |
| `DeltaSync` | one device, concurrent writers | `Begin`, `Lock`, `Commit`, `RollBackTx`; `StartSync`, `Answer`, `SyncFails` |
| `PushSweep` | instances, tokens, FCM | `Claim`, `LookUpTokens`, `Send`, `TransportFails`, `DeleteTokens`, `Restart`; `Register`, `Unregister` |
| `IdempotentRequests` | attempts of one request | `LookUpAnswer`, `Handle`, `StoreAnswer`, `StoreLost`, `Prune` |
| `SignIn` | sessions of codes, users, deletion requests, e-mails | each await of sending, checking, finding or inserting the user, ending the session; filing and review |
| `RateLimits` | one cache entry per counter | the queue of a places key and its provider's answers; the unqueued read and write of the others |
| `AccountPurge` | rows with their foreign keys, the tool, the application | refusals, plans, backup table by table, logins, the deleting transaction, restore |
| `Memberships` | rows, flags, and the calls as transactions | `pc` is the lock a call waits for; `Awaits` says for whom; a commit writes. `LoginReads` and `LoginActivates` are the login's two statements |
| `Sums` | - | `SumOf`, for `JobDigests` and `DayViews` |
| `MC...` | instances for TLC | constants, symmetry, initial scenarios |
| `...Proofs` | theorems and their lemmas | - |

A definition whose comment starts with "Mutant" is not used by any specification: it is the
definition after it with a plausible bug, and the property named beside it in `PROJECT.json` must
fail when it takes that definition's place.

Correspondence worth knowing: `ReportQueue` keeps `holder`, `runs` and `put` as history variables
(which worker claimed last, renderings since queueing, whether this attempt's upload returned).
`Memberships` keeps `unseen`, the people disabled by a call that found no company to check;
`AttendanceDays` keeps `gated` and `filedLate`; `Feeds` keeps `steady`, the rows that did not change
while they were listed; `DeltaSync` keeps `cut`; `SignIn` and `RateLimits` keep what was answered and
counted. No guard of an operation reads a history variable.

**Several components in one run.** `MCDelivery`, `MCCalendar`, `MCReads`, `MCCustomerBook` and
`MCJobs` hold a `scene` that is chosen at the start and never changes; in each scene only the actions
of some modules run, and the others' variables keep their initial values. A scene answers the
question of its component as a run of its own would, and the scenes' state spaces add up instead of
multiplying. Where components do interact they share a scene: attachments with the job, enrolments
with offices, the readers of a day with the calls that change it, both writers of customers with the
book.

**Conjoined properties.** A property checked by a run is often a conjunction of named parts, each
with its comment in the module: `LogsTellTheJob`, `UploadsAccounted`, `OfficesServe`,
`PlanKeptAndAnnounced`, `AttemptsPoliced`, `ReadersAgree`, `CreationsAccounted`,
`QueriesFitTogether` (`ReadsFitTogether` and `DigestsHold`), `ViewsFollowCells`, `PushesExplained`,
`SignInsAccounted`, `LimitsHold`, `HidesAccounted`, `PurgeAccounted`, `LeaveToldHolds`.

## 4 Runs

| Run | Instance | Distinct states | What it shows |
|---|---|---|---|
| `report_two_workers` | 2 reports, 1 company, 2 workers, cap 1, 1 attempt, 1 retry, 1 fault | 1,536,734 | leases, stamps and notices of two overlapping instances; the queue implements `ReportLifecycle` |
| `jobs` | *calls*: 2 admins (one may be the technician), 2 employees, 2 reassignments, 3-step template that starts without changing the status; *uploads*: 2 photos, 2 confirms, cap 1, 1 fault | 114,047 | log, bells and row agree; the job implements `JobLifecycle`; every storage event settles, deadlock victims included |
| `attachment_confirms` | 3 photos or 3 signatures, 2 concurrent confirms, cap 1, 1 fault | 457,456 | auto-advance, cap; which signatures the conflict entries name |
| `leave_days` | 2 days of 2 hours, 2 offices, 2 requests, 1 owner edit | 560,169 | leave, check-ins, corrections, holidays and disables in any order across one midnight; what the leave screens told beforehand |
| `calendar` | 3 days, 2 offices; owner edits in *weekly*: 4, *members*, *pins*: 3, *setup*: 2, *readers*: 1 around a summary; *attempts*: 3 keys, 2 employees | 147,630 | enable and disable always pass the guard; offices, weekly offs, setup, readers, attempts |
| `member_calls` | 3 people, 2 companies, 2 concurrent calls, 1 flag change, 1 login at a time | 207,837 | what a call found under its locks holds at commit; every call ends |
| `member_admin` | 3 people, 1 company, 2 calls, 1 login | violation | see 7.1 |
| `customer_book` | *imports*: 2 requests with one key, 2 phones, 1 fault; *jobs*: 2 creations, 4 sends, numbers of one digit in base 3 | 2,117,114 | imports exclude each other and account for their rows; job numbers; the phone race |
| `import_takeover` | the same | violation | see 7.2 |
| `reads` | *pages*, *counts*, *detail*: 3 rows, page size 1, 1 change; *report*, *card*, *people*: batches of 1; *sync*: 2 jobs, 2 writers, limit 1; *day*: any rows on one day; *stretch*: 4 days of 4 kinds | 734,889 | lists, counts, digests, sync, and the screens against the calendar's cells |
| `sync_gap` | the same, limit 2 | violation | see 7.3 |
| `delivery` | *push*: 2 notices, 2 instances, a shared phone, 1 retry, 1 fault; *requests*: 3 attempts; *reports*: 1 worker, 2 reports, 2 attempts, 2 faults; *codes*, *own*: 2 phones, 2 calls; *limits*: each counter with 2 callers and 4 calls; *photos*: 2 reviewers; *purge*: one purge of any kind and its restore | 403,610 | pushes and repeats explained, sign-ins, limits, hides and purges accounted for, every report request settles within its attempts |

Why the bounds are enough for the questions asked:

* Two workers, sessions, runs or calls are needed for every race here, and a third adds no new pair
  of conflicting steps; the theorems of section 6 cover any number.
  Requests get three attempts: one that answers, one that repeats, one after expiry.
* A cap, page, batch or limit of 1 or 2 makes every claim, page and confirm meet it. Two attempts
  let a recovery both succeed and give up.
* Two days contain a midnight, a past, a today and a future; `LastHour = 1` separates before from
  after an office's start. Three days let a scheduled change be changed again and a moved one be
  moved back. Four days hold two weeks of `WeekLength = 2` and absent runs of `Streak = 2` that
  touch, cross and miss their ends; a day with any rows stands in *day*, before an absent one.
* Three rows of which two share a sort key are a page boundary inside a tie, which is where a keyset
  can fail. Two half ticks tell a microsecond from its millisecond; the tied rows stand in the second
  half of one, so that a truncated cursor really skips a row (`SameMillisecond`).
* `attachment_confirms` starts from either the photo requests or the signature requests being left
  to expire and cleaned up, because photos and signatures share no row: only their product is cut.
  The jobs row, which no signature touches, rests while signatures are examined. Three signatures
  are the fewest for an entry to name an older one than it replaced: one stands, and two replace it.
* `member_calls` starts from a company with an admin, beside a second admin who is invited or active or
  beside an employee, and a platform admin or a stranger: states that earlier calls lead to. Each call
  slot serves one call. Who is a platform admin changes only where nobody is invited.
* `leave_days` starts with the person at the office that opens later; the edit can move them to the
  other one. Only the starting half of the product is cut.
* The job counter of `Highest` = 2 overflows its printed width with the third job, as the real one
  does with the ten thousandth.

`CHECK_DEADLOCK FALSE` is set where days, edits, requests, uploads, faults or calls are finite, so
that the bounded system ends. `report_two_workers` never ends (its workers keep polling) and is
checked for deadlock.

## 5 Fairness

* `ReportQueue` (scene *reports* of `delivery`): weak fairness of the worker's step - `setInterval`
  keeps ticking and each await of a tick settles - and of `LeaseExpires`, a deadline. Crashes and
  failed calls are never required and bounded by `MaxFaults`; retries by `MaxRetries`. With endless
  faults nothing settles, and with an endless supply of queued rows recovery starves
  (`report-worker.ts:31` accepts that).
* `JobAttachments` (`jobs`): weak fairness of each confirm's next statement; strong fairness of a
  delivery, because the Worker's queue redelivers until it gets an answer other than 5xx, and of the
  commit that waits for the jobs row, which PostgreSQL grants among finitely many sharers.
* `Memberships` (`member_calls`): one weak-fairness condition for all open calls: while some
  call's next statement can run, or the detector can break a cycle (`deadlock_timeout`), one of
  these happens. A call has finitely
  many statements, so no call can be passed over for ever. Nobody is required to start anything.

Every other run checks safety only and states no fairness.

## 6 Proofs

All are checked by TLAPS for every value of the constants that satisfies the assumptions of the
modules; TLC evaluates those assumptions in the runs. Each module has one inductive invariant per
component, in parts over different variables; a lemma says what one kind of effect does to one part,
and the step lemma has a case per action. The invariants were checked by TLC before they were proved.

**`ReportQueueProofs`.** `TypeInv` adds to `TypeOK` the structure of a tick: which stages have a
candidate, and that its list is no longer than the concurrency. `DeliveryInv` strengthens "ready has
its file": a worker about to stamp has uploaded (`StampBacked`), one about to announce "ready" read
it from a row that stays ready (`AnnouncementBacked`). Theorems: `TypeCorrect`, `ReadyStays`,
`DeliveryHonest`, `OnlyReadyAnnounced`, `LeaseHolds` (an action property), `CapNeverExceeded` (by
cardinality: a step leaves a company's in-flight set no larger or adds one row to a set below the
cap) and `QueueImplementsLifecycle`, the refinement of `ReportLifecycle`. `BudgetOfOneInstance`: one
instance renders a request at most `MaxAttempts` times per queueing, because the candidates of a tick
(`ListInv`) owe no rendering that the row's count does not know. With two instances it is false (7).

**`JobAttachmentsProofs`**, for any template and numbers of people, uploads and confirms. `RowInv`
says what log and bells must be for the row as it is, `CallInv` what a call in flight asks for, and
`TxAim` what a confirm has in hand: past its INSERT of a photo it still sees the row's step, since its
key-share lock keeps the jobs row. Theorems: `LogsComplete`; `JobLifecycleImplemented`, the
refinement; `PhotosAdvance`, which needs `TxAim`; and `UploadsAreAccounted`, in three parts:

* one entry per confirm of a signature but the first, from `UploadsHeld` (one confirm holds an
  upload, a committed one is never held again);
* what the entries name: never the signature that stands, and every replaced one but for two kinds.
  The step that could break it is the UPDATE, which logs what an earlier SELECT saw; `SeenStands`
  says that this is still the row, or the row's confirm overtook the SELECT, or the cleanup cut the
  row off;
* `CapOverrun`: the cap is passed by at most the confirms in flight less one.

**`AttendanceDaysProofs`.** `IInv == RowsType /\ RowsGuarded /\ DayType /\ LeaveInv`. `RowsGuarded`
says the rows are disjoint and covered; lemmas about `Clip` and about appending an open row show that
clipping both tables at one date keeps this, which is why `LifecycleNeverRefused` holds: the guard
can refuse no enable and no disable. `LeaveInv` gives `OneActiveLeavePerDay` and `NoDoubleBooking`: a
checked-in working day carries full-day leave only when the request was filed with the clock of an
earlier day. `WorkKept` shows that no call leaves a worked day crediting less than before; the action
properties `PastIsSettled` and `PreviewsHold` compare two states of a step, and `LeaveTold` shows the
derived status and the preview of an application right in every reachable state.

**`CalendarProofs`** has four parts.

* `AttemptsArePoliced`: a window with a full budget of rejections holds one that blocks
  (`BudgetBlocks`), so the next attempt is refused. This needs `RateBlock >= RateWindow`; both are ten
  minutes in the code.
* `PeopleAreServed`: an accepted assignment lies within an enrolment at an office known when it
  starts (`LegsServed`), and the rules of a known office cover every day since it is known, once
  (`Serving`). The cuts of rules and of rows keep both.
* `FactsAreOne` (`ReadersAgree`): `RowsInv` joins those invariants, from which each reader of a day
  finds one row, one rule and one office; `ReadingInv` says what the owner has changed between the
  summary's statements, so that what it tells is what some moment held but for one torn change. It
  assumes only that `None` is no office (`ContextAssumption`).
* `PlansAreKept`: the rows of days off mirror the plan as the owner set it (`Mirror`): each row starts
  with a change to its days, ends with a change or at the end and spans no other; each change starts a
  row or, if it clears, ends one. So every day's days off are the planned ones and each difference is
  announced.

**`MembershipsProofs`.** The inductive invariant is
`IInv == TypeOK /\ Staged /\ LocksExclude /\ RowsFit /\ Settled /\ AdminKept`: locks exclude; each
call's findings hold for as long as it has its locks (`Settled`: the invited person belongs nowhere,
the disabled one administers no other company than the locked one, another admin who counts is left,
the caller manages); each company has an admin who can sign in or was disabled unseen. One lemma,
`UndisturbedSettled`, says what another call's commit must leave alone for this to survive, and each
commit, setup and login is shown to leave it alone. Theorems: `TypeCorrect`, `AdminsSpared`,
`OneLiveMembership`, and the action properties `CallersManage` and `RemovedStayOut`.

**`CustomerProofs`.** `ImportsExclude` from `ClaimInv`: a run that may write is the owner of the claim
under its key. `ImportsAreAccounted` from `RunInv`, run by run: what is saved came from an earlier row
of the sheet, the rows saved and the results differ by the failed calls at most, and the stored batch
never claims more than is saved; lemmas about counting results carry the sums. It assumes that a sheet
has rows. `CreationsAreAccounted` from `GapFree` and `OutOfDigits` (numbers of a year are 1..counter;
once the width is used up, every creation fails) and `RetriesKnow` (a second look-up finds the
customer that beat it).

**`ReadsProofs`** covers everything the run `reads` checks.

* `MissesExplained` from `UnspannedAreLater`: a transaction that was open at no time a sync took began
  after all of them, so only a change that was open then, or cut by the limit, is missed.
* `PagesAreExact` from `PagesInv`: the cursor is the place of the last row shown, every row shown was
  before it when shown, and a row that has not changed since the first page is shown exactly when its
  place is before the cursor. It assumes that the markers for "no row" and "no cursor" are none of
  them (`MarkersAssumption`).
* `ReadsAreConsistent` from `ProfileInv` and `DetailInv`: the five counts differ from one moment's by
  the jobs moved since the first, and a log read after its job covers it.
* `QueriesAreConsistent` from `DigestInv`, with one part per read: the offsets of the report pass a job
  over or repeat one only per change since the first batch (`BatchInv`, which counts those changes),
  names come from who is a member still (`NamesInv`), proofs from what was attached (`ProofsInv`), a
  customer's card from the same rows as its history (`CardsInv`). The sections' sums rest on lemmas
  about `SumOf`, which counts pairs, so that a sum over disjoint parts is a union.
* `ViewsAreTheCells` from `ViewsInv`, which is only that every day's rows are rows: that the views
  follow the cells is a fact about the operators, for any number of days, offices and any hours. The
  weeks partition the days because `DaysToSunday` counts down to 0 (`Countdown`, `OneWeek`); each
  day's credit fits into what it adds to the days expected (`RoomIs`); the scan of the absent days
  holds after each day the run under way and the runs ended (`ScannedIs`), and these are the maximal
  runs (`ToldAreMaximal`). It assumes hours in order and a week and a streak of at least one day
  (`HoursAssumption`), that `None` is no value of a row and that days start uncorrected
  (`RowsAssumption`).

**`DeliveryProofs`** has six parts.

* `RepeatsAreExplained` from `WindowKept`: an answer inserted within the window is the stored one.
* `PushesAreExplained` from the claims (a row's claim is one instance's), the copies an instance works
  on, and the phones its recipients had when it looked.
* `HidesAreAccounted` from what each reviewer's pending call found and what has changed since.
* `TheLimitsHold` from `Countered` (each read in flight falls short of the counter by at most the calls
  counted beside it) and `Queues` (the queue of a places key holds the calls that wait, in order, and
  only its head reads).
* `SignInsAreAccounted` from four parts: `SessionsKept` (wrong answers that no older copy can take back
  are counted in the session and in every copy of it that may be written back; a session ended alone
  has no such copy), `AccountsKept` (a call signs in the account of its phone, and one that lost the
  insert finds the winner's), `RequestsApart` and `EmailsApart`. At the start each phone has an account
  of its own or none.
* `NoRowIsLost` (`NothingElseLost`, a part of `PurgeAccounted`) from `PurgeInv`: a row that is gone is
  in a backup that is kept, fell with a cascade, or was added after the purge had been prepared.

**Only model-checked.**

* Liveness, which TLAPS cannot prove without ENABLED: `EventsSettle`, `EveryCallEnds`,
  `RequestsSettleInBudget`.
* The other three parts of `PurgeAccounted` (`BlockedOnlyByNewcomers`, `UnsavedOnlyByCascade`,
  `RestoreRefusedFor`): what the plan holds and the order in which restore meets the foreign keys are
  folds over lists of tables, whose result for every list is an induction over data.

## 7 Disagreements between the code and what it says

Each of the first three has a run that exhibits it.

1. *A company can be left without an active admin* (`20261020000009:138`). `set_user_disabled` lists
   the companies a person administers before it locks any, and a login activates an invitation
   without taking the person's row. The person being disabled becomes an admin after the list was
   read; the other admin is removed because this one counts; the disable commits. `AdminsSpared`
   proves that this is the only way.
2. *A stale import claim is renewed but never run* (`import-commit.replay.ts:230`). The take-over's
   UPDATE asks for a row without selecting one, so the client returns none and the request is told
   that the import is in progress, after the claim became its own.
3. *A sync can miss a change for good* (`sync.service.ts:39`). `updated_at` is the start of the
   writing transaction; one that commits after the query with an earlier stamp is in no later answer.

Observed while modelling, without a run of their own. **Reports, jobs, photos:**

* A failed ready stamp does not heal itself, as `src/reports/README.md:79` says: the catch marks the
  row failed, which recovery never looks at (`report-pipeline.service.ts:52`).
* Of two overlapping instances one may write an attempt count it read before the other's run, so a
  row may be generated once more than `REPORT_MAX_ATTEMPTS` (`report-claims.ts:37`); the budget is
  proved (`BudgetOfOneInstance`) and checked (`RequestsSettleInBudget`) for one instance.
* A concurrent photo confirm is not always swallowed, as the head of `20261002220000` says: two
  confirms upgrade one shared lock and PostgreSQL aborts one with 40P01, which no handler catches.
  The queue redelivers, so `EventsSettle` holds. The photo cap can be overrun by such confirms.
* The entry of a replaced signature is said to hold the row the UPDATE replaced, "non-NULL here"
  (`20261002220000:104`). Neither holds: with another confirm between SELECT and UPDATE the entry
  names the row before that one's, or NULL when there was none, and the signature really replaced is
  in no entry. Without any race it is NULL, too, once the daily cleanup deleted the staging row of
  the signature that stands (SET NULL). `ReplacedAreNamed` proves that a signature goes unnamed in
  no other way; without either exception TLC finds it violated.
* `workflow.service.ts:106` says an employee may only advance jobs assigned to them;
  `advance_workflow_step` re-checks status and step, not the technician, so a job reassigned between
  read and RPC takes one more step from its former technician.
* A reviewer's hide and another's dismissal of the same report may both succeed: the photo is hidden
  under a report that reads dismissed (`20261102000000:4`).

**Reads:**

* More than 500 changed jobs since the cursor: the oldest changes are cut, and the cursor moves past
  them (`sync.service.ts:69`).
* The cursors of leave requests and corrections drop the microseconds of `created_at`: a row of the
  page's last millisecond can be skipped.
* A technician's past job in progress is in both the today and the overdue list; one of a future date
  is in no admin list and in none of the five counts (`users.service.ts:66`).
* The job report fetches the jobs of every technician; the selection its README calls optional
  scoping (`reports/README.md:4`) never reaches the query. Its batches are offsets in an order jobs
  share, so each change may repeat one job and drop another, and so may a tie without any change.
* A page of customers counts its jobs from one answer that the database cuts at its row limit.
* `listCompanyMembers` leaves out disabled people, so their past jobs are shown without a name.

**Attendance:**

* `notification-events.ts:148` promises the owner one notice per cancel call; the dedupe key is per
  request (`leave-transition.ts:236`), so a second cancel's dates are dropped.
* A reassignment in a period whose disable is already scheduled is refused with "Assign this person
  to an office first" (`enrolments.service.ts:238`).
* An apply that began before midnight does not see the new day's check-in
  (`leave.repository.ts:160`): the exception in `OnlyLateCallsDoubleBook`. Likewise an edit of an
  office's rule begun before midnight changes the new day's rule, and an attempt of the old month may
  alert early.
* Approved leave may come to sit under a correction other than a plain absence, which
  `leave-validation.ts:144` excludes only at the time of applying.
* A day that a preview showed as kept, its cutoff past, can be taken after all once the office of
  that very day changes.
* Archiving looks at active people: the assignments of the invited and the disabled do not stop it.
* A weekly-off clear that another change cut at its very date is moved by a later clear; a queued
  change to other days is not. A member hears of a queued removal of an override only as the end of
  the current row.
* The Today screen counts lateness from the rule's start, the check-in's answer from the midpoint on a
  morning of leave (`api-contracts.md:1371` calls them mirrors). The strip of days left open drops the
  days at offices archived since. A corrected day whose tracking ended the same day keeps its credit
  in the calendar and the register's mark, not in the sums.
* "Absent streaks" span untracked days and days at offices the report leaves out, and count absences
  of every rule (the comment says rule 9 only, as does the month's `absent`).
* The member's summary may name yesterday's office after midnight, and two changes of the owner can
  tear it, although it "can never disagree" about which office applies. Setup's refusal for invited
  people uses the IST day, not the company's.

**Accounts, push, limits, purge:**

* `AdminService.setPlatformAdmin` may flag a company member, while `auth.service.ts:415` says a
  platform admin has no membership. A login may activate another invitation than the one it read and
  names in its answer (`auth.service.ts:473`).
* A gateway's timeout keeps the session of a code whose id the client never gets. A deletion request
  that fails after the session ended has used up the code. A wrong answer under way can write a used
  session back. A disabled account's right code keeps its session.
* A push repeated after a transport error may arrive twice; the sweep's comment says at most once.
  A phone handed over after the look-up receives its former user's batch.
* Only the places' counters are exact; the others undercount by overlapping calls.
* Restore deletes and inserts in an order its foreign keys can refuse, although `restore.ts:12` says
  a partially present database never errors; rows that the purge cascades to are in no backup
  although `purge.ts` speaks of every row. At this commit the purge refuses to start: a foreign key
  of `import_batches` is missing from its list (`drifted` holds at the start). A person's purge
  stopped by another admin's correction has already removed the logins.

## 8 Abstractions and bounds

* *Reports*: a lease is held or expired; rendering succeeds or fails; the order of polling is by
  creation; R2 keys are one per report.
* *Jobs*: one job; `current_step` is an index, 0 for NULL; edits of other columns are left out.
  `MaxUpdates` bounds the PATCH calls that carry a technician, `MaxSends` the sends of creations.
* *Attachments*: one attachment row per upload, the r2_key's uniqueness; size and type checks and the
  presigned URL's lifetime are part of `RequestUpload` and `Expire`. `MaxFaults` bounds rolled back
  calls and lost answers.
* *Customers*: a phone number stands for the row's id; one column stands for those an edit fills and
  clears; a cell of the sheet is what it parses to.
* *Attendance*: one employee; calls are atomic under their advisory lock; at most one midnight passes
  while a call waits. Days hold `LastHour + 1` hours. In `AttendanceDays` a holiday stands for every
  off day, "worked" for a correction to present or half day, and minutes, lateness and location are
  left out; `DayViews` has minutes, lateness and markers for days whose rows it chooses. Offices and
  weekly offs change in `Offices`, `WeeklyOffs` and `DayContext`. `MaxEdits`, `ReaderEdits` and
  `MaxActs` bound the owner's calls. Location checks are a choice of outcomes.
* *Reads*: one table of rows stands for each list's own; filters that only narrow a list are left
  out. `MaxChanges` bounds the changes while a read is under way.
* *Sync and push*: one device; one clock for the server and the database (`LastTick`, `MaxVersion`).
  FCM answers each message, or a call fails with any part delivered; `MaxFaults` bounds failures.
* *Signing in and limits*: the right code is one that is known to be right; `MaxFiled`, `MaxHits` and
  `MaxTime` bound requests, calls counted and time. A restart empties the cache.
* *Purge*: a row is a table, the rows its columns name and the few facts the tool asks about; `Data`
  lists the rows of the instance. `MaxPurges` bounds purges begun.
* *Memberships*: a viewer passes no check an employee does not, so one role stands for both; every
  person has a `users` row; queues of advisory locks are unordered; the KEY SHARE lock that an
  invitation's own INSERT takes on its inviter is taken at the commit with the audit row's. `MaxFlags`
  bounds changes of `platform_admin`, `MaxLogins` the logins under way at once.

## 9 Not modelled

Every component is in `PROJECT.json` with its status and reason. In short: rendering, templates,
push and notice wording, telemetry and health (no state of theirs matters); storage, SMS, mail,
Google and FCM (external, their effects appear where they matter); token signing (cryptography);
the platform admin's dossier and audit list (reads); company, skills, contact requests, app config
and field edits (single rows and statements); the reminders' cron function (a later module). Within
modelled components: marking notifications read, acknowledging a mocked attempt, broadcast notices of
holidays, and in the purge the tables that hang on the company alone.

## 10 Plan

Done: the report queue, jobs with attachments, attendance and memberships with their proofs; then
customers, import and job creation; push, idempotency, signing in, limits, photo moderation and
purge; offices, weekly offs, attempts, the day's readers and screens, leave reads; lists, counts,
digests and sync.

Proved since: every safety property of the runs but those that section 6 lists as only
model-checked.

Left to prove: the parts of `PurgeAccounted` that section 6 lists, for which the plan would have to
be stated as a closure instead of a fold.

Next module: `Reminders` - the cron's minute floor and its dedupe key against late, repeated and
overlapping ticks.
