-------------------------------- MODULE Feeds --------------------------------
(***************************************************************************)
(* The paged lists and the profile's five job counts, read while the rows  *)
(* they show are added, rescheduled, reassigned and moved on.  A list is   *)
(* read page by page under a keyset cursor (sort key, id); every page is   *)
(* one query of its own, and so is every count.  Rows stand for jobs; the  *)
(* lists of customers, reports, notifications, leave requests and          *)
(* corrections sort on created_at, which never changes.  Times of creation *)
(* are in microseconds, starts in IST days.  Filters a caller may add only *)
(* narrow a list and are left out.                                         *)
(***************************************************************************)
EXTENDS Integers, Sequences, FiniteSets, SequencesExt

CONSTANTS Ids,       \* row ids, ordered as the database orders them
          Technicians, Admin,
          LastDay,   \* IST days 0..LastDay
          LastMoment, Millisecond, \* microseconds, and how many make a millisecond
          PageSize,
          MaxChanges, \* changes of rows
          NoRow, NoCursor, NoCount

ASSUME FeedsAssumption ==
  /\ Ids \subseteq Nat /\ IsFiniteSet(Ids)
  /\ Admin \notin Technicians
  /\ LastDay \in Nat /\ LastMoment \in Nat /\ MaxChanges \in Nat
  /\ Millisecond \in Nat \ {0} /\ PageSize \in Nat \ {0}

VARIABLES
  rows,     \* the rows of one company
  today,    \* the current IST day
  changes,
  reader,   \* one client reading one list
  steady,   \* history: rows in the list, at one place, since the first page
  profile,  \* one GET /users/me: who asks, the captured day, the counts so far
  moved,    \* history: changes of rows since that call began
  log,      \* per job: its activity log entries
  detail    \* one GET /jobs/:id: the log as long as it was with the row, and as read

feedVars == <<rows, today, changes, reader, steady, profile, moved, log, detail>>

Statuses == {"scheduled", "in_progress", "completed", "cancelled"}
Open == {"scheduled", "in_progress"}
Closed == {"completed", "cancelled"}

Rows == [created : 0..LastMoment, start : 0..LastDay, status : Statuses,
         technician : Technicians]

Stored == {i \in Ids : rows[i] # NoRow}

-----------------------------------------------------------------------------
(* The lists: the cursor's scope, the sort column and direction, and       *)
(* whether the cursor is minted from a JavaScript Date, which drops the    *)
(* microseconds.                                                           *)
List(scope, key, ascending, truncated) ==
  [scope |-> scope, key |-> key, ascending |-> ascending, truncated |-> truncated]

TimelineLists == {List("jobs-list", "created", FALSE, FALSE),
                  List("jobs-upcoming", "start", TRUE, FALSE),
                  List("jobs-overdue", "start", TRUE, FALSE),
                  List("jobs-history", "start", FALSE, FALSE)}
ProfileJobs == List("profile-jobs", "created", FALSE, FALSE)
ProfileToday == List("profile-jobs-today", "start", TRUE, FALSE)
CustomersList == List("customers-list", "created", FALSE, FALSE)
CustomerHistory == List("customer-history", "start", FALSE, FALSE)
ReportsList == List("reports-list", "created", FALSE, FALSE)
NotificationsList == List("notifications-list", "created", FALSE, FALSE)
LeaveList == List("leave", "created", FALSE, TRUE)
CorrectionsList == List("day-corrections", "created", FALSE, TRUE)

JobLists == TimelineLists \cup {ProfileJobs, ProfileToday}

Lists == JobLists \cup {CustomersList, CustomerHistory, ReportsList,
                        NotificationsList, LeaveList, CorrectionsList}

Scopes == {list.scope : list \in Lists}

ASSUME MarkersAssumption ==
  /\ NoRow \notin Rows /\ NoCount \notin Nat
  /\ NoCursor \notin [key : Int, id : Ids, scope : Scopes]

(* getIstDayRange's window; a technician's own list adds what he works on. *)
InWindow(who, row, day) ==
  row.start = day \/ (who # Admin /\ row.status = "in_progress")

InTimeline(scope, who, row, day) ==
  CASE scope \in {"jobs-list", "profile-jobs-today"} -> InWindow(who, row, day)
    [] scope = "jobs-upcoming" -> row.start > day /\ row.status = "scheduled"
    [] scope = "jobs-overdue" -> row.start < day /\ row.status \in Open
    [] scope = "jobs-history" -> row.status \in Closed
    [] scope = "profile-jobs" -> TRUE

Shows(list, who, row, day) ==
  list \in JobLists => /\ who = Admin \/ row.technician = who
                       /\ InTimeline(list.scope, who, row, day)

(* (key, id) of one row strictly after another in the list's direction.    *)
Follows(list, k, i, l, j) ==
  IF list.ascending THEN k > l \/ (k = l /\ i > j)
                    ELSE k < l \/ (k = l /\ i < j)

-----------------------------------------------------------------------------
(* One page: the rows after the cursor, one more than the page holds to    *)
(* see whether there is a next one.                                        *)
(* Mutant: the predicate leaves out the id, the tie-break of equal keys.    *)
AfterKeyOnly(list, cursor, i) ==
  cursor = NoCursor \/
    IF list.ascending THEN rows[i][list.key] > cursor.key
                      ELSE rows[i][list.key] < cursor.key

After(list, cursor, i) ==
  cursor = NoCursor \/ Follows(list, rows[i][list.key], i, cursor.key, cursor.id)

Before(list, S, i) ==
  {j \in S : Follows(list, rows[i][list.key], i, rows[j][list.key], j)}

InOrder(list, S) ==
  [n \in 1..Cardinality(S) |->
     CHOOSE i \in S : Cardinality(Before(list, S, i)) = n - 1]

Listed(list, who, day, cursor) ==
  InOrder(list, {i \in Stored : Shows(list, who, rows[i], day) /\ After(list, cursor, i)})

(* encodeCursor of the last row shown.                                     *)
CursorAt(list, i) ==
  LET k == rows[i][list.key] IN
  [key |-> IF list.truncated THEN k - (k % Millisecond) ELSE k,
   id |-> i, scope |-> list.scope]

(* decodeCursor refuses another endpoint's cursor.                         *)
Accepts(list, cursor) == cursor = NoCursor \/ cursor.scope = list.scope

NoReader == [state |-> "idle", list |-> ProfileJobs, who |-> Admin,
             cursor |-> NoCursor, shown |-> <<>>, edges |-> {}]

ReadPage ==
  LET list == reader.list
      found == Listed(list, reader.who, today, reader.cursor)
      more == Len(found) > PageSize
      page == IF more THEN SubSeq(found, 1, PageSize) ELSE found
  IN reader' = [reader EXCEPT
       !.shown = @ \o page,
       !.state = IF more THEN "paging" ELSE "done",
       !.cursor = IF more THEN CursorAt(list, Last(page)) ELSE NoCursor,
       !.edges = IF more THEN @ \cup {rows[Last(page)].created} ELSE @]

FirstPage ==
  /\ reader.state = "idle"
  /\ ReadPage
  /\ steady' = {i \in Stored : Shows(reader.list, reader.who, rows[i], today)}
  /\ UNCHANGED <<rows, today, changes, profile, moved, log, detail>>

NextPage ==
  /\ reader.state = "paging"
  /\ Accepts(reader.list, reader.cursor)
  /\ ReadPage
  /\ UNCHANGED <<rows, today, changes, steady, profile, moved, log, detail>>

(* The client sends the cursor to another list: 400.                       *)
Misdirect ==
  /\ reader.state = "paging"
  /\ \E list \in Lists : ~Accepts(list, reader.cursor)
  /\ reader' = [reader EXCEPT !.state = "refused"]
  /\ UNCHANGED <<rows, today, changes, steady, profile, moved, log, detail>>

-----------------------------------------------------------------------------
(* GET /users/me: five counts, each a query of its own over one captured   *)
(* day, answered in any order.                                             *)
Kinds == {"today", "upcoming", "overdue", "completed", "cancelled"}

(* Mutant: the counts of today and of the overdue jobs meet at midnight.    *)
CountedFromToday(kind, row, day) ==
  CASE kind = "today" -> row.start = day /\ row.status \in Open
    [] kind = "upcoming" -> row.start > day /\ row.status = "scheduled"
    [] kind = "overdue" -> row.start <= day /\ row.status \in Open
    [] OTHER -> row.status = kind

Counted(kind, row, day) ==
  CASE kind = "today" -> row.start = day /\ row.status \in Open
    [] kind = "upcoming" -> row.start > day /\ row.status = "scheduled"
    [] kind = "overdue" -> row.start < day /\ row.status \in Open
    [] OTHER -> row.status = kind

Mine(who) == {i \in Stored : who = Admin \/ rows[i].technician = who}

NoProfile(who) == [who |-> who, day |-> 0, counts |-> [k \in Kinds |-> NoCount],
                   asked |-> FALSE]

AskProfile ==
  /\ ~profile.asked
  /\ profile' = [profile EXCEPT !.asked = TRUE, !.day = today]
  /\ moved' = 0
  /\ UNCHANGED <<rows, today, changes, reader, steady, log, detail>>

Count(kind) ==
  /\ profile.asked /\ profile.counts[kind] = NoCount
  /\ profile' = [profile EXCEPT !.counts[kind] =
       Cardinality({i \in Mine(profile.who) : Counted(kind, rows[i], profile.day)})]
  /\ UNCHANGED <<rows, today, changes, reader, steady, moved, log, detail>>

-----------------------------------------------------------------------------
(* GET /jobs/:id: the row first, with the two gates, then the rest in      *)
(* parallel, the log among it.                                             *)
NoDetail(who) == [who |-> who, state |-> "idle", job |-> NoRow, logged |-> 0, log |-> 0]

FetchJob(i) ==
  /\ detail.state = "idle"
  /\ detail' = [detail EXCEPT
       !.job = i,
       !.logged = log[i],
       !.state = IF i \notin Stored THEN "not_found"
                 ELSE IF detail.who # Admin /\ rows[i].technician # detail.who
                 THEN "forbidden" ELSE "fetched"]
  /\ UNCHANGED <<rows, today, changes, reader, steady, profile, moved, log>>

FetchLog ==
  /\ detail.state = "fetched"
  /\ detail' = [detail EXCEPT !.log = log[detail.job], !.state = "shown"]
  /\ UNCHANGED <<rows, today, changes, reader, steady, profile, moved, log>>

-----------------------------------------------------------------------------
(* The writers: one transaction each.                                      *)
Kept(i, table, day) ==
  /\ Shows(reader.list, reader.who, table[i], day)
  /\ table[i][reader.list.key] = rows[i][reader.list.key]

(* Every change but a new window writes an activity log entry.             *)
Logs(i, row) ==
  i \notin Stored \/ row.status # rows[i].status \/ row.technician # rows[i].technician

Write(i, row) ==
  /\ changes < MaxChanges /\ changes' = changes + 1
  /\ rows' = [rows EXCEPT ![i] = row]
  /\ steady' = {j \in steady : Kept(j, rows', today)}
  /\ moved' = moved + 1
  /\ log' = [log EXCEPT ![i] = IF Logs(i, row) THEN @ + 1 ELSE @]
  /\ UNCHANGED <<today, reader, profile, detail>>

(* created_at is the start of the inserting transaction.                   *)
Add(i) ==
  /\ i \notin Stored
  /\ \E row \in Rows : row.status = "scheduled" /\ Write(i, row)

(* updateJob: only a scheduled job can be rescheduled and reassigned.      *)
Edit(i) ==
  /\ i \in Stored /\ rows[i].status = "scheduled"
  /\ \E d \in 0..LastDay, t \in Technicians :
       /\ <<d, t>> # <<rows[i].start, rows[i].technician>>
       /\ Write(i, [rows[i] EXCEPT !.start = d, !.technician = t])

MoveOn(i) ==
  /\ i \in Stored
  /\ \/ /\ rows[i].status = "scheduled"
        /\ \E s \in {"in_progress", "cancelled"} : Write(i, [rows[i] EXCEPT !.status = s])
     \/ rows[i].status = "in_progress" /\ Write(i, [rows[i] EXCEPT !.status = "completed"])

Midnight ==
  /\ today < LastDay
  /\ today' = today + 1
  /\ steady' = {i \in steady : Kept(i, rows, today')}
  /\ UNCHANGED <<rows, changes, reader, profile, moved, log, detail>>

PageStep == FirstPage \/ NextPage \/ Misdirect

ProfileStep == AskProfile \/ \E k \in Kinds : Count(k)

DetailStep == FetchLog \/ \E i \in Ids : FetchJob(i)

WriteStep ==
  \/ Midnight
  \/ \E i \in Ids : Add(i) \/ Edit(i) \/ MoveOn(i)

FeedsInit ==
  /\ rows \in [Ids -> Rows \cup {NoRow}]
  /\ today \in 0..LastDay /\ changes = 0 /\ steady = {} /\ moved = 0
  /\ \E list \in Lists, who \in Technicians \cup {Admin} :
       reader = [NoReader EXCEPT !.list = list, !.who = who]
  /\ \E who \in Technicians \cup {Admin} : profile = NoProfile(who)
  /\ log = [i \in Ids |-> 0]
  /\ \E who \in Technicians \cup {Admin} : detail = NoDetail(who)

FeedsNext == PageStep \/ ProfileStep \/ DetailStep \/ WriteStep

FeedsSpec == FeedsInit /\ [][FeedsNext]_feedVars

-----------------------------------------------------------------------------
(* Keyset paging: whatever is added or moved between the pages, a row that *)
(* stays where it is from the first page to the last is shown exactly      *)
(* once.  The one exception is a row created in the same millisecond as    *)
(* the last row of a page, in a list whose cursor drops the microseconds.  *)
SameMillisecond(i) ==
  /\ reader.list.truncated
  /\ \E m \in reader.edges : m \div Millisecond = rows[i].created \div Millisecond

Times(i) == Cardinality({n \in DOMAIN reader.shown : reader.shown[n] = i})

PagesExact ==
  \A i \in steady :
    /\ Times(i) <= 1
    /\ reader.state = "done" => Times(i) = 1 \/ SameMillisecond(i)

(* users.service.ts, JobCounts: the five counts add up to all the jobs but *)
(* for one known gap, a job of a later day already in progress.  They are  *)
(* read apart, so each change meanwhile may put them off by one, no more.  *)
Gap(i) == rows[i].status = "in_progress" /\ rows[i].start > profile.day

Total(counts) ==
  counts["today"] + counts["upcoming"] + counts["overdue"] + counts["completed"]
    + counts["cancelled"]

CountsAddUp ==
  (\A k \in Kinds : profile.counts[k] # NoCount) =>
    LET all == Cardinality({i \in Mine(profile.who) : ~Gap(i)})
    IN Total(profile.counts) \in (all - moved)..(all + moved)

(* A job's detail never shows a state whose log entry it does not show:    *)
(* the row and its entry commit together and the log is read second.       *)
DetailLogCovers == detail.state = "shown" => detail.log >= detail.logged

(* What is read in several queries while rows change still fits together.  *)
ReadsFitTogether == CountsAddUp /\ DetailLogCovers
=============================================================================
