------------------------------- MODULE DayViews -------------------------------
(***************************************************************************)
(* What the screens show of one employee's days: the calendar cell that    *)
(* computeDayStatus grades, the owner's tiles and strips of today, the     *)
(* month's sums, the attendance report, and what the check-in answers and  *)
(* the Today screen say of a check-in.                                     *)
(*                                                                         *)
(* days[i] holds the rows of day i, the last one being today.  All views   *)
(* but the strips and the two check-in answers read the cells, so the      *)
(* question is where a view and the cell it stands for part.  Minutes are  *)
(* of the day; credits are in half days.                                   *)
(***************************************************************************)
EXTENDS Integers, Sequences, FiniteSets, Sums

CONSTANTS DayRows,                \* the rows a day may end up with
          Places,                 \* the offices
          Start, End, Cutoff,     \* the rule: office hours, minutes of grace
          FullDay, HalfDay,       \* and the minutes that earn a (half) day
          WeekLength, Streak,     \* 7 days from Monday; 3 absent days
          None,
          MaxDays, MaxActs        \* bounds: days lived, acts of the owner

VARIABLES days, closed, acts    \* closed: the offices archived so far

viewVars == <<days, closed, acts>>

-----------------------------------------------------------------------------
(* Rows of a day: tracked or not (late: from after the start of the same   *)
(* day), ruled by office times or not, off or not, its leave, the GPS      *)
(* record and the correction.                                              *)
NoLeave == [state |-> "none", part |-> None]
NoTimes == [in |-> None, out |-> None]
NoFix == [status |-> None, in |-> None, out |-> None]

Fixed == {"present", "half_day", "absent"}
OffKinds == {"weekly_off", "holiday"}
LeaveParts == {"full_day", "first_half", "second_half"}
Instant == Int \cup {None}

Corrections ==
  {[NoFix EXCEPT !.status = s] : s \in Fixed}
    \cup {[NoFix EXCEPT !.in = Start], [NoFix EXCEPT !.in = Start, !.out = End]}

RowOf(fixes) ==
  [enrolled : {"yes", "late", "no"}, ruled : BOOLEAN, off : OffKinds \cup {None},
   leave : {NoLeave} \cup [state : {"pending", "approved"}, part : LeaveParts],
   gps : [in : Instant, out : Instant], fix : fixes, place : Places]

ASSUME HoursAssumption ==
  /\ {Start, End, Cutoff, FullDay, HalfDay} \subseteq Nat
  /\ Start < End /\ HalfDay < FullDay
  /\ {WeekLength, Streak} \subseteq Nat \ {0}

ASSUME RowsAssumption ==
  /\ None \notin Int \cup Fixed \cup OffKinds \cup LeaveParts
  /\ DayRows \subseteq RowOf({NoFix})

Midpoint == Start + (End - Start) \div 2

Later(a, b) == IF a > b THEN a - b ELSE 0

(* Mutant: a corrected check-in hides the recorded check-out.              *)
InstantsOfOne(row) ==
  IF row.fix.in # None THEN [in |-> row.fix.in, out |-> row.fix.out] ELSE row.gps

(* A correction replaces the instants it names.                            *)
Instants(row) ==
  [f \in {"in", "out"} |-> IF row.fix[f] # None THEN row.fix[f] ELSE row.gps[f]]

CheckedIn(row) == Instants(row).in # None
CheckedOut(row) == CheckedIn(row) /\ Instants(row).out # None

(* On the day tracking began after the start, only a check-in counts.      *)
TrackedOn(row) ==
  /\ row.enrolled # "no"
  /\ row.enrolled = "late" /\ row.ruled => CheckedIn(row)

WorkedMinutes(row) == Later(Instants(row).out, Instants(row).in)

Grade(row) ==
  LET worked == WorkedMinutes(row) IN
  CASE ~row.ruled /\ worked > 0 -> "present"
    [] row.ruled /\ worked >= FullDay -> "present"
    [] row.ruled /\ worked >= HalfDay /\ worked < FullDay -> "half_day"
    [] OTHER -> "absent"

(* The ladder of day i.                                                    *)
StatusOf(row, past) ==
  IF row.fix.status # None THEN row.fix.status
  ELSE IF ~TrackedOn(row) THEN "not_tracked"
  ELSE IF row.off # None THEN IF CheckedIn(row) THEN "worked_on_holiday" ELSE row.off
  ELSE IF row.leave = [state |-> "approved", part |-> "full_day"] /\ ~CheckedIn(row)
  THEN "leave"
  ELSE IF /\ row.leave.state = "approved" /\ row.leave.part # "full_day"
          /\ past \/ CheckedOut(row) \/ ~CheckedIn(row) THEN "half_day_leave"
  ELSE IF CheckedOut(row) THEN Grade(row)
  ELSE IF past THEN IF CheckedIn(row) THEN "checkout_missing" ELSE "absent"
  ELSE IF CheckedIn(row) THEN "in_progress" ELSE "not_checked_in_yet"

Worth(grade) == CASE grade = "present" -> 2 [] grade = "half_day" -> 1 [] OTHER -> 0

(* Late and early minutes ride every row of a ruled working day.           *)
Flagged(row, status) ==
  CheckedIn(row) /\ row.ruled /\ status \notin {"not_tracked", "worked_on_holiday"}

(* Mutant: the marker goes with the status of its name alone.              *)
OpenByStatus(row, status, past) == status = "checkout_missing"

(* Marked as left open: past, and nobody adjudicated or refused the day.   *)
LeftOpen(row, status, past) ==
  /\ past /\ CheckedIn(row) /\ ~CheckedOut(row)
  /\ status \in {"worked_on_holiday", "half_day_leave", "checkout_missing"}

CellOf(row, past) ==
  LET status == StatusOf(row, past)
      half == row.ruled /\ CheckedOut(row) /\ WorkedMinutes(row) >= HalfDay
  IN [status |-> status,
      late |-> IF Flagged(row, status) THEN Later(Instants(row).in, Start + Cutoff) ELSE 0,
      early |-> IF Flagged(row, status) /\ CheckedOut(row)
                THEN Later(End, Instants(row).out) ELSE 0,
      worked |-> CASE status \in Fixed -> Worth(status)
                   [] status = "half_day_leave" /\ half -> 1
                   [] OTHER -> 0,
      leave |-> CASE status = "leave" -> 2 [] status = "half_day_leave" -> 1 [] OTHER -> 0,
      offWork |-> IF status = "worked_on_holiday" /\ CheckedOut(row)
                  THEN Worth(Grade(row)) ELSE 0,
      open |-> LeftOpen(row, status, past)]

Today == Len(days)
Cell(i) == CellOf(days[i], i < Today)
InCount(i) == TrackedOn(days[i])

-----------------------------------------------------------------------------
(* The owner's tiles: one bucket of today for a tracked employee.          *)
Presence == {"in_progress", "present", "half_day", "worked_on_holiday"}

Bucket(row) ==
  LET status == StatusOf(row, FALSE) IN
  CASE status \in Presence -> "checkedIn"
    [] status \in {"leave", "half_day_leave"} -> "onLeave"
    [] status = "absent" /\ row.fix.status = None /\ CheckedOut(row) -> "shortDay"
    [] OTHER -> "notCheckedIn"

(* The person's line in the list under the tiles: the recorded times come  *)
(* before the corrected ones.                                              *)
Pulse(row) ==
  LET cell == CellOf(row, FALSE)
      bucket == Bucket(row)
      late == bucket = "checkedIn" /\ cell.late > 0
      shown(f) == IF row.gps[f] # None THEN row.gps[f] ELSE row.fix[f]
  IN [status |-> IF late THEN "late" ELSE bucket,
      in |-> shown("in"), out |-> shown("out"),
      late |-> IF late THEN cell.late ELSE 0,
      leave |-> IF bucket = "onLeave" /\ row.leave.state = "approved"
                THEN row.leave.part ELSE None]

(* Who is counted today at all, under which offices, all when none is      *)
(* asked for; and the line of each live office in the picker.              *)
Candidate(row) == row.enrolled # "no" /\ row.place \notin closed

Tiles(offices) ==
  LET row == days[Today]
      counted == /\ Candidate(row) /\ InCount(Today)
                 /\ offices = {} \/ row.place \in offices
  IN [tracked |-> IF counted THEN 1 ELSE 0,
      checkedIn |-> IF counted /\ Bucket(row) = "checkedIn" THEN 1 ELSE 0]

OfficeLines == [place \in Places \ closed |-> Tiles({place})]

(* The owner's strip of days left open, read from the rows by a query of   *)
(* its own: only offices still live.                                       *)
OpenStrip ==
  {i \in 1..(Today - 1) :
     /\ days[i].fix.status = None
     /\ CheckedIn(days[i]) /\ ~CheckedOut(days[i])
     /\ days[i].enrolled # "no" /\ days[i].place \notin closed}

-----------------------------------------------------------------------------
(* The month's sums, and those the report adds: over counted days only.    *)
TrackedIn(S) == {i \in S : InCount(i)}

SumIn(S, credit) == SumOf([i \in TrackedIn(S) |-> Cell(i)[credit]])

DaysWorked(S) == SumIn(S, "worked")
LeaveTaken(S) == SumIn(S, "leave")
WorkedOnHoliday(S) == SumIn(S, "offWork")
CheckoutMissing(S) == Cardinality({i \in TrackedIn(S) : Cell(i).open})

(* expectedDays, in half days.                                             *)
Due(S) == {i \in TrackedIn(S) : Cell(i).status \notin OffKinds}
Expected(S) == Later(2 * Cardinality(Due(S)), LeaveTaken(S))

(* The report's weeks end on Sundays and with the range: a week starts on  *)
(* its first day, a Monday, and after every Sunday.                        *)
DaysToSunday(i) == (WeekLength - 1) - ((i - 1) % WeekLength)

WeekFrom(i) == {j \in i..Today : j <= i + DaysToSunday(i)}

Weeks == {WeekFrom(i) : i \in {j \in 1..Today : j = 1 \/ DaysToSunday(j - 1) = 0}}

(* Runs of absent days of some length, closed by any other counted day.    *)
NoRun == [run |-> {}, found |-> {}]

Flush(scan) ==
  [run |-> {},
   found |-> scan.found \cup (IF Cardinality(scan.run) >= Streak THEN {scan.run} ELSE {})]

Scan(scan, i) ==
  IF Cell(i).status = "absent" THEN [scan EXCEPT !.run = @ \cup {i}] ELSE Flush(scan)

(* The days the report keeps for the offices asked for, all when none is.  *)
InScope(offices) ==
  {i \in TrackedIn(1..Today) : offices = {} \/ days[i].place \in offices}

(* A line for each office with a counted day, over the days spent there.   *)
At(place) == {i \in 1..Today : days[i].place = place}
OfficeRows == {place \in Places : \E i \in At(place) : InCount(i)}

(* The register marks the days in scope, counted or not; a line says since *)
(* when the person is tracked, if not from the start.                      *)
Register(offices) ==
  [i \in 1..Today |-> IF offices = {} \/ days[i].place \in offices
                      THEN Cell(i).status ELSE None]

EnrolledFrom ==
  LET tracked == TrackedIn(1..Today)
      first == CHOOSE i \in tracked : \A j \in tracked : i <= j
  IN IF tracked # {} /\ first > 1 THEN first ELSE None

(* The days kept, scanned in the order of their dates.                     *)
Scanned(offices) ==
  LET kept == InScope(offices)
      upTo[n \in 0..Today] ==
        IF n = 0 THEN NoRun
        ELSE IF n \in kept THEN Scan(upTo[n - 1], n) ELSE upTo[n - 1]
  IN upTo[Today]

(* Mutant: the run under way at the end is not flushed.                    *)
StreaksUnflushed(offices) == Scanned(offices).found

AbsentStreaks(offices) == Flush(Scanned(offices)).found

-----------------------------------------------------------------------------
(* What the check-in and the check-out answer: minutes late and early      *)
(* against the working half of a leave day.                                *)
ExpectedStart(row) == IF row.leave.part = "first_half" THEN Midpoint ELSE Start
ExpectedEnd(row) == IF row.leave.part = "second_half" THEN Midpoint ELSE End

ToldLate(row) == IF row.ruled THEN Later(row.gps.in, ExpectedStart(row) + Cutoff) ELSE 0
ToldEarly(row) ==
  IF row.ruled /\ row.gps.out # None THEN Later(ExpectedEnd(row), row.gps.out) ELSE 0

(* The member's Today screen: the recorded times against the office hours. *)
ScreenLate(row) == IF row.ruled THEN Later(row.gps.in, Start + Cutoff) ELSE 0
ScreenEarly(row) ==
  IF row.ruled /\ row.gps.out # None THEN Later(End, row.gps.out) ELSE 0

-----------------------------------------------------------------------------
ViewsInit == days = <<>> /\ closed = {} /\ acts = 0

(* A day ends up with some rows.                                           *)
DayPasses ==
  /\ Today < MaxDays
  /\ \E row \in DayRows : row.place \notin closed /\ days' = Append(days, row)
  /\ UNCHANGED <<closed, acts>>

Act == acts < MaxActs /\ acts' = acts + 1

(* A correction replaces the day's former one.  A day without tracking is   *)
(* refused, but one corrected while it was tracked keeps a status.         *)
Correctable(i) == StatusOf(days[i], i < Today) # "not_tracked"

CorrectDay(i, fix) ==
  /\ Act
  /\ Correctable(i)
  /\ days' = [days EXCEPT ![i].fix = fix]
  /\ UNCHANGED closed

RemoveCorrection(i) ==
  /\ Act
  /\ Correctable(i)
  /\ days[i].fix # NoFix
  /\ days' = [days EXCEPT ![i].fix = NoFix]
  /\ UNCHANGED closed

(* Tracking ends as of today.                                              *)
EndTracking ==
  /\ Act
  /\ days[Today].enrolled # "no"
  /\ days' = [days EXCEPT ![Today].enrolled = "no"]
  /\ UNCHANGED closed

(* An office that tracks nobody any more is archived.                      *)
ArchivePlace(place) ==
  /\ Act
  /\ place \notin closed
  /\ days[Today].enrolled = "no" \/ days[Today].place # place
  /\ closed' = closed \cup {place}
  /\ UNCHANGED days

ViewsNext ==
  \/ DayPasses
  \/ \E i \in 1..Today :
       RemoveCorrection(i) \/ \E fix \in Corrections : CorrectDay(i, fix)
  \/ Today > 0 /\ (EndTracking \/ \E place \in Places : ArchivePlace(place))

ViewsSpec == ViewsInit /\ [][ViewsNext]_viewVars

-----------------------------------------------------------------------------
(* The strip of days left open shows what the calendar marks and the month *)
(* counts as such, but for days at an office archived since: those stay    *)
(* open in the month and the report while no strip names them any more.    *)
StripFollowsMarks ==
  LET open == {i \in 1..Today : Cell(i).open} IN
  /\ OpenStrip = {i \in open : days[i].place \notin closed}
  /\ CheckoutMissing(1..Today) = Cardinality(open)

(* The tile a person is counted under is the one their cell calls for:     *)
(* someone who did check in reads as not checked in only after the owner   *)
(* said absent, a short day has no credit, leave shows as leave.           *)
TileFollowsCell ==
  Today > 0 /\ InCount(Today) =>
    LET row == days[Today] IN
    /\ CheckedIn(row) /\ Bucket(row) = "notCheckedIn" => row.fix.status = "absent"
    /\ Bucket(row) = "shortDay" => Cell(Today).worked = 0 /\ CheckedOut(row)
    /\ Bucket(row) = "onLeave" <=> Cell(Today).leave > 0

(* A line of the month and of the report sums the cells shown: the weeks   *)
(* and the offices add up to the range, the credits to no more than the    *)
(* days expected; a credit is in a cell and not in the sums only if the    *)
(* day was corrected and its tracking ended later.                         *)
SumsFollowCells ==
  LET all == 1..Today
      credit == [i \in all |-> LET cell == Cell(i) IN cell.worked + cell.leave + cell.offWork]
      missing == {i \in all : credit[i] > 0 /\ ~InCount(i)}
      worked == DaysWorked(all)
      expected == Expected(all)
  IN /\ SumOf([week \in Weeks |-> DaysWorked(week)]) = worked
     /\ SumOf([week \in Weeks |-> Expected(week)]) = expected
     /\ SumOf([place \in OfficeRows |-> DaysWorked(At(place))]) = worked
     /\ SumOf([place \in OfficeRows |-> Expected(At(place))]) = expected
     /\ worked <= expected
     /\ worked + LeaveTaken(all) + WorkedOnHoliday(all) = SumOf([i \in all \ missing |-> credit[i]])
     /\ \A i \in missing : days[i].fix.status # None

(* The register's marks of days that are not counted, those before the     *)
(* person is said to be tracked among them, are all corrections.           *)
RegisterFollowsLine ==
  LET marks == Register({})
      since == EnrolledFrom
  IN \A i \in 1..Today :
       ~InCount(i) \/ (since # None /\ i < since) =>
         marks[i] \in {"not_tracked", days[i].fix.status}

(* The runs of absent days: from one to another with no other kept day     *)
(* between them.                                                           *)
AbsentOf(kept) == {i \in kept : Cell(i).status = "absent"}

Between(kept, i, j) == {k \in kept : i <= k /\ k <= j}

RunsOf(kept, absent) ==
  {run \in {Between(kept, i, j) : i, j \in absent} : run # {} /\ run \subseteq absent}

Maximal(runs) == {run \in runs : \A other \in runs : run \subseteq other => other = run}

(* Every maximal run of absent days among those the report keeps is told   *)
(* once, if long enough: a day off or on leave ends a run, but an untracked *)
(* day, or one worked at an office not asked for, does not.                *)
StreaksExact ==
  \A offices \in SUBSET Places :
    LET kept == InScope(offices)
        runs == RunsOf(kept, AbsentOf(kept))
    IN AbsentStreaks(offices) = {run \in Maximal(runs) : Cardinality(run) >= Streak}

(* The line under the tiles says what its tile and the cell say: minutes   *)
(* late only when the cell is late, the half of a leave when on leave.  Its *)
(* time is not the corrected one only where both exist, and missing for    *)
(* someone checked in only when the owner set a status without a time.     *)
LineFollowsCell ==
  Today > 0 /\ InCount(Today) =>
    LET row == days[Today]
        line == Pulse(row)
    IN /\ line.status = "onLeave" <=> line.leave # None
       /\ line.late > 0 => line.late = Cell(Today).late /\ line.status = "late"
       /\ \A f \in {"in", "out"} :
            line[f] # Instants(row)[f] => row.gps[f] # None /\ row.fix[f] # None
       /\ line.status \in {"late", "checkedIn"} /\ line.in = None =>
            row.fix.status # None

(* The lines of the picker add up to the tiles of all offices: an archived *)
(* office takes nobody's line away.                                        *)
PickerAddsUp ==
  Today > 0 =>
    \A f \in {"tracked", "checkedIn"} :
      SumOf([place \in Places \ closed |-> OfficeLines[place][f]]) = Tiles({})[f]

(* What a person is told at check-in and check-out of coming late and      *)
(* leaving early is what the calendar flags, unless the day is off (told,  *)
(* not flagged) or that half is on leave (told against the midpoint,       *)
(* flagged against the office hours, so flagged for more).  Their Today    *)
(* screen tells what is flagged, on a day off too.                         *)
LatenessToldHolds ==
  Today > 0 =>
    LET row == days[Today]
        cell == Cell(Today)
        told(minutes, flagged, half) ==
          \/ minutes = flagged
          \/ row.off # None /\ flagged = 0
          \/ row.leave.part = half /\ minutes < flagged
    IN InCount(Today) /\ row.gps.in # None /\ row.fix = NoFix =>
         /\ told(ToldLate(row), cell.late, "first_half")
         /\ told(ToldEarly(row), cell.early, "second_half")
         /\ told(ScreenLate(row), cell.late, None)
         /\ told(ScreenEarly(row), cell.early, None)

(* The day's screens, the month and the report tell the same days as the   *)
(* calendar's cells.                                                       *)
ViewsFollowCells ==
  /\ StripFollowsMarks
  /\ TileFollowsCell
  /\ LineFollowsCell
  /\ PickerAddsUp
  /\ LatenessToldHolds
  /\ SumsFollowCells
  /\ RegisterFollowsLine
  /\ StreaksExact
===============================================================================
