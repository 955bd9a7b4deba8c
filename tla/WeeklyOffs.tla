------------------------------ MODULE WeeklyOffs ------------------------------
(***************************************************************************)
(* The weekly offs of a company and one member's override of them, both as *)
(* effective-dated rows.  An empty choice is no row in the company's table *)
(* and a row of its own among the overrides; removing an override leaves   *)
(* no row.  Saving the days of a change still to come from a later date    *)
(* moves that change.  Each call holds the tenant lock alone.              *)
(***************************************************************************)
EXTENDS Enrolments

CONSTANTS DaySets,       \* the choices of weekly days off
          NoDays         \* the empty one: every day is worked

VARIABLES defaults, overrides,   \* rows [from, till, days]
          plans                  \* history: the changes the owner asked for,
                                 \* [from, days] of each table
weeklyVars == <<defaults, overrides, plans>>

Absent == "absent"       \* what a day without a row means

ASSUME WeeklyAssumption == Absent \notin DaySets

WeeklyInit == defaults = {} /\ overrides = {} /\ plans = [t \in {"all", "one"} |-> {}]

DaysOn(rows, d) ==
  IF \E r \in rows : Contains(r, d)
  THEN (CHOOSE r \in rows : Contains(r, d)).days ELSE Absent

Opened(rows, date, days) ==
  Clip(rows, date) \cup {[from |-> date, till |-> Forever, days |-> days]}

(* The row that ended where the moved change began runs to the new date.   *)
Stretch(rows, end, date) ==
  {[r EXCEPT !.till = IF r.till = end THEN date ELSE r.till] : r \in rows}

(* Mutant: a change already in force is moved like one still to come.      *)
MovedInForce(rows, day, date, days) ==
  LET queued == {r \in rows : r.from < date /\ Contains(r, date)
                              /\ r.days = days} IN
  IF queued = {} THEN rows
  ELSE LET q == CHOOSE q \in queued : TRUE IN
       Stretch(rows \ {q}, q.from, date)

(* Saving the days a queued row already has from a later date moves it.    *)
Moved(rows, day, date, days) ==
  LET queued == {r \in rows : day < r.from /\ r.from < date
                              /\ Contains(r, date) /\ r.days = days} IN
  IF queued = {} THEN rows
  ELSE LET q == CHOOSE q \in queued : TRUE IN
       Stretch(rows \ {q}, q.from, date)

(* A queued clear has no row: the gap it left moves with it.               *)
MovedClear(rows, day, date) ==
  {[r EXCEPT !.till =
      IF /\ day < r.till /\ r.till < date
         /\ \A o \in rows : o.till <= r.till \/ o.from >= date
      THEN date ELSE r.till] : r \in rows}

(* What a plan, a list of dated changes, says of a day.                    *)
PlannedOn(plan, d) ==
  LET past == {p \in plan : p.from <= d} IN
  IF past = {} THEN Absent
  ELSE (CHOOSE p \in past : \A q \in past : q.from <= p.from).days

(* The reference: a save drops the changes from its date on, and the last  *)
(* one before it when that is still to come and chose the same.  A change  *)
(* that another one cuts at the very date is not moved, a clear that one   *)
(* cuts is; clearing what is clear is no change.                           *)
Replanned(plan, day, date, days, moves) ==
  LET kept == {p \in plan : p.from < date}
      cut == \E p \in plan : p.from = date
      last == {p \in kept : /\ \A q \in kept : q.from <= p.from
                            /\ moves /\ (cut => days = Absent)
                            /\ day < p.from /\ p.days = days}
      rest == kept \ last
  IN rest \cup (IF days = Absent /\ PlannedOn(rest, date) = Absent THEN {}
                ELSE {[from |-> date, days |-> days]})

-----------------------------------------------------------------------------
(* A past date is today; no row stands for an empty choice.                *)
SetDefault(c, date, days) ==
  /\ Edit
  /\ date >= c.day
  /\ defaults' =
       IF days = NoDays THEN Clip(MovedClear(defaults, c.day, date), date)
       ELSE Opened(Moved(defaults, c.day, date, days), date, days)
  /\ plans' = [plans EXCEPT !["all"] = Replanned(@, c.day, date,
                 IF days = NoDays THEN Absent ELSE days, TRUE)]
  /\ UNCHANGED <<clock, periods, overrides>>

(* An empty choice is a row here: the member works all seven days.         *)
SetOverride(c, date, days) ==
  /\ Edit
  /\ date >= c.day
  /\ overrides' = Opened(Moved(overrides, c.day, date, days), date, days)
  /\ plans' = [plans EXCEPT !["one"] = Replanned(@, c.day, date, days, TRUE)]
  /\ UNCHANGED <<clock, periods, defaults>>

RemoveOverride(c, date) ==
  /\ Edit
  /\ date >= c.day
  /\ overrides' = Clip(overrides, date)
  /\ plans' = [plans EXCEPT !["one"] = Replanned(@, c.day, date, Absent, FALSE)]
  /\ UNCHANGED <<clock, periods, defaults>>

WeeklyNext ==
  \/ \E c \in Clocks, date \in Days :
       \/ \E days \in DaySets :
            SetDefault(c, date, days) \/ SetOverride(c, date, days)
       \/ RemoveOverride(c, date)
  \/ Tick /\ UNCHANGED <<periods, edits, weeklyVars>>

(* The weekly offs begin with the calendar's clock.                        *)
WeeklySpec ==
  /\ EnrolmentInit /\ WeeklyInit
  /\ [][WeeklyNext]_<<clock, periods, edits, weeklyVars>>

-----------------------------------------------------------------------------
(* A clear still to come is shown by a stand-in row.                       *)
WithQueuedClears(rows, day) ==
  rows \cup {[from |-> r.till, till |-> Forever, days |-> NoDays] :
               r \in {r \in rows : /\ day < r.till /\ r.till < Forever
                                   /\ \A s \in rows : s.from # r.till}}

(* The earliest row that starts after a day, none as the empty set.        *)
PickNext(rows, day) ==
  LET future == {r \in rows : r.from > day} IN
  {r \in future : \A s \in future : r.from <= s.from}

(* The company's screen, and one member's: the row in force, the next one  *)
(* and, for the company, the whole list.                                   *)
CompanyView(day) ==
  LET shown == WithQueuedClears(defaults, day) IN
  [default |-> {r \in defaults : Contains(r, day)},
   next |-> PickNext(shown, day), history |-> shown]

MemberView(day) ==
  [current |-> {r \in overrides : Contains(r, day)},
   next |-> PickNext(overrides, day)]

(* On every day the rows mean what the owner's changes, taken in order,    *)
(* ask for: a moved change leaves neither a hole nor a duplicate, and no   *)
(* day before a call's date is disturbed by it.                            *)
RowsKeepPlan ==
  \A d \in Days :
    /\ DaysOn(defaults, d) = PlannedOn(plans["all"], d)
    /\ DaysOn(overrides, d) = PlannedOn(plans["one"], d)

Changes(rows, d) == d > 1 /\ DaysOn(rows, d) # DaysOn(rows, d - 1)

(* Every change to come is announced on the screens.  The company's list   *)
(* starts a row on each day the days off change, and its `next` is never a *)
(* later one; the member's next change is the end of the current row or    *)
(* the start of the next one.                                              *)
EveryChangeAnnounced ==
  \A d \in (today + 1)..LastDay :
    /\ Changes(defaults, d) =>
         /\ \E r \in CompanyView(today).history :
              /\ r.from = d
              /\ \/ r.days = DaysOn(defaults, d)
                 \/ r.days = NoDays /\ DaysOn(defaults, d) = Absent
         /\ \E r \in CompanyView(today).next : r.from <= d
    /\ Changes(overrides, d) =>
         \/ \E r \in MemberView(today).current : r.till <= d
         \/ \E r \in MemberView(today).next : r.from <= d

(* The rows keep the owner's plan and the screens announce it.             *)
PlanKeptAndAnnounced == RowsKeepPlan /\ EveryChangeAnnounced
=============================================================================
