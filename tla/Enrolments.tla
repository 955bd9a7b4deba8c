------------------------------ MODULE Enrolments ------------------------------
(***************************************************************************)
(* When one employee is tracked and at which office: the effective-dated   *)
(* rows of attendance_enrolments and attendance_office_assignments, the    *)
(* AD-8 plan that rewrites both from a date on, and the constraint trigger *)
(* that accepts or refuses the result at COMMIT.  A row is the half-open   *)
(* range [from, till); till = Forever is an unbounded range.               *)
(*                                                                         *)
(* Every write holds the employee's advisory lock to its COMMIT, so a call *)
(* is one step.  Its clock is not that of the step: now() was fixed at     *)
(* BEGIN, before the wait for the lock, and midnight may have passed since *)
(* (one midnight: the wait is far shorter than a day).                     *)
(***************************************************************************)
EXTENDS Integers

CONSTANTS LastDay, LastHour,  \* bounds: days 1..LastDay of hours 0..LastHour
          Offices,
          StartHour,          \* when each office's day starts
          MaxEdits            \* bound: the owner's calls

Days == 1..LastDay
Hours == 0..LastHour
Forever == LastDay + 1

ASSUME EnrolmentAssumption ==
  /\ LastDay \in Nat \ {0}
  /\ LastHour \in Nat
  /\ StartHour \in [Offices -> Nat]
  /\ MaxEdits \in Nat

VARIABLES today, hour,   \* the database's clock, in the tenant's time zone
          enrolments,    \* rows [from, till, at]: at is the hour of enabled_at
                         \* when the row starts on the day it was written
          assignments,   \* rows [from, till, office]
          edits

clock == <<today, hour>>
periods == <<enrolments, assignments>>

-----------------------------------------------------------------------------
(* The instants a call committing now may have begun at.                   *)
Clocks == {[day |-> today, hour |-> hour]}
            \cup (IF hour = 0 /\ today > 1
                  THEN {[day |-> today - 1, hour |-> LastHour]} ELSE {})

(* No call in flight can still have a clock of an earlier day.             *)
Settled(d) == \A c \in Clocks : d < c.day

Contains(row, d) == row.from <= d /\ d < row.till

Within(leg, row) == row.from <= leg.from /\ leg.till <= row.till

(* Mutant: the covering row is left open.                                  *)
ClipForgotten(rows, date) == {r \in rows : r.from < date}

(* The rows a plan keeps: those starting before the date, the one that     *)
(* covers it cut short.                                                    *)
Clip(rows, date) ==
  {[r EXCEPT !.till = IF r.till > date THEN date ELSE r.till] :
     r \in {r \in rows : r.from < date}}

(* The EXCLUDE constraint of each table.                                   *)
Disjoint(rows) ==
  \A r, s \in rows : r = s \/ r.till <= s.from \/ s.till <= r.from

(* The coverage guard: every assignment lies within one enrolment and the  *)
(* assignments of an enrolment chain from its start to its end.            *)
Covered(periodRows, legs) ==
  /\ \A a \in legs : \E e \in periodRows : Within(a, e)
  /\ \A e \in periodRows :
       /\ \E a \in legs : a.from = e.from /\ Within(a, e)
       /\ \A a \in legs : Within(a, e) =>
            a.till = e.till \/ \E b \in legs : b.from = a.till /\ Within(b, e)

Committable(periodRows, legs) ==
  Disjoint(periodRows) /\ Disjoint(legs) /\ Covered(periodRows, legs)

Enrolled(rows, date, at) ==
  Clip(rows, date) \cup {[from |-> date, till |-> Forever, at |-> at]}

Placed(rows, date, office) ==
  Clip(rows, date) \cup {[from |-> date, till |-> Forever, office |-> office]}

OfficeOn(d) == {a.office : a \in {x \in assignments : Contains(x, d)}}

-----------------------------------------------------------------------------
(* Nobody's rows, or those of an employee already tracked.                 *)
EnrolmentInit ==
  /\ today = 1
  /\ hour = 0
  /\ \/ enrolments = {} /\ assignments = {}
     \/ \E office \in Offices :
          /\ enrolments = Enrolled({}, 1, 0)
          /\ assignments = Placed({}, 1, office)
  /\ edits = 0

Edit == edits < MaxEdits /\ edits' = edits + 1

(* Enable, move the start or re-enable: a past date is today.              *)
SetEnrolment(c, start, office) ==
  /\ start >= c.day
  /\ enrolments' =
       Enrolled(enrolments, start, IF start = c.day THEN c.hour ELSE 0)
  /\ assignments' = Placed(assignments, start, office)
  /\ Committable(enrolments', assignments')

(* Another office from a date on, tomorrow once today has a check-in.      *)
EffectiveFrom(c, date, checkedIn) ==
  IF date = c.day /\ checkedIn THEN date + 1 ELSE date

ReassignOffice(c, date, office, checkedIn) ==
  LET start == EffectiveFrom(c, date, checkedIn) IN
  /\ date >= c.day
  /\ \E e \in enrolments : Contains(e, start)
  /\ assignments' = Placed(assignments, start, office)
  /\ Committable(enrolments, assignments')
  /\ UNCHANGED enrolments

DisableEnrolment(c, date) ==
  /\ date >= c.day
  /\ enrolments' = Clip(enrolments, date)
  /\ assignments' = Clip(assignments, date)
  /\ Committable(enrolments', assignments')

Tick ==
  \/ /\ hour < LastHour
     /\ hour' = hour + 1
     /\ UNCHANGED today
  \/ /\ hour = LastHour
     /\ today < LastDay
     /\ today' = today + 1
     /\ hour' = 0

-----------------------------------------------------------------------------
(* No enable and no disable is ever refused by the guard, whatever the     *)
(* rows earlier calls left behind and whichever date is chosen: the owner  *)
(* cannot be locked out of the lifecycle.                                  *)
EnableDisableFit ==
  \A date \in Days :
    /\ Committable(Clip(enrolments, date), Clip(assignments, date))
    /\ \A office \in Offices :
         Committable(Enrolled(enrolments, date, 0),
                     Placed(assignments, date, office))

=============================================================================
