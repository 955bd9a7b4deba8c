---------------------------- MODULE AttendanceDays ----------------------------
(***************************************************************************)
(* One employee's attendance days: the check-in record, the owner's        *)
(* correction, the leave requests that cover the day, the holidays, and    *)
(* what the status ladder credits for them, on top of the enrolment rows.  *)
(*                                                                         *)
(* No row says what a day is worth; the ladder derives it whenever it is   *)
(* read.  So the question is whether the calls, each correct on its own,   *)
(* leave the rows in a combination the ladder reads as intended.           *)
(***************************************************************************)
EXTENDS Enrolments

CONSTANTS Requests,  \* the leave requests that may be filed
          MaxPast    \* LEAVE_MAX_PAST_DAYS

ASSUME LeaveAssumption == MaxPast \in Nat

VARIABLES
  holidays,   \* the off days
  record,     \* per day: no check-in, checked in, checked out
  override,   \* per day: the active correction
  leave,      \* per request and day: leave_request_days.state, cancelled
              \* split by the cause that its leave_events row names
  part,       \* per request: full_day or half_day
  notice,     \* per request and repeatable event: the dates its one
              \* notification names
  gated,      \* history: days whose check-in passed the leave gate
  filedLate   \* history: requests filed with the clock of an earlier day

leaveVars == <<leave, part, notice, filedLate>>
dayVars == <<holidays, record, override, gated>>
vars == <<clock, periods, edits, dayVars, leaveVars>>

-----------------------------------------------------------------------------
Causes == {"owner_revoke", "employee_cancel", "checkin_auto_cancel", "disable"}

LeaveStates == {"none", "pending", "approved", "rejected"} \cup Causes

ActiveStates == {"pending", "approved"}

(* The causes whose dedupe key can come up twice for one request.          *)
Repeatable == {"owner_revoke", "employee_cancel", "disable"}

Records == {"none", "in", "out"}
(* A correction states a status (present and half_day both as "worked") or *)
(* times: a check-in alone or both.                                        *)
TimesOnly == {"checkin", "times"}
Overrides == {"none", "absent", "worked"} \cup TimesOnly
Parts == {"full_day", "half_day"}

Init ==
  /\ EnrolmentInit
  /\ holidays = {}
  /\ record = [d \in Days |-> "none"]
  /\ override = [d \in Days |-> "none"]
  /\ leave = [r \in Requests |-> [d \in Days |-> "none"]]
  /\ part = [r \in Requests |-> "full_day"]
  /\ notice = [r \in Requests |-> [event \in Repeatable |-> {}]]
  /\ gated = {}
  /\ filedLate = {}

-----------------------------------------------------------------------------
(* The day context and the status ladder.                                  *)

CheckedIn(d) == record[d] # "none" \/ override[d] \in TimesOnly
CheckedOut(d) == record[d] = "out" \/ override[d] = "times"

OfficeStart(d) == {StartHour[o] : o \in OfficeOn(d)}

(* Enrolled that day and, on the day tracking began, before office start   *)
(* or with a check-in.                                                     *)
Tracked(d, hasCheckIn) ==
  \E e \in enrolments :
    /\ Contains(e, d)
    /\ \/ hasCheckIn
       \/ e.from # d
       \/ \A start \in OfficeStart(d) : e.at <= start

StatusTracked(d) ==
  override[d] \in {"absent", "worked"} \/ Tracked(d, CheckedIn(d))

ActiveOn(d) == {r \in Requests : leave[r][d] \in ActiveStates}

ApprovedOn(d, p) ==
  \E r \in Requests : leave[r][d] = "approved" /\ part[r] = p

(* Mutant: the rule forgets the check-in.                                  *)
OnLeaveRegardless(d) == ApprovedOn(d, "full_day")

(* An approved full day of leave counts while nobody checked in.           *)
OnLeave(d) == ApprovedOn(d, "full_day") /\ ~CheckedIn(d)

(* Half days credited, by kind.                                            *)
Earn(worked, onLeave, off) == [worked |-> worked, leave |-> onLeave, off |-> off]
Nothing == Earn(0, 0, 0)

Credit(d) ==
  IF override[d] = "worked" THEN Earn(2, 0, 0)
  ELSE IF override[d] = "absent" \/ ~StatusTracked(d) THEN Nothing
  ELSE IF d \in holidays THEN IF CheckedOut(d) THEN Earn(0, 0, 2) ELSE Nothing
  ELSE IF OnLeave(d) THEN Earn(0, 2, 0)
  ELSE IF ApprovedOn(d, "half_day") /\ ~(d >= today /\ CheckedIn(d) /\ ~CheckedOut(d))
  THEN Earn(IF CheckedOut(d) THEN 1 ELSE 0, 1, 0)
  ELSE IF CheckedOut(d) THEN Earn(2, 0, 0) ELSE Nothing

-----------------------------------------------------------------------------
(* Leave.                                                                  *)

(* ON CONFLICT (dedupe_key) DO NOTHING: the first notice stays.            *)
Tell(r, event, dates) ==
  IF notice[r][event] = {}
  THEN [notice EXCEPT ![r] = [notice[r] EXCEPT ![event] = dates]] ELSE notice

Move(r, dates, state) ==
  [leave EXCEPT ![r] = [d \in Days |-> IF d \in dates THEN state ELSE leave[r][d]]]

(* Mutant: every day of the request is actionable.                         *)
ActionableAnyDay(r, c, states) == {d \in Days : leave[r][d] \in states}

CutoffPassed(c) == \E start \in OfficeStart(c.day) : c.hour >= start

(* Mutant: the day over is open again, only today's cutoff is looked at.   *)
ActionableButToday(r, c, states) ==
  {d \in Days : leave[r][d] \in states /\ (d = c.day => ~CutoffPassed(c))}

(* The days of a request still open to a cancel or a revoke: the future    *)
(* ones, and today until the office opens.                                 *)
Actionable(r, c, states) ==
  {d \in Days : /\ leave[r][d] \in states
                /\ d > c.day \/ (d = c.day /\ ~CutoffPassed(c))}

(* Tracking starts no later than the span.                                 *)
FloorReached(c, first) ==
  LET covering == {e \in enrolments : Contains(e, c.day)}
      upcoming == {e \in enrolments : e.from > c.day}
  IN  \/ \E e \in covering : e.from <= first
      \/ covering = {} /\ \E e \in upcoming : e.from <= first

(* Mutant: the overlap probe looks for approved days only.                 *)
OverlappingApproved(span) ==
  \E r \in Requests, d \in span : leave[r][d] = "approved"

Overlapping(span) == \E d \in span : ActiveOn(d) # {}

Applicable(c, span, first) ==
  /\ FloorReached(c, first)
  /\ first >= c.day - MaxPast
  /\ \A d \in span : d <= c.day => record[d] = "none"
  /\ span \ holidays # {}
  /\ \A d \in span : override[d] \in {"none", "absent"}
  /\ ~Overlapping(span)

(* Filed by the employee, or on their behalf and then approved at once.    *)
Apply(r, c, first, last, p, state) ==
  /\ \A d \in Days : leave[r][d] = "none"
  /\ first <= last
  /\ p = "half_day" => first = last
  /\ Applicable(c, first..last, first)
  /\ leave' = Move(r, first..last, state)
  /\ part' = [part EXCEPT ![r] = p]
  /\ filedLate' = IF c.day < today THEN filedLate \cup {r} ELSE filedLate
  /\ UNCHANGED <<clock, periods, edits, dayVars, notice>>

PendingDays(r) == {d \in Days : leave[r][d] = "pending"}

(* Approve or reject: every pending day, whatever happened meanwhile.      *)
Decide(r, state) ==
  /\ PendingDays(r) # {}
  /\ leave' = Move(r, PendingDays(r), state)
  /\ UNCHANGED <<clock, periods, edits, dayVars, part, notice, filedLate>>

Withdraw(r, c, states, cause) ==
  LET dates == Actionable(r, c, states) IN
  /\ dates # {}
  /\ leave' = Move(r, dates, cause)
  /\ notice' = Tell(r, cause, dates)
  /\ UNCHANGED <<clock, periods, edits, dayVars, part, filedLate>>

Revoke(r, c) == Withdraw(r, c, {"approved"}, "owner_revoke")

Cancel(r, c) == Withdraw(r, c, ActiveStates, "employee_cancel")

-----------------------------------------------------------------------------
(* Check-in and check-out, past the location checks.                       *)

(* Mutant: pending leave does not yield.                                   *)
YieldingApproved(d) ==
  IF d \in holidays THEN {} ELSE {r \in ActiveOn(d) :
    part[r] = "full_day" /\ leave[r][d] = "approved"}

(* A full-day leave on a working day yields to a confirmed check-in.       *)
Yielding(d) ==
  IF d \in holidays THEN {} ELSE {r \in ActiveOn(d) : part[r] = "full_day"}

CheckIn(c) ==
  LET d == c.day IN
  /\ Tracked(d, TRUE)
  /\ record[d] = "none"
  /\ record' = [record EXCEPT ![d] = "in"]
  /\ leave' = [r \in Requests |-> [x \in Days |->
                 IF x = d /\ r \in Yielding(d)
                 THEN "checkin_auto_cancel" ELSE leave[r][x]]]
  /\ gated' = IF d \in holidays THEN gated ELSE gated \cup {d}
  /\ UNCHANGED <<clock, periods, edits, holidays, override, part, notice, filedLate>>

CheckOut(c) ==
  /\ Tracked(c.day, TRUE)
  /\ record[c.day] = "in"
  /\ record' = [record EXCEPT ![c.day] = "out"]
  /\ UNCHANGED <<clock, periods, edits, holidays, override, gated, leaveVars>>

-----------------------------------------------------------------------------
(* The owner.                                                              *)

Correct(c, d, value) ==
  /\ Edit
  /\ d <= c.day
  /\ StatusTracked(d)
  /\ override[d] # value
  /\ override' = [override EXCEPT ![d] = value]
  /\ UNCHANGED <<clock, periods, holidays, record, gated, leaveVars>>

ToggleHoliday(d) ==
  /\ Edit
  /\ holidays' = IF d \in holidays THEN holidays \ {d} ELSE holidays \cup {d}
  /\ UNCHANGED <<clock, periods, record, override, gated, leaveVars>>

(* Every pending day and every approved one from the date on.              *)
Swept(r, date) ==
  PendingDays(r) \cup {d \in Days : leave[r][d] = "approved" /\ d >= date}

Disable(c, date) ==
  /\ Edit
  /\ DisableEnrolment(c, date)
  /\ leave' = [r \in Requests |-> [d \in Days |->
                 IF d \in Swept(r, date) THEN "disable" ELSE leave[r][d]]]
  /\ notice' = [r \in Requests |-> Tell(r, "disable", Swept(r, date))[r]]
  /\ UNCHANGED <<clock, dayVars, part, filedLate>>

Enable(c, date, office) ==
  /\ Edit
  /\ SetEnrolment(c, date, office)
  /\ UNCHANGED <<clock, dayVars, leaveVars>>

Reassign(c, date, office) ==
  /\ Edit
  /\ ReassignOffice(c, date, office, record[c.day] # "none")
  /\ UNCHANGED <<clock, dayVars, leaveVars>>

PassTime ==
  /\ Tick
  /\ UNCHANGED <<periods, edits, dayVars, leaveVars>>

EmployeeActs(c) ==
  \/ CheckIn(c)
  \/ CheckOut(c)
  \/ \E r \in Requests :
       \/ Cancel(r, c)
       \/ \E first, last \in Days, p \in Parts : Apply(r, c, first, last, p, "pending")

OwnerActs(c) ==
  \/ \E r \in Requests :
       \/ Revoke(r, c)
       \/ Decide(r, "approved")
       \/ Decide(r, "rejected")
       \/ \E first, last \in Days, p \in Parts : Apply(r, c, first, last, p, "approved")
  \/ \E d \in Days :
       \/ \E value \in Overrides : Correct(c, d, value)
       \/ ToggleHoliday(d)
       \/ Disable(c, d)
       \/ \E office \in Offices : Enable(c, d, office) \/ Reassign(c, d, office)

Next ==
  \/ PassTime
  \/ \E c \in Clocks : EmployeeActs(c) \/ OwnerActs(c)

Spec == Init /\ [][Next]_vars

-----------------------------------------------------------------------------
(* Every variable keeps its shape, and no row is an empty range.           *)
TypeOK ==
  /\ today \in Days /\ hour \in Hours /\ edits \in 0..MaxEdits
  /\ \A e \in enrolments :
       e \in [from : Days, till : 2..Forever, at : Hours] /\ e.from < e.till
  /\ \A a \in assignments :
       a \in [from : Days, till : 2..Forever, office : Offices] /\ a.from < a.till
  /\ holidays \subseteq Days /\ gated \subseteq Days
  /\ record \in [Days -> Records] /\ override \in [Days -> Overrides]
  /\ leave \in [Requests -> [Days -> LeaveStates]]
  /\ part \in [Requests -> Parts] /\ filedLate \subseteq Requests
  /\ notice \in [Requests -> [Repeatable -> SUBSET Days]]

(* At most one request is active on a day: what the gate, the ladder and   *)
(* findActiveLeaveForDate's single row rely on.                            *)
OneActiveLeave == \A d \in Days : \A r, s \in ActiveOn(d) : r = s

(* A working day with a check-in carries no full-day leave, unless the     *)
(* request was filed with the clock of the day before: apply looks for     *)
(* check-ins only up to that clock's today.                                *)
OnlyLateCallsDoubleBook ==
  \A r \in Requests, d \in gated :
    leave[r][d] \in ActiveStates /\ part[r] = "full_day" => r \in filedLate

(* A day worked to the end stays credited as work, through every leave     *)
(* decision, holiday and office change, until the owner corrects it or     *)
(* ends its tracking.                                                      *)
WorkNeverLost ==
  \A d \in Days :
    record[d] = "out" /\ override[d] = "none" /\ StatusTracked(d) =>
      Credit(d).worked + Credit(d).off > 0

(* The credit of a day no call can still take for today changes only by a  *)
(* correction, a holiday edit or a late approval: no cancel, revoke,       *)
(* check-in, disable, reassignment or re-enable reaches into the past.     *)
PastSettled ==
  [][\A d \in Days :
       Settled(d) /\ Credit(d)' # Credit(d) =>
         \/ override'[d] # override[d]
         \/ (d \in holidays) # (d \in holidays')
         \/ \E r \in Requests : leave'[r][d] = "approved" /\ leave[r][d] # "approved"]_vars

=============================================================================
