----------------------------- MODULE LeaveReads -----------------------------
(* What the leave screens say about the requests of module AttendanceDays:   *)
(* the status a list derives from a request's days, the answer to "may I     *)
(* apply for these days", and the days a cancel or a revoke would take, shown *)
(* before it is asked for (attendance/leave-read.service.ts).  None of it is *)
(* stored, so the question is what an answer is still worth when the action  *)
(* comes after it.                                                           *)
EXTENDS AttendanceDays

(* The state of a day's row, by the cause that module AttendanceDays keeps.  *)
StateOf(x) ==
  CASE x = "owner_revoke" -> "revoked"
    [] x \in {"employee_cancel", "checkin_auto_cancel", "disable"} -> "cancelled"
    [] OTHER -> x

StatesOf(r) == {StateOf(leave[r][d]) : d \in {x \in Days : leave[r][x] # "none"}}

Filed(r) == StatesOf(r) # {}

(* Mutant: a request reads as cancelled once one of its days is. *)
CancelledFirst(r) ==
  IF "pending" \in StatesOf(r) THEN "pending"
  ELSE IF "revoked" \in StatesOf(r) THEN "revoked"
  ELSE IF "cancelled" \in StatesOf(r) THEN "cancelled"
  ELSE IF "approved" \in StatesOf(r) THEN "approved" ELSE "rejected"

(* DERIVED_STATUS_ORDER: the first state any day is in.  The list's filter   *)
(* is generated from the same order.                                         *)
deriveLeaveStatus(r) ==
  IF "pending" \in StatesOf(r) THEN "pending"
  ELSE IF "approved" \in StatesOf(r) THEN "approved"
  ELSE IF "revoked" \in StatesOf(r) THEN "revoked"
  ELSE IF "cancelled" \in StatesOf(r) THEN "cancelled" ELSE "rejected"

listLeave(status) == {r \in Requests : Filed(r) /\ deriveLeaveStatus(r) = status}

(* The days of a span that would be worked.                                  *)
WorkingDays(dates) == dates \ holidays

(* A request as a screen shows it; every day of it counts, whatever became   *)
(* of it.                                                                    *)
View(r) ==
  LET dates == {d \in Days : leave[r][d] # "none"}
  IN  [status |-> deriveLeaveStatus(r), working |-> WorkingDays(dates), days |-> dates]

(* The rejections of an application, in the order they are reported; the     *)
(* checks of an action are these too.                                        *)
Refused(c, first, last, p) ==
  LET span == first..last
      covering == {e \in enrolments : Contains(e, c.day)}
      upcoming == {e \in enrolments : e.from > c.day}
      floors == {e.from : e \in IF covering # {} THEN covering ELSE upcoming}
  IN  IF last < first \/ (p = "half_day" /\ first # last) THEN "invalid_range"
      ELSE IF floors = {} THEN "not_tracked"
      ELSE IF \A f \in floors : first < f THEN "before_start"
      ELSE IF first < c.day - MaxPast THEN "too_old"
      ELSE IF \E d \in span : d <= c.day /\ record[d] # "none" THEN "checked_in"
      ELSE IF WorkingDays(span) = {} THEN "already_off"
      ELSE IF \E d \in span : override[d] \notin {"none", "absent"} THEN "corrected"
      ELSE IF Overlapping(span) THEN "overlap" ELSE "none"

previewApply(c, first, last, p) ==
  LET why == Refused(c, first, last, p)
  IN  IF why # "none" THEN [ok |-> FALSE, why |-> why, working |-> {}]
      ELSE [ok |-> TRUE, why |-> why, working |-> WorkingDays(first..last)]

(* What a cancel or a revoke would take, and what it would keep and why.     *)
SourceStates(action) == IF action = "revoke" THEN {"approved"} ELSE ActiveStates

Takes(r, c, action) == Actionable(r, c, SourceStates(action))
Keeps(r, c, action) ==
  {d \in Days : leave[r][d] \in SourceStates(action)} \ Takes(r, c, action)

previewAction(r, c, action) ==
  [takes |-> Takes(r, c, action),
   past |-> {d \in Keeps(r, c, action) : d < c.day},
   cutoff |-> {d \in Keeps(r, c, action) : d = c.day},
   view |-> View(r)]

Now == [day |-> today, hour |-> hour]

-----------------------------------------------------------------------------
(* The owner's queue, which is the list of pending requests, holds exactly   *)
(* the requests an approval or a rejection still acts on; a request reads as *)
(* approved exactly while it still keeps somebody on leave and waits for     *)
(* nothing; and one that reads as rejected never had another end.            *)
StatusTells ==
  /\ listLeave("pending") = {r \in Requests : PendingDays(r) # {}}
  /\ listLeave("approved") =
       {r \in Requests : PendingDays(r) = {} /\ \E d \in Days : leave[r][d] = "approved"}
  /\ \A r \in listLeave("rejected") : StatesOf(r) = {"rejected"}

(* A preview of an application is right about the application asked for the  *)
(* moment after, and one it refuses would be refused.                        *)
ApplyPreviewHolds ==
  \A first, last \in Days, p \in Parts :
    LET shown == previewApply(Now, first, last, p)
    IN  shown.ok <=> /\ first <= last
                     /\ p = "half_day" => first = last
                     /\ Applicable(Now, first..last, first)

(* What a preview of a cancel or a revoke showed stays what the action does, *)
(* whatever else is called in between: a day it kept is taken later only if  *)
(* an approval made it one of the action's, or the office of the very day    *)
(* became another; and a day it takes is kept only if another call took it,  *)
(* if its morning came, or if its office became another.  A revoke takes the *)
(* approved ones of a cancel's days.                                         *)
PreviewAges(r) ==
  LET before == Takes(r, Now, "cancel")
      after == Takes(r, Now, "cancel")'
      moved(d) == leave'[r][d] # leave[r][d]
      replaced(d) == d = today' /\ OfficeStart(d)' # OfficeStart(d)
  IN  /\ \A d \in after \ before : moved(d) \/ replaced(d)
      /\ \A d \in before \ after : moved(d) \/ replaced(d) \/ clock' # clock

(* Every step of the program ages every request's preview in those ways     *)
(* only.                                                                     *)
PreviewsStayTrue == [][\A r \in Requests : PreviewAges(r)]_vars

(* What the leave screens tell holds now.                                    *)
LeaveToldHolds == StatusTells /\ ApplyPreviewHolds
=============================================================================
