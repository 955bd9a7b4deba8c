------------------------------ MODULE DayContext ------------------------------
(***************************************************************************)
(* The facts of a member's day - tracked, office, rule, weekly offs - as   *)
(* the program reads them: the day context of a check-in asks for the rows *)
(* that cover one date; the grid behind the calendar, the Today screen and *)
(* the reports asks for the rows that overlap a span and picks per date;   *)
(* leave does so for one span or for all the spans of a page; the summary  *)
(* of the member's own Today screen reads the access view first and then   *)
(* each table whole, every statement at a moment of its own.  Setup turns  *)
(* tracking on; its gates look at the same rows.                           *)
(***************************************************************************)
EXTENDS Offices, WeeklyOffs, FiniteSetsExt

CONSTANT Wizards         \* calls of the setup wizard

VARIABLES settings,      \* attendance_settings: none, started or completed
          wizard,        \* what each wizard call read before it acts
          reading        \* one call of the summary
contextVars == <<settings, wizard, reading>>

None == "none"
Unread == [at |-> "idle"]

ASSUME ContextAssumption == None \notin Offices

ContextInit ==
  /\ settings \in {"none", "started", "completed"}
  /\ wizard = [w \in Wizards |-> None]
  /\ reading = Unread

-----------------------------------------------------------------------------
(* The member of a set that has one, None of an empty set.                 *)
OneOf(S) == IF S = {} THEN None ELSE CHOOSE x \in S : TRUE

(* Mutant: the span's last day is left out.                                *)
OverlappingOpen(rows, from, to) == {r \in rows : r.from < to /\ from < r.till}

(* The rows a span asks for, both its ends included.                       *)
Overlapping(rows, from, to) == {r \in rows : r.from <= to /\ from < r.till}

(* The one row that covers the date, whatever its present end: its start   *)
(* and its rule.                                                           *)
pickRuleForDate(rows, d) ==
  {<<r.from, r.rule>> : r \in {x \in rows : Contains(x, d)}}

(* The member's override replaces the company's days, also an empty one.   *)
pickWeeklyOffDays(ovr, defs, d) ==
  LET days == IF DaysOn(ovr, d) # Absent THEN DaysOn(ovr, d) ELSE DaysOn(defs, d)
  IN IF days = Absent THEN NoDays ELSE days

Facts(enrolled, office, rule, offs) ==
  [tracked |-> enrolled /\ settings = "completed",
   office |-> office, rule |-> rule, offs |-> offs]

(* The day context of one date.                                            *)
buildDayContext(d) ==
  LET office == OneOf(OfficeOn(d)) IN
  Facts(\E e \in enrolments : Contains(e, d), office,
        IF office = None THEN {} ELSE pickRuleForDate(rules[office], d),
        pickWeeklyOffDays({o \in overrides : Contains(o, d)},
                          {o \in defaults : Contains(o, d)}, d))

(* One date of the grid of a span: the rules are those of every office the *)
(* span meets.                                                             *)
GridFacts(from, to, d) ==
  LET legs == Overlapping(assignments, from, to)
      read == [o \in {a.office : a \in legs} |->
                 Overlapping(rules[o], from, to)]
      office == OneOf({a.office : a \in {x \in legs : Contains(x, d)}})
  IN Facts(\E e \in Overlapping(enrolments, from, to) : Contains(e, d), office,
           IF office = None THEN {} ELSE pickRuleForDate(read[office], d),
           pickWeeklyOffDays(Overlapping(overrides, from, to),
                             Overlapping(defaults, from, to), d))

(* A date of a leave span, or of the one span that a page of requests asks *)
(* for, from its first date to its last: only the weekly offs.             *)
SpanOffs(from, to, d) ==
  pickWeeklyOffDays(Overlapping(overrides, from, to),
                    Overlapping(defaults, from, to), d)

-----------------------------------------------------------------------------
(* The access view: the period that covers the day, else the next one, and *)
(* the office of that day, named only while it is live.                    *)
Access(day) ==
  LET current == {e \in enrolments : Contains(e, day)}
      next == {e \in enrolments : e.from > day}
      past == {e \in enrolments : e.till <= day}
      anchor == IF current = {} /\ next # {} THEN Min({e.from : e \in next})
                ELSE day
      state == IF settings # "completed" THEN "none"
               ELSE IF current # {} THEN "active"
               ELSE IF next # {} THEN "upcoming"
               ELSE IF past # {} THEN "history_only" ELSE "none"
  IN [state |-> state, anchor |-> anchor, office |-> OneOf(OfficeOn(anchor)),
      ended |-> IF current = {} /\ next = {} /\ past # {}
                THEN Max({e.till : e \in past}) - 1 ELSE 0]

Summarisable(row) == row.state \in {"active", "upcoming"}

(* What the summary makes of its rows: nothing, or one answer.             *)
Summarised(row, anchor, ruleRows, ovr, defs) ==
  IF ~Summarisable(row) THEN {}
  ELSE {[row |-> row, anchor |-> anchor,
         rule |-> pickRuleForDate(ruleRows, anchor),
         offs |-> pickWeeklyOffDays(ovr, defs, anchor)]}

RulesOf(row) == IF row.office = None THEN {} ELSE rules[row.office]

(* A summary whose every statement saw the same moment.                    *)
SummaryAt(day) ==
  LET row == Access(day)
  IN Summarised(row, row.anchor, RulesOf(row), overrides, defaults)

(* The access row; a member neither active nor upcoming is told nothing.   *)
ReadAccess ==
  /\ reading.at = "idle"
  /\ reading' = [at |-> IF Summarisable(Access(today)) THEN "row" ELSE "told",
                 row |-> Access(today), anchor |-> 0,
                 left |-> {"rules", "overrides", "defaults"},
                 rows |-> [rules |-> {}, overrides |-> {}, defaults |-> {}],
                 changes |-> 0, crossed |-> FALSE,
                 first |-> SummaryAt(today), last |-> {}, told |-> {}]
  /\ UNCHANGED <<settings, wizard>>

(* The day of the rest, asked of the clock again for an active member.     *)
ReadAnchor ==
  /\ reading.at = "row"
  /\ reading' = [reading EXCEPT
       !.at = "anchored",
       !.anchor = IF reading.row.state = "upcoming" THEN reading.row.anchor
                  ELSE today]
  /\ UNCHANGED <<settings, wizard>>

(* Each table whole, in the order the requests arrive.                     *)
ReadTable(table) ==
  /\ reading.at = "anchored"
  /\ table \in reading.left
  /\ reading' = [reading EXCEPT
       !.left = @ \ {table},
       !.rows[table] = CASE table = "rules" -> RulesOf(reading.row)
                         [] table = "overrides" -> overrides
                         [] table = "defaults" -> defaults]
  /\ UNCHANGED <<settings, wizard>>

(* The answer, once all of them have arrived.                              *)
getSummary ==
  /\ reading.at = "anchored"
  /\ reading.left = {}
  /\ reading' = [reading EXCEPT
       !.at = "told",
       !.rows = [rules |-> {}, overrides |-> {}, defaults |-> {}],
       !.last = SummaryAt(today),
       !.told = Summarised(reading.row, reading.anchor, reading.rows.rules,
                           reading.rows.overrides, reading.rows.defaults)]
  /\ UNCHANGED <<settings, wizard>>

-----------------------------------------------------------------------------
(* The wizard's calls look at the settings row, then act.                  *)
LooksAtSetup(w, kind) ==
  /\ wizard[w] = None
  /\ settings # "completed"
  /\ kind = "complete" => settings # "none"
  /\ wizard' = [wizard EXCEPT ![w] = kind]
  /\ UNCHANGED <<settings, reading>>

(* The rows of a setup that was never started; a second start changes      *)
(* nothing.                                                                *)
startSetup(w) ==
  /\ wizard[w] = "start"
  /\ wizard' = [wizard EXCEPT ![w] = None]
  /\ settings' = IF settings = "none" THEN "started" ELSE settings
  /\ UNCHANGED reading

(* The gates: a live office, the member tracked today at a live one, and a *)
(* rule for today at every live office.                                    *)
SetupReady(day) ==
  /\ \E o \in Offices : Live(o)
  /\ Tracked
  /\ \E e \in enrolments, a \in assignments :
       Contains(e, day) /\ Contains(a, day) /\ Live(a.office)
  /\ \A o \in Offices : Live(o) => \E r \in rules[o] : Contains(r, day)

completeSetup(c, w) ==
  /\ wizard[w] = "complete"
  /\ wizard' = [wizard EXCEPT ![w] = None]
  /\ settings' = IF settings = "started" /\ SetupReady(c.day) THEN "completed"
                 ELSE settings
  /\ UNCHANGED reading

-----------------------------------------------------------------------------
(* What else happens while a summary is being read.                        *)
Meanwhile ==
  reading' = IF reading.at \in {"row", "anchored"}
             THEN [reading EXCEPT
                     !.changes = IF today' = today /\ hour' = hour
                                 THEN Min({@ + 1, 2}) ELSE @,
                     !.crossed = @ \/ today' # today]
             ELSE reading

ContextNext ==
  \/ /\ ReadAccess \/ ReadAnchor \/ getSummary
        \/ \E table \in {"rules", "overrides", "defaults"} : ReadTable(table)
     /\ UNCHANGED <<clock, periods, edits, officeVars, weeklyVars>>
  \/ /\ \E w \in Wizards :
          \/ \E kind \in {"start", "complete"} : LooksAtSetup(w, kind)
          \/ startSetup(w)
          \/ \E c \in Clocks : completeSetup(c, w)
     /\ UNCHANGED <<clock, periods, edits, officeVars, weeklyVars>>
  \/ /\ OfficesNext
     /\ Meanwhile
     /\ UNCHANGED <<weeklyVars, settings, wizard>>
  \/ /\ \E c \in Clocks, date \in Days :
          \/ \E days \in DaySets :
               SetDefault(c, date, days) \/ SetOverride(c, date, days)
          \/ RemoveOverride(c, date)
     /\ Meanwhile
     /\ UNCHANGED <<officeVars, settings, wizard>>

ContextSpec ==
  /\ OfficesInit /\ WeeklyInit /\ ContextInit
  /\ [][ContextNext]_<<clock, periods, edits, officeVars, weeklyVars, contextVars>>

-----------------------------------------------------------------------------
(* Every reader tells the same of a day, whatever rows the calls left and  *)
(* whatever span or page the day is read with: a rule, an office or a      *)
(* weekly off that only starts or ends inside the span never leaks.        *)
FactsAgree ==
  \A d \in Days :
    LET facts == buildDayContext(d) IN
    \A from \in 1..d, to \in d..LastDay :
      /\ GridFacts(from, to, d) = facts
      /\ SpanOffs(from, to, d) = facts.offs

(* The member's own screen agrees with the context of its day unless the   *)
(* calls of the owner or midnight came between its statements: one change  *)
(* alone leaves it as it was before or as it is after, and even then the   *)
(* rule is one of the office shown.                                        *)
SummaryHolds ==
  reading.at = "told" =>
    /\ ~reading.crossed => /\ reading.changes = 0 => reading.told = reading.first
                           /\ reading.changes <= 1 =>
                                reading.told \in {reading.first, reading.last}
    /\ \A t \in reading.told : t.row.office # None => t.rule # {}

(* The summary, read at one moment, is the context of its day, and a       *)
(* member is tracked exactly while the view calls them active; a tracked   *)
(* day always has an office and a rule.                                    *)
ViewMatchesContext ==
  LET row == Access(today)
      facts == buildDayContext(row.anchor)
  IN /\ (row.state = "active") = buildDayContext(today).tracked
     /\ \A told \in SummaryAt(today) :
          /\ facts.tracked
          /\ facts.office # None /\ facts.rule # {}
          /\ <<told.row.office, told.rule, told.offs>>
               = <<facts.office, facts.rule, facts.offs>>
     /\ row.state = "history_only" =>
          \E e \in enrolments : Contains(e, row.ended) /\ row.ended < today

(* Whoever asks, and in however many statements, a day has one set of      *)
(* facts.  (A summary under way changes no row: the rows of a day are      *)
(* looked at before it.)                                                   *)
ReadersAgree ==
  /\ reading.at = "idle" => FactsAgree /\ ViewMatchesContext
  /\ SummaryHolds
=============================================================================
