------------------------------- MODULE Offices -------------------------------
(***************************************************************************)
(* The offices of a company, the pin and the effective-dated rules of each *)
(* and one member's place in them: created with a rule open from today,    *)
(* edited from tomorrow on, archived once no tracked member is assigned.   *)
(*                                                                         *)
(* A rule edit and an archive hold the tenant lock alone, an enrolment     *)
(* change shares it and locks the employee: each transaction is one step,  *)
(* with the clock of its BEGIN (Enrolments!Clocks).  Creating saves the    *)
(* address of the pin in a second transaction, an edit sends its timings   *)
(* in one; either may be lost with the process.                            *)
(***************************************************************************)
EXTENDS Enrolments, FiniteSets

CONSTANTS Rules,         \* the timings an office may have
          Pins           \* the places on the map

VARIABLES known,         \* the day each office appeared, 0 before
          archived,      \* the offices with archived_at
          rules,         \* per office, rows [from, till, rule]
          pin, address,  \* where each office is; the pin its address names
          pending,       \* second transactions of calls still running
          joined,        \* the member's membership is active, else invited
          disabled,      \* users.disabled
          bypassed       \* history: the archives that found the member
                         \* assigned there but not tracked

placeVars == <<pin, address, pending>>
memberVars == <<joined, disabled>>
officeVars == <<known, archived, rules, placeVars, memberVars, bypassed>>

NoPin == "none"

Live(office) == known[office] > 0 /\ office \notin archived

Tracked == joined /\ ~disabled

OfficesInit ==
  /\ EnrolmentInit
  /\ known \in [Offices -> {0, 1}]
  /\ \A a \in assignments : known[a.office] = 1
  /\ archived = {}
  /\ \E rule \in Rules :
       rules = [o \in Offices |->
                  IF known[o] = 1
                  THEN {[from |-> 1, till |-> Forever, rule |-> rule]} ELSE {}]
  /\ pin \in {[o \in Offices |-> p] : p \in Pins}
  /\ address = [o \in Offices |-> NoPin]
  /\ pending = {}
  /\ joined \in BOOLEAN
  /\ disabled = FALSE
  /\ bypassed = {}

-----------------------------------------------------------------------------
(* An office and its first rule, open from today; its address, if one was  *)
(* resolved, follows.                                                      *)
CreateOffice(c, office, place, rule) ==
  /\ Edit
  /\ known[office] = 0
  /\ known' = [known EXCEPT ![office] = today]
  /\ rules' = [rules EXCEPT
       ![office] = {[from |-> c.day, till |-> Forever, rule |-> rule]}]
  /\ pin' = [pin EXCEPT ![office] = place]
  /\ pending' \in {pending, pending \cup {<<"address", office, place>>}}
  /\ UNCHANGED <<clock, periods, archived, address, memberVars, bypassed>>

(* Only a live office still on the pin takes the address.                  *)
SaveCreateAddress(office, place) ==
  /\ <<"address", office, place>> \in pending
  /\ pending' = pending \ {<<"address", office, place>>}
  /\ address' = [address EXCEPT
       ![office] = IF Live(office) /\ pin[office] = place THEN place ELSE @]
  /\ UNCHANGED <<clock, periods, edits, known, archived, rules, pin, memberVars,
                 bypassed>>

(* The profile, guarded by archived_at, then perhaps the timings; a pin    *)
(* that moves without an address clears the old one.                       *)
UpdateOffice(office, place, named, withRules) ==
  /\ Edit
  /\ known[office] > 0
  /\ place # NoPin \/ withRules
  /\ place # NoPin => Live(office)
  /\ pin' = IF place = NoPin THEN pin ELSE [pin EXCEPT ![office] = place]
  /\ address' = IF place = NoPin THEN address
                ELSE [address EXCEPT ![office] = IF named THEN place ELSE NoPin]
  /\ pending' = IF withRules THEN pending \cup {<<"rules", office, today>>}
                ELSE pending
  /\ UNCHANGED <<clock, periods, known, archived, rules, memberVars, bypassed>>

(* Mutant: the new rule starts a day after the old one was cut.            *)
RuledFromLate(rows, date, rule) ==
  Clip(rows, date) \cup {[from |-> date + 1, till |-> Forever, rule |-> rule]}

(* Later rules go, the covering one is cut, the new one is open-ended.     *)
RuledFrom(rows, date, rule) ==
  Clip(rows, date) \cup {[from |-> date, till |-> Forever, rule |-> rule]}

(* The timings change from tomorrow; an office archived since the profile  *)
(* was saved refuses them.                                                 *)
UpdateRules(c, office, sent, rule) ==
  /\ <<"rules", office, sent>> \in pending
  /\ c.day >= sent
  /\ c.day + 1 < Forever
  /\ pending' = pending \ {<<"rules", office, sent>>}
  /\ rules' = IF Live(office)
              THEN [rules EXCEPT ![office] = RuledFrom(@, c.day + 1, rule)]
              ELSE rules
  /\ UNCHANGED <<clock, periods, edits, known, archived, pin, address,
                 memberVars, bypassed>>

(* The process stops before a second transaction.                          *)
Crash ==
  /\ pending # {}
  /\ pending' = {}
  /\ UNCHANGED <<clock, periods, edits, known, archived, rules, pin, address,
                 memberVars, bypassed>>

(* The assignments at an office that outlast a day.                        *)
Outlasting(office, day) ==
  {a \in assignments : a.office = office /\ a.till > day
                       /\ \E e \in enrolments : Contains(e, a.from)}

(* Who blocks an archive: only members who are active and not disabled.    *)
Blockers(office, day) == IF Tracked THEN Outlasting(office, day) ELSE {}

ArchiveOffice(c, office) ==
  /\ Edit
  /\ Live(office)
  /\ c.day >= known[office]
  /\ Blockers(office, c.day) = {}
  /\ archived' = archived \cup {office}
  /\ bypassed' = IF Tracked \/ Outlasting(office, c.day) = {} THEN bypassed
                 ELSE bypassed \cup {office}
  /\ UNCHANGED <<clock, periods, known, rules, placeVars, memberVars>>

-----------------------------------------------------------------------------
(* The enrolment calls take any member who was not removed, and only a     *)
(* live office; their caller has seen the office.                          *)
Assigns(c, office) == Live(office) /\ c.day >= known[office]

EnrolMember ==
  /\ Edit
  /\ \E c \in Clocks, start \in Days, office \in Offices :
       Assigns(c, office) /\ SetEnrolment(c, start, office)
  /\ UNCHANGED <<clock, officeVars>>

MoveMember ==
  /\ Edit
  /\ \E c \in Clocks, date \in Days, office \in Offices, checkedIn \in BOOLEAN :
       Assigns(c, office) /\ ReassignOffice(c, date, office, checkedIn)
  /\ UNCHANGED <<clock, officeVars>>

StopMember ==
  /\ Edit
  /\ \E c \in Clocks, date \in Days : DisableEnrolment(c, date)
  /\ UNCHANGED <<clock, officeVars>>

(* The first login of an invited member, and the operator's switch.        *)
Join ==
  /\ ~joined /\ ~disabled
  /\ joined' = TRUE
  /\ UNCHANGED <<clock, periods, edits, known, archived, rules, placeVars,
                 disabled, bypassed>>

SetDisabled ==
  /\ Edit
  /\ disabled' = ~disabled
  /\ UNCHANGED <<clock, periods, known, archived, rules, placeVars, joined,
                 bypassed>>

OfficesNext ==
  \/ \E c \in Clocks, office \in Offices :
       \/ \E place \in Pins, rule \in Rules : CreateOffice(c, office, place, rule)
       \/ \E sent \in Days, rule \in Rules : UpdateRules(c, office, sent, rule)
       \/ ArchiveOffice(c, office)
  \/ \E office \in Offices, place \in Pins : SaveCreateAddress(office, place)
  \/ \E office \in Offices, place \in Pins \cup {NoPin}, named \in BOOLEAN,
        withRules \in BOOLEAN : UpdateOffice(office, place, named, withRules)
  \/ Crash
  \/ EnrolMember \/ MoveMember \/ StopMember \/ Join \/ SetDisabled
  \/ Tick /\ UNCHANGED <<periods, edits, officeVars>>

placesVars == <<clock, periods, edits, officeVars>>

OfficesSpec == OfficesInit /\ [][OfficesNext]_placesVars

-----------------------------------------------------------------------------
(* What the list of offices shows: the rule in force and the next one.     *)
OfficeView(office, day) ==
  LET future == {r \in rules[office] : r.from > day} IN
  [rule |-> {r \in rules[office] : Contains(r, day)},
   nextRule |-> {r \in future : \A s \in future : r.from <= s.from}]

(* Every day an employee is assigned to an office is ruled by exactly one  *)
(* rule of that office, whatever the order of creations, edits and         *)
(* enrolments around midnight, and every office listed shows one.          *)
TrackedDaysHaveRule ==
  /\ \A a \in assignments, d \in Days :
       Contains(a, d) => Cardinality(OfficeView(a.office, d).rule) = 1
  /\ \A office \in Offices :
       known[office] > 0 =>
         \A d \in today..LastDay :
           /\ OfficeView(office, d).rule # {}
           /\ \A r \in OfficeView(office, d).rule, s \in rules[office] :
                r.till = s.from => OfficeView(office, d).nextRule = {s}

(* The address shown is that of the pin distances are measured from, also  *)
(* when the pin moves while its office is still being created.             *)
AddressNamesPin ==
  \A office \in Offices : address[office] \in {NoPin, pin[office]}

(* Nobody is left with a day to come at an archived office, except a       *)
(* member who was invited or disabled when it was archived: the archive    *)
(* does not see them, and they come back to an office nobody manages.      *)
ArchivedOnlyBypassed ==
  \A a \in assignments :
    (a.office \in archived /\ a.till > today) => a.office \in bypassed

(* An office serves those assigned to it: a rule for every day, an address *)
(* that names its pin, and no archive but past the people it cannot see.   *)
OfficesServe == TrackedDaysHaveRule /\ AddressNamesPin /\ ArchivedOnlyBypassed

=============================================================================
