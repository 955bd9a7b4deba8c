-------------------------- MODULE AttendanceDaysProofs --------------------------
(***************************************************************************)
(* What TLAPS proves of the attendance days, and of what the leave screens *)
(* say of them, for any number of days, hours, offices, requests and owner *)
(* edits.                                                                  *)
(***************************************************************************)
EXTENDS LeaveReads, TLAPS

PeriodRow == [from : Days, till : 2..Forever, at : Hours]
LegRow == [from : Days, till : 2..Forever, office : Offices]

(* Ranges as the lemmas on plans need them, whatever else a row holds.     *)
Ranged(rows) ==
  \A r \in rows : r.from \in Int /\ r.till \in Int /\ r.from < r.till

(* x is what is left of r before the date.                                 *)
Cut(x, r, date) ==
  /\ r.from < date
  /\ x.from = r.from
  /\ x.till = IF r.till > date THEN date ELSE r.till

IsClip(kept, rows, date) ==
  /\ \A x \in kept : \E r \in rows : Cut(x, r, date)
  /\ \A r \in rows : r.from < date => \E x \in kept : Cut(x, r, date)
  /\ \A x, y \in kept : x # y =>
       \E r, s \in rows : r # s /\ Cut(x, r, date) /\ Cut(y, s, date)

-----------------------------------------------------------------------------
(***************************************************************************)
(* Lemmas about the AD-8 plan.                                             *)
(***************************************************************************)

LEMMA DaysInt ==
  /\ Days \subseteq Int
  /\ Forever \in Int
  /\ \A d \in Days : d < Forever /\ 1 <= d
  /\ 2..Forever \subseteq Int
BY EnrolmentAssumption DEF EnrolmentAssumption, Days, Forever

(* A clip of typed rows is typed, ranged, and cut row by row.              *)
LEMMA ClipPeriods ==
  ASSUME NEW rows \in SUBSET PeriodRow, Ranged(rows), NEW date \in Days
  PROVE  /\ Clip(rows, date) \subseteq PeriodRow
         /\ Ranged(Clip(rows, date))
         /\ IsClip(Clip(rows, date), rows, date)
<1> DEFINE Cropped(r) ==
         [r EXCEPT !.till = IF r.till > date THEN date ELSE r.till]
<1>1. ASSUME NEW r \in rows, r.from < date
      PROVE  /\ Cropped(r) \in PeriodRow
             /\ Cropped(r).from < Cropped(r).till
             /\ Cut(Cropped(r), r, date)
  <2>1. r \in PeriodRow /\ r.from < r.till
    BY DEF Ranged
  <2>2. /\ Cropped(r).from = r.from /\ Cropped(r).at = r.at
        /\ Cropped(r).till = IF r.till > date THEN date ELSE r.till
        /\ Cropped(r) = [from |-> r.from, at |-> r.at,
                      till |-> IF r.till > date THEN date ELSE r.till]
    BY <2>1 DEF PeriodRow
  <2>3. r.from \in Days /\ r.till \in 2..Forever
    BY <2>1 DEF PeriodRow
  <2>4. /\ r.from \in Int /\ r.till \in Int /\ date \in Int
        /\ (IF r.till > date THEN date ELSE r.till) \in 2..Forever
    BY <1>1, <2>3, DaysInt DEF Days, Forever
  <2> QED BY <1>1, <2>1, <2>2, <2>4 DEF PeriodRow, Cut
<1>2. Clip(rows, date) = {Cropped(r) : r \in {r \in rows : r.from < date}}
  BY DEF Clip
<1>3. Clip(rows, date) \subseteq PeriodRow
  BY <1>1, <1>2
<1>4. Ranged(Clip(rows, date))
  BY <1>1, <1>2, <1>3 DEF Ranged, PeriodRow
<1>5. \A x \in Clip(rows, date) : \E r \in rows : r.from < date /\ x = Cropped(r)
  BY <1>2
<1>6. \A r \in rows : r.from < date => Cropped(r) \in Clip(rows, date)
  BY <1>2
<1> HIDE DEF Cropped
<1>7. IsClip(Clip(rows, date), rows, date)
  <2>1. ASSUME NEW x \in Clip(rows, date), NEW y \in Clip(rows, date), x # y
        PROVE  \E r, s \in rows : r # s /\ Cut(x, r, date) /\ Cut(y, s, date)
    BY <1>1, <1>5, <2>1
  <2> QED BY <1>1, <1>5, <1>6, <2>1 DEF IsClip
<1> QED BY <1>3, <1>4, <1>7

LEMMA ClipLegs ==
  ASSUME NEW rows \in SUBSET LegRow, Ranged(rows), NEW date \in Days
  PROVE  /\ Clip(rows, date) \subseteq LegRow
         /\ Ranged(Clip(rows, date))
         /\ IsClip(Clip(rows, date), rows, date)
<1> DEFINE Cropped(r) ==
         [r EXCEPT !.till = IF r.till > date THEN date ELSE r.till]
<1>1. ASSUME NEW r \in rows, r.from < date
      PROVE  /\ Cropped(r) \in LegRow
             /\ Cropped(r).from < Cropped(r).till
             /\ Cut(Cropped(r), r, date)
  <2>1. r \in LegRow /\ r.from < r.till
    BY DEF Ranged
  <2>2. /\ Cropped(r).from = r.from /\ Cropped(r).office = r.office
        /\ Cropped(r).till = IF r.till > date THEN date ELSE r.till
        /\ Cropped(r) = [from |-> r.from, office |-> r.office,
                      till |-> IF r.till > date THEN date ELSE r.till]
    BY <2>1 DEF LegRow
  <2>3. r.from \in Days /\ r.till \in 2..Forever
    BY <2>1 DEF LegRow
  <2>4. /\ r.from \in Int /\ r.till \in Int /\ date \in Int
        /\ (IF r.till > date THEN date ELSE r.till) \in 2..Forever
    BY <1>1, <2>3, DaysInt DEF Days, Forever
  <2> QED BY <1>1, <2>1, <2>2, <2>4 DEF LegRow, Cut
<1>2. Clip(rows, date) = {Cropped(r) : r \in {r \in rows : r.from < date}}
  BY DEF Clip
<1>3. Clip(rows, date) \subseteq LegRow
  BY <1>1, <1>2
<1>4. Ranged(Clip(rows, date))
  BY <1>1, <1>2, <1>3 DEF Ranged, LegRow
<1>5. \A x \in Clip(rows, date) : \E r \in rows : r.from < date /\ x = Cropped(r)
  BY <1>2
<1>6. \A r \in rows : r.from < date => Cropped(r) \in Clip(rows, date)
  BY <1>2
<1> HIDE DEF Cropped
<1>7. IsClip(Clip(rows, date), rows, date)
  <2>1. ASSUME NEW x \in Clip(rows, date), NEW y \in Clip(rows, date), x # y
        PROVE  \E r, s \in rows : r # s /\ Cut(x, r, date) /\ Cut(y, s, date)
    BY <1>1, <1>5, <2>1
  <2> QED BY <1>1, <1>5, <1>6, <2>1 DEF IsClip
<1> QED BY <1>3, <1>4, <1>7

(* What is kept ends by the date.                                          *)
LEMMA ClipEnds ==
  ASSUME NEW kept, NEW rows, Ranged(rows), NEW date \in Int,
         IsClip(kept, rows, date), NEW x \in kept
  PROVE  x.from < date /\ x.till <= date
BY DEF IsClip, Cut, Ranged

(* Disjoint rows stay disjoint.                                            *)
LEMMA ClipDisjoint ==
  ASSUME NEW kept, NEW rows, Ranged(rows), Disjoint(rows), NEW date \in Int,
         IsClip(kept, rows, date)
  PROVE  Disjoint(kept)
<1> SUFFICES ASSUME NEW x \in kept, NEW y \in kept, x # y
             PROVE  x.till <= y.from \/ y.till <= x.from
  BY DEF Disjoint
<1>1. PICK r, s \in rows : r # s /\ Cut(x, r, date) /\ Cut(y, s, date)
  BY DEF IsClip
<1>2. r.till <= s.from \/ s.till <= r.from
  BY <1>1 DEF Disjoint
<1> QED BY <1>1, <1>2 DEF Ranged, Cut

(* A guarded pair of tables stays guarded when both are cut at one date.   *)
LEMMA ClipCovered ==
  ASSUME NEW rows, NEW legs, Ranged(rows), Ranged(legs), Committable(rows, legs),
         NEW date \in Int, NEW rows2, NEW legs2,
         IsClip(rows2, rows, date), IsClip(legs2, legs, date)
  PROVE  Covered(rows2, legs2)
<1>1. ASSUME NEW a2 \in legs2
      PROVE  \E e2 \in rows2 : Within(a2, e2)
  <2>1. PICK a \in legs : Cut(a2, a, date)
    BY DEF IsClip
  <2>2. PICK e \in rows : Within(a, e)
    BY DEF Committable, Covered
  <2>3. e.from < date
    BY <2>1, <2>2 DEF Cut, Within, Ranged
  <2>4. PICK e2 \in rows2 : Cut(e2, e, date)
    BY <2>3 DEF IsClip
  <2>5. Within(a2, e2)
    BY <2>1, <2>2, <2>4 DEF Cut, Within, Ranged
  <2> QED BY <2>5
<1>2. ASSUME NEW e2 \in rows2
      PROVE  \E a2 \in legs2 : a2.from = e2.from /\ Within(a2, e2)
  <2>1. PICK e \in rows : Cut(e2, e, date)
    BY DEF IsClip
  <2>2. PICK a \in legs : a.from = e.from /\ Within(a, e)
    BY DEF Committable, Covered
  <2>3. PICK a2 \in legs2 : Cut(a2, a, date)
    BY <2>1, <2>2 DEF IsClip, Cut
  <2>4. a2.from = e2.from /\ Within(a2, e2)
    BY <2>1, <2>2, <2>3 DEF Cut, Within, Ranged
  <2> QED BY <2>4
<1>3. ASSUME NEW e2 \in rows2, NEW a2 \in legs2, Within(a2, e2)
      PROVE  a2.till = e2.till \/ \E b2 \in legs2 : b2.from = a2.till /\ Within(b2, e2)
  <2>1. PICK e \in rows : Cut(e2, e, date)
    BY DEF IsClip
  <2>2. PICK a \in legs : Cut(a2, a, date)
    BY DEF IsClip
  <2>3. PICK f \in rows : Within(a, f)
    BY DEF Committable, Covered
  <2>4. f = e
    <3>1. e.from <= a.from /\ a.from < e.till
      BY <1>3, <2>1, <2>2 DEF Cut, Within, Ranged
    <3>2. f.from <= a.from /\ a.from < f.till
      BY <2>3 DEF Within, Ranged
    <3>3. f = e \/ f.till <= e.from \/ e.till <= f.from
      BY DEF Committable, Disjoint
    <3> QED BY <3>1, <3>2, <3>3 DEF Ranged
  <2>5. CASE a.till = e.till
    BY <2>1, <2>2, <2>5 DEF Cut
  <2>6. CASE a.till # e.till
    <3>1. PICK b \in legs : b.from = a.till /\ Within(b, e)
      BY <2>3, <2>4, <2>6 DEF Committable, Covered
    <3>2. CASE a.till < date
      <4>1. PICK b2 \in legs2 : Cut(b2, b, date)
        BY <3>1, <3>2 DEF IsClip
      <4>2. b2.from = a2.till
        BY <2>2, <3>1, <3>2, <4>1 DEF Cut, Ranged
      <4>3. Within(b2, e2)
        BY <2>1, <3>1, <4>1 DEF Cut, Within, Ranged
      <4> QED BY <4>2, <4>3
    <3>3. CASE ~(a.till < date)
      BY <2>1, <2>2, <2>3, <2>4, <3>3 DEF Cut, Within, Ranged
    <3> QED BY <3>2, <3>3
  <2> QED BY <2>5, <2>6
<1> QED BY <1>1, <1>2, <1>3 DEF Covered

(* A new unbounded row after rows that end by its start.                   *)
LEMMA AppendDisjoint ==
  ASSUME NEW kept, Ranged(kept), Disjoint(kept), NEW new,
         \A x \in kept : x.till <= new.from
  PROVE  Disjoint(kept \cup {new})
BY DEF Disjoint

LEMMA AppendCovered ==
  ASSUME NEW rows, NEW legs, Ranged(rows), Ranged(legs), Covered(rows, legs),
         NEW row, NEW leg, row.from \in Int, row.till \in Int, row.from < row.till,
         leg.from = row.from, leg.till = row.till,
         \A x \in rows : x.till <= row.from,
         \A x \in legs : x.till <= row.from
  PROVE  Covered(rows \cup {row}, legs \cup {leg})
<1>1. Within(leg, row)
  BY DEF Within
<1>2. \A e \in rows : ~Within(leg, e)
  BY DEF Within, Ranged
<1>3. \A a \in legs : ~Within(a, row)
  BY DEF Within, Ranged
<1>4. \A a \in legs \cup {leg} : \E e \in rows \cup {row} : Within(a, e)
  BY <1>1 DEF Covered
<1>5. ASSUME NEW e \in rows \cup {row}
      PROVE  \E a \in legs \cup {leg} : a.from = e.from /\ Within(a, e)
  BY <1>1 DEF Covered
<1>6. ASSUME NEW e \in rows \cup {row}, NEW a \in legs \cup {leg}, Within(a, e)
      PROVE  a.till = e.till \/ \E b \in legs \cup {leg} : b.from = a.till /\ Within(b, e)
  BY <1>2, <1>3, <1>6 DEF Covered
<1> QED BY <1>4, <1>5, <1>6 DEF Covered

(* Both halves of the plan, with and without the insert, pass the guard.   *)
LEMMA PlansFit ==
  ASSUME NEW rows \in SUBSET PeriodRow, NEW legs \in SUBSET LegRow,
         Ranged(rows), Ranged(legs), Committable(rows, legs), NEW date \in Days
  PROVE  /\ Committable(Clip(rows, date), Clip(legs, date))
         /\ \A at, office :
              Committable(Enrolled(rows, date, at), Placed(legs, date, office))
<1> DEFINE rows2 == Clip(rows, date)
           legs2 == Clip(legs, date)
<1>1. date \in Int /\ Forever \in Int /\ date < Forever
  BY DaysInt
<1>2. Ranged(rows2) /\ IsClip(rows2, rows, date)
  BY ClipPeriods
<1>3. Ranged(legs2) /\ IsClip(legs2, legs, date)
  BY ClipLegs
<1> HIDE DEF rows2, legs2
<1>4. Disjoint(rows2) /\ Disjoint(legs2)
  <2>1. Disjoint(rows) /\ Disjoint(legs)
    BY DEF Committable
  <2> QED BY <1>1, <1>2, <1>3, <2>1, ClipDisjoint
<1>5. Covered(rows2, legs2)
  BY <1>1, <1>2, <1>3, ClipCovered
<1>6. /\ \A x \in rows2 : x.till <= date
      /\ \A x \in legs2 : x.till <= date
  BY <1>1, <1>2, <1>3, ClipEnds
<1>7. ASSUME NEW at, NEW office
      PROVE  Committable(Enrolled(rows, date, at), Placed(legs, date, office))
  <2> DEFINE row == [from |-> date, till |-> Forever, at |-> at]
             leg == [from |-> date, till |-> Forever, office |-> office]
  <2>1. /\ row.from = date /\ row.till = Forever
        /\ leg.from = date /\ leg.till = Forever
    OBVIOUS
  <2>2. /\ Enrolled(rows, date, at) = rows2 \cup {row}
        /\ Placed(legs, date, office) = legs2 \cup {leg}
    BY DEF Enrolled, Placed, rows2, legs2
  <2> HIDE DEF row, leg
  <2>3. Disjoint(rows2 \cup {row})
    BY <1>2, <1>4, <1>6, <2>1, AppendDisjoint
  <2>4. Disjoint(legs2 \cup {leg})
    BY <1>3, <1>4, <1>6, <2>1, AppendDisjoint
  <2>5. Covered(rows2 \cup {row}, legs2 \cup {leg})
    BY <1>1, <1>2, <1>3, <1>5, <1>6, <2>1, AppendCovered
  <2> QED BY <2>2, <2>3, <2>4, <2>5 DEF Committable
<1> QED BY <1>4, <1>5, <1>7 DEF Committable, rows2, legs2

-----------------------------------------------------------------------------
(***************************************************************************)
(* Types and rows.                                                         *)
(***************************************************************************)

RowsType ==
  /\ today \in Days /\ hour \in Hours /\ edits \in 0..MaxEdits
  /\ enrolments \in SUBSET PeriodRow /\ Ranged(enrolments)
  /\ assignments \in SUBSET LegRow /\ Ranged(assignments)

DayType ==
  /\ holidays \subseteq Days /\ gated \subseteq Days
  /\ record \in [Days -> Records] /\ override \in [Days -> Overrides]
  /\ leave \in [Requests -> [Days -> LeaveStates]]
  /\ part \in [Requests -> Parts] /\ filedLate \subseteq Requests
  /\ notice \in [Requests -> [Repeatable -> SUBSET Days]]

(* The rows pass the coverage guard.                                       *)
RowsGuarded == Committable(enrolments, assignments)

LEMMA TypeSplit == RowsType /\ DayType => TypeOK
<1> SUFFICES ASSUME RowsType, DayType PROVE TypeOK
  OBVIOUS
<1>1. \A e \in enrolments : e \in PeriodRow /\ e.from < e.till
  BY DEF RowsType, Ranged
<1>2. \A a \in assignments : a \in LegRow /\ a.from < a.till
  BY DEF RowsType, Ranged
<1> QED BY <1>1, <1>2 DEF RowsType, DayType, TypeOK, PeriodRow, LegRow

LEMMA HoursInt == Hours \subseteq Int /\ 0 \in Hours
BY EnrolmentAssumption DEF EnrolmentAssumption, Hours

(* A call's clock is a real instant, not later than now.                   *)
LEMMA ClockFacts ==
  ASSUME RowsType, NEW c \in Clocks
  PROVE  c.day \in Days /\ c.hour \in Hours /\ c.day <= today
<1>1. today \in Days /\ hour \in Hours /\ today \in Int
  BY DaysInt DEF RowsType
<1>2. CASE c = [day |-> today, hour |-> hour]
  BY <1>1, <1>2
<1>3. CASE c = [day |-> today - 1, hour |-> LastHour] /\ today > 1
  <2>1. today - 1 \in Days /\ LastHour \in Hours
    BY <1>1, <1>3, EnrolmentAssumption DEF EnrolmentAssumption, Days, Hours
  <2> QED BY <1>1, <1>3, <2>1
<1> QED BY <1>2, <1>3 DEF Clocks

LEMMA EnrolledTyped ==
  ASSUME NEW rows \in SUBSET PeriodRow, Ranged(rows),
         NEW date \in Days, NEW at \in Hours
  PROVE  /\ Enrolled(rows, date, at) \in SUBSET PeriodRow
         /\ Ranged(Enrolled(rows, date, at))
<1> DEFINE row == [from |-> date, till |-> Forever, at |-> at]
<1>1. Forever \in 2..Forever /\ date < Forever /\ date \in Int /\ Forever \in Int
  BY EnrolmentAssumption DEF EnrolmentAssumption, Days, Forever
<1>2. row \in PeriodRow /\ row.from = date /\ row.till = Forever
  BY <1>1 DEF PeriodRow
<1>3. Clip(rows, date) \subseteq PeriodRow /\ Ranged(Clip(rows, date))
  BY ClipPeriods
<1>4. Enrolled(rows, date, at) = Clip(rows, date) \cup {row}
  BY DEF Enrolled
<1> HIDE DEF row
<1> QED BY <1>1, <1>2, <1>3, <1>4 DEF Ranged

LEMMA PlacedTyped ==
  ASSUME NEW rows \in SUBSET LegRow, Ranged(rows),
         NEW date \in Days, NEW office \in Offices
  PROVE  /\ Placed(rows, date, office) \in SUBSET LegRow
         /\ Ranged(Placed(rows, date, office))
<1> DEFINE leg == [from |-> date, till |-> Forever, office |-> office]
<1>1. Forever \in 2..Forever /\ date < Forever /\ date \in Int /\ Forever \in Int
  BY EnrolmentAssumption DEF EnrolmentAssumption, Days, Forever
<1>2. leg \in LegRow /\ leg.from = date /\ leg.till = Forever
  BY <1>1 DEF LegRow
<1>3. Clip(rows, date) \subseteq LegRow /\ Ranged(Clip(rows, date))
  BY ClipLegs
<1>4. Placed(rows, date, office) = Clip(rows, date) \cup {leg}
  BY DEF Placed
<1> HIDE DEF leg
<1> QED BY <1>1, <1>2, <1>3, <1>4 DEF Ranged

LEMMA NoRows ==
  /\ {} \in SUBSET PeriodRow /\ {} \in SUBSET LegRow
  /\ Ranged({}) /\ Committable({}, {})
BY DEF Ranged, Committable, Disjoint, Covered

LEMMA RowsInit == Init => RowsType /\ RowsGuarded
<1> SUFFICES ASSUME Init PROVE RowsType /\ RowsGuarded
  OBVIOUS
<1>1. 1 \in Days /\ 0 \in Hours /\ 0 \in 0..MaxEdits
  BY EnrolmentAssumption DEF EnrolmentAssumption, Days, Hours
<1>2. today \in Days /\ hour \in Hours /\ edits \in 0..MaxEdits
  BY <1>1 DEF Init, EnrolmentInit
<1>3. CASE enrolments = {} /\ assignments = {}
  BY <1>2, <1>3, NoRows DEF RowsType, RowsGuarded
<1>4. CASE \E office \in Offices :
             /\ enrolments = Enrolled({}, 1, 0)
             /\ assignments = Placed({}, 1, office)
  <2>1. PICK office \in Offices :
          /\ enrolments = Enrolled({}, 1, 0)
          /\ assignments = Placed({}, 1, office)
    BY <1>4
  <2>2. enrolments \in SUBSET PeriodRow /\ Ranged(enrolments)
    BY <1>1, <2>1, NoRows, EnrolledTyped
  <2>3. assignments \in SUBSET LegRow /\ Ranged(assignments)
    BY <1>1, <2>1, NoRows, PlacedTyped
  <2>4. Committable(enrolments, assignments)
    BY <1>1, <2>1, NoRows, PlansFit
  <2> QED BY <1>2, <2>2, <2>3, <2>4 DEF RowsType, RowsGuarded
<1> QED BY <1>3, <1>4 DEF Init, EnrolmentInit

(* The actions of the rows.                                                *)
LEMMA RowsKept ==
  ASSUME RowsType, RowsGuarded, UNCHANGED <<clock, periods>>, edits' \in 0..MaxEdits
  PROVE  RowsType' /\ RowsGuarded'
BY DEF RowsType, RowsGuarded, clock, periods

LEMMA EditBounded ==
  ASSUME RowsType, Edit
  PROVE  edits' \in 0..MaxEdits
BY EnrolmentAssumption DEF EnrolmentAssumption, RowsType, Edit

LEMMA EnableRows ==
  ASSUME RowsType, NEW c \in Clocks, NEW date \in Days, NEW office \in Offices,
         Enable(c, date, office)
  PROVE  RowsType' /\ RowsGuarded'
<1>1. edits' \in 0..MaxEdits
  BY EditBounded DEF Enable
<1>2. (IF date = c.day THEN c.hour ELSE 0) \in Hours
  BY ClockFacts, HoursInt
<1>3. enrolments' \in SUBSET PeriodRow /\ Ranged(enrolments')
  BY <1>2, EnrolledTyped DEF Enable, SetEnrolment, RowsType
<1>4. assignments' \in SUBSET LegRow /\ Ranged(assignments')
  BY PlacedTyped DEF Enable, SetEnrolment, RowsType
<1>5. Committable(enrolments', assignments')
  BY DEF Enable, SetEnrolment
<1> QED BY <1>1, <1>3, <1>4, <1>5 DEF RowsType, RowsGuarded, Enable, clock

LEMMA ReassignRows ==
  ASSUME RowsType, NEW c \in Clocks, NEW date \in Days, NEW office \in Offices,
         Reassign(c, date, office)
  PROVE  RowsType' /\ RowsGuarded'
<1> DEFINE start == EffectiveFrom(c, date, record[c.day] # "none")
<1>1. edits' \in 0..MaxEdits
  BY EditBounded DEF Reassign
<1>2. PICK e \in enrolments : Contains(e, start)
  BY DEF Reassign, ReassignOffice
<1>3. start \in Int /\ 1 <= start
  BY DaysInt DEF EffectiveFrom
<1>4. e.till \in 2..Forever
  BY DEF RowsType, PeriodRow
<1>5. start \in Days
  <2>1. start < e.till
    BY <1>2 DEF Contains
  <2> HIDE DEF start
  <2> QED BY <1>3, <1>4, <2>1, EnrolmentAssumption
        DEF EnrolmentAssumption, Days, Forever
<1>6. assignments' = Placed(assignments, start, office)
  BY DEF Reassign, ReassignOffice
<1> HIDE DEF start
<1>7. assignments' \in SUBSET LegRow /\ Ranged(assignments')
  BY <1>5, <1>6, PlacedTyped DEF RowsType
<1>8. Committable(enrolments', assignments') /\ enrolments' = enrolments
  BY DEF Reassign, ReassignOffice
<1> QED BY <1>1, <1>7, <1>8 DEF RowsType, RowsGuarded, Reassign, clock

LEMMA DisableRows ==
  ASSUME RowsType, NEW c \in Clocks, NEW date \in Days, Disable(c, date)
  PROVE  RowsType' /\ RowsGuarded'
<1>1. edits' \in 0..MaxEdits
  BY EditBounded DEF Disable
<1>2. enrolments' \in SUBSET PeriodRow /\ Ranged(enrolments')
  BY ClipPeriods DEF Disable, DisableEnrolment, RowsType
<1>3. assignments' \in SUBSET LegRow /\ Ranged(assignments')
  BY ClipLegs DEF Disable, DisableEnrolment, RowsType
<1>4. Committable(enrolments', assignments')
  BY DEF Disable, DisableEnrolment
<1> QED BY <1>1, <1>2, <1>3, <1>4 DEF RowsType, RowsGuarded, Disable, clock

LEMMA PassTimeRows ==
  ASSUME RowsType, RowsGuarded, PassTime
  PROVE  RowsType' /\ RowsGuarded' /\ today <= today'
<1>1. today' \in Days /\ hour' \in Hours /\ today <= today'
  BY EnrolmentAssumption
     DEF EnrolmentAssumption, RowsType, PassTime, Tick, Days, Hours
<1> QED BY <1>1 DEF RowsType, RowsGuarded, PassTime, periods

(* The calls that leave the rows alone, by what they write instead.        *)
LeaveCall(c) ==
  \/ \E r \in Requests, first, last \in Days, p \in Parts, state \in ActiveStates :
       Apply(r, c, first, last, p, state)
  \/ \E r \in Requests :
       Revoke(r, c) \/ Cancel(r, c) \/ Decide(r, "approved") \/ Decide(r, "rejected")

DayCall(c) ==
  \/ CheckIn(c)
  \/ CheckOut(c)
  \/ \E d \in Days :
       ToggleHoliday(d) \/ \E value \in Overrides : Correct(c, d, value)

RowCall(c) ==
  \E d \in Days :
    \/ Disable(c, d)
    \/ \E office \in Offices : Enable(c, d, office) \/ Reassign(c, d, office)

LEMMA NextCases ==
  ASSUME Next
  PROVE  PassTime \/ \E c \in Clocks : LeaveCall(c) \/ DayCall(c) \/ RowCall(c)
<1>1. ASSUME NEW c \in Clocks, EmployeeActs(c)
      PROVE  LeaveCall(c) \/ DayCall(c)
  BY <1>1 DEF EmployeeActs, LeaveCall, DayCall, ActiveStates
<1>2. ASSUME NEW c \in Clocks, OwnerActs(c)
      PROVE  LeaveCall(c) \/ DayCall(c) \/ RowCall(c)
  BY <1>2 DEF OwnerActs, LeaveCall, DayCall, RowCall, ActiveStates
<1> QED BY <1>1, <1>2 DEF Next

LEMMA RowsStep ==
  ASSUME RowsType, RowsGuarded, [Next]_vars
  PROVE  RowsType' /\ RowsGuarded'
<1>1. CASE UNCHANGED vars
  BY <1>1, RowsKept DEF vars, RowsType
<1>2. CASE PassTime
  BY <1>2, PassTimeRows
<1>3. ASSUME NEW c \in Clocks, LeaveCall(c) PROVE RowsType' /\ RowsGuarded'
  <2>1. UNCHANGED <<clock, periods>> /\ edits' = edits
    BY <1>3 DEF LeaveCall, Apply, Revoke, Cancel, Withdraw, Decide
  <2> QED BY <2>1, RowsKept DEF RowsType
<1>4. ASSUME NEW c \in Clocks, DayCall(c) PROVE RowsType' /\ RowsGuarded'
  <2>1. UNCHANGED <<clock, periods>> /\ (edits' = edits \/ Edit)
    BY <1>4 DEF DayCall, CheckIn, CheckOut, ToggleHoliday, Correct
  <2> QED BY <2>1, RowsKept, EditBounded DEF RowsType
<1>5. ASSUME NEW c \in Clocks, RowCall(c) PROVE RowsType' /\ RowsGuarded'
  BY <1>5, DisableRows, EnableRows, ReassignRows DEF RowCall
<1> QED BY <1>1, <1>2, <1>3, <1>4, <1>5, NextCases

-----------------------------------------------------------------------------
(***************************************************************************)
(* The days and the leave on them.                                         *)
(***************************************************************************)

LEMMA MoveTyped ==
  ASSUME DayType, NEW r \in Requests, NEW dates, NEW state \in LeaveStates
  PROVE  /\ Move(r, dates, state) \in [Requests -> [Days -> LeaveStates]]
         /\ \A s \in Requests, d \in Days :
              Move(r, dates, state)[s][d] =
                IF s = r /\ d \in dates THEN state ELSE leave[s][d]
BY DEF DayType, Move

LEMMA TellTyped ==
  ASSUME DayType, NEW r \in Requests, NEW event \in Repeatable,
         NEW dates \in SUBSET Days
  PROVE  Tell(r, event, dates) \in [Requests -> [Repeatable -> SUBSET Days]]
BY DEF DayType, Tell

LEMMA DayInit == Init => DayType
BY DEF Init, DayType, Records, Overrides, Parts, LeaveStates

LEMMA ApplyDays ==
  ASSUME DayType, NEW c, NEW r \in Requests, NEW first \in Days, NEW last \in Days,
         NEW p \in Parts, NEW state \in ActiveStates, Apply(r, c, first, last, p, state)
  PROVE  DayType'
<1>1. state \in LeaveStates
  BY DEF ActiveStates, LeaveStates
<1>2. leave' \in [Requests -> [Days -> LeaveStates]]
  BY <1>1, MoveTyped DEF Apply
<1>3. part' \in [Requests -> Parts] /\ filedLate' \subseteq Requests
  BY DEF Apply, DayType
<1> QED BY <1>2, <1>3 DEF Apply, DayType, dayVars

LEMMA WithdrawDays ==
  ASSUME DayType, NEW c, NEW r \in Requests, NEW states,
         NEW cause \in Repeatable, Withdraw(r, c, states, cause)
  PROVE  DayType'
<1>1. cause \in LeaveStates
  BY DEF Repeatable, LeaveStates, Causes
<1>2. leave' \in [Requests -> [Days -> LeaveStates]]
  BY <1>1, MoveTyped DEF Withdraw
<1>3. notice' \in [Requests -> [Repeatable -> SUBSET Days]]
  BY TellTyped DEF Withdraw, Actionable
<1> QED BY <1>2, <1>3 DEF Withdraw, DayType, dayVars

LEMMA DecideDays ==
  ASSUME DayType, NEW r \in Requests, NEW state \in {"approved", "rejected"},
         Decide(r, state)
  PROVE  DayType'
<1>1. state \in LeaveStates
  BY DEF LeaveStates
<1>2. leave' \in [Requests -> [Days -> LeaveStates]]
  BY <1>1, MoveTyped DEF Decide
<1> QED BY <1>2 DEF Decide, DayType, dayVars

LEMMA LeaveDays ==
  ASSUME DayType, NEW c, LeaveCall(c)
  PROVE  DayType'
BY ApplyDays, WithdrawDays, DecideDays DEF LeaveCall, Revoke, Cancel, Repeatable

LEMMA CheckInDays ==
  ASSUME RowsType, DayType, NEW c \in Clocks, CheckIn(c)
  PROVE  DayType'
<1>1. c.day \in Days
  BY ClockFacts
<1>2. record' \in [Days -> Records]
  BY <1>1 DEF CheckIn, DayType, Records
<1>3. gated' \subseteq Days
  BY <1>1 DEF CheckIn, DayType
<1>4. leave' \in [Requests -> [Days -> LeaveStates]]
  BY DEF CheckIn, DayType, LeaveStates, Causes
<1> QED BY <1>2, <1>3, <1>4 DEF CheckIn, DayType

LEMMA DayCallDays ==
  ASSUME RowsType, DayType, NEW c \in Clocks, DayCall(c)
  PROVE  DayType'
<1>1. CASE CheckIn(c)
  BY <1>1, CheckInDays
<1>2. CASE CheckOut(c)
  BY <1>2 DEF CheckOut, DayType, Records, leaveVars
<1>3. ASSUME NEW d \in Days, ToggleHoliday(d) PROVE DayType'
  BY <1>3 DEF ToggleHoliday, DayType, leaveVars
<1>4. ASSUME NEW d \in Days, NEW value \in Overrides, Correct(c, d, value) PROVE DayType'
  BY <1>4 DEF Correct, DayType, leaveVars
<1> QED BY <1>1, <1>2, <1>3, <1>4 DEF DayCall

LEMMA DisableDays ==
  ASSUME DayType, NEW c, NEW date, Disable(c, date)
  PROVE  DayType'
<1>1. leave' \in [Requests -> [Days -> LeaveStates]]
  BY DEF Disable, DayType, LeaveStates, Causes
<1>2. ASSUME NEW r \in Requests
      PROVE  Tell(r, "disable", Swept(r, date))[r] \in [Repeatable -> SUBSET Days]
  <2>1. Swept(r, date) \in SUBSET Days
    BY DEF Swept, PendingDays
  <2> QED BY <2>1, TellTyped DEF Repeatable
<1>3. notice' \in [Requests -> [Repeatable -> SUBSET Days]]
  BY <1>2 DEF Disable
<1> QED BY <1>1, <1>3 DEF Disable, DayType, dayVars

LEMMA DayStep ==
  ASSUME RowsType, DayType, [Next]_vars
  PROVE  DayType'
<1>1. CASE UNCHANGED vars
  BY <1>1 DEF vars, dayVars, leaveVars, DayType
<1>2. CASE PassTime
  BY <1>2 DEF PassTime, dayVars, leaveVars, DayType
<1>3. ASSUME NEW c \in Clocks, RowCall(c) PROVE DayType'
  <2>1. ASSUME NEW date \in Days, NEW office \in Offices,
               Enable(c, date, office) \/ Reassign(c, date, office)
        PROVE  DayType'
    BY <2>1 DEF Enable, Reassign, dayVars, leaveVars, DayType
  <2> QED BY <1>3, <2>1, DisableDays DEF RowCall
<1> QED BY <1>1, <1>2, <1>3, LeaveDays, DayCallDays, NextCases

-----------------------------------------------------------------------------
(***************************************************************************)
(* One active leave per day, and none on a day that was checked in.        *)
(***************************************************************************)

(* Days that passed the gate have a record and are not in the future.      *)
GatedSeen == \A d \in gated : record[d] # "none" /\ d <= today

LeaveInv == OneActiveLeave /\ OnlyLateCallsDoubleBook /\ GatedSeen

LEMMA LeaveInit == Init => LeaveInv
BY DEF Init, LeaveInv, OneActiveLeave, OnlyLateCallsDoubleBook, GatedSeen,
       ActiveOn, ActiveStates

(* What every step but an apply and a check-in has in common.              *)
Calm ==
  /\ \A r \in Requests, d \in Days :
       leave'[r][d] \in ActiveStates => leave[r][d] \in ActiveStates
  /\ \A d \in Days : record[d] # "none" => record'[d] # "none"
  /\ gated' = gated /\ part' = part /\ filedLate' = filedLate
  /\ today' \in Int /\ today <= today'

LEMMA CalmKeeps ==
  ASSUME RowsType, DayType, LeaveInv, Calm
  PROVE  LeaveInv'
<1>1. OneActiveLeave'
  BY DEF LeaveInv, OneActiveLeave, Calm, ActiveOn
<1>2. OnlyLateCallsDoubleBook'
  BY DEF LeaveInv, OnlyLateCallsDoubleBook, Calm, DayType
<1>3. GatedSeen'
  <2>1. ASSUME NEW d \in gated PROVE record'[d] # "none" /\ d <= today'
    <3>1. d \in Int /\ today \in Int
      BY DaysInt DEF DayType, RowsType
    <3>2. d <= today /\ record[d] # "none" /\ d \in Days
      BY DEF LeaveInv, GatedSeen, DayType
    <3> QED BY <3>1, <3>2 DEF Calm
  <2> QED BY <2>1 DEF GatedSeen, Calm
<1> QED BY <1>1, <1>2, <1>3 DEF LeaveInv

LEMMA ApplyKeeps ==
  ASSUME RowsType, DayType, LeaveInv, NEW c \in Clocks, NEW r \in Requests,
         NEW first \in Days, NEW last \in Days, NEW p \in Parts,
         NEW state \in ActiveStates, Apply(r, c, first, last, p, state)
  PROVE  LeaveInv'
<1>1. state \in LeaveStates
  BY DEF ActiveStates, LeaveStates
<1>2. \A s \in Requests, d \in Days :
        leave'[s][d] = IF s = r /\ d \in first..last THEN state ELSE leave[s][d]
  <2>1. leave' = Move(r, first..last, state)
    BY DEF Apply
  <2> DEFINE span == first..last
  <2>2. leave' = Move(r, span, state)
    BY <2>1
  <2> HIDE DEF span
  <2>3. \A s \in Requests, d \in Days :
          leave'[s][d] = IF s = r /\ d \in span THEN state ELSE leave[s][d]
    BY <1>1, <2>2, MoveTyped
  <2> QED BY <2>3 DEF span
<1>3. \A d \in first..last, s \in Requests : leave[s][d] \notin ActiveStates
  BY DEF Apply, Applicable, Overlapping, ActiveOn
<1>4. \A d \in Days : leave[r][d] \notin ActiveStates
  BY DEF Apply, ActiveStates
<1>5. OneActiveLeave'
  BY <1>2, <1>3 DEF LeaveInv, OneActiveLeave, ActiveOn
<1>6. OnlyLateCallsDoubleBook'
  <2> SUFFICES ASSUME NEW s \in Requests, NEW d \in gated,
                      leave'[s][d] \in ActiveStates, part'[s] = "full_day"
               PROVE  s \in filedLate'
    BY DEF OnlyLateCallsDoubleBook, Apply, dayVars
  <2>1. d \in Days /\ d \in Int /\ record[d] # "none" /\ d <= today
    BY DaysInt DEF DayType, LeaveInv, GatedSeen
  <2>2. CASE s # r
    <3>1. leave[s][d] \in ActiveStates /\ part[s] = "full_day"
      BY <1>2, <2>1, <2>2 DEF Apply, DayType
    <3>2. s \in filedLate
      BY <3>1 DEF LeaveInv, OnlyLateCallsDoubleBook
    <3> QED BY <3>2 DEF Apply
  <2>3. CASE s = r
    <3>1. d \in first..last
      BY <1>2, <1>4, <2>1, <2>3
    <3>2. ~(d <= c.day)
      BY <2>1, <3>1 DEF Apply, Applicable
    <3>3. c.day \in Int /\ today \in Int
      BY ClockFacts, DaysInt DEF RowsType
    <3>4. c.day < today
      BY <2>1, <3>2, <3>3
    <3> QED BY <2>3, <3>4 DEF Apply
  <2> QED BY <2>2, <2>3
<1>7. GatedSeen'
  BY DEF LeaveInv, GatedSeen, Apply, dayVars, clock
<1> QED BY <1>5, <1>6, <1>7 DEF LeaveInv

LEMMA CheckInKeeps ==
  ASSUME RowsType, DayType, LeaveInv, NEW c \in Clocks, CheckIn(c)
  PROVE  LeaveInv'
<1>1. c.day \in Days /\ c.day <= today
  BY ClockFacts
<1>2. \A r \in Requests, d \in Days :
        leave'[r][d] = IF d = c.day /\ r \in Yielding(c.day)
                       THEN "checkin_auto_cancel" ELSE leave[r][d]
  BY DEF CheckIn
<1>3. \A r \in Requests, d \in Days :
        leave'[r][d] \in ActiveStates => leave[r][d] \in ActiveStates
  BY <1>2 DEF ActiveStates
<1>4. OneActiveLeave'
  BY <1>3 DEF LeaveInv, OneActiveLeave, ActiveOn
<1>5. ASSUME NEW r \in Requests, c.day \notin holidays,
             leave'[r][c.day] \in ActiveStates, part[r] = "full_day"
      PROVE  FALSE
  BY <1>1, <1>2, <1>3, <1>5 DEF Yielding, ActiveOn, ActiveStates
<1>6. OnlyLateCallsDoubleBook'
  <2> SUFFICES ASSUME NEW r \in Requests, NEW d \in gated',
                      leave'[r][d] \in ActiveStates, part'[r] = "full_day"
               PROVE  r \in filedLate'
    BY DEF OnlyLateCallsDoubleBook
  <2>1. d \in gated
    BY <1>5 DEF CheckIn
  <2> QED BY <1>3, <2>1 DEF CheckIn, LeaveInv, OnlyLateCallsDoubleBook, DayType
<1>7. GatedSeen'
  <2>1. \A d \in Days : record[d] # "none" => record'[d] # "none"
    BY DEF CheckIn, DayType
  <2>2. record'[c.day] # "none"
    BY <1>1 DEF CheckIn, DayType
  <2> QED BY <1>1, <2>1, <2>2 DEF CheckIn, LeaveInv, GatedSeen, DayType, clock
<1> QED BY <1>4, <1>6, <1>7 DEF LeaveInv

(* The rest is calm.                                                       *)
LEMMA SameDay ==
  ASSUME RowsType, UNCHANGED clock
  PROVE  today' \in Int /\ today <= today'
<1>1. today \in Int /\ today' = today
  BY DaysInt DEF RowsType, clock
<1> QED BY <1>1

LEMMA MoveCalm ==
  ASSUME RowsType, DayType, NEW r \in Requests, NEW dates, NEW state \in LeaveStates,
         state \in ActiveStates => \A d \in dates \cap Days : leave[r][d] \in ActiveStates,
         leave' = Move(r, dates, state),
         UNCHANGED <<clock, dayVars, part, filedLate>>
  PROVE  Calm
<1>1. \A s \in Requests, d \in Days :
        leave'[s][d] = IF s = r /\ d \in dates THEN state ELSE leave[s][d]
  BY MoveTyped
<1>2. \A s \in Requests, d \in Days :
        leave'[s][d] \in ActiveStates => leave[s][d] \in ActiveStates
  BY <1>1
<1>3. record' = record /\ gated' = gated /\ part' = part /\ filedLate' = filedLate
  BY DEF dayVars
<1> QED BY <1>2, <1>3, SameDay DEF Calm

LEMMA WithdrawCalm ==
  ASSUME RowsType, DayType, NEW c, NEW r \in Requests, NEW states,
         NEW cause \in Repeatable, Withdraw(r, c, states, cause)
  PROVE  Calm
<1>1. cause \in LeaveStates /\ cause \notin ActiveStates
  BY DEF Repeatable, LeaveStates, Causes, ActiveStates
<1> DEFINE dates == Actionable(r, c, states)
<1>2. leave' = Move(r, dates, cause) /\ UNCHANGED <<clock, dayVars, part, filedLate>>
  BY DEF Withdraw
<1> HIDE DEF dates
<1> QED BY <1>1, <1>2, MoveCalm

LEMMA DecideCalm ==
  ASSUME RowsType, DayType, NEW r \in Requests, NEW state \in {"approved", "rejected"},
         Decide(r, state)
  PROVE  Calm
<1>1. state \in LeaveStates
  BY DEF LeaveStates
<1> DEFINE dates == PendingDays(r)
<1>2. \A d \in dates : leave[r][d] \in ActiveStates
  BY DEF PendingDays, ActiveStates
<1>3. leave' = Move(r, dates, state) /\ UNCHANGED <<clock, dayVars, part, filedLate>>
  BY DEF Decide
<1> HIDE DEF dates
<1> QED BY <1>1, <1>2, <1>3, MoveCalm

LEMMA DayCallCalm ==
  ASSUME RowsType, DayType, NEW c \in Clocks, DayCall(c), ~CheckIn(c)
  PROVE  Calm
<1>1. CASE CheckOut(c)
  <2>1. \A d \in Days : record[d] # "none" => record'[d] # "none"
    BY <1>1 DEF CheckOut, DayType
  <2> QED BY <1>1, <2>1, SameDay DEF CheckOut, Calm, leaveVars
<1>2. ASSUME NEW d \in Days,
             ToggleHoliday(d) \/ \E value \in Overrides : Correct(c, d, value)
      PROVE  Calm
  <2>1. UNCHANGED <<clock, record, gated, leave, part, filedLate>>
    BY <1>2 DEF ToggleHoliday, Correct, leaveVars
  <2> QED BY <2>1, SameDay DEF Calm
<1> QED BY <1>1, <1>2 DEF DayCall

LEMMA RowCallCalm ==
  ASSUME RowsType, DayType, NEW c \in Clocks, RowCall(c)
  PROVE  Calm
<1>1. ASSUME NEW d \in Days, Disable(c, d) PROVE Calm
  <2>1. \A r \in Requests, x \in Days :
          leave'[r][x] = IF x \in Swept(r, d) THEN "disable" ELSE leave[r][x]
    BY <1>1 DEF Disable
  <2>2. \A r \in Requests, x \in Days :
          leave'[r][x] \in ActiveStates => leave[r][x] \in ActiveStates
    BY <2>1 DEF ActiveStates
  <2>3. UNCHANGED <<clock, record, gated, part, filedLate>>
    BY <1>1 DEF Disable, dayVars
  <2> QED BY <2>2, <2>3, SameDay DEF Calm
<1>2. ASSUME NEW d \in Days, NEW office \in Offices,
             Enable(c, d, office) \/ Reassign(c, d, office)
      PROVE  Calm
  <2>1. UNCHANGED <<clock, record, gated, leave, part, filedLate>>
    BY <1>2 DEF Enable, Reassign, dayVars, leaveVars
  <2> QED BY <2>1, SameDay DEF Calm
<1> QED BY <1>1, <1>2 DEF RowCall

LEMMA PassTimeCalm ==
  ASSUME RowsType, RowsGuarded, PassTime
  PROVE  Calm
<1>1. today' \in Int /\ today <= today'
  BY PassTimeRows, DaysInt DEF RowsType
<1> QED BY <1>1 DEF PassTime, Calm, dayVars, leaveVars

LEMMA LeaveStep ==
  ASSUME RowsType, RowsGuarded, DayType, LeaveInv, [Next]_vars
  PROVE  LeaveInv'
<1>1. CASE UNCHANGED vars
  BY <1>1, SameDay, CalmKeeps DEF vars, Calm, dayVars, leaveVars
<1>2. CASE PassTime
  BY <1>2, PassTimeCalm, CalmKeeps
<1>3. ASSUME NEW c \in Clocks, LeaveCall(c) PROVE LeaveInv'
  <2>1. ASSUME NEW r \in Requests,
               Revoke(r, c) \/ Cancel(r, c)
                 \/ Decide(r, "approved") \/ Decide(r, "rejected")
        PROVE  Calm
    <3>1. CASE Revoke(r, c) \/ Cancel(r, c)
      BY <3>1, WithdrawCalm DEF Revoke, Cancel, Repeatable
    <3>2. CASE Decide(r, "approved") \/ Decide(r, "rejected")
      BY <3>2, DecideCalm
    <3> QED BY <2>1, <3>1, <3>2
  <2> QED BY <1>3, <2>1, ApplyKeeps, CalmKeeps DEF LeaveCall
<1>4. ASSUME NEW c \in Clocks, DayCall(c) PROVE LeaveInv'
  BY <1>4, CheckInKeeps, DayCallCalm, CalmKeeps
<1>5. ASSUME NEW c \in Clocks, RowCall(c) PROVE LeaveInv'
  BY <1>5, RowCallCalm, CalmKeeps
<1> QED BY <1>1, <1>2, <1>3, <1>4, <1>5, NextCases

(* Every reachable state is typed, its rows passed the guard, and its      *)
(* leave is as the gate and the ladder rely on.                            *)
IInv == RowsType /\ RowsGuarded /\ DayType /\ LeaveInv

-----------------------------------------------------------------------------
(***************************************************************************)
(* The credit of a day that is over.                                       *)
(***************************************************************************)

(* A plan from a later date on leaves the rows of a day as they were.      *)
LEMMA ClipKeepsPeriod ==
  ASSUME NEW rows \in SUBSET PeriodRow, NEW date \in Int, NEW d \in Int, d < date
  PROVE  /\ \A x \in Clip(rows, date) : Contains(x, d) =>
              \E r \in rows : Contains(r, d) /\ r.from = x.from /\ r.at = x.at
         /\ \A r \in rows : Contains(r, d) =>
              \E x \in Clip(rows, date) : Contains(x, d) /\ x.from = r.from /\ x.at = r.at
<1> DEFINE Cropped(r) ==
         [r EXCEPT !.till = IF r.till > date THEN date ELSE r.till]
<1>1. Clip(rows, date) = {Cropped(r) : r \in {r \in rows : r.from < date}}
  BY DEF Clip
<1>2. ASSUME NEW r \in rows, r.from < date
      PROVE  /\ Contains(Cropped(r), d) <=> Contains(r, d)
             /\ Cropped(r).from = r.from /\ Cropped(r).at = r.at
  <2>1. /\ Cropped(r).from = r.from /\ Cropped(r).at = r.at
        /\ Cropped(r).till = IF r.till > date THEN date ELSE r.till
    BY DEF PeriodRow
  <2>2. r.from \in Int /\ r.till \in Int
    BY DaysInt DEF PeriodRow
  <2> HIDE DEF Cropped
  <2> QED BY <2>1, <2>2 DEF Contains
<1>3. \A r \in rows : r.from \in Int
  BY DaysInt DEF PeriodRow
<1> HIDE DEF Cropped
<1>4. ASSUME NEW x \in Clip(rows, date), Contains(x, d)
      PROVE  \E r \in rows : Contains(r, d) /\ r.from = x.from /\ r.at = x.at
  BY <1>1, <1>2, <1>4
<1>5. ASSUME NEW r \in rows, Contains(r, d)
      PROVE  \E x \in Clip(rows, date) : Contains(x, d) /\ x.from = r.from /\ x.at = r.at
  <2>1. r.from < date
    BY <1>3, <1>5 DEF Contains
  <2> QED BY <1>1, <1>2, <1>5, <2>1
<1> QED BY <1>4, <1>5

LEMMA ClipKeepsOffice ==
  ASSUME NEW rows \in SUBSET LegRow, NEW date \in Int, NEW d \in Int, d < date
  PROVE  {a.office : a \in {x \in Clip(rows, date) : Contains(x, d)}} =
         {a.office : a \in {x \in rows : Contains(x, d)}}
<1> DEFINE Cropped(r) ==
         [r EXCEPT !.till = IF r.till > date THEN date ELSE r.till]
<1>1. Clip(rows, date) = {Cropped(r) : r \in {r \in rows : r.from < date}}
  BY DEF Clip
<1>2. ASSUME NEW r \in rows, r.from < date
      PROVE  /\ Contains(Cropped(r), d) <=> Contains(r, d)
             /\ Cropped(r).office = r.office
  <2>1. /\ Cropped(r).from = r.from /\ Cropped(r).office = r.office
        /\ Cropped(r).till = IF r.till > date THEN date ELSE r.till
    BY DEF LegRow
  <2>2. r.from \in Int /\ r.till \in Int
    BY DaysInt DEF LegRow
  <2> HIDE DEF Cropped
  <2> QED BY <2>1, <2>2 DEF Contains
<1>3. ASSUME NEW r \in rows, Contains(r, d) PROVE r.from < date
  <2>1. r.from \in Int
    BY DaysInt DEF LegRow
  <2> QED BY <1>3, <2>1 DEF Contains
<1> HIDE DEF Cropped
<1>4. \A x \in Clip(rows, date) : Contains(x, d) =>
        \E r \in rows : Contains(r, d) /\ r.office = x.office
  BY <1>1, <1>2
<1>5. \A r \in rows : Contains(r, d) =>
        \E x \in Clip(rows, date) : Contains(x, d) /\ x.office = r.office
  BY <1>1, <1>2, <1>3
<1> QED BY <1>4, <1>5

(* The row that covers the day, and its office, in the step's two states.  *)
SameRows(d) ==
  /\ \A x \in enrolments' : Contains(x, d) =>
       \E r \in enrolments : Contains(r, d) /\ r.from = x.from /\ r.at = x.at
  /\ \A r \in enrolments : Contains(r, d) =>
       \E x \in enrolments' : Contains(x, d) /\ x.from = r.from /\ x.at = r.at
  /\ OfficeOn(d)' = OfficeOn(d)

LEMMA RowsUntouched ==
  ASSUME UNCHANGED periods, NEW d
  PROVE  SameRows(d)
BY DEF SameRows, OfficeOn, periods

LEMMA PlannedOffice ==
  ASSUME RowsType, NEW date \in Int, NEW d \in Int, d < date,
         \/ assignments' = Clip(assignments, date)
         \/ \E office : assignments' = Placed(assignments, date, office)
  PROVE  OfficeOn(d)' = OfficeOn(d)
<1>1. {a.office : a \in {x \in Clip(assignments, date) : Contains(x, d)}} = OfficeOn(d)
  BY ClipKeepsOffice DEF RowsType, OfficeOn
<1>2. OfficeOn(d)' = {a.office : a \in {x \in assignments' : Contains(x, d)}}
  BY DEF OfficeOn
<1>3. {x \in assignments' : Contains(x, d)} =
      {x \in Clip(assignments, date) : Contains(x, d)}
  BY DEF Placed, Contains
<1> QED BY <1>1, <1>2, <1>3

LEMMA RowCallSameRows ==
  ASSUME RowsType, NEW c \in Clocks, RowCall(c), NEW d \in Days, d < c.day
  PROVE  SameRows(d)
<1> USE DaysInt
<1>1. c.day \in Int /\ d \in Int
  BY ClockFacts
<1>2. ASSUME NEW date \in Days, Disable(c, date) PROVE SameRows(d)
  <2>1. /\ enrolments' = Clip(enrolments, date) /\ date >= c.day
        /\ assignments' = Clip(assignments, date)
    BY <1>2 DEF Disable, DisableEnrolment
  <2>2. date \in Int /\ d < date
    BY <1>1, <2>1
  <2>3. OfficeOn(d)' = OfficeOn(d)
    BY <1>1, <2>1, <2>2, PlannedOffice
  <2> QED BY <1>1, <2>1, <2>2, <2>3, ClipKeepsPeriod DEF SameRows, RowsType
<1>3. ASSUME NEW date \in Days, NEW office \in Offices, Enable(c, date, office)
      PROVE  SameRows(d)
  <2>1. /\ enrolments' = Enrolled(enrolments, date, IF date = c.day THEN c.hour ELSE 0)
        /\ assignments' = Placed(assignments, date, office) /\ d < date
    BY <1>1, <1>3 DEF Enable, SetEnrolment
  <2>2. OfficeOn(d)' = OfficeOn(d)
    BY <1>1, <2>1, PlannedOffice
  <2>3. \A x \in enrolments' : Contains(x, d) => x \in Clip(enrolments, date)
    BY <1>1, <2>1 DEF Enrolled, Contains
  <2>4. Clip(enrolments, date) \subseteq enrolments'
    BY <2>1 DEF Enrolled
  <2>5. enrolments \in SUBSET PeriodRow
    BY DEF RowsType
  <2> QED BY <1>1, <2>1, <2>2, <2>3, <2>4, <2>5, ClipKeepsPeriod DEF SameRows
<1>4. ASSUME NEW date \in Days, NEW office \in Offices, Reassign(c, date, office)
      PROVE  SameRows(d)
  <2> DEFINE start == EffectiveFrom(c, date, record[c.day] # "none")
  <2>1. /\ enrolments' = enrolments /\ date >= c.day
        /\ assignments' = Placed(assignments, start, office)
    BY <1>4 DEF Reassign, ReassignOffice
  <2>2. start \in Int /\ d < start
    BY <1>1, <2>1 DEF EffectiveFrom
  <2> HIDE DEF start
  <2>3. OfficeOn(d)' = OfficeOn(d)
    BY <1>1, <2>1, <2>2, PlannedOffice
  <2> QED BY <2>1, <2>3 DEF SameRows
<1> QED BY <1>2, <1>3, <1>4 DEF RowCall

(* The approved leave of the day, and its parts, in the step's two states. *)
SameLeave(d) ==
  \A r \in Requests :
    /\ leave'[r][d] = "approved" <=> leave[r][d] = "approved"
    /\ leave[r][d] = "approved" => part'[r] = part[r]

(* What a step that settles nothing about a day leaves alone.              *)
Quiet(d) ==
  /\ record'[d] = record[d] /\ SameRows(d)
  /\ override'[d] = override[d] /\ (d \in holidays <=> d \in holidays')
  /\ \A r \in Requests : leave'[r][d] = "approved" => leave[r][d] = "approved"

LEMMA CreditQuiet ==
  ASSUME DayType, NEW d \in Days, Quiet(d), SameLeave(d),
         d \in Int, today \in Int, today' \in Int, d < today, today <= today'
  PROVE  Credit(d)' = Credit(d)
<1>1. CheckedIn(d)' = CheckedIn(d) /\ CheckedOut(d)' = CheckedOut(d)
  BY DEF CheckedIn, CheckedOut, Quiet
<1>2. StatusTracked(d)' <=> StatusTracked(d)
  <2>1. OfficeStart(d)' = OfficeStart(d)
    BY DEF OfficeStart, SameRows, Quiet
  <2>2. Tracked(d, CheckedIn(d))' <=> Tracked(d, CheckedIn(d))
    BY <1>1, <2>1 DEF Tracked, SameRows, Quiet
  <2> QED BY <2>2 DEF StatusTracked, Quiet
<1>3. \A p : ApprovedOn(d, p)' <=> ApprovedOn(d, p)
  BY DEF ApprovedOn, SameLeave
<1>4. OnLeave(d)' <=> OnLeave(d)
  BY <1>1, <1>3 DEF OnLeave
<1>5. ~(d >= today) /\ ~(d >= today')
  OBVIOUS
<1>6. override'[d] = override[d] /\ (d \in holidays <=> d \in holidays')
  BY DEF Quiet
<1> QED BY <1>1, <1>2, <1>3, <1>4, <1>5, <1>6 DEF Credit

(* No call but an owner's approval gives or takes approved leave of a day  *)
(* that no call can take for today.                                        *)
LEMMA LeaveCallSame ==
  ASSUME RowsType, DayType, NEW c \in Clocks, LeaveCall(c),
         NEW d \in Days, d < c.day, Quiet(d)
  PROVE  SameLeave(d)
<1>1. c.day \in Int /\ d \in Int
  BY ClockFacts, DaysInt
<1>2. ASSUME NEW r \in Requests, NEW first \in Days, NEW last \in Days, NEW p \in Parts,
             NEW state \in ActiveStates, Apply(r, c, first, last, p, state)
      PROVE  SameLeave(d)
  <2> DEFINE span == first..last
  <2>1. leave' = Move(r, span, state) /\ state \in LeaveStates
    BY <1>2 DEF Apply, ActiveStates, LeaveStates
  <2>2. leave[r][d] = "none" /\ part' = [part EXCEPT ![r] = p]
    BY <1>2 DEF Apply
  <2> HIDE DEF span
  <2>3. \A s \in Requests :
          leave'[s][d] = IF s = r /\ d \in span THEN state ELSE leave[s][d]
    BY <2>1, MoveTyped
  <2>4. \A s \in Requests : s # r => part'[s] = part[s]
    BY <2>2 DEF DayType
  <2> QED BY <2>2, <2>3, <2>4 DEF SameLeave, Quiet
<1>3. ASSUME NEW r \in Requests, NEW states, NEW cause \in Repeatable,
             Withdraw(r, c, states, cause)
      PROVE  SameLeave(d)
  <2> DEFINE dates == Actionable(r, c, states)
  <2>1. leave' = Move(r, dates, cause) /\ part' = part
    BY <1>3 DEF Withdraw
  <2>2. d \notin dates /\ cause \in LeaveStates
    BY <1>1 DEF Actionable, Repeatable, LeaveStates, Causes
  <2> HIDE DEF dates
  <2>3. \A s \in Requests : leave'[s][d] = leave[s][d]
    BY <2>1, <2>2, MoveTyped
  <2> QED BY <2>1, <2>3 DEF SameLeave
<1>4. ASSUME NEW r \in Requests, NEW state \in {"approved", "rejected"}, Decide(r, state)
      PROVE  SameLeave(d)
  <2> DEFINE dates == PendingDays(r)
  <2>1. leave' = Move(r, dates, state) /\ part' = part /\ state \in LeaveStates
    BY <1>4 DEF Decide, LeaveStates
  <2>2. d \in dates => leave[r][d] = "pending"
    BY DEF PendingDays
  <2> HIDE DEF dates
  <2>3. \A s \in Requests :
          leave'[s][d] = IF s = r /\ d \in dates THEN state ELSE leave[s][d]
    BY <2>1, MoveTyped
  <2> QED BY <2>1, <2>2, <2>3 DEF SameLeave, Quiet
<1> QED BY <1>2, <1>3, <1>4 DEF LeaveCall, Revoke, Cancel, Repeatable

LEMMA DayCallSame ==
  ASSUME RowsType, DayType, NEW c \in Clocks, DayCall(c), NEW d \in Days, d < c.day
  PROVE  SameLeave(d)
<1>1. c.day \in Int /\ d \in Int
  BY ClockFacts, DaysInt
<1>2. CASE CheckIn(c)
  <2>1. \A r \in Requests : leave'[r][d] = leave[r][d]
    BY <1>1, <1>2 DEF CheckIn
  <2> QED BY <1>2, <2>1 DEF SameLeave, CheckIn
<1>3. CASE leave' = leave /\ part' = part
  BY <1>3 DEF SameLeave
<1> QED BY <1>2, <1>3 DEF DayCall, CheckOut, Correct, ToggleHoliday, leaveVars

LEMMA RowCallSame ==
  ASSUME RowsType, DayType, NEW c \in Clocks, RowCall(c), NEW d \in Days, d < c.day
  PROVE  SameLeave(d) /\ record' = record
<1>1. c.day \in Int /\ d \in Int
  BY ClockFacts, DaysInt
<1>2. ASSUME NEW date \in Days, Disable(c, date) PROVE SameLeave(d) /\ record' = record
  <2>1. ~(d >= date)
    BY <1>1, <1>2, DaysInt DEF Disable, DisableEnrolment
  <2>2. \A r \in Requests :
          leave'[r][d] = IF d \in Swept(r, date) THEN "disable" ELSE leave[r][d]
    BY <1>2 DEF Disable
  <2>3. \A r \in Requests : d \in Swept(r, date) => leave[r][d] = "pending"
    BY <2>1 DEF Swept, PendingDays
  <2> QED BY <1>2, <2>2, <2>3 DEF SameLeave, Disable, dayVars
<1>3. CASE leave' = leave /\ part' = part /\ record' = record
  BY <1>3 DEF SameLeave
<1> QED BY <1>2, <1>3 DEF RowCall, Enable, Reassign, leaveVars, dayVars

LEMMA DayCallRecord ==
  ASSUME RowsType, DayType, NEW c \in Clocks, DayCall(c), NEW d \in Days, d < c.day
  PROVE  record'[d] = record[d]
<1>1. c.day \in Days /\ c.day # d
  BY ClockFacts, DaysInt
<1> QED BY <1>1 DEF DayCall, CheckIn, CheckOut, Correct, ToggleHoliday, DayType

LEMMA SettledCredit ==
  ASSUME IInv, [Next]_vars, NEW d \in Days, Settled(d), override'[d] = override[d],
         (d \in holidays) <=> (d \in holidays'),
         \A r \in Requests : leave'[r][d] = "approved" => leave[r][d] = "approved"
  PROVE  Credit(d)' = Credit(d)
<1> USE DEF IInv
<1>1. d < today /\ d \in Int /\ today \in Int
  <2>1. [day |-> today, hour |-> hour] \in Clocks
    BY DEF Clocks
  <2>2. d < today
    BY <2>1 DEF Settled
  <2> QED BY <2>2, DaysInt DEF RowsType
<1>2. today' \in Int /\ today <= today'
  <2>1. CASE PassTime
    BY <2>1, PassTimeRows, DaysInt DEF RowsType
  <2>2. CASE UNCHANGED clock
    BY <2>2, SameDay
  <2>3. ASSUME NEW c \in Clocks, LeaveCall(c) \/ DayCall(c) \/ RowCall(c)
        PROVE  UNCHANGED clock
    <3>1. CASE LeaveCall(c)
      BY <3>1 DEF LeaveCall, Apply, Revoke, Cancel, Withdraw, Decide
    <3>2. CASE DayCall(c)
      BY <3>2 DEF DayCall, CheckIn, CheckOut, Correct, ToggleHoliday
    <3>3. CASE RowCall(c)
      BY <3>3 DEF RowCall, Disable, Enable, Reassign
    <3> QED BY <2>3, <3>1, <3>2, <3>3
  <2> QED BY <2>1, <2>2, <2>3, NextCases DEF vars
<1>3. CASE periods' = periods /\ record' = record /\ leave' = leave /\ part' = part
  <2>1. Quiet(d) /\ SameLeave(d)
    BY <1>3, RowsUntouched DEF Quiet, SameLeave
  <2> QED BY <1>1, <1>2, <2>1, CreditQuiet
<1>4. ASSUME NEW c \in Clocks, LeaveCall(c) PROVE Credit(d)' = Credit(d)
  <2>1. d < c.day
    BY DEF Settled
  <2>2. periods' = periods /\ record' = record
    BY <1>4 DEF LeaveCall, Apply, Revoke, Cancel, Withdraw, Decide, dayVars
  <2>3. Quiet(d)
    BY <2>2, RowsUntouched DEF Quiet
  <2> QED BY <1>1, <1>2, <1>4, <2>1, <2>3, LeaveCallSame, CreditQuiet
<1>5. ASSUME NEW c \in Clocks, DayCall(c) PROVE Credit(d)' = Credit(d)
  <2>1. d < c.day
    BY DEF Settled
  <2>2. periods' = periods
    BY <1>5 DEF DayCall, CheckIn, CheckOut, Correct, ToggleHoliday
  <2>3. Quiet(d)
    BY <1>5, <2>1, <2>2, RowsUntouched, DayCallRecord DEF Quiet
  <2> QED BY <1>1, <1>2, <1>5, <2>1, <2>3, DayCallSame, CreditQuiet
<1>6. ASSUME NEW c \in Clocks, RowCall(c) PROVE Credit(d)' = Credit(d)
  <2>1. d < c.day
    BY DEF Settled
  <2>2. Quiet(d)
    BY <1>6, <2>1, RowCallSame, RowCallSameRows DEF Quiet
  <2> QED BY <1>1, <1>2, <1>6, <2>1, <2>2, RowCallSame, CreditQuiet
<1>7. CASE PassTime \/ UNCHANGED vars
  BY <1>3, <1>7 DEF PassTime, vars, dayVars, leaveVars
<1> QED BY <1>4, <1>5, <1>6, <1>7, NextCases

-----------------------------------------------------------------------------
(***************************************************************************)
(* What the leave screens say.                                             *)
(***************************************************************************)

(* A day is filed as the derived states say.                               *)
LEMMA StatesTold ==
  ASSUME DayType, NEW r \in Requests
  PROVE  /\ "pending" \in StatesOf(r) <=> PendingDays(r) # {}
         /\ "approved" \in StatesOf(r) <=> \E d \in Days : leave[r][d] = "approved"
         /\ StatesOf(r) \subseteq {"pending", "approved", "rejected", "revoked", "cancelled"}
<1>1. \A d \in Days : leave[r][d] \in LeaveStates
  BY DEF DayType
<1>2. \A x \in LeaveStates :
        /\ StateOf(x) = "pending" <=> x = "pending"
        /\ StateOf(x) = "approved" <=> x = "approved"
        /\ x # "none" =>
             StateOf(x) \in {"pending", "approved", "rejected", "revoked", "cancelled"}
  BY DEF StateOf, LeaveStates, Causes
<1> QED BY <1>1, <1>2 DEF StatesOf, PendingDays

LEMMA StatusRight == DayType => StatusTells
<1> SUFFICES ASSUME DayType PROVE StatusTells
  OBVIOUS
<1>1. ASSUME NEW r \in Requests
      PROVE  /\ Filed(r) /\ deriveLeaveStatus(r) = "pending" <=> PendingDays(r) # {}
             /\ Filed(r) /\ deriveLeaveStatus(r) = "approved" <=>
                  PendingDays(r) = {} /\ \E d \in Days : leave[r][d] = "approved"
             /\ Filed(r) /\ deriveLeaveStatus(r) = "rejected" =>
                  StatesOf(r) = {"rejected"}
  <2> DEFINE S == StatesOf(r)
  <2>1. S \subseteq {"pending", "approved", "rejected", "revoked", "cancelled"}
    BY StatesTold
  <2> HIDE DEF S
  <2>2. deriveLeaveStatus(r) =
          IF "pending" \in S THEN "pending"
          ELSE IF "approved" \in S THEN "approved"
          ELSE IF "revoked" \in S THEN "revoked"
          ELSE IF "cancelled" \in S THEN "cancelled" ELSE "rejected"
    BY DEF deriveLeaveStatus, S
  <2>3. deriveLeaveStatus(r) = "pending" <=> "pending" \in S
    BY <2>2
  <2>4. deriveLeaveStatus(r) = "approved" <=> "pending" \notin S /\ "approved" \in S
    BY <2>2
  <2>5. deriveLeaveStatus(r) = "rejected" <=>
          S \cap {"pending", "approved", "revoked", "cancelled"} = {}
    BY <2>2
  <2>6. S # {} /\ S \cap {"pending", "approved", "revoked", "cancelled"} = {} =>
          S = {"rejected"}
    BY <2>1
  <2> QED BY <2>3, <2>4, <2>5, <2>6, StatesTold DEF Filed, S
<1> QED BY <1>1 DEF StatusTells, listLeave

LEMMA PreviewRight == RowsType /\ DayType => ApplyPreviewHolds
<1> SUFFICES ASSUME RowsType, DayType, NEW first \in Days, NEW last \in Days, NEW p \in Parts
             PROVE  previewApply(Now, first, last, p).ok <=>
                      /\ first <= last
                      /\ p = "half_day" => first = last
                      /\ Applicable(Now, first..last, first)
  BY DEF ApplyPreviewHolds
<1> DEFINE span == first..last
           covering == {e \in enrolments : Contains(e, Now.day)}
           upcoming == {e \in enrolments : e.from > Now.day}
           floors == {e.from : e \in IF covering # {} THEN covering ELSE upcoming}
<1>1. first \in Int /\ last \in Int /\ Now.day \in Int /\ MaxPast \in Int
  BY DaysInt, LeaveAssumption DEF Now, RowsType, LeaveAssumption
<1>2. \A e \in enrolments : e.from \in Int
  BY DaysInt DEF RowsType, PeriodRow
<1>3. FloorReached(Now, first) <=> floors # {} /\ ~(\A f \in floors : first < f)
  BY <1>1, <1>2 DEF FloorReached
<1>4. /\ (~\E d \in span : d <= Now.day /\ record[d] # "none") <=>
            \A d \in span : d <= Now.day => record[d] = "none"
      /\ (~\E d \in span : override[d] \notin {"none", "absent"}) <=>
            \A d \in span : override[d] \in {"none", "absent"}
  OBVIOUS
<1>5. Refused(Now, first, last, p) = "none" <=>
        /\ ~(last < first \/ (p = "half_day" /\ first # last))
        /\ floors # {} /\ ~(\A f \in floors : first < f)
        /\ ~(first < Now.day - MaxPast)
        /\ ~\E d \in span : d <= Now.day /\ record[d] # "none"
        /\ WorkingDays(span) # {}
        /\ ~\E d \in span : override[d] \notin {"none", "absent"}
        /\ ~Overlapping(span)
  BY DEF Refused
<1>6. previewApply(Now, first, last, p).ok <=> Refused(Now, first, last, p) = "none"
  BY DEF previewApply
<1>7. Applicable(Now, span, first) <=>
        /\ FloorReached(Now, first)
        /\ first >= Now.day - MaxPast
        /\ \A d \in span : d <= Now.day => record[d] = "none"
        /\ WorkingDays(span) # {}
        /\ \A d \in span : override[d] \in {"none", "absent"}
        /\ ~Overlapping(span)
  BY DEF Applicable, WorkingDays
<1> HIDE DEF span, floors
<1>8. previewApply(Now, first, last, p).ok <=>
        /\ first <= last
        /\ p = "half_day" => first = last
        /\ Applicable(Now, span, first)
  BY <1>1, <1>3, <1>4, <1>5, <1>6, <1>7
<1> QED BY <1>8 DEF span

(* Within a day the hour only rises.                                       *)
LEMMA TimeRises ==
  ASSUME IInv, [Next]_vars
  PROVE  /\ today \in Int /\ today' \in Int /\ hour \in Int /\ hour' \in Int
         /\ today <= today' /\ (today' = today => hour <= hour')
<1>1. RowsType /\ RowsType'
  BY RowsStep DEF IInv
<1>2. today \in Int /\ today' \in Int /\ hour \in Int /\ hour' \in Int
  BY <1>1, DaysInt, HoursInt DEF RowsType
<1>3. CASE PassTime
  BY <1>2, <1>3 DEF PassTime, Tick
<1>4. ASSUME NEW c \in Clocks, LeaveCall(c) \/ DayCall(c) \/ RowCall(c)
      PROVE  UNCHANGED clock
  <2>1. CASE LeaveCall(c)
    BY <2>1 DEF LeaveCall, Apply, Revoke, Cancel, Withdraw, Decide
  <2>2. CASE DayCall(c)
    BY <2>2 DEF DayCall, CheckIn, CheckOut, Correct, ToggleHoliday
  <2>3. CASE RowCall(c)
    BY <2>3 DEF RowCall, Disable, Enable, Reassign
  <2> QED BY <1>4, <2>1, <2>2, <2>3
<1>5. CASE UNCHANGED clock
  BY <1>2, <1>5 DEF clock
<1> QED BY <1>2, <1>3, <1>4, <1>5, NextCases DEF vars

LEMMA StartHours ==
  ASSUME RowsType, NEW d
  PROVE  OfficeStart(d) \subseteq Int
<1>1. OfficeOn(d) \subseteq Offices
  BY DEF OfficeOn, RowsType, LegRow
<1> QED BY <1>1, EnrolmentAssumption DEF EnrolmentAssumption, OfficeStart

LEMMA PreviewsAge ==
  ASSUME IInv, [Next]_vars, NEW r \in Requests
  PROVE  PreviewAges(r)
<1>1. RowsType /\ RowsType'
  BY RowsStep DEF IInv
<1>2. OfficeStart(today) \subseteq Int
  BY <1>1, StartHours
<1>3. \A d : d \in Takes(r, Now, "cancel") <=>
        /\ d \in Days /\ leave[r][d] \in ActiveStates
        /\ d > today \/ (d = today /\ ~\E start \in OfficeStart(today) : hour >= start)
  BY DEF Takes, SourceStates, Actionable, CutoffPassed, Now
<1>4. \A d : d \in Takes(r, Now, "cancel")' <=>
        /\ d \in Days /\ leave'[r][d] \in ActiveStates
        /\ \/ d > today'
           \/ d = today' /\ ~\E start \in OfficeStart(today)' : hour' >= start
  BY DEF Takes, SourceStates, Actionable, CutoffPassed, Now
<1>5. ASSUME NEW d \in Takes(r, Now, "cancel")' \ Takes(r, Now, "cancel"),
             leave'[r][d] = leave[r][d]
      PROVE  d = today' /\ OfficeStart(d)' # OfficeStart(d)
  <2>1. d \in Int /\ d \in Days
    BY <1>4, DaysInt
  <2>2. d = today' /\ d = today
    BY <1>3, <1>4, <1>5, <2>1, TimeRises
  <2>3. (\E start \in OfficeStart(today) : hour >= start)
        /\ ~\E start \in OfficeStart(today)' : hour' >= start
    BY <1>3, <1>4, <1>5, <2>1, <2>2, TimeRises
  <2>4. hour <= hour' /\ hour \in Int /\ hour' \in Int
    BY <2>2, TimeRises
  <2>5. OfficeStart(today)' # OfficeStart(today)
    BY <1>2, <2>3, <2>4
  <2>6. OfficeStart(d)' = OfficeStart(today)' /\ OfficeStart(d) = OfficeStart(today)
    BY <2>2 DEF OfficeStart, OfficeOn
  <2> QED BY <2>2, <2>5, <2>6
<1>6. ASSUME NEW d \in Takes(r, Now, "cancel") \ Takes(r, Now, "cancel")',
             leave'[r][d] = leave[r][d], clock' = clock
      PROVE  d = today' /\ OfficeStart(d)' # OfficeStart(d)
  <2>1. today' = today /\ hour' = hour
    BY <1>6 DEF clock
  <2>2. d = today' /\ OfficeStart(today)' # OfficeStart(today)
    BY <1>3, <1>4, <1>6, <2>1
  <2>3. OfficeStart(d)' = OfficeStart(today)' /\ OfficeStart(d) = OfficeStart(today)
    BY <2>1, <2>2 DEF OfficeStart, OfficeOn
  <2> QED BY <2>2, <2>3
<1> QED BY <1>5, <1>6 DEF PreviewAges

-----------------------------------------------------------------------------
(***************************************************************************)
(* The theorems.                                                           *)
(***************************************************************************)

(* The inductive invariant is one.                                         *)
LEMMA Invariance == Spec => []IInv
<1>1. Init => IInv
  BY RowsInit, DayInit, LeaveInit DEF IInv
<1>2. IInv /\ [Next]_vars => IInv'
  BY RowsStep, DayStep, LeaveStep DEF IInv
<1> QED BY <1>1, <1>2, PTL DEF Spec

(* Types, and no enrolment or assignment row is ever an empty range.       *)
THEOREM TypeCorrect == Spec => []TypeOK
<1>1. IInv => TypeOK
  BY TypeSplit DEF IInv
<1> QED BY <1>1, Invariance, PTL

(* The rows the calls leave behind never make the coverage guard refuse an *)
(* enable or a disable, on any date and at any office.                     *)
THEOREM LifecycleNeverRefused == Spec => []EnableDisableFit
<1>1. IInv => EnableDisableFit
  BY PlansFit DEF IInv, RowsType, RowsGuarded, EnableDisableFit
<1> QED BY <1>1, Invariance, PTL

(* No two requests are active on a day: the overlap probe of apply is      *)
(* enough, for no other call makes a day active again.                     *)
THEOREM OneActiveLeavePerDay == Spec => []OneActiveLeave
<1>1. IInv => OneActiveLeave
  BY DEF IInv, LeaveInv
<1> QED BY <1>1, Invariance, PTL

(* A checked-in working day carries full-day leave only if the request was *)
(* filed with the clock of an earlier day.                                 *)
THEOREM NoDoubleBooking == Spec => []OnlyLateCallsDoubleBook
<1>1. IInv => OnlyLateCallsDoubleBook
  BY DEF IInv, LeaveInv
<1> QED BY <1>1, Invariance, PTL

(* A day worked to its end keeps its credit until the owner corrects it or *)
(* the day is no longer tracked.                                           *)
THEOREM WorkKept == Spec => []WorkNeverLost
<1>1. ASSUME NEW d \in Days, record[d] = "out", override[d] = "none", StatusTracked(d)
      PROVE  Credit(d).worked + Credit(d).off > 0
  <2>1. CheckedOut(d) /\ ~OnLeave(d)
    BY <1>1 DEF CheckedOut, CheckedIn, OnLeave
  <2> QED BY <1>1, <2>1 DEF Credit, Earn
<1>2. WorkNeverLost
  BY <1>1 DEF WorkNeverLost
<1> QED BY <1>2, PTL

(* Days over are settled: of all calls only a correction, a holiday edit   *)
(* and an approval change what such a day is worth.                        *)
THEOREM PastIsSettled == Spec => PastSettled
<1> DEFINE Keeps1 ==
      \A d \in Days :
        Settled(d) /\ Credit(d)' # Credit(d) =>
          \/ override'[d] # override[d]
          \/ (d \in holidays) # (d \in holidays')
          \/ \E r \in Requests : leave'[r][d] = "approved" /\ leave[r][d] # "approved"
<1>1. IInv /\ [Next]_vars => [Keeps1]_vars
  <2> SUFFICES ASSUME IInv, [Next]_vars PROVE Keeps1
    OBVIOUS
  <2> QED BY SettledCredit
<1>2. Spec => [][Keeps1]_vars
  BY <1>1, Invariance, PTL DEF Spec
<1> QED BY <1>2 DEF PastSettled

(* What the screens tell of a request, and of an application, is so now.   *)
THEOREM LeaveTold == Spec => []LeaveToldHolds
<1>1. IInv => LeaveToldHolds
  BY StatusRight, PreviewRight DEF IInv, LeaveToldHolds
<1> QED BY <1>1, Invariance, PTL

(* A shown preview of a cancel or a revoke ages only as its screen expects.*)
THEOREM PreviewsHold == Spec => PreviewsStayTrue
<1> DEFINE Aged == \A r \in Requests : PreviewAges(r)
<1>1. IInv /\ [Next]_vars => Aged
  BY PreviewsAge
<1>2. Spec => [][Aged]_vars
  BY <1>1, Invariance, PTL DEF Spec
<1> QED BY <1>2 DEF PreviewsStayTrue
=============================================================================
