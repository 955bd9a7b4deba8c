---------------------------- MODULE CalendarProofs ----------------------------
(***************************************************************************)
(* What TLAPS proves of the calendar: the attempts behind the check-ins,   *)
(* the offices and the weekly days off, for any number of employees, keys, *)
(* ticks, offices and days, any budget and any choices of days off.        *)
(***************************************************************************)
EXTENDS DayContext, CheckInAttempts, FiniteSetTheorems, WellFoundedInduction, TLAPS

-----------------------------------------------------------------------------
(***************************************************************************)
(* Check-in attempts.                                                      *)
(***************************************************************************)

Outcomes ==
  {"ok", "too_far", "mocked", "rate_limited", "not_tracked", "already_checked_in",
   "not_checked_in", "already_checked_out", "leave_confirmation_required"}

Attempts ==
  [employee : Employees, key : Keys, kind : Kinds, outcome : Outcomes,
   at : Nat, until : Int]

AttemptTypes ==
  /\ now \in Nat
  /\ attempts \subseteq Attempts /\ IsFiniteSet(attempts)
  /\ records \in [Employees -> {"none", "in", "out"}]

(* A window with a full budget of rejections holds one that blocks.        *)
Rejections(e, start) ==
  {a \in attempts : /\ a.employee = e /\ a.outcome \in CountedOutcomes
                    /\ start < a.at /\ a.at <= start + RateWindow}

BudgetBlocks ==
  \A e \in Employees, start \in Int :
    /\ Cardinality(Rejections(e, start)) <= RateMax
    /\ Cardinality(Rejections(e, start)) = RateMax =>
         \E y \in Rejections(e, start) : y.until = y.at + RateBlock

(* The record holds what was accepted, and what a conflict said of it      *)
(* stays true.                                                             *)
Accepted(e, kind) ==
  {a \in attempts : a.employee = e /\ a.kind = kind /\ a.outcome = "ok"}

DoneKinds(e) ==
  (IF records[e] = "none" THEN {} ELSE {"check_in"})
    \cup (IF records[e] = "out" THEN {"check_out"} ELSE {})

AcceptedOnce ==
  \A e \in Employees, kind \in Kinds :
    Cardinality(Accepted(e, kind)) = IF kind \in DoneKinds(e) THEN 1 ELSE 0

ConflictsStayTrue ==
  \A a \in attempts :
    /\ a.kind = "check_in" /\ a.outcome = "already_checked_in" =>
         "check_in" \in DoneKinds(a.employee)
    /\ a.kind = "check_out" /\ a.outcome = "already_checked_out" =>
         "check_out" \in DoneKinds(a.employee)

AttemptsInv ==
  AttemptTypes /\ BudgetBlocks /\ EnoughMockedAlerts /\ AcceptedOnce /\ ConflictsStayTrue

LEMMA AttemptConstants ==
  /\ RateMax \in Nat \ {0} /\ RateWindow \in Nat \ {0} /\ RateBlock \in Nat \ {0}
  /\ AlertThreshold \in Nat \ {0} /\ Month \in Nat \ {0} /\ RateBlock >= RateWindow
BY AttemptsAssumption DEF AttemptsAssumption

(* A subset of the attempts, with one more row or without.                 *)
LEMMA OneMoreAttempt ==
  ASSUME AttemptTypes, NEW S \in SUBSET attempts, NEW x, x \notin attempts
  PROVE  /\ IsFiniteSet(S) /\ Cardinality(S) \in Nat
         /\ Cardinality(S \cup {x}) = Cardinality(S) + 1
<1>1. IsFiniteSet(S)
  BY FS_Subset DEF AttemptTypes
<1> QED BY <1>1, FS_CardinalityType, FS_AddElement

(* The row an attempt leaves.                                              *)
LEMMA AttemptInserted ==
  ASSUME AttemptTypes, NEW e \in Employees, NEW key \in Keys, NEW kind \in Kinds,
         NEW outcome \in Outcomes, NEW at \in Nat, InsertAttempt(e, key, kind, outcome, at)
  PROVE  \E x \in Attempts :
           /\ x = [employee |-> e, key |-> key, kind |-> kind, outcome |-> outcome,
                   at |-> at, until |-> BlockOf(e, outcome, at)]
           /\ x.employee = e /\ x.kind = kind /\ x.outcome = outcome /\ x.at = at
           /\ x.until = BlockOf(e, outcome, at)
           /\ x \notin attempts
           /\ attempts' = attempts \cup {x}
           /\ attempts' \subseteq Attempts /\ IsFiniteSet(attempts')
<1> DEFINE x == [employee |-> e, key |-> key, kind |-> kind, outcome |-> outcome,
                 at |-> at, until |-> BlockOf(e, outcome, at)]
<1>1. BlockOf(e, outcome, at) \in Int
  BY AttemptConstants DEF BlockOf, NoBlock
<1>2. x \in Attempts /\ x.key = key
  BY <1>1 DEF Attempts
<1>3. x \notin attempts /\ attempts' = attempts \cup {x}
  BY <1>2 DEF InsertAttempt
<1>4. IsFiniteSet(attempts')
  BY <1>3, FS_AddElement DEF AttemptTypes
<1> QED BY <1>2, <1>3, <1>4 DEF AttemptTypes

(* The budget: the rejection that would overrun a window comes after the   *)
(* last one before it, whose block lasts as long as the window.            *)
LEMMA BudgetKept ==
  ASSUME AttemptTypes, BudgetBlocks, NEW e \in Employees, NEW key \in Keys,
         NEW kind \in Kinds, NEW outcome \in Outcomes, NEW at \in Nat,
         InsertAttempt(e, key, kind, outcome, at),
         outcome \in CountedOutcomes => ActiveBlocks(e, at) = {}
  PROVE  BudgetBlocks'
<1>1. PICK x \in Attempts :
        /\ x.employee = e /\ x.kind = kind /\ x.outcome = outcome /\ x.at = at
        /\ x.until = BlockOf(e, outcome, at)
        /\ x \notin attempts
        /\ attempts' = attempts \cup {x}
  BY AttemptInserted
<1> SUFFICES ASSUME NEW f \in Employees, NEW start \in Int
             PROVE  /\ Cardinality(Rejections(f, start)') <= RateMax
                    /\ Cardinality(Rejections(f, start)') = RateMax =>
                         \E y \in Rejections(f, start)' : y.until = y.at + RateBlock
  BY DEF BudgetBlocks
<1> DEFINE S == Rejections(f, start)
<1>2. S \subseteq attempts
  BY DEF Rejections
<1>3. IsFiniteSet(S) /\ Cardinality(S) \in Nat /\ Cardinality(S \cup {x}) = Cardinality(S) + 1
  BY <1>1, <1>2, OneMoreAttempt
<1>4. /\ Cardinality(S) <= RateMax
      /\ Cardinality(S) = RateMax => \E y \in S : y.until = y.at + RateBlock
  BY DEF BudgetBlocks
<1>5. CASE f = e /\ outcome \in CountedOutcomes /\ start < at /\ at <= start + RateWindow
  <2>1. Rejections(f, start)' = S \cup {x}
    BY <1>1, <1>5 DEF Rejections
  <2>2. Cardinality(S) # RateMax
    <3> SUFFICES ASSUME NEW y \in S, y.until = y.at + RateBlock PROVE FALSE
      BY <1>4
    <3>1. y \in attempts /\ y \in Attempts /\ y.employee = e /\ start < y.at
      BY <1>5 DEF Rejections, AttemptTypes
    <3>2. ~(y.until > at)
      BY <1>5, <3>1 DEF ActiveBlocks
    <3>3. y.at \in Nat /\ y.until \in Int
      BY <3>1 DEF Attempts
    <3> QED BY <1>5, <3>1, <3>2, <3>3, AttemptConstants
  <2>3. Cardinality(S) + 1 <= RateMax
    BY <1>3, <1>4, <2>2, AttemptConstants
  <2>4. Cardinality(S) + 1 = RateMax => x.until = x.at + RateBlock
    <3>1. S \subseteq CountedInWindow(e, at)
      <4>1. \A y \in S : y.at \in Nat
        BY <1>2 DEF AttemptTypes, Attempts
      <4> QED BY <1>5, <4>1, AttemptConstants DEF Rejections, CountedInWindow
    <3>2. CountedInWindow(e, at) \subseteq attempts /\ IsFiniteSet(attempts)
      BY DEF CountedInWindow, AttemptTypes
    <3>3. IsFiniteSet(CountedInWindow(e, at))
      BY <3>2, FS_Subset
    <3>4. /\ Cardinality(S) <= Cardinality(CountedInWindow(e, at))
          /\ Cardinality(CountedInWindow(e, at)) \in Nat
      BY <3>1, <3>3, FS_Subset, FS_CardinalityType
    <3>5. Cardinality(S) + 1 = RateMax => BlockOf(e, outcome, at) = at + RateBlock
      <4> DEFINE n == Cardinality(CountedInWindow(e, at))
      <4>1. BlockOf(e, outcome, at) = IF n + 1 >= RateMax THEN at + RateBlock ELSE NoBlock
        BY <1>5 DEF BlockOf
      <4>2. Cardinality(S) + 1 = RateMax => n + 1 >= RateMax
        BY <1>3, <3>4
      <4> HIDE DEF n
      <4> QED BY <4>1, <4>2
    <3> QED BY <1>1, <3>5
  <2> QED BY <1>3, <2>1, <2>3, <2>4
<1>6. CASE ~(f = e /\ outcome \in CountedOutcomes /\ start < at /\ at <= start + RateWindow)
  <2>1. Rejections(f, start)' = S
    BY <1>1, <1>6 DEF Rejections
  <2> QED BY <1>4, <2>1
<1> QED BY <1>5, <1>6

(* The alerts: the mocked attempt that fills a month's count sees the      *)
(* others of its month, and no other row adds to a month's.                *)
LEMMA AlertsKept ==
  ASSUME AttemptTypes, EnoughMockedAlerts, NEW e \in Employees, NEW key \in Keys,
         NEW kind \in Kinds, NEW outcome \in Outcomes, NEW at \in Nat,
         InsertAttempt(e, key, kind, outcome, at), alerts \subseteq alerts',
         outcome = "mocked" => alerts' = alerts \cup Alerted(attempts', e, "mocked", at)
  PROVE  EnoughMockedAlerts'
<1>1. PICK x \in Attempts :
        /\ x.employee = e /\ x.kind = kind /\ x.outcome = outcome /\ x.at = at
        /\ x \notin attempts
        /\ attempts' = attempts \cup {x}
        /\ attempts' \subseteq Attempts /\ IsFiniteSet(attempts')
  BY AttemptInserted
<1> DEFINE Mocked(rows, a) == {b \in rows : /\ b.employee = a.employee
                                            /\ b.outcome = "mocked"
                                            /\ MonthOf(b.at) = MonthOf(a.at)}
<1> SUFFICES ASSUME NEW a \in attempts',
                    Cardinality(Mocked(attempts', a)) >= AlertThreshold
             PROVE  <<a.employee, MonthOf(a.at)>> \in alerts'
  BY DEF EnoughMockedAlerts
<1>2. a \in Attempts /\ \A b \in attempts' : MonthOf(b.at) \in Int
  BY <1>1, AttemptConstants DEF Attempts, MonthOf
<1>3. CASE outcome = "mocked" /\ a.employee = e /\ MonthOf(a.at) = MonthOf(at)
  <2>1. Mocked(attempts', a) \subseteq MonthlyMocked(attempts', e, at)
    BY <1>2, <1>3 DEF MonthlyMocked
  <2>2. IsFiniteSet(MonthlyMocked(attempts', e, at))
    <3>1. MonthlyMocked(attempts', e, at) \subseteq attempts'
      BY DEF MonthlyMocked
    <3> QED BY <1>1, <3>1, FS_Subset
  <2>3. /\ Cardinality(Mocked(attempts', a)) <= Cardinality(MonthlyMocked(attempts', e, at))
        /\ Cardinality(Mocked(attempts', a)) \in Nat
        /\ Cardinality(MonthlyMocked(attempts', e, at)) \in Nat
    BY <2>1, <2>2, FS_Subset, FS_CardinalityType
  <2>4. Cardinality(MonthlyMocked(attempts', e, at)) >= AlertThreshold
    BY <2>3, AttemptConstants
  <2> QED BY <1>3, <2>4 DEF Alerted
<1>4. CASE ~(outcome = "mocked" /\ a.employee = e /\ MonthOf(a.at) = MonthOf(at))
  <2>1. Mocked(attempts', a) = Mocked(attempts, a)
    BY <1>1, <1>4
  <2>2. Mocked(attempts', a) # {}
    BY AttemptConstants, FS_EmptySet
  <2>3. PICK b \in attempts : /\ b.employee = a.employee /\ b.outcome = "mocked"
                              /\ MonthOf(b.at) = MonthOf(a.at)
    BY <2>1, <2>2
  <2>4. Mocked(attempts, b) = Mocked(attempts, a)
    BY <2>3
  <2>5. <<b.employee, MonthOf(b.at)>> \in alerts
    BY <2>1, <2>4 DEF EnoughMockedAlerts
  <2> QED BY <2>3, <2>5
<1> QED BY <1>3, <1>4

(* The record: it moves with the accepted attempt, each kind once.         *)
LEMMA RecordKept ==
  ASSUME AttemptTypes, AcceptedOnce, ConflictsStayTrue, NEW e \in Employees, NEW key \in Keys,
         NEW kind \in Kinds, NEW outcome \in Outcomes, NEW at \in Nat,
         InsertAttempt(e, key, kind, outcome, at),
         \/ /\ UNCHANGED records /\ outcome # "ok"
            /\ outcome = "already_checked_in" => "check_in" \in DoneKinds(e)
            /\ outcome = "already_checked_out" => "check_out" \in DoneKinds(e)
         \/ /\ outcome = "ok"
            /\ records[e] = IF kind = "check_in" THEN "none" ELSE "in"
            /\ records' = [records EXCEPT ![e] = IF kind = "check_in" THEN "in" ELSE "out"]
  PROVE  AcceptedOnce' /\ ConflictsStayTrue'
<1>1. PICK x \in Attempts :
        /\ x.employee = e /\ x.kind = kind /\ x.outcome = outcome
        /\ x \notin attempts /\ attempts' = attempts \cup {x}
  BY AttemptInserted
<1>2. CASE UNCHANGED records /\ outcome # "ok"
  <2>1. \A f, k : Accepted(f, k)' = Accepted(f, k)
    BY <1>1, <1>2 DEF Accepted
  <2>2. \A f : DoneKinds(f)' = DoneKinds(f)
    BY <1>2 DEF DoneKinds
  <2>3. AcceptedOnce'
    BY <2>1, <2>2 DEF AcceptedOnce
  <2>4. /\ outcome = "already_checked_in" => "check_in" \in DoneKinds(e)
        /\ outcome = "already_checked_out" => "check_out" \in DoneKinds(e)
    BY <1>2
  <2>5. ConflictsStayTrue'
    BY <1>1, <2>2, <2>4 DEF ConflictsStayTrue
  <2> QED BY <2>3, <2>5
<1>3. CASE /\ outcome = "ok"
           /\ records[e] = IF kind = "check_in" THEN "none" ELSE "in"
           /\ records' = [records EXCEPT ![e] = IF kind = "check_in" THEN "in" ELSE "out"]
  <2>1. /\ \A f \in Employees : f # e => DoneKinds(f)' = DoneKinds(f)
        /\ kind \notin DoneKinds(e)
        /\ DoneKinds(e)' = DoneKinds(e) \cup {kind}
    <3>1. kind = "check_in" \/ kind = "check_out"
      BY DEF Kinds
    <3>2. /\ records'[e] = IF kind = "check_in" THEN "in" ELSE "out"
          /\ \A f \in Employees : f # e => records'[f] = records[f]
      BY <1>3 DEF AttemptTypes
    <3> QED BY <1>3, <3>1, <3>2 DEF DoneKinds
  <2>2. /\ Accepted(e, kind)' = Accepted(e, kind) \cup {x}
        /\ \A f \in Employees, k \in Kinds :
             f # e \/ k # kind => Accepted(f, k)' = Accepted(f, k)
    <3>1. Accepted(e, kind)' = Accepted(e, kind) \cup {x}
      BY <1>1, <1>3 DEF Accepted
    <3>2. ASSUME NEW f \in Employees, NEW k \in Kinds, f # e \/ k # kind
          PROVE  Accepted(f, k)' = Accepted(f, k)
      BY <1>1, <3>2 DEF Accepted
    <3> QED BY <3>1, <3>2
  <2>3. Cardinality(Accepted(e, kind)) = 0
    BY <2>1 DEF AcceptedOnce
  <2>4. Cardinality(Accepted(e, kind) \cup {x}) = 1
    <3>1. Accepted(e, kind) \in SUBSET attempts
      BY DEF Accepted
    <3> QED BY <1>1, <2>3, <3>1, OneMoreAttempt
  <2>5. AcceptedOnce'
    BY <2>1, <2>2, <2>4 DEF AcceptedOnce
  <2>6. ConflictsStayTrue'
    <3>1. \A a \in attempts : a.employee \in Employees
      BY DEF AttemptTypes, Attempts
    <3>2. \A f \in Employees : DoneKinds(f) \subseteq DoneKinds(f)'
      BY <2>1
    <3> QED BY <1>1, <1>3, <3>1, <3>2 DEF ConflictsStayTrue
  <2> QED BY <2>5, <2>6
<1> QED BY <1>2, <1>3

(* What a call records: one row, the alert it owes, and the record when    *)
(* it was answered ok.                                                     *)
Recorded(e, key, kind, at, outcome) ==
  /\ InsertAttempt(e, key, kind, outcome, at)
  /\ outcome \in CountedOutcomes => ActiveBlocks(e, at) = {}
  /\ alerts \subseteq alerts'
  /\ outcome = "mocked" => alerts' = alerts \cup Alerted(attempts', e, "mocked", at)
  /\ \/ /\ UNCHANGED records /\ outcome # "ok"
        /\ outcome = "already_checked_in" => "check_in" \in DoneKinds(e)
        /\ outcome = "already_checked_out" => "check_out" \in DoneKinds(e)
     \/ /\ outcome = "ok"
        /\ records[e] = IF kind = "check_in" THEN "none" ELSE "in"
        /\ records' = [records EXCEPT ![e] = IF kind = "check_in" THEN "in" ELSE "out"]

(* A call: under a block, in conflict, or with a fix to look at.           *)
LEMMA CallKeepsAttempts ==
  ASSUME AttemptsInv, Call
  PROVE  AttemptsInv'
<1>1. PICK e \in Employees, key \in Keys, kind \in Kinds, fix \in Fixes,
           at \in {t \in (now - MaxWait)..now : t > 0},
           tracked \in BOOLEAN, onLeave \in BOOLEAN, confirmed \in BOOLEAN :
        /\ Transact(e, key, kind, fix, at,
                    StateConflict(e, kind, tracked, onLeave, confirmed))
        /\ UNCHANGED now
  BY DEF Call
<1> DEFINE conflict == StateConflict(e, kind, tracked, onLeave, confirmed)
<1>2. /\ at \in Nat /\ kind \in {"check_in", "check_out"}
      /\ fix \in {"ok", "too_far", "mocked"}
      /\ records[e] \in {"none", "in", "out"}
      /\ CountedOutcomes = {"too_far", "mocked"}
  <2>1. now \in Nat /\ MaxWait \in Nat
    BY AttemptsAssumption DEF AttemptsAssumption, AttemptsInv, AttemptTypes
  <2> QED BY <1>1, <2>1 DEF Kinds, Fixes, CountedOutcomes, AttemptsInv, AttemptTypes
<1>3. /\ conflict \in {"not_tracked", "already_checked_in", "not_checked_in",
                       "already_checked_out", "leave_confirmation_required", "none"}
      /\ conflict = "already_checked_in" => "check_in" \in DoneKinds(e)
      /\ conflict = "already_checked_out" => "check_out" \in DoneKinds(e)
      /\ conflict = "none" => records[e] = IF kind = "check_in" THEN "none" ELSE "in"
  <2>1. CASE ~tracked
    BY <2>1 DEF StateConflict
  <2>2. CASE tracked /\ kind = "check_in"
    BY <1>2, <2>2 DEF StateConflict, DoneKinds
  <2>3. CASE tracked /\ kind = "check_out"
    BY <1>2, <2>3 DEF StateConflict, DoneKinds
  <2> QED BY <1>2, <2>1, <2>2, <2>3
<1> HIDE DEF conflict
<1>4. PICK outcome \in Outcomes : Recorded(e, key, kind, at, outcome)
  <2>1. Transact(e, key, kind, fix, at, conflict)
    BY <1>1 DEF conflict
  <2>2. CASE InsertAttempt(e, key, kind, "rate_limited", at) /\ UNCHANGED <<records, alerts>>
    <3>1. "rate_limited" \in Outcomes /\ Recorded(e, key, kind, at, "rate_limited")
      BY <1>2, <2>2 DEF Recorded, Outcomes
    <3> QED BY <3>1
  <2>3. CASE /\ conflict # "none" /\ InsertAttempt(e, key, kind, conflict, at)
             /\ UNCHANGED <<records, alerts>>
    <3>1. conflict \in Outcomes /\ conflict \notin CountedOutcomes \cup {"ok", "mocked"}
      BY <1>2, <1>3, <2>3 DEF Outcomes
    <3>2. Recorded(e, key, kind, at, conflict)
      BY <1>3, <2>3, <3>1 DEF Recorded
    <3> QED BY <3>1, <3>2
  <2>4. CASE /\ ActiveBlocks(e, at) = {} /\ conflict = "none"
             /\ InsertAttempt(e, key, kind, fix, at)
             /\ records' = IF fix # "ok" THEN records
                           ELSE [records EXCEPT
                             ![e] = IF kind = "check_in" THEN "in" ELSE "out"]
             /\ alerts' = alerts \cup Alerted(attempts', e, fix, at)
    <3>1. fix \in Outcomes /\ fix \notin {"already_checked_in", "already_checked_out"}
      BY <1>2 DEF Outcomes
    <3>2. records[e] = IF kind = "check_in" THEN "none" ELSE "in"
      BY <1>3, <2>4
    <3>3. \/ fix # "ok" /\ UNCHANGED records
          \/ fix = "ok" /\ records' = [records EXCEPT ![e] = IF kind = "check_in" THEN "in" ELSE "out"]
      BY <2>4
    <3>4. /\ alerts \subseteq alerts'
          /\ fix = "mocked" => alerts' = alerts \cup Alerted(attempts', e, "mocked", at)
      BY <2>4
    <3>5. Recorded(e, key, kind, at, fix)
      BY <2>4, <3>1, <3>2, <3>3, <3>4 DEF Recorded
    <3> QED BY <3>1, <3>5
  <2> QED BY <2>1, <2>2, <2>3, <2>4 DEF Transact
<1>5. AttemptTypes'
  <2>1. attempts' \subseteq Attempts /\ IsFiniteSet(attempts')
    BY <1>2, <1>4, AttemptInserted DEF AttemptsInv, Recorded
  <2>2. records' \in [Employees -> {"none", "in", "out"}]
    BY <1>4 DEF AttemptsInv, AttemptTypes, Recorded
  <2> QED BY <1>1, <2>1, <2>2 DEF AttemptsInv, AttemptTypes
<1>6. BudgetBlocks'
  BY <1>2, <1>4, BudgetKept DEF AttemptsInv, Recorded
<1>7. EnoughMockedAlerts'
  BY <1>2, <1>4, AlertsKept DEF AttemptsInv, Recorded
<1>8. AcceptedOnce' /\ ConflictsStayTrue'
  BY <1>2, <1>4, RecordKept DEF AttemptsInv, Recorded
<1> QED BY <1>5, <1>6, <1>7, <1>8 DEF AttemptsInv

LEMMA AttemptsStart == AttemptsInit => AttemptsInv
<1> SUFFICES ASSUME AttemptsInit PROVE AttemptsInv
  OBVIOUS
<1>1. /\ attempts = {} /\ records = [e \in Employees |-> "none"] /\ now = 1
      /\ IsFiniteSet({}) /\ Cardinality({}) = 0
  BY FS_EmptySet DEF AttemptsInit
<1>2. AttemptTypes /\ EnoughMockedAlerts /\ ConflictsStayTrue
  BY <1>1 DEF AttemptTypes, EnoughMockedAlerts, ConflictsStayTrue
<1>3. BudgetBlocks
  <2>1. \A e \in Employees, start \in Int : Rejections(e, start) = {}
    BY <1>1 DEF Rejections
  <2>2. 0 <= RateMax /\ RateMax # 0
    BY AttemptConstants
  <2> QED BY <1>1, <2>1, <2>2 DEF BudgetBlocks
<1>4. AcceptedOnce
  <2>1. \A e \in Employees, kind \in Kinds : Accepted(e, kind) = {} /\ DoneKinds(e) = {}
    BY <1>1 DEF Accepted, DoneKinds
  <2> QED BY <1>1, <2>1 DEF AcceptedOnce
<1> QED BY <1>2, <1>3, <1>4 DEF AttemptsInv

LEMMA AttemptsStep == AttemptsInv /\ [AttemptsNext]_attemptVars => AttemptsInv'
<1> SUFFICES ASSUME AttemptsInv, [AttemptsNext]_attemptVars PROVE AttemptsInv'
  OBVIOUS
<1>1. CASE Call
  BY <1>1, CallKeepsAttempts
<1>2. CASE TickOn \/ UNCHANGED attemptVars
  <2>1. UNCHANGED <<attempts, records, alerts>> /\ (now' = now \/ now' = now + 1)
    BY <1>2 DEF TickOn, attemptVars
  <2>2. AttemptTypes' /\ BudgetBlocks'
    BY <2>1 DEF AttemptsInv, AttemptTypes, BudgetBlocks, Rejections
  <2>3. EnoughMockedAlerts'
    BY <2>1 DEF AttemptsInv, EnoughMockedAlerts
  <2>4. AcceptedOnce' /\ ConflictsStayTrue'
    <3>1. \A f \in Employees : DoneKinds(f)' = DoneKinds(f)
      BY <2>1 DEF DoneKinds
    <3>2. \A f \in Employees, k \in Kinds : Accepted(f, k)' = Accepted(f, k)
      BY <2>1 DEF Accepted
    <3>3. \A a \in attempts : a.employee \in Employees
      BY DEF AttemptsInv, AttemptTypes, Attempts
    <3> QED BY <2>1, <3>1, <3>2, <3>3 DEF AttemptsInv, AcceptedOnce, ConflictsStayTrue
  <2> QED BY <2>2, <2>3, <2>4 DEF AttemptsInv
<1> QED BY <1>1, <1>2 DEF AttemptsNext

(* The budget, the block, the alerts and the record: within any window an  *)
(* employee has at most RateMax counted rejections, although calls that    *)
(* waited for the lock stamp their rows in the past; a month with enough   *)
(* mocked attempts has alerted the admins; the record is borne out by      *)
(* exactly the attempts that were answered ok, and a repeated key is       *)
(* answered truthfully.                                                    *)
THEOREM AttemptsArePoliced == AttemptsSpec => []AttemptsPoliced
<1>1. AttemptsInv => AttemptsPoliced
  <2> SUFFICES ASSUME AttemptsInv PROVE AttemptsPoliced
    OBVIOUS
  <2>1. RateBound
    <3>1. \A start \in 0..LastTick : start \in Int
      BY AttemptsAssumption DEF AttemptsAssumption
    <3> QED BY <3>1 DEF AttemptsInv, BudgetBlocks, Rejections, RateBound
  <2>2. RecordMatchesAttempts
    <3> SUFFICES ASSUME NEW e \in Employees
                 PROVE  /\ \A kind \in Kinds :
                             Cardinality(Accepted(e, kind))
                               = IF kind \in DoneKinds(e) THEN 1 ELSE 0
                        /\ \A a \in attempts, kind \in Kinds :
                             (a.employee = e /\ Replay(a, kind) \in
                                {"ok", IF kind = "check_in" THEN "already_checked_in"
                                       ELSE "already_checked_out"})
                             => kind \in DoneKinds(e)
      BY DEF RecordMatchesAttempts, Accepted, DoneKinds
    <3>1. ASSUME NEW a \in attempts, NEW kind \in Kinds, a.employee = e,
                 Replay(a, kind) \in {"ok", IF kind = "check_in" THEN "already_checked_in"
                                            ELSE "already_checked_out"}
          PROVE  kind \in DoneKinds(e)
      <4>1. kind \in {"check_in", "check_out"} /\ records[e] \in {"none", "in", "out"}
        BY DEF Kinds, AttemptsInv, AttemptTypes
      <4>2. CASE a.kind = kind
        <5>1. Replay(a, kind) = a.outcome
          BY <4>2 DEF Replay
        <5>2. CASE a.outcome = "ok"
          <6>1. a \in Accepted(e, kind)
            BY <3>1, <4>2, <5>2 DEF Accepted
          <6>2. IsFiniteSet(Accepted(e, kind))
            <7>1. Accepted(e, kind) \subseteq attempts
              BY DEF Accepted
            <7> QED BY <7>1, FS_Subset DEF AttemptsInv, AttemptTypes
          <6>3. Cardinality(Accepted(e, kind)) # 0
            BY <6>1, <6>2, FS_EmptySet
          <6> QED BY <6>3 DEF AttemptsInv, AcceptedOnce
        <5>3. CASE a.outcome # "ok"
          BY <3>1, <4>1, <4>2, <5>1, <5>3 DEF AttemptsInv, ConflictsStayTrue
        <5> QED BY <5>2, <5>3
      <4>3. CASE a.kind # kind
        BY <3>1, <4>1, <4>3 DEF Replay, DoneKinds
      <4> QED BY <4>2, <4>3
    <3> QED BY <3>1 DEF AttemptsInv, AcceptedOnce
  <2> QED BY <2>1, <2>2 DEF AttemptsInv, AttemptsPoliced
<1>2. AttemptsSpec => []AttemptsInv
  BY AttemptsStart, AttemptsStep, PTL DEF AttemptsSpec
<1> QED BY <1>1, <1>2, PTL

-----------------------------------------------------------------------------
(***************************************************************************)
(* Offices.                                                                *)
(***************************************************************************)

(* Dated rows: their ends are days, in order.                              *)
Dated(rows) ==
  \A r \in rows : /\ {"from", "till"} \subseteq DOMAIN r
                  /\ r.from \in Int /\ r.till \in Int
                  /\ r.from < r.till /\ r.till <= Forever

PlaceTypes ==
  /\ today \in Days
  /\ Dated(enrolments) /\ Dated(assignments)
  /\ \A a \in assignments : "office" \in DOMAIN a /\ a.office \in Offices
  /\ known \in [Offices -> Nat]
  /\ \A o \in Offices : known[o] <= today
  /\ DOMAIN rules = Offices
  /\ DOMAIN pin = Offices /\ DOMAIN address = Offices

(* The rows a plan accepted: an assignment lies within an enrolment, at an *)
(* office known when it starts.                                            *)
LegsServed ==
  \A a \in assignments :
    /\ \E e \in enrolments : Within(a, e)
    /\ 0 < known[a.office] /\ known[a.office] <= a.from

(* The rules of a known office cover every day since it is known, once.    *)
Serving(rows, since) ==
  /\ Dated(rows) /\ Disjoint(rows)
  /\ \A d \in since..LastDay : \E r \in rows : Contains(r, d)

RulesServe ==
  /\ \A o \in Offices : known[o] > 0 => Serving(rules[o], known[o])
  /\ \A o \in Offices, sent \in Days :
       <<"rules", o, sent>> \in pending => 0 < known[o] /\ known[o] <= sent

(* An office not created yet has no address to be wrong.                   *)
AddressesFollow ==
  /\ AddressNamesPin
  /\ \A o \in Offices : known[o] = 0 => address[o] = NoPin

PlacesInv ==
  PlaceTypes /\ LegsServed /\ RulesServe /\ AddressesFollow /\ ArchivedOnlyBypassed

LEMMA DayFacts ==
  /\ LastDay \in Nat \ {0} /\ Forever = LastDay + 1 /\ Days = 1..LastDay
BY EnrolmentAssumption DEF EnrolmentAssumption, Forever, Days

(* A call's clock: this day or the one before.                             *)
LEMMA ClockDay ==
  ASSUME today \in Days, NEW c \in Clocks
  PROVE  c.day \in Days /\ c.day <= today
<1>1. today \in Int /\ 1 <= today /\ today <= LastDay /\ LastDay \in Int
  BY DayFacts
<1>2. CASE c = [day |-> today, hour |-> hour]
  BY <1>1, <1>2, DayFacts
<1>3. CASE today > 1 /\ c = [day |-> today - 1, hour |-> LastHour]
  <2>1. c.day = today - 1
    BY <1>3
  <2> QED BY <1>1, <1>3, <2>1, DayFacts
<1> QED BY <1>2, <1>3 DEF Clocks

(* What a clip keeps: each row that started before the date, cut there.    *)
Trimmed(x, r, date) ==
  /\ r.from < date
  /\ x = [r EXCEPT !.till = IF r.till > date THEN date ELSE r.till]
  /\ x.from = r.from /\ x.till = (IF r.till > date THEN date ELSE r.till)
  /\ DOMAIN x = DOMAIN r

LEMMA ClipTrims ==
  ASSUME NEW rows, Dated(rows), NEW date \in Int
  PROVE  /\ \A x \in Clip(rows, date) : \E r \in rows : Trimmed(x, r, date)
         /\ \A r \in rows : r.from < date =>
              \E x \in Clip(rows, date) : Trimmed(x, r, date)
<1> DEFINE Cropped(r) == [r EXCEPT !.till = IF r.till > date THEN date ELSE r.till]
<1>1. ASSUME NEW r \in rows, r.from < date PROVE Trimmed(Cropped(r), r, date)
  <2>1. {"from", "till"} \subseteq DOMAIN r
    BY DEF Dated
  <2> QED BY <1>1, <2>1 DEF Trimmed
<1>2. Clip(rows, date) = {Cropped(r) : r \in {r \in rows : r.from < date}}
  BY DEF Clip
<1> HIDE DEF Cropped
<1>3. \A x \in Clip(rows, date) : \E r \in rows : r.from < date /\ x = Cropped(r)
  BY <1>2
<1>4. \A r \in rows : r.from < date => Cropped(r) \in Clip(rows, date)
  BY <1>2
<1> QED BY <1>1, <1>3, <1>4

LEMMA ClipDated ==
  ASSUME NEW rows, Dated(rows), NEW date \in Int
  PROVE  /\ Dated(Clip(rows, date))
         /\ \A x \in Clip(rows, date) : x.from < date /\ x.till <= date
<1> SUFFICES ASSUME NEW x \in Clip(rows, date)
             PROVE  /\ {"from", "till"} \subseteq DOMAIN x
                    /\ x.from \in Int /\ x.till \in Int
                    /\ x.from < x.till /\ x.till <= Forever
                    /\ x.from < date /\ x.till <= date
  BY DEF Dated
<1>1. PICK r \in rows : Trimmed(x, r, date)
  BY ClipTrims
<1>2. /\ {"from", "till"} \subseteq DOMAIN r /\ r.from \in Int /\ r.till \in Int
      /\ r.from < r.till /\ r.till <= Forever
  BY DEF Dated
<1>3. Forever \in Int
  BY DayFacts
<1> QED BY <1>1, <1>2, <1>3 DEF Trimmed

(* A clip and an open-ended row from its date: dated, disjoint and without *)
(* a hole.                                                                 *)
LEMMA ClipDisjoint ==
  ASSUME NEW rows, Dated(rows), Disjoint(rows), NEW date \in Int
  PROVE  Disjoint(Clip(rows, date))
<1> SUFFICES ASSUME NEW x \in Clip(rows, date), NEW y \in Clip(rows, date), x # y
             PROVE  x.till <= y.from \/ y.till <= x.from
  BY DEF Disjoint
<1>1. PICK r \in rows : Trimmed(x, r, date)
  BY ClipTrims
<1>2. PICK q \in rows : Trimmed(y, q, date)
  BY ClipTrims
<1>3. r # q
  BY <1>1, <1>2 DEF Trimmed
<1>4. r.till <= q.from \/ q.till <= r.from
  BY <1>3 DEF Disjoint
<1>5. r.from \in Int /\ r.till \in Int /\ q.from \in Int /\ q.till \in Int
  BY DEF Dated
<1> QED BY <1>1, <1>2, <1>4, <1>5 DEF Trimmed

LEMMA RuledFromServes ==
  ASSUME NEW rows, NEW since \in Nat, Serving(rows, since), NEW date \in Days,
         since < date, NEW rule
  PROVE  Serving(RuledFrom(rows, date, rule), since)
<1> DEFINE new == [from |-> date, till |-> Forever, rule |-> rule]
           kept == Clip(rows, date)
<1>1. /\ date \in Int /\ date < Forever /\ Forever \in Int /\ LastDay \in Int
      /\ Forever = LastDay + 1
  BY DayFacts
<1>2. Dated(rows) /\ Disjoint(rows)
  BY DEF Serving
<1>3. RuledFrom(rows, date, rule) = kept \cup {new}
  BY DEF RuledFrom
<1>4. Dated(kept) /\ Disjoint(kept) /\ \A x \in kept : x.till <= date
  BY <1>1, <1>2, ClipDated, ClipDisjoint
<1>5. /\ new.from = date /\ new.till = Forever /\ {"from", "till"} \subseteq DOMAIN new
  OBVIOUS
<1>6. ASSUME NEW d \in since..LastDay PROVE \E r \in kept \cup {new} : Contains(r, d)
  <2>1. CASE date <= d
    <3>1. new \in kept \cup {new} /\ Contains(new, d)
      BY <1>1, <1>5, <2>1 DEF Contains
    <3> HIDE DEF new, kept
    <3> QED BY <3>1
  <2>2. CASE d < date
    <3>1. PICK r \in rows : Contains(r, d)
      BY DEF Serving
    <3>2. r.from \in Int /\ r.till \in Int /\ r.from < date /\ d < r.till /\ r.from <= d
      BY <1>1, <1>2, <2>2, <3>1 DEF Dated, Contains
    <3>3. PICK x \in kept : Trimmed(x, r, date)
      BY <1>1, <1>2, <3>2, ClipTrims
    <3> QED BY <1>1, <2>2, <3>2, <3>3 DEF Trimmed, Contains
  <2> QED BY <1>1, <2>1, <2>2
<1> HIDE DEF new, kept
<1>7. Dated(kept \cup {new})
  BY <1>1, <1>4, <1>5 DEF Dated
<1>8. Disjoint(kept \cup {new})
  BY <1>4, <1>5 DEF Disjoint
<1> QED BY <1>3, <1>6, <1>7, <1>8 DEF Serving

(* The member's calls: a plan accepted, its new row at a live office known *)
(* to the caller.                                                          *)
LEMMA MemberCallKeeps ==
  ASSUME PlacesInv, NEW date \in Days, Dated(enrolments'),
         Committable(enrolments', assignments'), UNCHANGED <<clock, officeVars>>,
         \/ assignments' = Clip(assignments, date)
         \/ \E office \in Offices : /\ Live(office) /\ known[office] <= date
                                   /\ assignments' = Placed(assignments, date, office)
  PROVE  PlacesInv'
<1>1. /\ date \in Int /\ date < Forever /\ Forever \in Int /\ Dated(assignments)
      /\ known' = known /\ archived' = archived /\ bypassed' = bypassed /\ today' = today
  BY DayFacts DEF PlacesInv, PlaceTypes, officeVars, clock
<1>2. ASSUME NEW x \in Clip(assignments, date)
      PROVE  \E r \in assignments : x.from = r.from /\ x.office = r.office
                                   /\ x.till <= r.till /\ "office" \in DOMAIN x
  <2>1. PICK r \in assignments : Trimmed(x, r, date)
    BY <1>1, ClipTrims
  <2>2. "office" \in DOMAIN r /\ r.till \in Int
    BY <1>1 DEF PlacesInv, PlaceTypes, Dated
  <2>3. x.office = r.office /\ x.from = r.from /\ x.till <= r.till /\ "office" \in DOMAIN x
    BY <1>1, <2>1, <2>2 DEF Trimmed
  <2> QED BY <2>3
<1>3. ASSUME NEW x \in Clip(assignments, date)
      PROVE  /\ {"from", "till", "office"} \subseteq DOMAIN x /\ x.office \in Offices
             /\ x.from \in Int /\ x.till \in Int /\ x.from < x.till /\ x.till <= Forever
             /\ 0 < known[x.office] /\ known[x.office] <= x.from
             /\ x.office \in archived /\ x.till > today => x.office \in bypassed
  <2>1. PICK r \in assignments : x.from = r.from /\ x.office = r.office
                                 /\ x.till <= r.till /\ "office" \in DOMAIN x
    BY <1>2
  <2>2. /\ {"from", "till"} \subseteq DOMAIN x
        /\ x.from \in Int /\ x.till \in Int /\ x.from < x.till /\ x.till <= Forever
    BY <1>1, ClipDated DEF Dated
  <2>3. /\ r.office \in Offices /\ r.till \in Int /\ today \in Int
        /\ 0 < known[r.office] /\ known[r.office] <= r.from
        /\ r.office \in archived /\ r.till > today => r.office \in bypassed
    BY <1>1, DayFacts
       DEF PlacesInv, PlaceTypes, LegsServed, ArchivedOnlyBypassed, Dated
  <2>4. x.till > today => r.till > today
    BY <2>1, <2>2, <2>3
  <2> QED BY <2>1, <2>2, <2>3, <2>4
<1>4. ASSUME NEW x \in assignments'
      PROVE  /\ {"from", "till", "office"} \subseteq DOMAIN x /\ x.office \in Offices
             /\ x.from \in Int /\ x.till \in Int /\ x.from < x.till /\ x.till <= Forever
             /\ 0 < known[x.office] /\ known[x.office] <= x.from
             /\ x.office \in archived /\ x.till > today => x.office \in bypassed
  <2>1. CASE x \in Clip(assignments, date)
    BY <1>3, <2>1
  <2>2. ASSUME NEW office \in Offices, Live(office), known[office] <= date,
               x = [from |-> date, till |-> Forever, office |-> office]
        PROVE  /\ {"from", "till", "office"} \subseteq DOMAIN x /\ x.office \in Offices
               /\ x.from \in Int /\ x.till \in Int /\ x.from < x.till /\ x.till <= Forever
               /\ 0 < known[x.office] /\ known[x.office] <= x.from
               /\ x.office \in archived /\ x.till > today => x.office \in bypassed
    <3>1. /\ x.from = date /\ x.till = Forever /\ x.office = office
          /\ {"from", "till", "office"} \subseteq DOMAIN x
      BY <2>2
    <3> QED BY <1>1, <2>2, <3>1 DEF Live
  <2> QED BY <2>1, <2>2 DEF Placed
<1>5. LegsServed'
  BY <1>1, <1>4 DEF LegsServed, Committable, Covered
<1>6. PlaceTypes'
  <2>1. Dated(assignments)'
    BY <1>4 DEF Dated
  <2> QED BY <1>1, <1>4, <2>1 DEF PlacesInv, PlaceTypes, officeVars, placeVars
<1>7. ArchivedOnlyBypassed'
  BY <1>1, <1>4 DEF ArchivedOnlyBypassed
<1>8. RulesServe' /\ AddressesFollow'
  BY DEF PlacesInv, RulesServe, AddressesFollow, AddressNamesPin, officeVars, placeVars
<1> QED BY <1>5, <1>6, <1>7, <1>8 DEF PlacesInv

LEMMA OpenedDated ==
  ASSUME NEW rows, Dated(rows), NEW date \in Days, NEW at
  PROVE  Dated(Enrolled(rows, date, at)) /\ Dated(Clip(rows, date))
<1>1. date \in Int /\ date < Forever /\ Forever \in Int
  BY DayFacts
<1>2. Dated(Clip(rows, date))
  BY <1>1, ClipDated
<1> DEFINE new == [from |-> date, till |-> Forever, at |-> at]
<1>3. /\ {"from", "till"} \subseteq DOMAIN new /\ new.from = date /\ new.till = Forever
      /\ Enrolled(rows, date, at) = Clip(rows, date) \cup {new}
  BY DEF Enrolled
<1> HIDE DEF new
<1> QED BY <1>1, <1>2, <1>3 DEF Dated

LEMMA MemberStep ==
  ASSUME PlacesInv, EnrolMember \/ MoveMember \/ StopMember
  PROVE  PlacesInv'
<1>1. today \in Days /\ Dated(enrolments) /\ known \in [Offices -> Nat]
      /\ \A d \in Days : d \in Int
  BY DayFacts DEF PlacesInv, PlaceTypes
<1>2. CASE EnrolMember
  <2>1. PICK c \in Clocks, start \in Days, office \in Offices :
          Assigns(c, office) /\ SetEnrolment(c, start, office)
    BY <1>2 DEF EnrolMember
  <2>2. c.day \in Int /\ known[office] <= c.day /\ c.day <= start /\ known[office] \in Int
    <3>1. c.day \in Days
      BY <1>1, ClockDay
    <3>2. known[office] \in Nat
      BY <1>1
    <3>3. c.day >= known[office] /\ start >= c.day
      BY <2>1 DEF Assigns, SetEnrolment
    <3>4. c.day \in Int /\ known[office] \in Int /\ start \in Int
      BY <1>1, <3>1, <3>2
    <3> QED BY <3>3, <3>4
  <2>3. known[office] <= start
    BY <1>1, <2>2
  <2>4. Dated(enrolments')
    BY <1>1, <2>1, OpenedDated DEF SetEnrolment
  <2>5. /\ assignments' = Placed(assignments, start, office) /\ Live(office)
        /\ Committable(enrolments', assignments') /\ UNCHANGED <<clock, officeVars>>
    BY <1>2, <2>1 DEF EnrolMember, SetEnrolment, Assigns
  <2> QED BY <2>3, <2>4, <2>5, MemberCallKeeps
<1>3. CASE MoveMember
  <2>1. PICK c \in Clocks, date \in Days, office \in Offices, checkedIn \in BOOLEAN :
          Assigns(c, office) /\ ReassignOffice(c, date, office, checkedIn)
    BY <1>3 DEF MoveMember
  <2> DEFINE start == EffectiveFrom(c, date, checkedIn)
  <2>2. date <= start /\ start \in Int
    <3>1. date \in Int
      BY <1>1
    <3> QED BY <3>1 DEF EffectiveFrom
  <2>3. c.day \in Int /\ known[office] <= c.day /\ c.day <= date /\ known[office] \in Int
    <3>1. c.day \in Days
      BY <1>1, ClockDay
    <3>2. known[office] \in Nat
      BY <1>1
    <3>3. c.day >= known[office] /\ date >= c.day
      BY <2>1 DEF Assigns, ReassignOffice
    <3>4. c.day \in Int /\ known[office] \in Int /\ date \in Int
      BY <1>1, <3>1, <3>2
    <3> QED BY <3>3, <3>4
  <2>4. PICK e \in enrolments : Contains(e, start)
    BY <2>1 DEF ReassignOffice
  <2>5. start < Forever
    BY <1>1, <2>2, <2>4, DayFacts DEF Contains, Dated
  <2>6. start \in Days /\ known[office] <= start
    BY <1>1, <2>2, <2>3, <2>5, DayFacts
  <2>7. assignments' = Placed(assignments, start, office) /\ enrolments' = enrolments
        /\ Committable(enrolments', assignments')
    BY <2>1 DEF ReassignOffice
  <2> HIDE DEF start
  <2> QED BY <1>1, <1>3, <2>1, <2>6, <2>7, MemberCallKeeps DEF MoveMember, Assigns
<1>4. CASE StopMember
  <2>1. PICK c \in Clocks, date \in Days : DisableEnrolment(c, date)
    BY <1>4 DEF StopMember
  <2>2. Dated(enrolments')
    BY <1>1, <2>1, OpenedDated DEF DisableEnrolment
  <2> QED BY <1>4, <2>1, <2>2, MemberCallKeeps DEF StopMember, DisableEnrolment
<1> QED BY <1>2, <1>3, <1>4

(* The offices' own calls.                                                 *)
LEMMA CreateKeeps ==
  ASSUME PlacesInv, NEW c \in Clocks, NEW office \in Offices, NEW place \in Pins,
         NEW rule \in Rules, CreateOffice(c, office, place, rule)
  PROVE  PlacesInv'
<1>1. /\ today \in Days /\ c.day \in Days /\ c.day <= today /\ Forever \in Int
      /\ LastDay \in Int /\ Forever = LastDay + 1 /\ Days = 1..LastDay
  BY ClockDay, DayFacts DEF PlacesInv, PlaceTypes
<1>2. /\ today' = today /\ enrolments' = enrolments /\ assignments' = assignments
      /\ archived' = archived /\ address' = address /\ bypassed' = bypassed
      /\ known[office] = 0
      /\ known' = [known EXCEPT ![office] = today]
      /\ pin' = [pin EXCEPT ![office] = place]
      /\ rules' = [rules EXCEPT
           ![office] = {[from |-> c.day, till |-> Forever, rule |-> rule]}]
  BY DEF CreateOffice, clock, periods
<1>3. /\ known \in [Offices -> Nat] /\ \A o \in Offices : known[o] <= today
      /\ DOMAIN rules = Offices /\ DOMAIN pin = Offices /\ DOMAIN address = Offices
  BY DEF PlacesInv, PlaceTypes
<1>4. /\ known' \in [Offices -> Nat] /\ known'[office] = today
      /\ \A o \in Offices : known'[o] <= today
      /\ \A o \in Offices : o # office => known'[o] = known[o]
  BY <1>1, <1>2, <1>3
<1>5. PlaceTypes'
  BY <1>2, <1>3, <1>4 DEF PlacesInv, PlaceTypes
<1>6. LegsServed'
  BY <1>2, <1>4 DEF PlacesInv, PlaceTypes, LegsServed
<1>7. RulesServe'
  <2> DEFINE row == [from |-> c.day, till |-> Forever, rule |-> rule]
  <2>1. /\ row.from = c.day /\ row.till = Forever /\ {"from", "till"} \subseteq DOMAIN row
        /\ rules'[office] = {row}
        /\ \A o \in Offices : o # office => rules'[o] = rules[o]
    BY <1>2, <1>3
  <2> HIDE DEF row
  <2>2. \A d \in today..LastDay : Contains(row, d)
    BY <1>1, <2>1 DEF Contains
  <2>3. Dated({row}) /\ Disjoint({row})
    BY <1>1, <2>1 DEF Dated, Disjoint
  <2>4. Serving({row}, today)
    BY <2>2, <2>3 DEF Serving
  <2>5. ASSUME NEW o \in Offices, known'[o] > 0 PROVE Serving(rules'[o], known'[o])
    BY <1>4, <2>1, <2>4, <2>5 DEF PlacesInv, RulesServe
  <2>6. \A o \in Offices, sent \in Days :
          <<"rules", o, sent>> \in pending' => <<"rules", o, sent>> \in pending
    BY DEF CreateOffice
  <2>7. \A o \in Offices, sent \in Days :
          <<"rules", o, sent>> \in pending => o # office
    BY <1>2 DEF PlacesInv, RulesServe
  <2>8. \A o \in Offices, sent \in Days :
          <<"rules", o, sent>> \in pending' => 0 < known'[o] /\ known'[o] <= sent
    BY <1>4, <2>6, <2>7 DEF PlacesInv, RulesServe
  <2>9. \A o \in Offices : (known[o] > 0)' => Serving(rules[o], known[o])'
    <3>1. \A o \in Offices : Serving(rules[o], known[o])' <=> Serving(rules'[o], known'[o])
      BY DEF Serving, Dated, Disjoint, Contains
    <3> QED BY <2>5, <3>1
  <2> QED BY <2>8, <2>9 DEF RulesServe
<1>8. AddressesFollow'
  <2>1. \A o \in Offices : o # office => pin'[o] = pin[o]
    BY <1>2, <1>3
  <2>2. \A o \in Offices : o # office => address'[o] \in {NoPin, pin'[o]}
    BY <1>2, <2>1 DEF PlacesInv, AddressesFollow, AddressNamesPin
  <2>3. address'[office] = NoPin
    BY <1>2 DEF PlacesInv, AddressesFollow
  <2> QED BY <1>2, <1>4, <2>2, <2>3 DEF PlacesInv, AddressesFollow, AddressNamesPin
<1>9. ArchivedOnlyBypassed'
  BY <1>2 DEF PlacesInv, ArchivedOnlyBypassed
<1> QED BY <1>5, <1>6, <1>7, <1>8, <1>9 DEF PlacesInv

LEMMA RulesKeep ==
  ASSUME PlacesInv, NEW c \in Clocks, NEW office \in Offices, NEW sent \in Days,
         NEW rule \in Rules, UpdateRules(c, office, sent, rule)
  PROVE  PlacesInv'
<1>1. /\ today \in Days /\ c.day \in Days /\ c.day <= today /\ Forever \in Int
      /\ LastDay \in Int /\ Forever = LastDay + 1 /\ Days = 1..LastDay
  BY ClockDay, DayFacts DEF PlacesInv, PlaceTypes
<1>2. /\ UNCHANGED <<today, enrolments, assignments, known, archived, pin, address, bypassed>>
      /\ <<"rules", office, sent>> \in pending /\ pending' \subseteq pending
      /\ c.day >= sent /\ c.day + 1 < Forever
      /\ rules' = IF Live(office)
                  THEN [rules EXCEPT ![office] = RuledFrom(rules[office], c.day + 1, rule)]
                  ELSE rules
  BY DEF UpdateRules, clock, periods
<1>3. known \in [Offices -> Nat] /\ DOMAIN rules = Offices
  BY DEF PlacesInv, PlaceTypes
<1>4. 0 < known[office] /\ known[office] <= sent
  BY <1>2 DEF PlacesInv, RulesServe
<1>5. known[office] \in Nat /\ known[office] < c.day + 1 /\ c.day + 1 \in Days
  <2>1. c.day \in Int /\ sent \in Int /\ known[office] \in Nat /\ 1 <= c.day
    BY <1>1, <1>3
  <2> QED BY <1>1, <1>2, <1>4, <2>1
<1>6. Serving(RuledFrom(rules[office], c.day + 1, rule), known[office])
  BY <1>4, <1>5, RuledFromServes DEF PlacesInv, RulesServe
<1>7. ASSUME NEW o \in Offices, known[o] > 0 PROVE Serving(rules'[o], known[o])
  <2>1. \/ rules'[o] = rules[o]
        \/ rules'[o] = RuledFrom(rules[office], c.day + 1, rule) /\ o = office
    <3>1. CASE Live(office)
      <4> DEFINE ruled == RuledFrom(rules[office], c.day + 1, rule)
      <4>1. rules' = [rules EXCEPT ![office] = ruled]
        BY <1>2, <3>1
      <4> HIDE DEF ruled
      <4>2. rules'[o] = rules[o] \/ (rules'[o] = ruled /\ o = office)
        BY <1>3, <4>1
      <4> QED BY <4>2 DEF ruled
    <3>2. CASE ~Live(office)
      BY <1>2, <3>2
    <3> QED BY <3>1, <3>2
  <2> QED BY <1>6, <1>7, <2>1 DEF PlacesInv, RulesServe
<1>8. RulesServe'
  <2>1. \A o \in Offices : Serving(rules[o], known[o])' <=> Serving(rules'[o], known'[o])
    BY DEF Serving, Dated, Disjoint, Contains
  <2> QED BY <1>2, <1>7, <2>1 DEF PlacesInv, RulesServe
<1>9. PlaceTypes' /\ LegsServed' /\ AddressesFollow' /\ ArchivedOnlyBypassed'
  <2>1. DOMAIN rules' = Offices
    BY <1>2, <1>3
  <2> QED BY <1>2, <2>1 DEF PlacesInv, PlaceTypes, LegsServed, AddressesFollow,
                            AddressNamesPin, ArchivedOnlyBypassed
<1> QED BY <1>8, <1>9 DEF PlacesInv

LEMMA ProfileKeeps ==
  ASSUME PlacesInv, NEW office \in Offices, NEW place, NEW named \in BOOLEAN,
         NEW withRules \in BOOLEAN,
         \/ SaveCreateAddress(office, place)
         \/ UpdateOffice(office, place, named, withRules)
  PROVE  PlacesInv'
<1>1. /\ UNCHANGED <<today, enrolments, assignments, known, archived, rules, bypassed>>
  BY DEF SaveCreateAddress, UpdateOffice, clock, periods
<1>2. /\ DOMAIN pin = Offices /\ DOMAIN address = Offices /\ today \in Days
      /\ known \in [Offices -> Nat] /\ \A o \in Offices : known[o] <= today
  BY DEF PlacesInv, PlaceTypes
<1>3. AddressesFollow' /\ DOMAIN pin' = Offices /\ DOMAIN address' = Offices
  <2>1. \A o \in Offices : address[o] \in {NoPin, pin[o]} /\ (known[o] = 0 => address[o] = NoPin)
    BY DEF PlacesInv, AddressesFollow, AddressNamesPin
  <2>2. /\ DOMAIN pin' = Offices /\ DOMAIN address' = Offices
        /\ \A o \in Offices : o # office => pin'[o] = pin[o] /\ address'[o] = address[o]
    BY <1>2 DEF SaveCreateAddress, UpdateOffice
  <2>3. /\ address'[office] \in {NoPin, pin'[office]}
        /\ known[office] = 0 => address'[office] = NoPin
    <3>1. CASE SaveCreateAddress(office, place)
      <4>1. /\ pin' = pin
            /\ address'[office] = IF Live(office) /\ pin[office] = place
                                  THEN place ELSE address[office]
        BY <1>2, <3>1 DEF SaveCreateAddress
      <4> QED BY <2>1, <4>1 DEF Live
    <3>2. CASE UpdateOffice(office, place, named, withRules)
      <4>1. /\ known[office] > 0
            /\ \/ pin' = pin /\ address' = address
               \/ pin'[office] = place /\ address'[office] \in {place, NoPin}
        BY <1>2, <3>2 DEF UpdateOffice
      <4> QED BY <2>1, <4>1
    <3> QED BY <3>1, <3>2
  <2> QED BY <1>1, <2>1, <2>2, <2>3 DEF AddressesFollow, AddressNamesPin
<1>4. RulesServe'
  <2>1. ASSUME NEW o \in Offices, NEW sent \in Days, <<"rules", o, sent>> \in pending'
        PROVE  0 < known[o] /\ known[o] <= sent
    <3>1. CASE <<"rules", o, sent>> \in pending
      BY <3>1 DEF PlacesInv, RulesServe
    <3>2. CASE <<"rules", o, sent>> \notin pending
      <4>1. /\ o = office /\ sent = today /\ known[office] > 0
        BY <2>1, <3>2 DEF SaveCreateAddress, UpdateOffice
      <4>2. known[office] \in Nat /\ known[office] <= today
        BY <1>2
      <4> QED BY <4>1, <4>2
    <3> QED BY <3>1, <3>2
  <2>2. \A o \in Offices : Serving(rules[o], known[o])' <=> Serving(rules[o], known[o])
    BY <1>1 DEF Serving, Dated, Disjoint, Contains
  <2> QED BY <1>1, <2>1, <2>2 DEF PlacesInv, RulesServe
<1>5. PlaceTypes' /\ LegsServed' /\ ArchivedOnlyBypassed'
  BY <1>1, <1>3 DEF PlacesInv, PlaceTypes, LegsServed, ArchivedOnlyBypassed
<1> QED BY <1>3, <1>4, <1>5 DEF PlacesInv

(* An archive leaves nobody there but a member it could not see.           *)
LEMMA ArchiveKeeps ==
  ASSUME PlacesInv, NEW c \in Clocks, NEW office \in Offices, ArchiveOffice(c, office)
  PROVE  PlacesInv'
<1>1. /\ UNCHANGED <<today, enrolments, assignments, known, rules, pin, address, pending>>
      /\ archived' = archived \cup {office} /\ bypassed \subseteq bypassed'
      /\ Outlasting(office, c.day) = {} \/ office \in bypassed'
  BY DEF ArchiveOffice, Blockers, clock, periods, placeVars
<1>2. today \in Int /\ c.day \in Int /\ c.day <= today
  BY ClockDay, DayFacts DEF PlacesInv, PlaceTypes
<1>3. ASSUME NEW a \in assignments, a.office = office, a.till > today
      PROVE  a \in Outlasting(office, c.day)
  <2>1. a.from \in Int /\ a.till \in Int /\ a.from < a.till
    BY DEF PlacesInv, PlaceTypes, Dated
  <2>2. PICK e \in enrolments : Within(a, e)
    BY DEF PlacesInv, LegsServed
  <2>3. e.from \in Int /\ e.till \in Int /\ e.from <= a.from /\ a.till <= e.till
    BY <2>2 DEF PlacesInv, PlaceTypes, Dated, Within
  <2>4. Contains(e, a.from)
    BY <2>1, <2>3 DEF Contains
  <2>5. a.till > c.day
    BY <1>2, <1>3, <2>1
  <2> QED BY <1>3, <2>4, <2>5 DEF Outlasting
<1>4. ArchivedOnlyBypassed'
  BY <1>1, <1>3 DEF PlacesInv, ArchivedOnlyBypassed
<1>5. RulesServe'
  <2>1. \A o \in Offices : Serving(rules[o], known[o])' <=> Serving(rules[o], known[o])
    BY <1>1 DEF Serving, Dated, Disjoint, Contains
  <2> QED BY <1>1, <2>1 DEF PlacesInv, RulesServe
<1>6. PlaceTypes' /\ LegsServed' /\ AddressesFollow'
  BY <1>1 DEF PlacesInv, PlaceTypes, LegsServed, AddressesFollow, AddressNamesPin
<1> QED BY <1>4, <1>5, <1>6 DEF PlacesInv

LEMMA PlacesStart == OfficesInit => PlacesInv
<1> SUFFICES ASSUME OfficesInit PROVE PlacesInv
  OBVIOUS
<1>1. /\ today = 1 /\ 1 \in Days /\ Forever \in Int /\ 1 < Forever /\ LastDay \in Int
      /\ Forever = LastDay + 1
      /\ known \in [Offices -> {0, 1}] /\ archived = {} /\ pending = {}
      /\ address = [o \in Offices |-> NoPin]
      /\ \A a \in assignments : known[a.office] = 1
  BY DayFacts DEF OfficesInit, EnrolmentInit
<1>2. /\ DOMAIN pin = Offices /\ DOMAIN address = Offices /\ DOMAIN rules = Offices
      /\ known \in [Offices -> Nat] /\ \A o \in Offices : known[o] <= today
  BY <1>1 DEF OfficesInit
<1>3. /\ Dated(enrolments) /\ Dated(assignments)
      /\ \A a \in assignments : /\ "office" \in DOMAIN a /\ a.office \in Offices
                                 /\ a.from = 1
                                 /\ \E e \in enrolments : Within(a, e)
  <2>1. CASE enrolments = {} /\ assignments = {}
    BY <2>1 DEF Dated
  <2>2. ASSUME NEW office \in Offices, enrolments = Enrolled({}, 1, 0),
               assignments = Placed({}, 1, office)
        PROVE  <1>3
    <3> DEFINE e == [from |-> 1, till |-> Forever, at |-> 0]
               a == [from |-> 1, till |-> Forever, office |-> office]
    <3>1. enrolments = {e} /\ assignments = {a}
      BY <2>2 DEF Enrolled, Placed, Clip
    <3>2. /\ {"from", "till"} \subseteq DOMAIN e /\ e.from = 1 /\ e.till = Forever
          /\ {"from", "till", "office"} \subseteq DOMAIN a /\ a.from = 1 /\ a.till = Forever
          /\ a.office = office
      OBVIOUS
    <3> HIDE DEF e, a
    <3> QED BY <1>1, <3>1, <3>2 DEF Dated, Within
  <2> QED BY <2>1, <2>2 DEF OfficesInit, EnrolmentInit
<1>4. RulesServe
  <2>1. PICK rule \in Rules :
          rules = [o \in Offices |->
                     IF known[o] = 1 THEN {[from |-> 1, till |-> Forever, rule |-> rule]}
                     ELSE {}]
    BY DEF OfficesInit
  <2> DEFINE row == [from |-> 1, till |-> Forever, rule |-> rule]
  <2>2. row.from = 1 /\ row.till = Forever /\ {"from", "till"} \subseteq DOMAIN row
    OBVIOUS
  <2>3. ASSUME NEW o \in Offices, known[o] > 0 PROVE rules[o] = {row} /\ known[o] = 1
    BY <1>1, <2>1, <2>3
  <2> HIDE DEF row
  <2>4. Dated({row}) /\ Disjoint({row}) /\ \A d \in 1..LastDay : Contains(row, d)
    BY <1>1, <2>2 DEF Dated, Disjoint, Contains
  <2>5. Serving({row}, 1)
    BY <2>4 DEF Serving
  <2> QED BY <1>1, <2>3, <2>5 DEF RulesServe
<1>5. AddressesFollow
  BY <1>1 DEF AddressesFollow, AddressNamesPin
<1>6. LegsServed /\ PlaceTypes /\ ArchivedOnlyBypassed
  BY <1>1, <1>2, <1>3 DEF LegsServed, PlaceTypes, ArchivedOnlyBypassed
<1> QED BY <1>4, <1>5, <1>6 DEF PlacesInv

LEMMA PlacesStep == PlacesInv /\ [OfficesNext]_placesVars => PlacesInv'
<1> SUFFICES ASSUME PlacesInv, [OfficesNext]_placesVars PROVE PlacesInv'
  OBVIOUS
<1>1. ASSUME NEW c \in Clocks, NEW office \in Offices,
             \/ \E place \in Pins, rule \in Rules : CreateOffice(c, office, place, rule)
             \/ \E sent \in Days, rule \in Rules : UpdateRules(c, office, sent, rule)
             \/ ArchiveOffice(c, office)
      PROVE  PlacesInv'
  BY <1>1, CreateKeeps, RulesKeep, ArchiveKeeps
<1>2. ASSUME NEW office \in Offices, NEW place \in Pins, SaveCreateAddress(office, place)
      PROVE  PlacesInv'
  BY <1>2, ProfileKeeps
<1>3. ASSUME NEW office \in Offices, NEW place \in Pins \cup {NoPin}, NEW named \in BOOLEAN,
             NEW withRules \in BOOLEAN, UpdateOffice(office, place, named, withRules)
      PROVE  PlacesInv'
  BY <1>3, ProfileKeeps
<1>4. CASE EnrolMember \/ MoveMember \/ StopMember
  BY <1>4, MemberStep
<1>5. CASE Crash \/ Join \/ SetDisabled \/ UNCHANGED placesVars
           \/ (Tick /\ UNCHANGED <<periods, edits, officeVars>>)
  <2>1. /\ UNCHANGED <<enrolments, assignments, known, archived, rules, pin, address, bypassed>>
        /\ pending' \subseteq pending
        /\ today' = today \/ (today < LastDay /\ today' = today + 1)
    BY <1>5 DEF Crash, Join, SetDisabled, placesVars, officeVars, placeVars, clock, periods, Tick
  <2>2. today \in Int /\ today' \in Days /\ today <= today'
    BY <2>1, DayFacts DEF PlacesInv, PlaceTypes
  <2>3. \A o \in Offices : known'[o] <= today'
    <3>1. \A o \in Offices : known[o] \in Int /\ known[o] <= today
      BY DEF PlacesInv, PlaceTypes
    <3>2. today' \in Int
      BY <2>2, DayFacts
    <3> QED BY <2>1, <2>2, <3>1, <3>2
  <2>4. PlaceTypes'
    BY <2>1, <2>2, <2>3 DEF PlacesInv, PlaceTypes, Dated
  <2>5. ArchivedOnlyBypassed'
    <3>1. \A a \in assignments : a.till \in Int
      BY DEF PlacesInv, PlaceTypes, Dated
    <3>2. today' \in Int
      BY <2>2, DayFacts
    <3> QED BY <2>1, <2>2, <3>1, <3>2 DEF PlacesInv, ArchivedOnlyBypassed
  <2>6. RulesServe'
    <3>1. \A o \in Offices : Serving(rules[o], known[o])' <=> Serving(rules[o], known[o])
      BY <2>1 DEF Serving, Dated, Disjoint, Contains
    <3> QED BY <2>1, <3>1 DEF PlacesInv, RulesServe
  <2>7. LegsServed' /\ AddressesFollow'
    BY <2>1 DEF PlacesInv, LegsServed, AddressesFollow, AddressNamesPin
  <2> QED BY <2>4, <2>5, <2>6, <2>7 DEF PlacesInv
<1> QED BY <1>1, <1>2, <1>3, <1>4, <1>5 DEF OfficesNext

(* Rules that serve show one rule for a day, and the next one.             *)
LEMMA ServedDays ==
  ASSUME PlacesInv, NEW office \in Offices, known[office] > 0,
         NEW d \in Days, known[office] <= d
  PROVE  \E r \in rules[office] :
           /\ Contains(r, d)
           /\ OfficeView(office, d).rule = {r}
           /\ \A s \in rules[office] :
                r.till = s.from => OfficeView(office, d).nextRule = {s}
<1>1. Dated(rules[office]) /\ Disjoint(rules[office])
  BY DEF PlacesInv, RulesServe, Serving
<1>2. d \in known[office]..LastDay /\ d \in Int
  <2>1. known[office] \in Nat
    BY DEF PlacesInv, PlaceTypes
  <2> QED BY <2>1, DayFacts
<1>3. PICK r \in rules[office] : Contains(r, d)
  BY <1>2 DEF PlacesInv, RulesServe, Serving
<1>4. \A s \in rules[office] : s.from \in Int /\ s.till \in Int /\ s.from < s.till
  BY <1>1 DEF Dated
<1>5. OfficeView(office, d).rule = {r}
  <2>1. ASSUME NEW s \in rules[office], Contains(s, d) PROVE s = r
    BY <1>1, <1>2, <1>3, <1>4, <2>1 DEF Disjoint, Contains
  <2> QED BY <1>3, <2>1 DEF OfficeView
<1>6. ASSUME NEW s \in rules[office], r.till = s.from
      PROVE  OfficeView(office, d).nextRule = {s}
  <2> DEFINE future == {t \in rules[office] : t.from > d}
  <2>1. s \in future
    BY <1>2, <1>3, <1>4, <1>6 DEF Contains
  <2>2. ASSUME NEW t \in future PROVE s.from <= t.from
    <3>1. t # r
      BY <1>2, <1>3, <1>4, <2>2 DEF Contains
    <3>2. r.till <= t.from \/ t.till <= r.from
      BY <1>1, <3>1 DEF Disjoint
    <3> QED BY <1>2, <1>3, <1>4, <1>6, <2>2, <3>2 DEF Contains
  <2>3. ASSUME NEW t \in future, t.from <= s.from PROVE t = s
    <3>1. s = t \/ s.till <= t.from \/ t.till <= s.from
      BY <1>1 DEF Disjoint
    <3>2. s.from <= t.from
      BY <2>2
    <3>3. s.from \in Int /\ s.till \in Int /\ s.from < s.till /\ t.from \in Int
          /\ t.till \in Int /\ t.from < t.till
      BY <1>4
    <3> QED BY <2>3, <3>1, <3>2, <3>3
  <2>4. OfficeView(office, d).nextRule = {t \in future : \A u \in future : t.from <= u.from}
    BY DEF OfficeView
  <2> HIDE DEF future
  <2> QED BY <2>1, <2>2, <2>3, <2>4
<1> QED BY <1>3, <1>5, <1>6

(* Offices serve those assigned to them, for any offices, rules and days:  *)
(* every day of an assignment has exactly one rule of its office and every *)
(* office listed shows one, the address shown is that of the pin, and only *)
(* a member the archive could not see is left at an archived office.       *)
THEOREM PeopleAreServed == OfficesSpec => []OfficesServe
<1>1. PlacesInv => OfficesServe
  <2> SUFFICES ASSUME PlacesInv PROVE OfficesServe
    OBVIOUS
  <2>1. ASSUME NEW a \in assignments, NEW d \in Days, Contains(a, d)
        PROVE  Cardinality(OfficeView(a.office, d).rule) = 1
    <3>1. /\ a.office \in Offices /\ known[a.office] > 0 /\ known[a.office] <= a.from
          /\ known[a.office] \in Int /\ a.from \in Int /\ d \in Int
      BY DayFacts DEF PlacesInv, PlaceTypes, LegsServed, Dated
    <3>2. known[a.office] <= d
      BY <2>1, <3>1 DEF Contains
    <3>3. \E r \in rules[a.office] : OfficeView(a.office, d).rule = {r}
      BY <3>1, <3>2, ServedDays
    <3> QED BY <3>3, FS_Singleton
  <2>2. ASSUME NEW office \in Offices, known[office] > 0, NEW d \in today..LastDay
        PROVE  /\ OfficeView(office, d).rule # {}
               /\ \A r \in OfficeView(office, d).rule, s \in rules[office] :
                    r.till = s.from => OfficeView(office, d).nextRule = {s}
    <3>1. d \in Days /\ known[office] <= d
      <4>1. today \in Int /\ 1 <= today /\ known[office] \in Int /\ known[office] <= today
        BY DayFacts DEF PlacesInv, PlaceTypes
      <4> QED BY <4>1, DayFacts
    <3>2. PICK r \in rules[office] :
            /\ OfficeView(office, d).rule = {r}
            /\ \A s \in rules[office] :
                 r.till = s.from => OfficeView(office, d).nextRule = {s}
      BY <2>2, <3>1, ServedDays
    <3> QED BY <3>2
  <2>3. TrackedDaysHaveRule
    BY <2>1, <2>2 DEF TrackedDaysHaveRule
  <2> QED BY <2>3 DEF PlacesInv, AddressesFollow, OfficesServe
<1> QED BY <1>1, PlacesStart, PlacesStep, PTL DEF OfficesSpec

-----------------------------------------------------------------------------
(***************************************************************************)
(* Weekly offs.                                                            *)
(***************************************************************************)

Change == [from : Int, days : DaySets \cup {Absent}]
Week == [from : Int, till : Int, days : DaySets]

(* Rows and a plan that say the same of every day before `end`: each row   *)
(* starts with a change to its days, ends with a change or at the end, and *)
(* spans no other; each change to days off starts a row, each clear ends   *)
(* one.                                                                    *)
Mirror(rows, plan, end) ==
  /\ rows \subseteq Week /\ plan \subseteq Change
  /\ \A p \in plan : 1 <= p.from /\ p.from < end
  /\ \A p, q \in plan : p.from = q.from => p = q
  /\ \A r \in rows : /\ r.from < r.till /\ r.till <= end
                     /\ r.till = end \/ \E q \in plan : q.from = r.till
                     /\ \E p \in plan : p.from = r.from /\ p.days = r.days
                     /\ \A q \in plan : q.from <= r.from \/ r.till <= q.from
  /\ \A p \in plan : \E r \in rows : IF p.days = Absent THEN r.till = p.from
                                    ELSE r.from = p.from

WeeklyInv ==
  /\ today \in Days
  /\ DOMAIN plans = {"all", "one"}
  /\ Mirror(defaults, plans["all"], Forever)
  /\ Mirror(overrides, plans["one"], Forever)

(* A set of naturals has a least one, a bounded set of days a latest one.  *)
LEMMA LeastNatural ==
  ASSUME NEW S, S \subseteq Nat, S # {}
  PROVE  \E n \in S : \A m \in S : n <= m
<1>1. IsWellFoundedOn(OpToRel(<, Nat), Nat)
  BY NatLessThanWellFounded
<1>2. PICK n \in S : \A m \in S : <<m, n>> \notin OpToRel(<, Nat)
  BY <1>1, WFMin
<1>3. \A m \in S : ~(m < n)
  BY <1>2 DEF OpToRel
<1> QED BY <1>3

LEMMA Latest ==
  ASSUME NEW S, S \subseteq Int, S # {}, NEW b \in Int, \A x \in S : x <= b
  PROVE  \E m \in S : \A x \in S : x <= m
<1> DEFINE T == {b - x : x \in S}
<1>1. \A x \in S : b - x \in Nat
  OBVIOUS
<1>2. T \subseteq Nat /\ T # {}
  BY <1>1
<1>3. PICK t \in T : \A u \in T : t <= u
  <2> HIDE DEF T
  <2> QED BY <1>2, LeastNatural
<1>4. PICK m \in S : t = b - m
  BY <1>3
<1>5. \A x \in S : x <= m
  <2> SUFFICES ASSUME NEW x \in S PROVE x <= m
    OBVIOUS
  <2>1. b - m <= b - x
    BY <1>3, <1>4
  <2> QED BY <2>1
<1> QED BY <1>5

(* What a plan says of a day: the days of its last change up to it.        *)
LEMMA PlannedLatest ==
  ASSUME NEW plan, plan \subseteq Change, \A p, q \in plan : p.from = q.from => p = q,
         NEW d \in Int
  PROVE  \/ (\A p \in plan : ~(p.from <= d)) /\ PlannedOn(plan, d) = Absent
         \/ \E p \in plan : /\ p.from <= d /\ PlannedOn(plan, d) = p.days
                            /\ \A q \in plan : q.from <= d => q.from <= p.from
<1> DEFINE past == {p \in plan : p.from <= d}
<1>1. CASE past = {}
  BY <1>1 DEF PlannedOn
<1>2. CASE past # {}
  <2>1. \E m \in {p.from : p \in past} : \A x \in {p.from : p \in past} : x <= m
    <3> DEFINE S == {p.from : p \in past}
    <3>1. S \subseteq Int /\ S # {} /\ \A x \in S : x <= d
      BY <1>2 DEF Change
    <3> HIDE DEF S
    <3>2. \E m \in S : \A x \in S : x <= m
      BY <3>1, Latest
    <3> QED BY <3>2 DEF S
  <2>2. PICK p \in past : \A q \in past : q.from <= p.from
    BY <2>1
  <2> DEFINE l == CHOOSE x \in past : \A q \in past : q.from <= x.from
  <2>3. l \in past /\ \A q \in past : q.from <= l.from
    BY <2>2
  <2>4. PlannedOn(plan, d) = l.days
    BY <1>2 DEF PlannedOn
  <2> HIDE DEF l
  <2> QED BY <2>3, <2>4
<1> QED BY <1>1, <1>2

(* A row that covers a day is the only one, and says what the plan says.   *)
LEMMA MirrorUnique ==
  ASSUME NEW rows, NEW plan, NEW end \in Int, Mirror(rows, plan, end)
  PROVE  Disjoint(rows)
<1> SUFFICES ASSUME NEW r \in rows, NEW s \in rows, r # s, r.from <= s.from
             PROVE  r.till <= s.from
  <2>1. \A r \in rows : r.from \in Int
    BY DEF Mirror, Week
  <2> QED BY <2>1 DEF Disjoint
<1>1. /\ r.from \in Int /\ r.till \in Int /\ s.from \in Int /\ s.till \in Int
      /\ r.from < r.till /\ s.from < s.till /\ r.till <= end /\ s.till <= end
      /\ \A q \in plan : q.from \in Int
  BY DEF Mirror, Week, Change
<1>2. PICK ps \in plan : ps.from = s.from /\ ps.days = s.days
  BY DEF Mirror
<1>3. CASE r.from < s.from
  BY <1>1, <1>2, <1>3 DEF Mirror
<1>4. CASE r.from = s.from
  <2>1. PICK pr \in plan : pr.from = r.from /\ pr.days = r.days
    BY DEF Mirror
  <2>2. r.days = s.days
    BY <1>2, <1>4, <2>1 DEF Mirror
  <2>3. ~(r.till < s.till)
    <3> SUFFICES ASSUME r.till < s.till PROVE FALSE
      OBVIOUS
    <3>0. r.till # end
      BY <1>1
    <3>1. PICK q \in plan : q.from = r.till
      BY <3>0 DEF Mirror
    <3>2. q.from <= s.from \/ s.till <= q.from
      BY DEF Mirror
    <3> QED BY <1>1, <1>4, <3>1, <3>2
  <2>4. ~(s.till < r.till)
    <3> SUFFICES ASSUME s.till < r.till PROVE FALSE
      OBVIOUS
    <3>1. PICK q \in plan : q.from = s.till
      BY <1>1 DEF Mirror
    <3>2. q.from <= r.from \/ r.till <= q.from
      BY DEF Mirror
    <3> QED BY <1>1, <1>4, <3>1, <3>2
  <2>5. r.till = s.till
    BY <1>1, <2>3, <2>4
  <2>6. r \in Week /\ s \in Week
    BY DEF Mirror
  <2> QED BY <1>4, <2>2, <2>5, <2>6 DEF Week
<1> QED BY <1>1, <1>3, <1>4

LEMMA DaysOnRow ==
  ASSUME NEW rows, NEW plan, NEW end \in Int, Mirror(rows, plan, end), NEW d \in Int
  PROVE  /\ \A r \in rows : Contains(r, d) => DaysOn(rows, d) = r.days
         /\ (\A r \in rows : ~Contains(r, d)) => DaysOn(rows, d) = Absent
<1>1. ASSUME NEW r \in rows, Contains(r, d) PROVE DaysOn(rows, d) = r.days
  <2> DEFINE x == CHOOSE x \in rows : Contains(x, d)
  <2>1. x \in rows /\ Contains(x, d) /\ DaysOn(rows, d) = x.days
    BY <1>1 DEF DaysOn
  <2> HIDE DEF x
  <2>2. x = r \/ x.till <= r.from \/ r.till <= x.from
    BY <2>1, MirrorUnique DEF Disjoint
  <2>3. /\ x.from \in Int /\ x.till \in Int /\ r.from \in Int /\ r.till \in Int
    BY <2>1 DEF Mirror, Week
  <2>4. x = r
    BY <1>1, <2>1, <2>2, <2>3 DEF Contains
  <2> QED BY <2>1, <2>4
<1>2. (\A r \in rows : ~Contains(r, d)) => DaysOn(rows, d) = Absent
  BY DEF DaysOn
<1> QED BY <1>1, <1>2

LEMMA MirrorReads ==
  ASSUME NEW rows, NEW plan, NEW end \in Int, Mirror(rows, plan, end), NEW d \in Int, d < end
  PROVE  DaysOn(rows, d) = PlannedOn(plan, d)
<1>1. /\ plan \subseteq Change /\ \A p, q \in plan : p.from = q.from => p = q
      /\ \A q \in plan : q.from \in Int
      /\ \A r \in rows : r.from \in Int /\ r.till \in Int /\ r.from < r.till /\ r.days # Absent
  BY WeeklyAssumption DEF Mirror, Change, Week, WeeklyAssumption
<1>2. CASE (\A p \in plan : ~(p.from <= d)) /\ PlannedOn(plan, d) = Absent
  <2>1. \A r \in rows : ~Contains(r, d)
    BY <1>2 DEF Mirror, Contains
  <2> QED BY <1>2, <2>1, DaysOnRow
<1>3. ASSUME NEW p \in plan, p.from <= d, PlannedOn(plan, d) = p.days,
             \A q \in plan : q.from <= d => q.from <= p.from
      PROVE  DaysOn(rows, d) = PlannedOn(plan, d)
  <2>1. ASSUME NEW r \in rows, Contains(r, d) PROVE r.days = p.days
    <3>1. PICK q \in plan : q.from = r.from /\ q.days = r.days
      BY DEF Mirror
    <3>2. q.from <= p.from
      BY <1>3, <2>1, <3>1 DEF Contains
    <3>3. p.from <= r.from \/ r.till <= p.from
      BY DEF Mirror
    <3>4. p.from = q.from
      BY <1>1, <1>3, <2>1, <3>1, <3>2, <3>3 DEF Contains
    <3> QED BY <1>1, <3>1, <3>4
  <2>2. ASSUME p.days # Absent PROVE \E r \in rows : Contains(r, d)
    <3>1. PICK r \in rows : r.from = p.from
      BY <2>2 DEF Mirror
    <3>2. d < r.till
      <4>1. CASE r.till = end
        BY <4>1
      <4>2. ASSUME NEW q \in plan, q.from = r.till PROVE d < r.till
        <5>1. ~(q.from <= p.from)
          BY <1>1, <3>1, <4>2
        <5>2. ~(q.from <= d)
          BY <1>3, <5>1
        <5> QED BY <1>1, <4>2, <5>2
      <4> QED BY <4>1, <4>2 DEF Mirror
    <3> QED BY <1>3, <3>1, <3>2 DEF Contains
  <2>3. CASE \E r \in rows : Contains(r, d)
    <3>1. PICK r \in rows : Contains(r, d)
      BY <2>3
    <3>2. DaysOn(rows, d) = r.days
      BY <3>1, DaysOnRow
    <3> QED BY <1>3, <2>1, <3>1, <3>2
  <2>4. CASE \A r \in rows : ~Contains(r, d)
    <3>1. DaysOn(rows, d) = Absent
      BY <2>4, DaysOnRow
    <3> QED BY <1>3, <2>2, <2>4, <3>1
  <2> QED BY <2>3, <2>4
<1>4. \/ (\A p \in plan : ~(p.from <= d)) /\ PlannedOn(plan, d) = Absent
      \/ \E p \in plan : /\ p.from <= d /\ PlannedOn(plan, d) = p.days
                         /\ \A q \in plan : q.from <= d => q.from <= p.from
  BY <1>1, PlannedLatest
<1> QED BY <1>2, <1>3, <1>4

(* The rows and the plan before a date, for a call that starts there.      *)
LEMMA MirrorDated ==
  ASSUME NEW rows, NEW plan, Mirror(rows, plan, Forever)
  PROVE  /\ Dated(rows)
         /\ \A r \in rows : "days" \in DOMAIN r /\ r.days \in DaySets /\ r.days # Absent
         /\ \A p \in plan : p.from \in Int
BY WeeklyAssumption DEF Mirror, Dated, Week, Change, WeeklyAssumption

LEMMA ClipMirrors ==
  ASSUME NEW rows, NEW plan, Mirror(rows, plan, Forever), NEW date \in Days
  PROVE  Mirror(Clip(rows, date), {p \in plan : p.from < date}, date)
<1> DEFINE kept == {p \in plan : p.from < date}
           left == Clip(rows, date)
<1>1. /\ date \in Int /\ date < Forever /\ Forever \in Int
  BY DayFacts
<1>2. /\ Dated(rows)
      /\ \A r \in rows : "days" \in DOMAIN r /\ r.days \in DaySets /\ r.days # Absent
      /\ \A p \in plan : p.from \in Int
  BY MirrorDated
<1>3. ASSUME NEW x \in left, NEW r \in rows, Trimmed(x, r, date)
      PROVE  /\ x \in Week /\ x.from = r.from /\ x.days = r.days /\ x.from < x.till
             /\ x.till <= date /\ x.till <= r.till /\ r.from < date
             /\ x.till = (IF r.till > date THEN date ELSE r.till)
  <2>1. /\ r.from \in Int /\ r.till \in Int /\ r.from < r.till /\ r.from < date
        /\ x = [r EXCEPT !.till = IF r.till > date THEN date ELSE r.till]
        /\ x.from = r.from /\ x.till = (IF r.till > date THEN date ELSE r.till)
    BY <1>2, <1>3 DEF Trimmed, Dated
  <2>2. r \in Week
    BY DEF Mirror
  <2>3. x \in Week /\ x.days = r.days
    BY <1>1, <2>1, <2>2 DEF Week
  <2> QED BY <1>1, <2>1, <2>3
<1>4. \A x \in left : \E r \in rows : Trimmed(x, r, date)
  BY <1>1, <1>2, ClipTrims
<1>5. \A r \in rows : r.from < date => \E x \in left : Trimmed(x, r, date)
  BY <1>1, <1>2, ClipTrims
<1>6. \A p \in kept : p \in plan /\ p.from < date
  OBVIOUS
<1>7. \A p \in plan : p.from < date => p \in kept
  OBVIOUS
<1> HIDE DEF kept, left
<1>8. left \subseteq Week /\ kept \subseteq Change
  BY <1>3, <1>4, <1>6 DEF Mirror
<1>9. /\ \A p \in kept : 1 <= p.from /\ p.from < date
      /\ \A p, q \in kept : p.from = q.from => p = q
  BY <1>6 DEF Mirror
<1>10. ASSUME NEW x \in left
       PROVE  /\ x.from < x.till /\ x.till <= date
              /\ x.till = date \/ \E q \in kept : q.from = x.till
              /\ \E p \in kept : p.from = x.from /\ p.days = x.days
              /\ \A q \in kept : q.from <= x.from \/ x.till <= q.from
  <2>1. PICK r \in rows : Trimmed(x, r, date)
    BY <1>4
  <2>2. /\ x.from = r.from /\ x.days = r.days /\ x.from < x.till
        /\ x.till <= date /\ x.till <= r.till /\ r.from < date
        /\ x.till = (IF r.till > date THEN date ELSE r.till)
    BY <1>3, <2>1
  <2>3. r.from \in Int /\ r.till \in Int
    BY <1>2 DEF Dated
  <2>4. x.till = date \/ \E q \in kept : q.from = x.till
    <3>1. CASE r.till < date
      <4>1. r.till # Forever /\ x.till = r.till
        BY <1>1, <2>2, <2>3, <3>1
      <4>2. PICK q \in plan : q.from = r.till
        BY <4>1 DEF Mirror
      <4> QED BY <1>7, <3>1, <4>1, <4>2
    <3>2. CASE ~(r.till < date)
      BY <1>1, <2>2, <2>3, <3>2
    <3> QED BY <3>1, <3>2
  <2>5. \E p \in kept : p.from = x.from /\ p.days = x.days
    <3>1. PICK p \in plan : p.from = r.from /\ p.days = r.days
      BY DEF Mirror
    <3> QED BY <1>7, <2>2, <3>1
  <2>6. ASSUME NEW q \in kept PROVE q.from <= x.from \/ x.till <= q.from
    <3>1. q.from <= r.from \/ r.till <= q.from
      BY <1>6 DEF Mirror
    <3> QED BY <1>1, <1>2, <1>6, <2>2, <2>3, <3>1
  <2> QED BY <2>2, <2>4, <2>5, <2>6
<1>11. ASSUME NEW p \in kept
       PROVE  \E x \in left : IF p.days = Absent THEN x.till = p.from ELSE x.from = p.from
  <2>1. PICK r \in rows : IF p.days = Absent THEN r.till = p.from ELSE r.from = p.from
    BY <1>6 DEF Mirror
  <2>2. r.from \in Int /\ r.till \in Int /\ r.from < r.till /\ p.from \in Int /\ p.from < date
    BY <1>2, <1>6 DEF Dated
  <2>3. PICK x \in left : Trimmed(x, r, date)
    BY <1>1, <1>5, <2>1, <2>2
  <2>4. x.from = r.from /\ (r.till < date => x.till = r.till)
    BY <1>1, <1>3, <2>2, <2>3
  <2> QED BY <2>1, <2>2, <2>4
<1> QED BY <1>8, <1>9, <1>10, <1>11 DEF Mirror, kept, left

(* The last change before the date goes: what ended there runs on.         *)
Runs(x, r, at, date) ==
  /\ x \in Week /\ x.from = r.from /\ x.days = r.days
  /\ x.till = IF r.till = at THEN date ELSE r.till

LEMMA MoveMirrors ==
  ASSUME NEW rows, NEW plan, Mirror(rows, plan, Forever), NEW date \in Days,
         NEW p \in plan, p.from < date,
         \A q \in plan : q.from <= p.from \/ date <= q.from,
         NEW X,
         \A x \in X : \E r \in rows : r.from < p.from /\ Runs(x, r, p.from, date),
         \A r \in rows : r.from < p.from => \E x \in X : Runs(x, r, p.from, date)
  PROVE  Mirror(X, {q \in plan : q.from < date} \ {p}, date)
<1> DEFINE rest == {q \in plan : q.from < date} \ {p}
<1>1. /\ date \in Int /\ date < Forever /\ Forever \in Int
  BY DayFacts
<1>2. /\ Dated(rows)
      /\ \A r \in rows : "days" \in DOMAIN r /\ r.days \in DaySets /\ r.days # Absent
      /\ \A q \in plan : q.from \in Int
  BY MirrorDated
<1>3. ASSUME NEW q \in rest PROVE q \in plan /\ q.from < p.from
  <2>1. q \in plan /\ q # p /\ q.from < date
    OBVIOUS
  <2>2. q.from # p.from
    BY <2>1 DEF Mirror
  <2> QED BY <1>1, <1>2, <2>1, <2>2
<1>4. \A q \in plan : q.from < p.from => q \in rest
  BY <1>1, <1>2
<1> HIDE DEF rest
<1>5. X \subseteq Week /\ rest \subseteq Change
  BY <1>3 DEF Mirror, Runs
<1>6. /\ \A q \in rest : 1 <= q.from /\ q.from < date
      /\ \A q, o \in rest : q.from = o.from => q = o
  BY <1>1, <1>2, <1>3 DEF Mirror
<1>7. ASSUME NEW x \in X
      PROVE  /\ x.from < x.till /\ x.till <= date
             /\ x.till = date \/ \E q \in rest : q.from = x.till
             /\ \E q \in rest : q.from = x.from /\ q.days = x.days
             /\ \A q \in rest : q.from <= x.from \/ x.till <= q.from
  <2>1. PICK r \in rows : r.from < p.from /\ Runs(x, r, p.from, date)
    OBVIOUS
  <2>2. /\ r.from \in Int /\ r.till \in Int /\ r.from < r.till /\ p.from \in Int
        /\ x.from = r.from /\ x.days = r.days
        /\ x.till = IF r.till = p.from THEN date ELSE r.till
    BY <1>2, <2>1 DEF Dated, Runs
  <2>3. r.till <= p.from
    <3>1. p.from <= r.from \/ r.till <= p.from
      BY DEF Mirror
    <3> QED BY <2>1, <2>2, <3>1
  <2>4. x.from < x.till /\ x.till <= date
    BY <1>1, <2>1, <2>2, <2>3
  <2>5. x.till = date \/ \E q \in rest : q.from = x.till
    <3>1. CASE r.till = p.from
      BY <2>2, <3>1
    <3>2. CASE r.till # p.from
      <4>1. r.till < p.from /\ r.till # Forever
        BY <1>1, <2>2, <2>3, <3>2
      <4>2. PICK q \in plan : q.from = r.till
        BY <4>1 DEF Mirror
      <4> QED BY <1>4, <2>2, <3>2, <4>1, <4>2
    <3> QED BY <3>1, <3>2
  <2>6. \E q \in rest : q.from = x.from /\ q.days = x.days
    <3>1. PICK q \in plan : q.from = r.from /\ q.days = r.days
      BY DEF Mirror
    <3> QED BY <1>4, <2>1, <2>2, <3>1
  <2>7. ASSUME NEW q \in rest PROVE q.from <= x.from \/ x.till <= q.from
    <3>1. q.from <= r.from \/ r.till <= q.from
      BY <1>3 DEF Mirror
    <3>2. q.from < p.from /\ q.from \in Int
      BY <1>2, <1>3
    <3> QED BY <2>2, <3>1, <3>2
  <2> QED BY <2>4, <2>5, <2>6, <2>7
<1>8. ASSUME NEW q \in rest
      PROVE  \E x \in X : IF q.days = Absent THEN x.till = q.from ELSE x.from = q.from
  <2>1. PICK r \in rows : IF q.days = Absent THEN r.till = q.from ELSE r.from = q.from
    BY <1>3 DEF Mirror
  <2>2. r.from \in Int /\ r.till \in Int /\ r.from < r.till /\ q.from \in Int /\ q.from < p.from
        /\ p.from \in Int
    BY <1>2, <1>3 DEF Dated
  <2>3. PICK x \in X : Runs(x, r, p.from, date)
    BY <2>1, <2>2
  <2> QED BY <2>1, <2>2, <2>3 DEF Runs
<1> QED BY <1>5, <1>6, <1>7, <1>8 DEF Mirror, rest

(* A call that opens days at the date, and one that leaves none from it.   *)
LEMMA OpenMirrors ==
  ASSUME NEW rows, NEW plan, NEW date \in Days, Mirror(rows, plan, date),
         NEW days \in DaySets
  PROVE  Mirror(rows \cup {[from |-> date, till |-> Forever, days |-> days]},
                plan \cup {[from |-> date, days |-> days]}, Forever)
<1> DEFINE new == [from |-> date, till |-> Forever, days |-> days]
           change == [from |-> date, days |-> days]
<1>1. /\ date \in Int /\ date < Forever /\ Forever \in Int /\ 1 <= date /\ days # Absent
  BY DayFacts, WeeklyAssumption DEF WeeklyAssumption
<1>2. /\ new \in Week /\ new.from = date /\ new.till = Forever /\ new.days = days
      /\ change \in Change /\ change.from = date /\ change.days = days
  BY <1>1 DEF Week, Change
<1> HIDE DEF new, change
<1>3. /\ \A r \in rows : r.from \in Int /\ r.till \in Int
      /\ \A p \in plan : p.from \in Int /\ p.from < date
  BY DEF Mirror, Week, Change
<1>4. /\ rows \cup {new} \subseteq Week /\ plan \cup {change} \subseteq Change
      /\ \A p \in plan \cup {change} : 1 <= p.from /\ p.from < Forever
      /\ \A p, q \in plan \cup {change} : p.from = q.from => p = q
  BY <1>1, <1>2, <1>3 DEF Mirror
<1>5. ASSUME NEW r \in rows \cup {new}
      PROVE  /\ r.from < r.till /\ r.till <= Forever
             /\ r.till = Forever \/ \E q \in plan \cup {change} : q.from = r.till
             /\ \E p \in plan \cup {change} : p.from = r.from /\ p.days = r.days
             /\ \A q \in plan \cup {change} : q.from <= r.from \/ r.till <= q.from
  <2>1. CASE r \in rows
    <3>1. r.from < r.till /\ r.till <= Forever /\ r.till <= date
      BY <1>1, <1>3, <2>1 DEF Mirror
    <3>2. r.till = Forever \/ \E q \in plan \cup {change} : q.from = r.till
      BY <1>2, <2>1 DEF Mirror
    <3>3. \E p \in plan \cup {change} : p.from = r.from /\ p.days = r.days
      BY <2>1 DEF Mirror
    <3>4. \A q \in plan \cup {change} : q.from <= r.from \/ r.till <= q.from
      BY <1>2, <2>1, <3>1 DEF Mirror
    <3> QED BY <3>1, <3>2, <3>3, <3>4
  <2>2. CASE r = new
    BY <1>1, <1>2, <1>3, <2>2
  <2> QED BY <2>1, <2>2
<1>6. ASSUME NEW p \in plan \cup {change}
      PROVE  \E r \in rows \cup {new} : IF p.days = Absent THEN r.till = p.from
                                        ELSE r.from = p.from
  <2>1. CASE p \in plan
    BY <2>1 DEF Mirror
  <2>2. CASE p = change
    BY <1>1, <1>2, <2>2
  <2> QED BY <2>1, <2>2
<1> QED BY <1>4, <1>5, <1>6 DEF Mirror, new, change

LEMMA CloseMirrors ==
  ASSUME NEW rows, NEW plan, NEW date \in Days, Mirror(rows, plan, date)
  PROVE  Mirror(rows, plan \cup (IF PlannedOn(plan, date) = Absent THEN {}
                                 ELSE {[from |-> date, days |-> Absent]}), Forever)
<1>1. /\ date \in Int /\ date < Forever /\ Forever \in Int /\ 1 <= date
  BY DayFacts
<1>2. /\ plan \subseteq Change /\ \A p, q \in plan : p.from = q.from => p = q
      /\ \A r \in rows : r.from \in Int /\ r.till \in Int /\ r.days # Absent
      /\ \A p \in plan : p.from \in Int /\ p.from < date
  BY WeeklyAssumption DEF Mirror, Week, Change, WeeklyAssumption
<1>3. \/ plan = {} /\ PlannedOn(plan, date) = Absent
      \/ \E p \in plan : /\ p.from <= date /\ PlannedOn(plan, date) = p.days
                         /\ \A q \in plan : q.from <= date => q.from <= p.from
  <2>1. \A p \in plan : p.from <= date
    BY <1>1, <1>2
  <2>2. \/ (\A p \in plan : ~(p.from <= date)) /\ PlannedOn(plan, date) = Absent
        \/ \E p \in plan : /\ p.from <= date /\ PlannedOn(plan, date) = p.days
                           /\ \A q \in plan : q.from <= date => q.from <= p.from
    BY <1>1, <1>2, PlannedLatest
  <2> QED BY <2>1, <2>2
<1>4. CASE PlannedOn(plan, date) = Absent
  <2>1. \A r \in rows : \E q \in plan : q.from = r.till
    <3> SUFFICES ASSUME NEW r \in rows, r.till = date PROVE FALSE
      BY DEF Mirror
    <3>1. PICK q \in plan : q.from = r.from /\ q.days = r.days
      BY DEF Mirror
    <3>2. PICK p \in plan : /\ PlannedOn(plan, date) = p.days
                            /\ \A o \in plan : o.from <= date => o.from <= p.from
      BY <1>3, <3>1
    <3>3. q.from <= p.from
      BY <1>1, <1>2, <3>2
    <3>4. p.from <= r.from \/ r.till <= p.from
      BY DEF Mirror
    <3>5. p = q
      BY <1>1, <1>2, <3>1, <3>3, <3>4
    <3> QED BY <1>2, <1>4, <3>1, <3>2, <3>5
  <2>2. \A r \in rows : r.till <= Forever
    BY <1>1, <1>2 DEF Mirror
  <2>3. \A p \in plan : p.from < Forever
    BY <1>1, <1>2
  <2> QED BY <1>4, <2>1, <2>2, <2>3 DEF Mirror
<1>5. CASE PlannedOn(plan, date) # Absent
  <2> DEFINE clear == [from |-> date, days |-> Absent]
  <2>1. clear \in Change /\ clear.from = date /\ clear.days = Absent
    BY <1>1 DEF Change
  <2> HIDE DEF clear
  <2>2. /\ plan \cup {clear} \subseteq Change
        /\ \A p \in plan \cup {clear} : 1 <= p.from /\ p.from < Forever
        /\ \A p, q \in plan \cup {clear} : p.from = q.from => p = q
    BY <1>1, <1>2, <2>1 DEF Mirror
  <2>3. ASSUME NEW r \in rows
        PROVE  /\ r.from < r.till /\ r.till <= Forever
               /\ r.till = Forever \/ \E q \in plan \cup {clear} : q.from = r.till
               /\ \E p \in plan \cup {clear} : p.from = r.from /\ p.days = r.days
               /\ \A q \in plan \cup {clear} : q.from <= r.from \/ r.till <= q.from
    <3>1. r.from < r.till /\ r.till <= Forever /\ r.till <= date
      BY <1>1, <1>2 DEF Mirror
    <3>2. r.till = Forever \/ \E q \in plan \cup {clear} : q.from = r.till
      BY <2>1 DEF Mirror
    <3>3. \E p \in plan \cup {clear} : p.from = r.from /\ p.days = r.days
      BY DEF Mirror
    <3>4. \A q \in plan \cup {clear} : q.from <= r.from \/ r.till <= q.from
      BY <2>1, <3>1 DEF Mirror
    <3> QED BY <3>1, <3>2, <3>3, <3>4
  <2>4. \E r \in rows : r.till = date
    <3>1. PICK p \in plan : /\ PlannedOn(plan, date) = p.days
                            /\ \A q \in plan : q.from <= date => q.from <= p.from
      BY <1>3, <1>5
    <3>2. PICK r \in rows : r.from = p.from
      BY <1>5, <3>1 DEF Mirror
    <3>3. r.from < r.till
      BY DEF Mirror
    <3>4. ~\E q \in plan : q.from = r.till
      BY <1>1, <1>2, <3>1, <3>2, <3>3
    <3> QED BY <3>4 DEF Mirror
  <2>5. ASSUME NEW p \in plan \cup {clear}
        PROVE  \E r \in rows : IF p.days = Absent THEN r.till = p.from ELSE r.from = p.from
    <3>1. CASE p \in plan
      BY <3>1 DEF Mirror
    <3>2. CASE p = clear
      BY <2>1, <2>4, <3>2
    <3> QED BY <3>1, <3>2
  <2>6. rows \subseteq Week
    BY DEF Mirror
  <2> QED BY <1>5, <2>2, <2>3, <2>5, <2>6 DEF Mirror, clear
<1> QED BY <1>4, <1>5

(* Rows stretched to the date where a change goes, and cut at the date.    *)
LEMMA StretchRuns ==
  ASSUME NEW rows, NEW plan, Mirror(rows, plan, Forever), NEW date \in Days,
         NEW at \in Int, at < date, NEW some, some \subseteq rows,
         \A r \in some : r.from < date => r.till <= at,
         \A r \in rows : r.from < at => r \in some,
         NEW S,
         S = {[r EXCEPT !.till = IF r.till = at THEN date ELSE r.till] : r \in some}
  PROVE  /\ \A x \in Clip(S, date) : \E r \in rows : r.from < at /\ Runs(x, r, at, date)
         /\ \A r \in rows : r.from < at => \E x \in Clip(S, date) : Runs(x, r, at, date)
<1> DEFINE Stretched(r) == [r EXCEPT !.till = IF r.till = at THEN date ELSE r.till]
<1>0. /\ \A y \in S : \E r \in some : y = Stretched(r)
      /\ \A r \in some : Stretched(r) \in S
  OBVIOUS
<1>1. /\ date \in Int /\ date < Forever /\ Forever \in Int
  BY DayFacts
<1>2. Dated(rows) /\ rows \subseteq Week
  BY MirrorDated DEF Mirror
<1>3. ASSUME NEW r \in some
      PROVE  LET x == Stretched(r)
             IN  /\ x \in Week /\ x.from = r.from /\ x.days = r.days
                 /\ x.till = IF r.till = at THEN date ELSE r.till
                 /\ {"from", "till"} \subseteq DOMAIN x
                 /\ x.from \in Int /\ x.till \in Int /\ x.from < x.till /\ x.till <= Forever
  <2>1. r \in Week /\ r.from < r.till /\ r.till <= Forever
    BY <1>2 DEF Dated
  <2> DEFINE x == Stretched(r)
  <2>2. x = [r EXCEPT !.till = IF r.till = at THEN date ELSE r.till]
    OBVIOUS
  <2> HIDE DEF x
  <2>3. /\ x \in Week /\ x.from = r.from /\ x.days = r.days
        /\ x.till = IF r.till = at THEN date ELSE r.till
        /\ {"from", "till"} \subseteq DOMAIN x
    BY <1>1, <2>1, <2>2 DEF Week
  <2>4. r.from \in Int /\ r.till \in Int
    BY <2>1 DEF Week
  <2>5. /\ x.from \in Int /\ x.till \in Int /\ x.from < x.till /\ x.till <= Forever
    BY <1>1, <2>1, <2>3, <2>4
  <2> QED BY <2>3, <2>5 DEF x
<1> HIDE DEF Stretched
<1>4. Dated(S)
  BY <1>0, <1>3 DEF Dated
<1>5. ASSUME NEW r \in some, NEW x, Trimmed(x, Stretched(r), date)
      PROVE  r.from < at /\ Runs(x, r, at, date)
  <2> DEFINE y == Stretched(r)
  <2>1. /\ y \in Week /\ y.from = r.from /\ y.days = r.days
        /\ y.till = IF r.till = at THEN date ELSE r.till
        /\ y.from \in Int /\ y.till \in Int
    BY <1>3
  <2>2. Trimmed(x, y, date)
    BY <1>5
  <2> HIDE DEF y
  <2>3. r.from \in Int /\ r.till \in Int /\ r.from < r.till
    BY <1>2 DEF Dated
  <2>4. r.from < date
    BY <2>1, <2>2 DEF Trimmed
  <2>5. r.till <= at
    BY <2>4
  <2>6. ~(y.till > date)
    BY <1>1, <2>1, <2>3, <2>5
  <2>7. x = [y EXCEPT !.till = y.till]
    BY <2>2, <2>6 DEF Trimmed
  <2>8. x = y
    BY <2>1, <2>7 DEF Week
  <2> QED BY <2>1, <2>3, <2>5, <2>8 DEF Runs
<1>6. ASSUME NEW x \in Clip(S, date)
      PROVE  \E r \in rows : r.from < at /\ Runs(x, r, at, date)
  <2>1. PICK y \in S : Trimmed(x, y, date)
    BY <1>1, <1>4, ClipTrims
  <2>2. PICK r \in some : y = Stretched(r)
    BY <1>0
  <2> QED BY <1>5, <2>1, <2>2
<1>7. ASSUME NEW r \in rows, r.from < at
      PROVE  \E x \in Clip(S, date) : Runs(x, r, at, date)
  <2>1. r \in some
    BY <1>7
  <2>2. Stretched(r) \in S /\ Stretched(r).from = r.from /\ r.from \in Int
    BY <1>0, <1>2, <1>3, <2>1 DEF Dated
  <2>3. Stretched(r).from < date
    BY <1>1, <1>7, <2>2
  <2>4. PICK x \in Clip(S, date) : Trimmed(x, Stretched(r), date)
    BY <1>1, <1>4, <2>2, <2>3, ClipTrims
  <2> QED BY <1>5, <2>1, <2>4
<1> QED BY <1>6, <1>7

(* The changes a save moves: the last one before its date.                 *)
LastBefore(plan, day, date, days) ==
  LET kept == {p \in plan : p.from < date} IN
  {p \in kept : /\ \A q \in kept : q.from <= p.from
                /\ (\E q \in plan : q.from = date) => days = Absent
                /\ day < p.from /\ p.days = days}

LEMMA LastAlone ==
  ASSUME NEW rows, NEW plan, Mirror(rows, plan, Forever), NEW day, NEW date \in Days,
         NEW days, NEW p \in LastBefore(plan, day, date, days)
  PROVE  /\ LastBefore(plan, day, date, days) = {p}
         /\ p \in plan /\ p.from < date /\ p.days = days /\ day < p.from /\ p.from \in Int
         /\ \A q \in plan : q.from <= p.from \/ date <= q.from
         /\ \A q \in plan : q.from = date => days = Absent
<1>1. date \in Int /\ \A q \in plan : q.from \in Int
  BY MirrorDated, DayFacts
<1>2. /\ p \in plan /\ p.from < date /\ p.days = days /\ day < p.from
      /\ \A q \in plan : q.from < date => q.from <= p.from
      /\ \A q \in plan : q.from = date => days = Absent
  BY DEF LastBefore
<1>3. ASSUME NEW o \in LastBefore(plan, day, date, days) PROVE o = p
  <2>1. o \in plan /\ o.from <= p.from /\ p.from <= o.from
    BY DEF LastBefore
  <2>2. o.from = p.from
    BY <1>1, <1>2, <2>1
  <2> QED BY <1>2, <2>1, <2>2 DEF Mirror
<1> QED BY <1>1, <1>2, <1>3

(* The rows after a save, up to its date, and the plan without the moved   *)
(* change.                                                                 *)
LEMMA MovedMirrors ==
  ASSUME NEW rows, NEW plan, Mirror(rows, plan, Forever), NEW day \in Int, NEW date \in Days,
         NEW days \in DaySets
  PROVE  Mirror(Clip(Moved(rows, day, date, days), date),
                {p \in plan : p.from < date} \ LastBefore(plan, day, date, days), date)
<1> DEFINE last == LastBefore(plan, day, date, days)
           queued == {r \in rows : day < r.from /\ r.from < date
                                  /\ Contains(r, date) /\ r.days = days}
<1>1. /\ date \in Int /\ date < Forever /\ Forever \in Int /\ days # Absent
      /\ \A q \in plan : q.from \in Int
      /\ \A r \in rows : r.from \in Int /\ r.till \in Int /\ r.from < r.till
  BY DayFacts, MirrorDated, WeeklyAssumption DEF WeeklyAssumption, Dated
<1>2. CASE queued = {}
  <2>1. last = {}
    <3> SUFFICES ASSUME NEW p \in last PROVE FALSE
      OBVIOUS
    <3>0. /\ p \in plan /\ p.from < date /\ p.days = days /\ day < p.from
          /\ \A q \in plan : q.from <= p.from \/ date <= q.from
          /\ \A q \in plan : q.from = date => days = Absent
      BY LastAlone
    <3>1. /\ p \in plan /\ p.from < date /\ p.days = days /\ day < p.from
          /\ \A q \in plan : q.from <= p.from \/ date <= q.from
          /\ \A q \in plan : q.from # date
      BY <1>1, <3>0
    <3>2. PICK r \in rows : r.from = p.from
      BY <1>1, <3>1 DEF Mirror
    <3>3. PICK o \in plan : o.from = r.from /\ o.days = r.days
      BY DEF Mirror
    <3>4. r.days = days
      BY <3>1, <3>2, <3>3 DEF Mirror
    <3>5. date < r.till
      <4>1. CASE r.till = Forever
        BY <1>1, <4>1
      <4>2. ASSUME NEW q \in plan, q.from = r.till PROVE date < r.till
        BY <1>1, <3>1, <3>2, <4>2
      <4> QED BY <4>1, <4>2 DEF Mirror
    <3>6. r \in queued
      BY <1>1, <3>1, <3>2, <3>4, <3>5 DEF Contains
    <3> QED BY <1>2, <3>6
  <2>2. Moved(rows, day, date, days) = rows
    BY <1>2 DEF Moved
  <2>3. {p \in plan : p.from < date} \ last = {p \in plan : p.from < date}
    BY <2>1
  <2> HIDE DEF last
  <2>4. Mirror(Clip(rows, date), {p \in plan : p.from < date} \ last, date)
    BY <2>3, ClipMirrors
  <2> QED BY <2>2, <2>4 DEF last
<1>3. CASE queued # {}
  <2> DEFINE q == CHOOSE q \in queued : TRUE
  <2>1. q \in queued
    BY <1>3
  <2>2. Moved(rows, day, date, days) = Stretch(rows \ {q}, q.from, date)
    BY <1>3 DEF Moved
  <2>3. /\ q \in rows /\ day < q.from /\ q.from < date /\ date < q.till /\ q.days = days
    BY <2>1 DEF Contains
  <2> HIDE DEF q, queued
  <2>4. PICK p \in plan : p.from = q.from /\ p.days = q.days
    BY <2>3 DEF Mirror
  <2>5. \A o \in plan : o.from <= p.from \/ date < o.from
    <3> SUFFICES ASSUME NEW o \in plan PROVE o.from <= p.from \/ date < o.from
      OBVIOUS
    <3>1. o.from <= q.from \/ q.till <= o.from
      BY <2>3 DEF Mirror
    <3> QED BY <1>1, <2>3, <2>4, <3>1
  <2>6. p \in last
    <3>1. ~\E o \in plan : o.from = date
      BY <1>1, <2>3, <2>4, <2>5
    <3>2. \A o \in plan : o.from < date => o.from <= p.from
      BY <1>1, <2>5
    <3> QED BY <2>3, <2>4, <3>1, <3>2 DEF LastBefore
  <2>7. last = {p}
    <3>1. ASSUME NEW o \in last PROVE o = p
      <4>1. o \in plan /\ o.from <= p.from /\ p.from <= o.from
        BY <2>6 DEF LastBefore
      <4>2. o.from = p.from
        BY <1>1, <4>1
      <4> QED BY <4>1, <4>2 DEF Mirror
    <3> QED BY <2>6, <3>1
  <2> DEFINE S == Stretch(rows \ {q}, q.from, date)
  <2>8. /\ \A x \in Clip(S, date) : \E r \in rows : r.from < q.from /\ Runs(x, r, q.from, date)
        /\ \A r \in rows : r.from < q.from => \E x \in Clip(S, date) : Runs(x, r, q.from, date)
    <3>1. \A r \in rows \ {q} : r.from < date => r.till <= q.from
      <4> SUFFICES ASSUME NEW r \in rows, r # q, r.from < date PROVE r.till <= q.from
        OBVIOUS
      <4>1. r.till <= q.from \/ q.till <= r.from
        BY <1>1, <2>3, MirrorUnique DEF Disjoint
      <4> QED BY <1>1, <2>3, <4>1
    <3>2. \A r \in rows : r.from < q.from => r \in rows \ {q}
      BY <1>1, <2>3
    <3>3. S = {[r EXCEPT !.till = IF r.till = q.from THEN date ELSE r.till] :
                 r \in rows \ {q}}
      BY DEF Stretch
    <3> HIDE DEF S
    <3>4. q.from \in Int /\ q.from < date /\ rows \ {q} \subseteq rows
      BY <1>1, <2>3
    <3> QED BY <3>1, <3>2, <3>3, <3>4, StretchRuns
  <2> HIDE DEF S
  <2>9. Mirror(Clip(S, date), {o \in plan : o.from < date} \ {p}, date)
    <3>1. p.from < date /\ \A o \in plan : o.from <= p.from \/ date <= o.from
      BY <1>1, <2>3, <2>4, <2>5
    <3> QED BY <2>4, <2>8, <3>1, MoveMirrors
  <2> QED BY <2>2, <2>7, <2>9 DEF S
<1> QED BY <1>2, <1>3

(* The same of a clear still to come.                                      *)
LEMMA MovedClearMirrors ==
  ASSUME NEW rows, NEW plan, Mirror(rows, plan, Forever), NEW day \in Int, NEW date \in Days
  PROVE  Mirror(Clip(MovedClear(rows, day, date), date),
                {p \in plan : p.from < date} \ LastBefore(plan, day, date, Absent), date)
<1> DEFINE last == LastBefore(plan, day, date, Absent)
           Last(r) == /\ day < r.till /\ r.till < date
                      /\ \A o \in rows : o.till <= r.till \/ o.from >= date
<1>1. /\ date \in Int /\ date < Forever /\ Forever \in Int
      /\ \A q \in plan : q.from \in Int
      /\ \A r \in rows : r.from \in Int /\ r.till \in Int /\ r.from < r.till
                         /\ r \in Week
  <2>1. rows \subseteq Week
    BY DEF Mirror
  <2> QED BY <2>1, DayFacts, MirrorDated DEF Dated
<1>2. MovedClear(rows, day, date) =
        {[r EXCEPT !.till = IF Last(r) THEN date ELSE r.till] : r \in rows}
  BY DEF MovedClear
<1>3. ASSUME NEW z \in rows, Last(z) PROVE \E p \in last : p.from = z.till
  <2>1. z.till # Forever
    BY <1>1, <1>3
  <2>2. PICK p \in plan : p.from = z.till
    BY <2>1 DEF Mirror
  <2>3. p.days = Absent
    <3> SUFFICES ASSUME p.days # Absent PROVE FALSE
      OBVIOUS
    <3>1. PICK r \in rows : r.from = p.from
      BY DEF Mirror
    <3>2. r.till <= z.till \/ r.from >= date
      BY <1>3
    <3> QED BY <1>1, <1>3, <2>2, <3>1, <3>2
  <2>4. ASSUME NEW q \in plan, q.from < date PROVE q.from <= p.from
    <3>1. CASE q.days = Absent
      <4>1. PICK r \in rows : r.till = q.from
        BY <3>1 DEF Mirror
      <4>2. r.till <= z.till \/ r.from >= date
        BY <1>3
      <4> QED BY <1>1, <2>2, <2>4, <4>1, <4>2
    <3>2. CASE q.days # Absent
      <4>1. PICK r \in rows : r.from = q.from
        BY <3>2 DEF Mirror
      <4>2. r.till <= z.till \/ r.from >= date
        BY <1>3
      <4> QED BY <1>1, <2>2, <2>4, <4>1, <4>2
    <3> QED BY <3>1, <3>2
  <2>5. p \in last
    BY <1>3, <2>2, <2>3, <2>4 DEF LastBefore
  <2> QED BY <2>2, <2>5
<1>4. ASSUME NEW p \in last
      PROVE  \A r \in rows : /\ r.from < date => r.till <= p.from
                             /\ Last(r) <=> r.till = p.from
  <2>1. /\ p \in plan /\ p.from < date /\ p.days = Absent /\ day < p.from /\ p.from \in Int
        /\ last = {p}
        /\ \A q \in plan : q.from <= p.from \/ date <= q.from
    BY LastAlone
  <2>2. ASSUME NEW r \in rows, r.from < date PROVE r.till <= p.from
    <3>1. PICK q \in plan : q.from = r.from /\ q.days = r.days
      BY DEF Mirror
    <3>2. q.from <= p.from
      BY <1>1, <2>1, <2>2, <3>1
    <3>3. q.from # p.from
      <4>1. r.days # Absent
        BY MirrorDated
      <4> QED BY <2>1, <3>1, <4>1 DEF Mirror
    <3>4. p.from <= r.from \/ r.till <= p.from
      BY <2>1 DEF Mirror
    <3> QED BY <1>1, <2>1, <3>1, <3>2, <3>3, <3>4
  <2>3. ASSUME NEW r \in rows, r.till = p.from PROVE Last(r)
    <3>1. \A o \in rows : o.till <= r.till \/ o.from >= date
      BY <1>1, <2>2, <2>3
    <3> QED BY <2>1, <2>3, <3>1
  <2>4. ASSUME NEW r \in rows, Last(r) PROVE r.till = p.from
    <3>1. PICK o \in last : o.from = r.till
      BY <1>3, <2>4
    <3> QED BY <2>1, <3>1
  <2> QED BY <2>2, <2>3, <2>4
<1> HIDE DEF Last
<1>5. CASE last = {}
  <2>1. \A r \in rows : [r EXCEPT !.till = IF Last(r) THEN date ELSE r.till] = r
    <3> SUFFICES ASSUME NEW r \in rows
                 PROVE  [r EXCEPT !.till = IF Last(r) THEN date ELSE r.till] = r
      OBVIOUS
    <3>1. ~Last(r)
      BY <1>3, <1>5
    <3>2. r \in Week
      BY <1>1
    <3> QED BY <3>1, <3>2 DEF Week
  <2>2. MovedClear(rows, day, date) = rows
    BY <1>2, <2>1
  <2>3. {p \in plan : p.from < date} \ last = {p \in plan : p.from < date}
    BY <1>5
  <2> HIDE DEF last
  <2>4. Mirror(Clip(rows, date), {p \in plan : p.from < date} \ last, date)
    BY <2>3, ClipMirrors
  <2> QED BY <2>2, <2>4 DEF last
<1>6. CASE last # {}
  <2>1. PICK p : p \in last
    BY <1>6
  <2>2. /\ p \in plan /\ p.from < date /\ p.from \in Int /\ last = {p}
        /\ \A q \in plan : q.from <= p.from \/ date <= q.from
    BY <2>1, LastAlone
  <2> DEFINE S == MovedClear(rows, day, date)
  <2>3. S = {[r EXCEPT !.till = IF r.till = p.from THEN date ELSE r.till] : r \in rows}
    BY <1>2, <1>4, <2>1
  <2> HIDE DEF S, last
  <2>4. \A r \in rows : r.from < date => r.till <= p.from
    BY <1>4, <2>1
  <2>5. rows \subseteq rows /\ \A r \in rows : r.from < p.from => r \in rows
    OBVIOUS
  <2>6. /\ \A x \in Clip(S, date) : \E r \in rows : r.from < p.from /\ Runs(x, r, p.from, date)
        /\ \A r \in rows : r.from < p.from => \E x \in Clip(S, date) : Runs(x, r, p.from, date)
    BY <2>2, <2>3, <2>4, <2>5, StretchRuns
  <2>7. Mirror(Clip(S, date), {q \in plan : q.from < date} \ {p}, date)
    BY <2>2, <2>6, MoveMirrors
  <2> QED BY <2>2, <2>7 DEF S, last
<1> QED BY <1>5, <1>6

(* The three calls keep the mirror.                                        *)
LEMMA SetMirrors ==
  ASSUME NEW rows, NEW plan, Mirror(rows, plan, Forever), NEW day \in Int, NEW date \in Days,
         NEW days \in DaySets
  PROVE  Mirror(Opened(Moved(rows, day, date, days), date, days),
                Replanned(plan, day, date, days, TRUE), Forever)
<1> DEFINE X == Clip(Moved(rows, day, date, days), date)
           rest == {p \in plan : p.from < date} \ LastBefore(plan, day, date, days)
           planned == Replanned(plan, day, date, days, TRUE)
           opened == Opened(Moved(rows, day, date, days), date, days)
<1>1. Mirror(X, rest, date)
  BY MovedMirrors
<1>2. days # Absent
  BY WeeklyAssumption DEF WeeklyAssumption
<1>3. planned = rest \cup {[from |-> date, days |-> days]}
  BY <1>2 DEF Replanned, LastBefore
<1>4. opened = X \cup {[from |-> date, till |-> Forever, days |-> days]}
  BY DEF Opened
<1> HIDE DEF X, rest, planned, opened
<1>5. Mirror(opened, planned, Forever)
  BY <1>1, <1>3, <1>4, OpenMirrors
<1> QED BY <1>5 DEF opened, planned

LEMMA ClearMirrors ==
  ASSUME NEW rows, NEW plan, Mirror(rows, plan, Forever), NEW day \in Int, NEW date \in Days
  PROVE  /\ Mirror(Clip(MovedClear(rows, day, date), date),
                   Replanned(plan, day, date, Absent, TRUE), Forever)
         /\ Mirror(Clip(rows, date), Replanned(plan, day, date, Absent, FALSE), Forever)
<1> DEFINE kept == {p \in plan : p.from < date}
           rest == kept \ LastBefore(plan, day, date, Absent)
           moved == Clip(MovedClear(rows, day, date), date)
           left == Clip(rows, date)
           planned == Replanned(plan, day, date, Absent, TRUE)
           removed == Replanned(plan, day, date, Absent, FALSE)
<1>1. Mirror(moved, rest, date)
  BY MovedClearMirrors
<1>2. Mirror(left, kept, date)
  BY ClipMirrors
<1>3. planned = rest \cup (IF PlannedOn(rest, date) = Absent THEN {}
                           ELSE {[from |-> date, days |-> Absent]})
  BY DEF Replanned, LastBefore
<1>4. removed = kept \cup (IF PlannedOn(kept, date) = Absent THEN {}
                           ELSE {[from |-> date, days |-> Absent]})
  <2> DEFINE none == {p \in kept : FALSE}
  <2>1. kept \ none = kept
    OBVIOUS
  <2> QED BY <2>1 DEF Replanned
<1> HIDE DEF kept, rest, moved, left, planned, removed
<1>5. Mirror(moved, planned, Forever)
  BY <1>1, <1>3, CloseMirrors
<1>6. Mirror(left, removed, Forever)
  BY <1>2, <1>4, CloseMirrors
<1> QED BY <1>5, <1>6 DEF moved, left, planned, removed

LEMMA WeeklyStart == EnrolmentInit /\ WeeklyInit => WeeklyInv
<1> SUFFICES ASSUME EnrolmentInit, WeeklyInit PROVE WeeklyInv
  OBVIOUS
<1>1. today \in Days
  BY DayFacts DEF EnrolmentInit
<1>2. Mirror({}, {}, Forever)
  BY DEF Mirror
<1> QED BY <1>1, <1>2 DEF WeeklyInit, WeeklyInv

LEMMA WeeklyStep ==
  WeeklyInv /\ [WeeklyNext]_<<clock, periods, edits, weeklyVars>> => WeeklyInv'
<1> SUFFICES ASSUME WeeklyInv, [WeeklyNext]_<<clock, periods, edits, weeklyVars>>
             PROVE  WeeklyInv'
  OBVIOUS
<1>1. ASSUME NEW c \in Clocks, NEW date \in Days,
             \/ \E days \in DaySets : SetDefault(c, date, days) \/ SetOverride(c, date, days)
             \/ RemoveOverride(c, date)
      PROVE  WeeklyInv'
  <2>1. today \in Days /\ c.day \in Int /\ today' = today
    <3>1. today \in Days
      BY DEF WeeklyInv
    <3>2. c.day \in Days
      BY <3>1, ClockDay
    <3>3. \A d \in Days : d \in Int
      BY DayFacts
    <3>4. UNCHANGED clock
      BY <1>1 DEF SetDefault, SetOverride, RemoveOverride
    <3> QED BY <3>1, <3>2, <3>3, <3>4 DEF clock
  <2>2. /\ DOMAIN plans = {"all", "one"}
        /\ Mirror(defaults, plans["all"], Forever) /\ Mirror(overrides, plans["one"], Forever)
    BY DEF WeeklyInv
  <2>3. ASSUME NEW days \in DaySets, SetDefault(c, date, days) PROVE WeeklyInv'
    <3> DEFINE chosen == IF days = NoDays THEN Absent ELSE days
               replan == Replanned(plans["all"], c.day, date, chosen, TRUE)
    <3>1. /\ overrides' = overrides
          /\ plans' = [plans EXCEPT !["all"] = replan]
          /\ defaults' = IF days = NoDays
                         THEN Clip(MovedClear(defaults, c.day, date), date)
                         ELSE Opened(Moved(defaults, c.day, date, days), date, days)
      BY <2>3 DEF SetDefault
    <3>2. Mirror(defaults', replan, Forever)
      <4>1. CASE days = NoDays
        BY <2>1, <2>2, <3>1, <4>1, ClearMirrors
      <4>2. CASE days # NoDays
        BY <2>1, <2>2, <3>1, <4>2, SetMirrors
      <4> QED BY <4>1, <4>2
    <3> HIDE DEF replan, chosen
    <3>3. /\ DOMAIN plans' = {"all", "one"} /\ plans'["all"] = replan
          /\ plans'["one"] = plans["one"]
      BY <2>2, <3>1
    <3> QED BY <2>1, <2>2, <3>1, <3>2, <3>3 DEF WeeklyInv
  <2>4. ASSUME NEW days \in DaySets, SetOverride(c, date, days) PROVE WeeklyInv'
    <3> DEFINE replan == Replanned(plans["one"], c.day, date, days, TRUE)
    <3>1. /\ defaults' = defaults
          /\ plans' = [plans EXCEPT !["one"] = replan]
          /\ overrides' = Opened(Moved(overrides, c.day, date, days), date, days)
      BY <2>4 DEF SetOverride
    <3>2. Mirror(overrides', replan, Forever)
      BY <2>1, <2>2, <3>1, SetMirrors
    <3> HIDE DEF replan
    <3>3. /\ DOMAIN plans' = {"all", "one"} /\ plans'["one"] = replan
          /\ plans'["all"] = plans["all"]
      BY <2>2, <3>1
    <3> QED BY <2>1, <2>2, <3>1, <3>2, <3>3 DEF WeeklyInv
  <2>5. ASSUME RemoveOverride(c, date) PROVE WeeklyInv'
    <3> DEFINE replan == Replanned(plans["one"], c.day, date, Absent, FALSE)
    <3>1. /\ defaults' = defaults
          /\ plans' = [plans EXCEPT !["one"] = replan]
          /\ overrides' = Clip(overrides, date)
      BY <2>5 DEF RemoveOverride
    <3>2. Mirror(overrides', replan, Forever)
      BY <2>1, <2>2, <3>1, ClearMirrors
    <3> HIDE DEF replan
    <3>3. /\ DOMAIN plans' = {"all", "one"} /\ plans'["one"] = replan
          /\ plans'["all"] = plans["all"]
      BY <2>2, <3>1
    <3> QED BY <2>1, <2>2, <3>1, <3>2, <3>3 DEF WeeklyInv
  <2> QED BY <1>1, <2>3, <2>4, <2>5
<1>2. CASE \/ Tick /\ UNCHANGED <<periods, edits, weeklyVars>>
           \/ UNCHANGED <<clock, periods, edits, weeklyVars>>
  <2>1. /\ UNCHANGED <<defaults, overrides, plans>>
        /\ today' = today \/ (today < LastDay /\ today' = today + 1)
    BY <1>2 DEF Tick, weeklyVars, clock
  <2>2. today' \in Days
    BY <2>1, DayFacts DEF WeeklyInv
  <2> QED BY <2>1, <2>2 DEF WeeklyInv
<1> QED BY <1>1, <1>2 DEF WeeklyNext

(* On the day the days off change, a row starts or the one before ends.    *)
LEMMA ChangeSeen ==
  ASSUME NEW rows, NEW plan, Mirror(rows, plan, Forever), NEW d \in Days, Changes(rows, d)
  PROVE  \/ \E r \in rows : r.from = d /\ r.days = DaysOn(rows, d)
         \/ /\ DaysOn(rows, d) = Absent
            /\ \E r \in rows : r.till = d /\ Contains(r, d - 1)
            /\ \A s \in rows : s.from # d
<1>1. /\ d \in Int /\ d - 1 \in Int /\ Forever \in Int /\ DaysOn(rows, d) # DaysOn(rows, d - 1)
      /\ \A r \in rows : r.from \in Int /\ r.till \in Int /\ r.from < r.till
  BY DayFacts, MirrorDated DEF Changes, Dated
<1>2. ASSUME NEW r \in rows, Contains(r, d) PROVE r.from = d /\ r.days = DaysOn(rows, d)
  <2>1. DaysOn(rows, d) = r.days
    BY <1>1, <1>2, DaysOnRow
  <2>2. ~Contains(r, d - 1)
    BY <1>1, <2>1, DaysOnRow
  <2> QED BY <1>1, <1>2, <2>1, <2>2 DEF Contains
<1>3. CASE \A r \in rows : ~Contains(r, d)
  <2>1. DaysOn(rows, d) = Absent
    BY <1>1, <1>3, DaysOnRow
  <2>2. PICK r \in rows : Contains(r, d - 1)
    BY <1>1, <2>1, DaysOnRow
  <2>3. r.till = d
    BY <1>1, <1>3, <2>2 DEF Contains
  <2>4. \A s \in rows : s.from # d
    BY <1>1, <1>3 DEF Contains
  <2> QED BY <2>1, <2>2, <2>3, <2>4
<1> QED BY <1>2, <1>3

(* The earliest row to come is there, and not later than any other.        *)
LEMMA NextFound ==
  ASSUME NEW rows, \A r \in rows : r.from \in Int, NEW day \in Nat,
         NEW s \in rows, s.from > day
  PROVE  \E r \in PickNext(rows, day) : r.from <= s.from
<1> DEFINE future == {r \in rows : r.from > day}
           S == {r.from : r \in future}
<1>1. S \subseteq Nat /\ S # {}
  <2>1. \A r \in future : r.from \in Nat
    OBVIOUS
  <2> QED BY <2>1
<1>2. PICK n \in S : \A m \in S : n <= m
  <2> HIDE DEF S
  <2> QED BY <1>1, LeastNatural
<1>3. PICK r \in future : r.from = n
  BY <1>2
<1>4. \A q \in future : r.from <= q.from
  BY <1>2, <1>3
<1>5. PickNext(rows, day) = {x \in future : \A y \in future : x.from <= y.from}
  BY DEF PickNext
<1>6. s \in future
  OBVIOUS
<1> HIDE DEF future
<1>7. r \in PickNext(rows, day) /\ r.from <= s.from
  BY <1>3, <1>4, <1>5, <1>6
<1> QED BY <1>7

(* The weekly offs follow the owner, for any days, any choices and any     *)
(* calls: every day means what the changes taken in order ask for, and     *)
(* each change to come is announced on the screens before it.              *)
THEOREM PlansAreKept == WeeklySpec => []PlanKeptAndAnnounced
<1>1. WeeklyInv => PlanKeptAndAnnounced
  <2> SUFFICES ASSUME WeeklyInv PROVE PlanKeptAndAnnounced
    OBVIOUS
  <2>1. /\ Mirror(defaults, plans["all"], Forever) /\ Mirror(overrides, plans["one"], Forever)
        /\ today \in Nat /\ Forever \in Int /\ LastDay \in Int /\ Forever = LastDay + 1
        /\ 1 <= today
    BY DayFacts DEF WeeklyInv
  <2>2. RowsKeepPlan
    <3>1. \A d \in Days : d \in Int /\ d < Forever
      BY DayFacts
    <3> QED BY <2>1, <3>1, MirrorReads DEF RowsKeepPlan
  <2>3. ASSUME NEW d \in (today + 1)..LastDay, Changes(defaults, d)
        PROVE  /\ \E r \in CompanyView(today).history :
                    /\ r.from = d
                    /\ \/ r.days = DaysOn(defaults, d)
                       \/ r.days = NoDays /\ DaysOn(defaults, d) = Absent
               /\ \E r \in CompanyView(today).next : r.from <= d
    <3> DEFINE shown == WithQueuedClears(defaults, today)
    <3>1. d \in Days /\ d > today /\ d < Forever /\ d \in Int
      BY <2>1, DayFacts
    <3>2. CompanyView(today).history = shown /\ CompanyView(today).next = PickNext(shown, today)
      BY DEF CompanyView
    <3>3. \A r \in defaults : r.from \in Int /\ r.till \in Int
      BY <2>1, MirrorDated DEF Dated
    <3>4. \A r \in shown : r.from \in Int
      BY <3>3 DEF WithQueuedClears
    <3>5. \E r \in shown : /\ r.from = d
                           /\ \/ r.days = DaysOn(defaults, d)
                              \/ r.days = NoDays /\ DaysOn(defaults, d) = Absent
      <4>1. ASSUME NEW r \in defaults, r.from = d, r.days = DaysOn(defaults, d)
            PROVE  \E x \in shown : /\ x.from = d
                                /\ \/ x.days = DaysOn(defaults, d)
                                   \/ x.days = NoDays /\ DaysOn(defaults, d) = Absent
        BY <4>1 DEF WithQueuedClears
      <4>2. ASSUME NEW r \in defaults, r.till = d, DaysOn(defaults, d) = Absent,
                   \A s \in defaults : s.from # d
            PROVE  \E x \in shown : /\ x.from = d
                                /\ \/ x.days = DaysOn(defaults, d)
                                   \/ x.days = NoDays /\ DaysOn(defaults, d) = Absent
        <5> DEFINE clear == [from |-> r.till, till |-> Forever, days |-> NoDays]
        <5>1. clear \in shown
          BY <3>1, <4>2 DEF WithQueuedClears
        <5>2. clear.from = d /\ clear.days = NoDays
          BY <4>2
        <5> HIDE DEF clear, shown
        <5> QED BY <4>2, <5>1, <5>2
      <4> QED BY <2>1, <2>3, <3>1, <4>1, <4>2, ChangeSeen
    <3> HIDE DEF shown
    <3>6. \E r \in PickNext(shown, today) : r.from <= d
      BY <2>1, <3>1, <3>4, <3>5, NextFound
    <3> QED BY <3>2, <3>5, <3>6
  <2>4. ASSUME NEW d \in (today + 1)..LastDay, Changes(overrides, d)
        PROVE  \/ \E r \in MemberView(today).current : r.till <= d
               \/ \E r \in MemberView(today).next : r.from <= d
    <3>1. d \in Days /\ d > today /\ d < Forever /\ d \in Int
      BY <2>1, DayFacts
    <3>2. /\ MemberView(today).current = {r \in overrides : Contains(r, today)}
          /\ MemberView(today).next = PickNext(overrides, today)
      BY DEF MemberView
    <3>3. \A r \in overrides : r.from \in Int /\ r.till \in Int
      BY <2>1, MirrorDated DEF Dated
    <3>4. ASSUME NEW r \in overrides, r.from > today, r.from <= d
          PROVE  \E q \in PickNext(overrides, today) : q.from <= d
      <4>1. PICK q \in PickNext(overrides, today) : q.from <= r.from
        BY <2>1, <3>3, <3>4, NextFound
      <4>2. q.from \in Int
        BY <3>3 DEF PickNext
      <4> QED BY <3>1, <3>3, <3>4, <4>1, <4>2
    <3>5. ASSUME NEW r \in overrides, r.till = d, Contains(r, d - 1)
          PROVE  \/ \E x \in MemberView(today).current : x.till <= d
                 \/ \E x \in MemberView(today).next : x.from <= d
      <4>1. CASE r.from > today
        <5>1. r.from <= d
          BY <3>1, <3>3, <3>5 DEF Contains
        <5> QED BY <3>2, <3>4, <4>1, <5>1
      <4>2. CASE ~(r.from > today)
        <5>1. Contains(r, today) /\ r.till <= d
          BY <2>1, <3>1, <3>3, <3>5, <4>2 DEF Contains
        <5> QED BY <3>2, <5>1
      <4> QED BY <4>1, <4>2
    <3>6. ASSUME NEW r \in overrides, r.from = d
          PROVE  \/ \E x \in MemberView(today).current : x.till <= d
                 \/ \E x \in MemberView(today).next : x.from <= d
      BY <3>1, <3>2, <3>4, <3>6
    <3> QED BY <2>1, <2>4, <3>1, <3>5, <3>6, ChangeSeen
  <2> QED BY <2>2, <2>3, <2>4 DEF EveryChangeAnnounced, PlanKeptAndAnnounced
<1> QED BY <1>1, WeeklyStart, WeeklyStep, PTL DEF WeeklySpec

-----------------------------------------------------------------------------
(***************************************************************************)
(* The readers of a day's facts.                                           *)
(***************************************************************************)

(* The rows behind the facts of a day.                                     *)
RowsInv == PlacesInv /\ WeeklyInv /\ Committable(enrolments, assignments)

LEMMA RowsAre ==
  ASSUME RowsInv
  PROVE  /\ Dated(enrolments) /\ Dated(assignments)
         /\ Dated(defaults) /\ Disjoint(defaults) /\ Dated(overrides) /\ Disjoint(overrides)
         /\ \A a \in assignments : /\ a.office \in Offices /\ a.office # None
                                   /\ 0 < known[a.office] /\ known[a.office] <= a.from
                                   /\ Serving(rules[a.office], known[a.office])
         /\ known \in [Offices -> Nat] /\ today \in Days
<1>1. Forever \in Int
  BY DayFacts
<1>2. /\ Dated(defaults) /\ Disjoint(defaults) /\ Dated(overrides) /\ Disjoint(overrides)
  BY <1>1, MirrorUnique, MirrorDated DEF RowsInv, WeeklyInv
<1>3. ASSUME NEW a \in assignments
      PROVE  /\ a.office \in Offices /\ a.office # None
             /\ 0 < known[a.office] /\ known[a.office] <= a.from
             /\ Serving(rules[a.office], known[a.office])
  BY ContextAssumption DEF RowsInv, PlacesInv, PlaceTypes, LegsServed, RulesServe
<1> QED BY <1>2, <1>3 DEF RowsInv, PlacesInv, PlaceTypes

(* The rows read for a day say what the table says of it, whichever others *)
(* are read with them.                                                     *)
LEMMA SameDays ==
  ASSUME NEW rows, Dated(rows), Disjoint(rows), NEW d \in Int, NEW S \in SUBSET rows,
         \A r \in rows : Contains(r, d) => r \in S
  PROVE  DaysOn(S, d) = DaysOn(rows, d)
<1>1. CASE \A r \in rows : ~Contains(r, d)
  BY <1>1 DEF DaysOn
<1>2. CASE \E r \in rows : Contains(r, d)
  <2> DEFINE x == CHOOSE r \in S : Contains(r, d)
             y == CHOOSE r \in rows : Contains(r, d)
  <2>1. x \in rows /\ Contains(x, d) /\ y \in rows /\ Contains(y, d)
    BY <1>2
  <2>2. DaysOn(S, d) = x.days /\ DaysOn(rows, d) = y.days
    BY <1>2 DEF DaysOn
  <2> HIDE DEF x, y
  <2>3. x = y \/ x.till <= y.from \/ y.till <= x.from
    BY <2>1 DEF Disjoint
  <2>4. x.from \in Int /\ x.till \in Int /\ y.from \in Int /\ y.till \in Int
    BY <2>1 DEF Dated
  <2>5. x = y
    BY <2>1, <2>3, <2>4 DEF Contains
  <2> QED BY <2>2, <2>5
<1> QED BY <1>1, <1>2

(* A row that covers a date of a span is among those that overlap it.      *)
LEMMA CoveringOverlap ==
  ASSUME NEW rows, Dated(rows), NEW d \in Int, NEW from \in Int, NEW to \in Int,
         from <= d, d <= to
  PROVE  {r \in Overlapping(rows, from, to) : Contains(r, d)} = {r \in rows : Contains(r, d)}
<1>1. ASSUME NEW r \in rows, Contains(r, d) PROVE r.from <= to /\ from < r.till
  <2>1. r.from \in Int /\ r.till \in Int
    BY DEF Dated
  <2> QED BY <1>1, <2>1 DEF Contains
<1> QED BY <1>1 DEF Overlapping

LEMMA FactsMeet == RowsInv => FactsAgree
<1> SUFFICES ASSUME RowsInv, NEW d \in Days, NEW from \in 1..d, NEW to \in d..LastDay
             PROVE  /\ GridFacts(from, to, d) = buildDayContext(d)
                    /\ SpanOffs(from, to, d) = buildDayContext(d).offs
  BY DEF FactsAgree
<1>1. d \in Int /\ from \in Int /\ to \in Int /\ from <= d /\ d <= to
  BY DayFacts
<1>2. ASSUME NEW rows, Dated(rows), Disjoint(rows)
      PROVE  DaysOn(Overlapping(rows, from, to), d)
               = DaysOn({o \in rows : Contains(o, d)}, d)
  <2>1. DaysOn(Overlapping(rows, from, to), d) = DaysOn(rows, d)
    <3>1. \A r \in rows : Contains(r, d) => r \in Overlapping(rows, from, to)
      BY <1>1, <1>2, CoveringOverlap
    <3>2. Overlapping(rows, from, to) \in SUBSET rows
      BY DEF Overlapping
    <3> QED BY <1>1, <1>2, <3>1, <3>2, SameDays
  <2>2. DaysOn({o \in rows : Contains(o, d)}, d) = DaysOn(rows, d)
    BY <1>1, <1>2, SameDays
  <2> QED BY <2>1, <2>2
<1> DEFINE offs == pickWeeklyOffDays({o \in overrides : Contains(o, d)},
                                     {o \in defaults : Contains(o, d)}, d)
<1>3. pickWeeklyOffDays(Overlapping(overrides, from, to), Overlapping(defaults, from, to), d)
        = offs
  BY <1>2, RowsAre DEF pickWeeklyOffDays
<1>4. (\E e \in Overlapping(enrolments, from, to) : Contains(e, d))
        = (\E e \in enrolments : Contains(e, d))
  <2>1. {r \in Overlapping(enrolments, from, to) : Contains(r, d)}
          = {r \in enrolments : Contains(r, d)}
    BY <1>1, RowsAre, CoveringOverlap
  <2> QED BY <2>1
<1> DEFINE legs == Overlapping(assignments, from, to)
           office == OneOf(OfficeOn(d))
<1>5. {a.office : a \in {x \in legs : Contains(x, d)}} = OfficeOn(d)
  <2>1. {x \in legs : Contains(x, d)} = {x \in assignments : Contains(x, d)}
    BY <1>1, RowsAre, CoveringOverlap
  <2> HIDE DEF legs
  <2> QED BY <2>1 DEF OfficeOn
<1>6. ASSUME office # None
      PROVE  /\ office \in {a.office : a \in legs}
             /\ pickRuleForDate(Overlapping(rules[office], from, to), d)
                  = pickRuleForDate(rules[office], d)
  <2>1. office \in OfficeOn(d)
    BY <1>6 DEF OneOf
  <2>2. office \in {a.office : a \in legs}
    BY <1>5, <2>1
  <2>3. PICK a \in assignments : a.office = office
    BY <2>1 DEF OfficeOn
  <2>4. Dated(rules[office])
    BY <2>3, RowsAre DEF Serving
  <2>5. {r \in Overlapping(rules[office], from, to) : Contains(r, d)}
          = {r \in rules[office] : Contains(r, d)}
    BY <1>1, <2>4, CoveringOverlap
  <2> HIDE DEF office
  <2> QED BY <2>2, <2>5 DEF pickRuleForDate
<1>7. SpanOffs(from, to, d) = offs
  BY <1>3 DEF SpanOffs
<1>8. buildDayContext(d)
        = Facts(\E e \in enrolments : Contains(e, d), office,
                IF office = None THEN {} ELSE pickRuleForDate(rules[office], d), offs)
  BY DEF buildDayContext
<1> DEFINE read == [o \in {a.office : a \in legs} |-> Overlapping(rules[o], from, to)]
<1>9. GridFacts(from, to, d)
        = Facts(\E e \in Overlapping(enrolments, from, to) : Contains(e, d), office,
                IF office = None THEN {} ELSE pickRuleForDate(read[office], d), offs)
  <2> DEFINE o == OneOf({a.office : a \in {x \in legs : Contains(x, d)}})
             w == pickWeeklyOffDays(Overlapping(overrides, from, to),
                                    Overlapping(defaults, from, to), d)
  <2>1. o = office /\ w = offs
    BY <1>3, <1>5
  <2>2. GridFacts(from, to, d)
          = Facts(\E e \in Overlapping(enrolments, from, to) : Contains(e, d), o,
                  IF o = None THEN {} ELSE pickRuleForDate(read[o], d), w)
    BY DEF GridFacts
  <2> HIDE DEF o, w, office, offs, read
  <2> QED BY <2>1, <2>2
<1>10. office # None => read[office] = Overlapping(rules[office], from, to)
  BY <1>6
<1> HIDE DEF legs, office, offs, read
<1>11. GridFacts(from, to, d) = buildDayContext(d)
  BY <1>4, <1>6, <1>8, <1>9, <1>10
<1>12. buildDayContext(d).offs = offs
  BY <1>8 DEF Facts
<1> QED BY <1>7, <1>11, <1>12

(* The legs of an enrolment leave no day of it out.                        *)
LEMMA LegsCover ==
  ASSUME RowsInv, NEW e \in enrolments, NEW d \in Int, Contains(e, d)
  PROVE  \E a \in assignments : Contains(a, d)
<1> DEFINE legs == {a \in assignments : Within(a, e) /\ a.from <= d}
           S == {a.from : a \in legs}
<1>1. /\ e.from \in Int /\ e.till \in Int
      /\ \A a \in assignments : a.from \in Int /\ a.till \in Int /\ a.from < a.till
  BY RowsAre DEF Dated
<1>2. Covered(enrolments, assignments)
  BY DEF RowsInv, Committable
<1>3. S # {} /\ S \subseteq Int /\ \A x \in S : x <= d
  <2>1. PICK a \in assignments : a.from = e.from /\ Within(a, e)
    BY <1>2 DEF Covered
  <2>2. a \in legs
    BY <2>1 DEF Contains
  <2> QED BY <1>1, <2>2
<1>4. PICK m \in S : \A x \in S : x <= m
  <2> HIDE DEF S
  <2> QED BY <1>3, Latest
<1>5. PICK a \in legs : a.from = m
  BY <1>4
<1>6. a.till > d
  <2> SUFFICES ASSUME a.till <= d PROVE FALSE
    BY <1>1, <1>5
  <2>1. a.till # e.till
    BY <1>1 DEF Contains
  <2>2. PICK b \in assignments : b.from = a.till /\ Within(b, e)
    BY <1>2, <1>5, <2>1 DEF Covered
  <2>3. b \in legs
    BY <2>2
  <2>4. b.from <= a.from
    BY <1>4, <1>5, <2>3
  <2> QED BY <1>1, <1>5, <2>2, <2>4
<1>7. a \in assignments /\ Contains(a, d)
  BY <1>5, <1>6 DEF Contains
<1> QED BY <1>7

(* The access view: a day, an office that served it, a period covering it. *)
LEMMA AccessIs ==
  ASSUME RowsInv
  PROVE  LET row == Access(today) IN
         /\ row.state \in {"active", "upcoming", "history_only", "none"}
         /\ row.state = "active" <=>
              settings = "completed" /\ \E e \in enrolments : Contains(e, today)
         /\ row.office = OneOf(OfficeOn(row.anchor))
         /\ Summarisable(row) =>
              /\ settings = "completed"
              /\ row.anchor \in Days /\ today <= row.anchor
              /\ row.state = "active" => row.anchor = today
              /\ \E e \in enrolments : Contains(e, row.anchor)
              /\ row.office \in OfficeOn(row.anchor)
         /\ row.state = "history_only" =>
              \E e \in enrolments : Contains(e, row.ended) /\ row.ended < today
<1> DEFINE current == {e \in enrolments : Contains(e, today)}
           next == {e \in enrolments : e.from > today}
           past == {e \in enrolments : e.till <= today}
           row == Access(today)
<1>1. /\ \A e \in enrolments : /\ e.from \in Int /\ e.till \in Int /\ e.from < e.till
                               /\ e.till <= Forever
      /\ today \in Int /\ 1 <= today /\ Forever = LastDay + 1 /\ LastDay \in Int
      /\ today \in Days /\ Days = 1..LastDay
  BY RowsAre, DayFacts DEF Dated
<1>2. /\ row.anchor = (IF current = {} /\ next # {} THEN Min({e.from : e \in next}) ELSE today)
      /\ row.office = OneOf(OfficeOn(row.anchor))
      /\ row.ended = (IF current = {} /\ next = {} /\ past # {}
                      THEN Max({e.till : e \in past}) - 1 ELSE 0)
      /\ row.state = (IF settings # "completed" THEN "none"
                      ELSE IF current # {} THEN "active"
                      ELSE IF next # {} THEN "upcoming"
                      ELSE IF past # {} THEN "history_only" ELSE "none")
  BY DEF Access
<1>3. ASSUME next # {}
      PROVE  \E e \in next : Min({x.from : x \in next}) = e.from
  <2> DEFINE S == {x.from : x \in next}
  <2>1. S \subseteq Nat /\ S # {}
    <3>1. \A x \in next : x.from \in Nat
      BY <1>1
    <3> HIDE DEF next
    <3> QED BY <1>3, <3>1
  <2> HIDE DEF S
  <2>2. \E n \in S : \A m \in S : n <= m
    BY <2>1, LeastNatural
  <2>3. Min(S) \in S
    BY <2>2 DEF Min
  <2> QED BY <2>3 DEF S
<1>4. ASSUME past # {}
      PROVE  \E e \in past : Max({x.till : x \in past}) = e.till
  <2> DEFINE S == {x.till : x \in past}
  <2>1. S \subseteq Int /\ S # {} /\ \A x \in S : x <= today
    BY <1>1, <1>4
  <2> HIDE DEF S
  <2>2. \E m \in S : \A x \in S : x <= m
    BY <1>1, <2>1, Latest
  <2>3. Max(S) \in S
    BY <2>2 DEF Max
  <2> QED BY <2>3 DEF S
<1> HIDE DEF row
<1>5. ASSUME row.state = "active"
      PROVE  current # {} /\ row.anchor = today /\ settings = "completed"
  BY <1>2, <1>5
<1>6. ASSUME row.state = "upcoming"
      PROVE  /\ settings = "completed"
             /\ \E e \in enrolments : e.from = row.anchor /\ e.from > today
  BY <1>2, <1>3, <1>6
<1>7. ASSUME Summarisable(row)
      PROVE  /\ settings = "completed"
             /\ row.anchor \in Days /\ today <= row.anchor
             /\ row.state = "active" => row.anchor = today
             /\ \E e \in enrolments : Contains(e, row.anchor)
  <2>1. CASE row.state = "active"
    BY <1>1, <1>5, <2>1
  <2>2. CASE row.state = "upcoming"
    <3>1. PICK e \in enrolments : e.from = row.anchor /\ e.from > today
      BY <1>6, <2>2
    <3>2. e.from \in Int /\ e.till \in Int /\ e.from < e.till /\ e.till <= LastDay + 1
      BY <1>1
    <3> HIDE DEF current, next, past
    <3>3. Contains(e, row.anchor) /\ row.anchor \in Int /\ 1 <= row.anchor
          /\ row.anchor <= LastDay /\ today <= row.anchor
      BY <1>1, <3>1, <3>2 DEF Contains
    <3> QED BY <1>1, <1>6, <2>2, <3>3
  <2> QED BY <1>7, <2>1, <2>2 DEF Summarisable
<1>8. ASSUME Summarisable(row)
      PROVE  row.office \in OfficeOn(row.anchor)
  <2>1. PICK e \in enrolments : Contains(e, row.anchor)
    BY <1>7, <1>8
  <2>2. row.anchor \in Int
    BY <1>1, <1>7, <1>8
  <2>3. PICK a \in assignments : Contains(a, row.anchor)
    BY <2>1, <2>2, LegsCover
  <2>4. OfficeOn(row.anchor) # {}
    BY <2>3 DEF OfficeOn
  <2> QED BY <1>2, <2>4 DEF OneOf
<1>9. ASSUME row.state = "history_only"
      PROVE  \E e \in enrolments : Contains(e, row.ended) /\ row.ended < today
  <2>1. PICK e \in past : row.ended = e.till - 1
    BY <1>2, <1>4, <1>9
  <2> QED BY <1>1, <2>1 DEF Contains
<1>10. /\ row.state \in {"active", "upcoming", "history_only", "none"}
       /\ row.state = "active" <=>
            settings = "completed" /\ \E e \in enrolments : Contains(e, today)
  BY <1>2
<1> QED BY <1>2, <1>7, <1>8, <1>9, <1>10 DEF row

LEMMA ViewMatches == RowsInv => ViewMatchesContext
<1> SUFFICES ASSUME RowsInv PROVE ViewMatchesContext
  OBVIOUS
<1> DEFINE row == Access(today)
           facts == buildDayContext(row.anchor)
<1>1. (row.state = "active") = buildDayContext(today).tracked
  <2>1. buildDayContext(today).tracked
          = ((\E e \in enrolments : Contains(e, today)) /\ settings = "completed")
    BY DEF buildDayContext, Facts
  <2> QED BY <2>1, AccessIs
<1>2. ASSUME NEW told \in SummaryAt(today)
      PROVE  /\ facts.tracked
             /\ facts.office # None /\ facts.rule # {}
             /\ <<told.row.office, told.rule, told.offs>>
                  = <<facts.office, facts.rule, facts.offs>>
  <2>1. /\ Summarisable(row)
        /\ told = [row |-> row, anchor |-> row.anchor,
                   rule |-> pickRuleForDate(RulesOf(row), row.anchor),
                   offs |-> pickWeeklyOffDays(overrides, defaults, row.anchor)]
    BY DEF SummaryAt, Summarised
  <2>2. /\ settings = "completed" /\ row.anchor \in Days /\ row.office \in OfficeOn(row.anchor)
        /\ \E e \in enrolments : Contains(e, row.anchor)
        /\ row.office = OneOf(OfficeOn(row.anchor))
    BY <2>1, AccessIs
  <2> HIDE DEF row
  <2>3. row.anchor \in Int /\ 1 <= row.anchor /\ row.anchor <= LastDay
    BY <2>2, DayFacts
  <2>4. PICK a \in assignments : Contains(a, row.anchor) /\ a.office = row.office
    BY <2>2 DEF OfficeOn
  <2>5. /\ row.office # None /\ 0 < known[row.office] /\ known[row.office] <= a.from
        /\ Serving(rules[row.office], known[row.office])
        /\ known[row.office] \in Int /\ a.from \in Int
    BY <2>4, RowsAre DEF Dated
  <2>6. PICK r \in rules[row.office] : Contains(r, row.anchor)
    <3>1. row.anchor \in known[row.office]..LastDay
      BY <2>3, <2>4, <2>5, DayFacts DEF Contains
    <3> QED BY <2>5, <3>1 DEF Serving
  <2>7. facts = [tracked |-> TRUE, office |-> row.office,
                 rule |-> pickRuleForDate(rules[row.office], row.anchor),
                 offs |-> pickWeeklyOffDays({o \in overrides : Contains(o, row.anchor)},
                                            {o \in defaults : Contains(o, row.anchor)},
                                            row.anchor)]
    BY <2>2, <2>5 DEF buildDayContext, Facts
  <2>8. pickWeeklyOffDays({o \in overrides : Contains(o, row.anchor)},
                          {o \in defaults : Contains(o, row.anchor)}, row.anchor)
          = pickWeeklyOffDays(overrides, defaults, row.anchor)
    <3>1. ASSUME NEW rows, Dated(rows), Disjoint(rows)
          PROVE  DaysOn({o \in rows : Contains(o, row.anchor)}, row.anchor)
                   = DaysOn(rows, row.anchor)
      BY <2>3, <3>1, SameDays
    <3> QED BY <3>1, RowsAre DEF pickWeeklyOffDays
  <2>9. pickRuleForDate(rules[row.office], row.anchor) # {}
    BY <2>6 DEF pickRuleForDate
  <2>10. RulesOf(row) = rules[row.office]
    BY <2>5 DEF RulesOf
  <2> HIDE DEF facts
  <2> QED BY <2>1, <2>5, <2>7, <2>8, <2>9, <2>10
<1>3. row.state = "history_only" =>
        \E e \in enrolments : Contains(e, row.ended) /\ row.ended < today
  BY AccessIs
<1> QED BY <1>1, <1>2, <1>3 DEF ViewMatchesContext

LEMMA RowsStart == OfficesInit /\ WeeklyInit => RowsInv
<1> SUFFICES ASSUME OfficesInit, WeeklyInit PROVE RowsInv
  OBVIOUS
<1>1. PlacesInv /\ WeeklyInv
  BY PlacesStart, WeeklyStart DEF OfficesInit
<1>2. Committable(enrolments, assignments)
  <2>1. CASE enrolments = {} /\ assignments = {}
    BY <2>1 DEF Committable, Disjoint, Covered
  <2>2. ASSUME NEW office \in Offices, enrolments = Enrolled({}, 1, 0),
               assignments = Placed({}, 1, office)
        PROVE  Committable(enrolments, assignments)
    <3>1. /\ enrolments = {[from |-> 1, till |-> Forever, at |-> 0]}
          /\ assignments = {[from |-> 1, till |-> Forever, office |-> office]}
      BY <2>2 DEF Enrolled, Placed, Clip
    <3>2. Forever \in Int
      BY DayFacts
    <3> QED BY <3>1, <3>2 DEF Committable, Disjoint, Covered, Within
  <2> QED BY <2>1, <2>2 DEF OfficesInit, EnrolmentInit
<1> QED BY <1>1, <1>2 DEF RowsInv

(* A call of the owner rewrites the member's rows, or the rules, or one    *)
(* table of weekly offs; the clock moves alone.                            *)
OneTable ==
  /\ today \in Int /\ today' \in Int /\ today <= today'
  /\ \A o \in Offices : known[o] > 0 => known'[o] = known[o]
  /\ (today' # today \/ hour' # hour) =>
       UNCHANGED <<enrolments, assignments, rules, overrides, defaults>>
  /\ \/ UNCHANGED <<rules, overrides, defaults>>
     \/ UNCHANGED <<enrolments, assignments, rules, overrides>>
     \/ UNCHANGED <<enrolments, assignments, rules, defaults>>
     \/ UNCHANGED <<enrolments, assignments, overrides, defaults>>

LEMMA OfficesRows ==
  ASSUME RowsInv, OfficesNext, UNCHANGED weeklyVars
  PROVE  RowsInv' /\ OneTable
<1>1. PlacesInv'
  BY PlacesStep DEF RowsInv
<1>2. WeeklyInv'
  BY <1>1 DEF RowsInv, WeeklyInv, weeklyVars, PlacesInv, PlaceTypes
<1>3. today \in Int /\ today' \in Int
  BY <1>1, DayFacts DEF RowsInv, PlacesInv, PlaceTypes
<1>4. CASE EnrolMember \/ MoveMember \/ StopMember
  <2>1. /\ Committable(enrolments', assignments') /\ UNCHANGED <<clock, known, rules>>
    BY <1>4 DEF EnrolMember, MoveMember, StopMember, SetEnrolment, ReassignOffice,
      DisableEnrolment, officeVars
  <2> QED BY <1>1, <1>2, <1>3, <2>1 DEF RowsInv, OneTable, clock, weeklyVars
<1>5. ASSUME UNCHANGED periods, UNCHANGED clock,
             \A o \in Offices : known[o] > 0 => known'[o] = known[o]
      PROVE  RowsInv' /\ OneTable
  BY <1>1, <1>2, <1>3, <1>5 DEF RowsInv, OneTable, clock, periods, weeklyVars
<1>6. ASSUME NEW c \in Clocks, NEW office \in Offices, NEW place \in Pins, NEW rule \in Rules,
             CreateOffice(c, office, place, rule)
      PROVE  RowsInv' /\ OneTable
  <2>1. \A o \in Offices : known[o] > 0 => known'[o] = known[o]
    BY <1>6, RowsAre DEF CreateOffice
  <2> QED BY <1>5, <1>6, <2>1 DEF CreateOffice
<1>7. CASE \/ \E c \in Clocks, office \in Offices :
                \/ \E sent \in Days, rule \in Rules : UpdateRules(c, office, sent, rule)
                \/ ArchiveOffice(c, office)
           \/ \E office \in Offices, place \in Pins : SaveCreateAddress(office, place)
           \/ \E office \in Offices, place \in Pins \cup {NoPin}, named \in BOOLEAN,
                 withRules \in BOOLEAN : UpdateOffice(office, place, named, withRules)
           \/ Crash \/ Join \/ SetDisabled
  BY <1>5, <1>7 DEF UpdateRules, ArchiveOffice, SaveCreateAddress, UpdateOffice, Crash, Join,
    SetDisabled
<1>8. CASE Tick /\ UNCHANGED <<periods, edits, officeVars>>
  <2>1. UNCHANGED <<enrolments, assignments, known, rules, overrides, defaults>>
    BY <1>8 DEF periods, officeVars, weeklyVars
  <2>2. today <= today'
    BY <1>3, <1>8 DEF Tick
  <2> QED BY <1>1, <1>2, <1>3, <2>1, <2>2 DEF RowsInv, OneTable
<1> QED BY <1>4, <1>6, <1>7, <1>8 DEF OfficesNext

LEMMA WeeklyRows ==
  ASSUME RowsInv, UNCHANGED officeVars, NEW c \in Clocks, NEW date \in Days,
         \/ \E days \in DaySets : SetDefault(c, date, days) \/ SetOverride(c, date, days)
         \/ RemoveOverride(c, date)
  PROVE  RowsInv' /\ OneTable
<1>1. WeeklyInv'
  BY WeeklyStep DEF RowsInv, WeeklyNext
<1>2. /\ UNCHANGED <<clock, periods>>
      /\ UNCHANGED overrides \/ UNCHANGED defaults
  BY DEF SetDefault, SetOverride, RemoveOverride
<1>3. UNCHANGED <<today, hour, enrolments, assignments, known, archived, rules, pin, address,
                  pending, bypassed>>
  BY <1>2 DEF clock, periods, officeVars, placeVars
<1>4. PlacesInv' /\ Committable(enrolments, assignments)'
  BY <1>3 DEF RowsInv, PlacesInv, PlaceTypes, LegsServed, RulesServe, Serving, AddressesFollow,
    AddressNamesPin, ArchivedOnlyBypassed, Dated, Disjoint
<1>5. today \in Int
  BY RowsAre, DayFacts
<1> QED BY <1>1, <1>2, <1>3, <1>4, <1>5 DEF RowsInv, OneTable

LEMMA RowsSame ==
  ASSUME RowsInv, UNCHANGED <<clock, periods, officeVars, weeklyVars>>
  PROVE  RowsInv'
<1>1. UNCHANGED <<today, hour, enrolments, assignments, known, archived, rules, pin, address,
                  pending, bypassed, defaults, overrides, plans>>
  BY DEF clock, periods, officeVars, placeVars, weeklyVars
<1>2. PlacesInv' /\ Committable(enrolments, assignments)'
  BY <1>1 DEF RowsInv, PlacesInv, PlaceTypes, LegsServed, RulesServe, Serving, AddressesFollow,
    AddressNamesPin, ArchivedOnlyBypassed, Dated, Disjoint
<1> QED BY <1>1, <1>2 DEF RowsInv, WeeklyInv

(* What a summary under way would tell if the statements it still has to   *)
(* make saw the rows of now.                                               *)
Tables == {"rules", "overrides", "defaults"}

Anchor ==
  IF reading.at = "row"
  THEN IF reading.row.state = "upcoming" THEN reading.row.anchor ELSE today
  ELSE reading.anchor

NowIn(table) ==
  IF table = "rules" THEN RulesOf(reading.row)
  ELSE IF table = "overrides" THEN overrides ELSE defaults

Seen(table) == IF table \in reading.left THEN NowIn(table) ELSE reading.rows[table]

Would == Summarised(reading.row, Anchor, Seen("rules"), Seen("overrides"), Seen("defaults"))

(* It has seen the rows of now alone, or those of one moment but for one   *)
(* change, and the office it names has a rule for its day.                 *)
Abreast ==
  /\ reading.row = Access(today)
  /\ Anchor = reading.row.anchor
  /\ \A table \in Tables : Seen(table) = NowIn(table)
  /\ reading.first = SummaryAt(today)

OfficeRuled ==
  /\ reading.row.state = "upcoming" => reading.row.anchor \in Days
  /\ Anchor \in Days
  /\ reading.row.office # None =>
       /\ reading.row.office \in Offices
       /\ 0 < known[reading.row.office] /\ known[reading.row.office] <= Anchor
       /\ "rules" \notin reading.left =>
            \E r \in reading.rows["rules"] : Contains(r, Anchor)

ReadingTypes ==
  /\ DOMAIN reading = {"at", "row", "anchor", "left", "rows", "changes", "crossed",
                       "first", "last", "told"}
  /\ DOMAIN reading.rows = Tables
  /\ reading.left \subseteq Tables
  /\ reading.at = "row" => reading.left = Tables
  /\ reading.changes \in 0..2 /\ reading.crossed \in BOOLEAN
  /\ settings = "completed" /\ Summarisable(reading.row)

ReadingInv ==
  /\ reading.at \in {"idle", "row", "anchored", "told"}
  /\ reading.at \in {"row", "anchored"} =>
       /\ ReadingTypes /\ OfficeRuled
       /\ ~reading.crossed /\ reading.changes = 0 => Abreast
       /\ ~reading.crossed /\ reading.changes <= 1 =>
            Would = reading.first \/ Would = SummaryAt(today)
  /\ SummaryHolds

LEMMA AccessSame ==
  ASSUME UNCHANGED <<today, settings, enrolments, assignments>>
  PROVE  Access(today)' = Access(today)
BY DEF Access, OfficeOn

LEMMA AbreastTells == Abreast => Would = SummaryAt(today) /\ Would = reading.first
<1> SUFFICES ASSUME Abreast PROVE Would = SummaryAt(today)
  BY DEF Abreast
<1>1. /\ Seen("rules") = RulesOf(reading.row) /\ Seen("overrides") = overrides
      /\ Seen("defaults") = defaults
  BY DEF Abreast, Tables, NowIn
<1>2. Would = Summarised(Access(today), Access(today).anchor, RulesOf(Access(today)),
                         overrides, defaults)
  BY <1>1 DEF Would, Abreast
<1> QED BY <1>2 DEF SummaryAt

LEMMA AccessRead ==
  ASSUME RowsInv, ReadingInv, ReadAccess,
         UNCHANGED <<clock, periods, officeVars, weeklyVars>>
  PROVE  ReadingInv'
<1> DEFINE row == Access(today)
<1>1. /\ reading' = [at |-> IF Summarisable(row) THEN "row" ELSE "told",
                     row |-> row, anchor |-> 0,
                     left |-> {"rules", "overrides", "defaults"},
                     rows |-> [rules |-> {}, overrides |-> {}, defaults |-> {}],
                     changes |-> 0, crossed |-> FALSE,
                     first |-> SummaryAt(today), last |-> {}, told |-> {}]
      /\ UNCHANGED <<today, settings, enrolments, assignments, known, rules,
                     overrides, defaults>>
  BY DEF ReadAccess, clock, periods, officeVars, weeklyVars
<1>2. Access(today)' = row
  BY <1>1, AccessSame
<1>3. SummaryAt(today)' = SummaryAt(today)
  BY <1>1, <1>2 DEF SummaryAt, RulesOf
<1>4. /\ reading'.row = row /\ reading'.left = Tables /\ reading'.first = SummaryAt(today)
      /\ reading'.changes = 0 /\ reading'.crossed = FALSE /\ reading'.told = {}
      /\ reading'.at = (IF Summarisable(row) THEN "row" ELSE "told")
      /\ DOMAIN reading'.rows = Tables
      /\ DOMAIN reading' = {"at", "row", "anchor", "left", "rows", "changes", "crossed",
                            "first", "last", "told"}
  BY <1>1 DEF Tables
<1> HIDE DEF row
<1>5. CASE ~Summarisable(row)
  <2>1. SummaryAt(today) = {}
    BY <1>5 DEF SummaryAt, Summarised, row
  <2>2. reading'.at = "told"
    BY <1>4, <1>5
  <2> QED BY <1>4, <2>1, <2>2 DEF ReadingInv, SummaryHolds
<1>6. CASE Summarisable(row)
  <2>1. /\ settings = "completed" /\ row.anchor \in Days /\ today <= row.anchor
        /\ row.state = "active" => row.anchor = today
        /\ row.office \in OfficeOn(row.anchor)
    BY <1>6, AccessIs DEF row
  <2>2. reading'.at = "row"
    BY <1>4, <1>6
  <2>3. Anchor' = row.anchor
    BY <1>1, <1>4, <1>6, <2>1, <2>2 DEF Anchor, Summarisable
  <2>4. PICK a \in assignments : Contains(a, row.anchor) /\ a.office = row.office
    BY <2>1 DEF OfficeOn
  <2>5. /\ row.office \in Offices /\ 0 < known[row.office]
        /\ known[row.office] <= row.anchor
    <3>1. /\ a.from \in Int /\ known[a.office] \in Int /\ row.anchor \in Int
          /\ known[a.office] <= a.from /\ 0 < known[a.office] /\ a.office \in Offices
      BY <2>1, RowsAre, DayFacts DEF Dated
    <3> QED BY <2>4, <3>1 DEF Contains
  <2>6. OfficeRuled'
    BY <1>1, <1>4, <2>1, <2>3, <2>5 DEF OfficeRuled, Tables
  <2>7. Abreast'
    BY <1>2, <1>3, <1>4, <2>3 DEF Abreast, Seen
  <2>8. ReadingTypes'
    BY <1>1, <1>4, <1>6, <2>1, <2>2 DEF ReadingTypes
  <2>9. (Would = SummaryAt(today))'
    BY <2>7, AbreastTells, PTL
  <2> QED BY <2>2, <2>6, <2>7, <2>8, <2>9 DEF ReadingInv, SummaryHolds
<1> QED BY <1>5, <1>6

LEMMA AnchorRead ==
  ASSUME RowsInv, ReadingInv, ReadAnchor,
         UNCHANGED <<clock, periods, officeVars, weeklyVars>>
  PROVE  ReadingInv'
<1>1. /\ reading.at = "row"
      /\ reading' = [reading EXCEPT !.at = "anchored", !.anchor = Anchor]
      /\ UNCHANGED <<today, settings, enrolments, assignments, known, rules,
                     overrides, defaults>>
  BY DEF ReadAnchor, clock, periods, officeVars, weeklyVars, Anchor
<1>2. ReadingTypes /\ OfficeRuled
  BY <1>1 DEF ReadingInv
<1>3. /\ reading'.at = "anchored" /\ reading'.anchor = Anchor
      /\ reading'.row = reading.row /\ reading'.left = reading.left
      /\ reading'.rows = reading.rows /\ reading'.first = reading.first
      /\ reading'.changes = reading.changes /\ reading'.crossed = reading.crossed
      /\ DOMAIN reading' = DOMAIN reading
  BY <1>1, <1>2 DEF ReadingTypes
<1>4. Access(today)' = Access(today) /\ SummaryAt(today)' = SummaryAt(today)
  <2>1. Access(today)' = Access(today)
    BY <1>1, AccessSame
  <2> QED BY <1>1, <2>1 DEF SummaryAt, RulesOf
<1>5. Anchor' = Anchor
  BY <1>3 DEF Anchor
<1>6. \A table \in Tables : NowIn(table)' = NowIn(table) /\ Seen(table)' = Seen(table)
  BY <1>1, <1>3 DEF NowIn, Seen, RulesOf
<1>7. Would' = Would
  BY <1>3, <1>5, <1>6 DEF Would, Tables
<1>8. ReadingTypes' /\ OfficeRuled'
  BY <1>1, <1>2, <1>3, <1>5 DEF ReadingTypes, OfficeRuled
<1>9. Abreast => Abreast'
  BY <1>1, <1>3, <1>4, <1>5, <1>6 DEF Abreast
<1> QED BY <1>1, <1>3, <1>4, <1>7, <1>8, <1>9 DEF ReadingInv, SummaryHolds

LEMMA TableRead ==
  ASSUME RowsInv, ReadingInv, NEW t \in Tables, ReadTable(t),
         UNCHANGED <<clock, periods, officeVars, weeklyVars>>
  PROVE  ReadingInv'
<1>1. /\ reading.at = "anchored" /\ t \in reading.left
      /\ reading' = [reading EXCEPT !.left = @ \ {t}, !.rows[t] = NowIn(t)]
      /\ UNCHANGED <<today, settings, enrolments, assignments, known, rules,
                     overrides, defaults>>
  BY DEF ReadTable, clock, periods, officeVars, weeklyVars, NowIn, Tables
<1>2. ReadingTypes /\ OfficeRuled
  BY <1>1 DEF ReadingInv
<1>3. /\ reading'.at = "anchored" /\ reading'.anchor = reading.anchor
      /\ reading'.row = reading.row /\ reading'.left = reading.left \ {t}
      /\ reading'.rows = [reading.rows EXCEPT ![t] = NowIn(t)]
      /\ reading'.first = reading.first
      /\ reading'.changes = reading.changes /\ reading'.crossed = reading.crossed
      /\ DOMAIN reading' = DOMAIN reading
  BY <1>1, <1>2 DEF ReadingTypes
<1>4. Access(today)' = Access(today) /\ SummaryAt(today)' = SummaryAt(today)
  <2>1. Access(today)' = Access(today)
    BY <1>1, AccessSame
  <2> QED BY <1>1, <2>1 DEF SummaryAt, RulesOf
<1>5. Anchor' = Anchor
  BY <1>1, <1>3 DEF Anchor
<1>6. \A table \in Tables : NowIn(table)' = NowIn(table)
  BY <1>1, <1>3 DEF NowIn, RulesOf
<1>7. /\ DOMAIN reading'.rows = Tables /\ reading'.rows[t] = NowIn(t)
      /\ \A table \in Tables : table # t => reading'.rows[table] = reading.rows[table]
  BY <1>2, <1>3 DEF ReadingTypes
<1>8. \A table \in Tables : Seen(table)' = Seen(table)
  BY <1>1, <1>3, <1>6, <1>7 DEF Seen
<1>9. Would' = Would
  BY <1>3, <1>5, <1>8 DEF Would, Tables
<1>10. OfficeRuled'
  <2>1. ASSUME reading.row.office # None
        PROVE  \E r \in rules[reading.row.office] : Contains(r, Anchor)
    <3>1. /\ reading.row.office \in Offices /\ 0 < known[reading.row.office]
          /\ known[reading.row.office] <= Anchor /\ Anchor \in Days
      BY <1>2, <2>1 DEF OfficeRuled
    <3>2. Serving(rules[reading.row.office], known[reading.row.office])
      BY <3>1 DEF RowsInv, PlacesInv, RulesServe
    <3>3. Anchor \in known[reading.row.office]..LastDay
      <4>1. known[reading.row.office] \in Int
        BY <3>1, RowsAre
      <4> QED BY <3>1, <4>1, DayFacts
    <3> QED BY <3>2, <3>3 DEF Serving
  <2>2. ASSUME reading.row.office # None, "rules" \notin reading'.left
        PROVE  \E r \in reading'.rows["rules"] : Contains(r, Anchor)
    <3>1. CASE t = "rules"
      <4>1. reading'.rows["rules"] = rules[reading.row.office]
        BY <1>7, <2>2, <3>1 DEF NowIn, RulesOf
      <4> QED BY <2>1, <2>2, <4>1
    <3>2. CASE t # "rules"
      BY <1>2, <1>3, <1>7, <2>2, <3>2 DEF OfficeRuled, Tables
    <3> QED BY <3>1, <3>2
  <2> QED BY <1>1, <1>2, <1>3, <1>5, <2>2 DEF OfficeRuled
<1>11. ReadingTypes'
  BY <1>1, <1>2, <1>3, <1>7 DEF ReadingTypes
<1>12. Abreast => Abreast'
  BY <1>1, <1>3, <1>4, <1>5, <1>6, <1>8 DEF Abreast
<1> QED BY <1>1, <1>3, <1>4, <1>9, <1>10, <1>11, <1>12 DEF ReadingInv, SummaryHolds

LEMMA SummaryTold ==
  ASSUME RowsInv, ReadingInv, getSummary,
         UNCHANGED <<clock, periods, officeVars, weeklyVars>>
  PROVE  ReadingInv'
<1>1. /\ reading.at = "anchored" /\ reading.left = {}
      /\ reading' = [reading EXCEPT
           !.at = "told",
           !.rows = [rules |-> {}, overrides |-> {}, defaults |-> {}],
           !.last = SummaryAt(today),
           !.told = Summarised(reading.row, reading.anchor, reading.rows.rules,
                               reading.rows.overrides, reading.rows.defaults)]
  BY DEF getSummary
<1>2. ReadingTypes /\ OfficeRuled
  BY <1>1 DEF ReadingInv
<1>3. Would = Summarised(reading.row, reading.anchor, reading.rows.rules,
                         reading.rows.overrides, reading.rows.defaults)
  BY <1>1 DEF Would, Seen, Anchor
<1>4. /\ reading'.at = "told" /\ reading'.last = SummaryAt(today) /\ reading'.told = Would
      /\ reading'.first = reading.first /\ reading'.changes = reading.changes
      /\ reading'.crossed = reading.crossed
  <2> HIDE DEF Would
  <2> QED BY <1>1, <1>2, <1>3 DEF ReadingTypes
<1>5. ~reading.crossed =>
        /\ reading.changes = 0 => Would = reading.first
        /\ reading.changes <= 1 => Would = reading.first \/ Would = SummaryAt(today)
  BY <1>1, AbreastTells DEF ReadingInv
<1>6. ASSUME NEW t \in Would, t.row.office # None PROVE t.rule # {}
  <2>1. t = [row |-> reading.row, anchor |-> reading.anchor,
             rule |-> pickRuleForDate(reading.rows.rules, reading.anchor),
             offs |-> pickWeeklyOffDays(reading.rows.overrides, reading.rows.defaults,
                                        reading.anchor)]
    BY <1>3 DEF Summarised
  <2>2. PICK r \in reading.rows["rules"] : Contains(r, reading.anchor)
    BY <1>1, <1>2, <1>6, <2>1 DEF OfficeRuled, Anchor
  <2>3. pickRuleForDate(reading.rows.rules, reading.anchor) # {}
    BY <2>2 DEF pickRuleForDate
  <2> QED BY <2>1, <2>3
<1> HIDE DEF Would
<1>7. SummaryHolds'
  BY <1>4, <1>5, <1>6 DEF SummaryHolds
<1> QED BY <1>4, <1>7 DEF ReadingInv

(* The setup wizard turns tracking on and never off.                       *)
LEMMA WizardCall ==
  ASSUME RowsInv, ReadingInv, reading' = reading,
         settings = "completed" => settings' = "completed",
         UNCHANGED <<clock, periods, officeVars, weeklyVars>>
  PROVE  ReadingInv'
<1>1. UNCHANGED <<today, enrolments, assignments, known, rules, overrides, defaults>>
  BY DEF clock, periods, officeVars, weeklyVars
<1>2. CASE reading.at \notin {"row", "anchored"}
  BY <1>2 DEF ReadingInv, SummaryHolds
<1>3. CASE reading.at \in {"row", "anchored"}
  <2>1. ReadingTypes /\ settings' = settings
    BY <1>3 DEF ReadingInv, ReadingTypes
  <2>2. Access(today)' = Access(today)
    BY <1>1, <2>1, AccessSame
  <2>3. SummaryAt(today)' = SummaryAt(today)
    BY <1>1, <2>2 DEF SummaryAt, RulesOf
  <2>4. Anchor' = Anchor
    BY <1>1 DEF Anchor
  <2>5. \A table : NowIn(table)' = NowIn(table) /\ Seen(table)' = Seen(table)
    BY <1>1 DEF NowIn, Seen, RulesOf
  <2>6. Would' = Would
    BY <2>4, <2>5 DEF Would
  <2>7. ReadingTypes' /\ (OfficeRuled => OfficeRuled') /\ (Abreast => Abreast')
    BY <1>1, <2>1, <2>2, <2>3, <2>4, <2>5 DEF ReadingTypes, OfficeRuled, Abreast
  <2> QED BY <1>3, <2>3, <2>6, <2>7 DEF ReadingInv, SummaryHolds
<1> QED BY <1>2, <1>3

LEMMA CountedChanges ==
  ASSUME NEW n \in 0..2
  PROVE  /\ Min({n + 1, 2}) \in 0..2
         /\ Min({n + 1, 2}) # 0
         /\ Min({n + 1, 2}) <= 1 => n = 0
<1> DEFINE S == {n + 1, 2}
<1>1. \E x \in S : \A y \in S : x <= y
  <2>1. CASE n = 0
    <3>1. 1 \in S /\ \A y \in S : 1 <= y
      BY <2>1
    <3> QED BY <3>1
  <2>2. CASE n # 0
    <3>1. 2 \in S /\ \A y \in S : 2 <= y
      BY <2>2
    <3> QED BY <3>1
  <2> QED BY <2>1, <2>2
<1>2. Min(S) \in S /\ \A y \in S : Min(S) <= y
  <2> HIDE DEF S
  <2> QED BY <1>1 DEF Min
<1> QED BY <1>2

LEMMA MeanwhileKeeps ==
  ASSUME RowsInv, RowsInv', ReadingInv, Meanwhile, OneTable, settings' = settings
  PROVE  ReadingInv'
<1>1. CASE reading.at \notin {"row", "anchored"}
  BY <1>1 DEF ReadingInv, SummaryHolds, Meanwhile
<1>2. CASE reading.at \in {"row", "anchored"}
  <2> DEFINE n == IF today' = today /\ hour' = hour THEN Min({reading.changes + 1, 2})
                  ELSE reading.changes
  <2>1. ReadingTypes /\ OfficeRuled
    BY <1>2 DEF ReadingInv
  <2>2. reading' = [reading EXCEPT !.changes = n, !.crossed = @ \/ today' # today]
    BY <1>2 DEF Meanwhile
  <2>3. /\ n \in 0..2
        /\ today' = today /\ hour' = hour => n # 0 /\ (n <= 1 => reading.changes = 0)
        /\ ~(today' = today /\ hour' = hour) => n = reading.changes
    BY <2>1, CountedChanges DEF ReadingTypes
  <2> HIDE DEF n
  <2>4. /\ reading'.changes = n
        /\ reading'.crossed = (reading.crossed \/ today' # today)
        /\ reading'.at = reading.at /\ reading'.row = reading.row
        /\ reading'.anchor = reading.anchor /\ reading'.left = reading.left
        /\ reading'.rows = reading.rows /\ reading'.first = reading.first
        /\ DOMAIN reading' = DOMAIN reading
    BY <2>1, <2>2 DEF ReadingTypes
  <2>5. ReadingTypes'
    BY <2>1, <2>3, <2>4 DEF ReadingTypes
  <2>6. OfficeRuled'
    <3>1. /\ today' \in Days /\ today \in Int /\ today' \in Int /\ today <= today'
          /\ Anchor \in Int
      BY <2>1, RowsAre, DayFacts DEF RowsInv, PlacesInv, PlaceTypes, OneTable, OfficeRuled
    <3>2. /\ Anchor' \in Days /\ Anchor' \in Int /\ Anchor <= Anchor'
          /\ reading.at # "row" => Anchor' = Anchor
      <4>1. CASE reading.at = "row" /\ reading.row.state # "upcoming"
        BY <2>4, <3>1, <4>1 DEF Anchor
      <4>2. CASE ~(reading.at = "row" /\ reading.row.state # "upcoming")
        BY <2>1, <2>4, <3>1, <4>2 DEF Anchor, OfficeRuled
      <4> QED BY <4>1, <4>2
    <3> DEFINE o == reading.row.office
    <3>3. ASSUME o # None
          PROVE  o \in Offices /\ 0 < known'[o] /\ known'[o] <= Anchor'
      <4>1. o \in Offices /\ 0 < known[o] /\ known[o] <= Anchor
        BY <2>1, <3>3 DEF OfficeRuled
      <4> HIDE DEF o
      <4>2. known'[o] = known[o] /\ known[o] \in Int
        BY <4>1, RowsAre DEF OneTable
      <4> QED BY <3>1, <3>2, <4>1, <4>2
    <3>4. ASSUME o # None, "rules" \notin reading.left
          PROVE  \E r \in reading.rows["rules"] : Contains(r, Anchor')
      <4>1. Anchor' = Anchor
        BY <2>1, <3>2, <3>4 DEF ReadingTypes, Tables
      <4>2. PICK r \in reading.rows["rules"] : Contains(r, Anchor)
        BY <2>1, <3>4 DEF OfficeRuled
      <4> QED BY <4>1, <4>2
    <3>5. OfficeRuled' <=>
            /\ reading.row.state = "upcoming" => reading.row.anchor \in Days
            /\ Anchor' \in Days
            /\ o # None =>
                 /\ o \in Offices /\ 0 < known'[o] /\ known'[o] <= Anchor'
                 /\ "rules" \notin reading.left =>
                      \E r \in reading.rows["rules"] : Contains(r, Anchor')
      BY <2>4 DEF OfficeRuled
    <3>6. reading.row.state = "upcoming" => reading.row.anchor \in Days
      BY <2>1 DEF OfficeRuled
    <3> HIDE DEF o
    <3> QED BY <3>2, <3>3, <3>4, <3>5, <3>6
  <2>7. ASSUME today' = today, hour' # hour
        PROVE  /\ Abreast => Abreast'
               /\ Would' = Would /\ SummaryAt(today)' = SummaryAt(today)
    <3>1. UNCHANGED <<enrolments, assignments, rules, overrides, defaults>>
      BY <2>7 DEF OneTable
    <3>2. Access(today)' = Access(today)
      BY <2>7, <3>1, AccessSame
    <3>3. SummaryAt(today)' = SummaryAt(today)
      BY <3>1, <3>2, <2>7 DEF SummaryAt, RulesOf
    <3>4. Anchor' = Anchor
      BY <2>4, <2>7 DEF Anchor
    <3>5. \A table : NowIn(table)' = NowIn(table) /\ Seen(table)' = Seen(table)
      BY <2>4, <3>1 DEF NowIn, Seen, RulesOf
    <3> QED BY <2>4, <2>7, <3>2, <3>3, <3>4, <3>5 DEF Would, Abreast
  <2>8. ASSUME today' = today, Abreast
        PROVE  Would' = reading.first \/ Would' = SummaryAt(today)'
    <3>1. Anchor' = Anchor /\ Anchor = reading.row.anchor /\ reading.row = Access(today)
      BY <2>4, <2>8 DEF Anchor, Abreast
    <3>2. \A table \in Tables : Seen(table) = NowIn(table)
      BY <2>8 DEF Abreast
    <3>3. ASSUME \A table \in Tables : Seen(table)' = Seen(table)
          PROVE  Would' = reading.first
      <4>1. Would' = Would
        BY <2>4, <3>1, <3>3 DEF Would, Tables
      <4> QED BY <2>8, <4>1, AbreastTells
    <3>4. ASSUME \A table \in Tables : Seen(table)' = NowIn(table)',
                 UNCHANGED <<enrolments, assignments>>
          PROVE  Would' = SummaryAt(today)'
      <4>1. Access(today)' = reading'.row
        BY <2>4, <2>8, <3>1, <3>4, AccessSame
      <4>2. /\ Seen("rules")' = RulesOf(reading.row)' /\ Seen("overrides")' = overrides'
            /\ Seen("defaults")' = defaults'
        BY <3>4 DEF Tables, NowIn
      <4>3. Would' = Summarised(reading'.row, reading'.row.anchor, RulesOf(reading.row)',
                                overrides', defaults')
        BY <2>4, <3>1, <4>2 DEF Would
      <4>4. SummaryAt(today)' = Summarised(reading'.row, reading'.row.anchor,
                                           RulesOf(reading.row)', overrides', defaults')
        BY <4>1 DEF SummaryAt, RulesOf
      <4> QED BY <4>3, <4>4
    <3>5. ASSUME NEW t \in Tables, UNCHANGED <<enrolments, assignments>>,
                 \A table \in Tables : table # t => NowIn(table)' = NowIn(table)
          PROVE  Would' = reading.first \/ Would' = SummaryAt(today)'
      <4>1. CASE t \in reading.left
        <5>1. \A table \in Tables : Seen(table)' = NowIn(table)'
          BY <2>4, <3>2, <3>5, <4>1 DEF Seen
        <5> QED BY <3>4, <3>5, <5>1
      <4>2. CASE t \notin reading.left
        <5>1. \A table \in Tables : Seen(table)' = Seen(table)
          BY <2>4, <3>5, <4>2 DEF Seen
        <5> QED BY <3>3, <5>1
      <4> QED BY <4>1, <4>2
    <3>6. CASE UNCHANGED <<rules, overrides, defaults>>
      <4>1. \A table \in Tables : Seen(table)' = Seen(table)
        BY <2>4, <3>6 DEF Seen, NowIn, RulesOf
      <4> QED BY <3>3, <4>1
    <3>7. CASE UNCHANGED <<enrolments, assignments, rules, overrides>>
      <4>1. \A table \in Tables : table # "defaults" => NowIn(table)' = NowIn(table)
        BY <2>4, <3>7 DEF NowIn, RulesOf, Tables
      <4> QED BY <3>5, <3>7, <4>1 DEF Tables
    <3>8. CASE UNCHANGED <<enrolments, assignments, rules, defaults>>
      <4>1. \A table \in Tables : table # "overrides" => NowIn(table)' = NowIn(table)
        BY <2>4, <3>8 DEF NowIn, RulesOf, Tables
      <4> QED BY <3>5, <3>8, <4>1 DEF Tables
    <3>9. CASE UNCHANGED <<enrolments, assignments, overrides, defaults>>
      <4>1. \A table \in Tables : table # "rules" => NowIn(table)' = NowIn(table)
        BY <2>4, <3>9 DEF NowIn, Tables
      <4> QED BY <3>5, <3>9, <4>1 DEF Tables
    <3> QED BY <3>6, <3>7, <3>8, <3>9 DEF OneTable
  <2>9. ~reading'.crossed /\ reading'.changes = 0 => Abreast'
    BY <1>2, <2>3, <2>4, <2>7 DEF ReadingInv
  <2>10. ~reading'.crossed /\ reading'.changes <= 1 =>
           Would' = reading'.first \/ Would' = SummaryAt(today)'
    <3> SUFFICES ASSUME ~reading'.crossed, n <= 1
                 PROVE  Would' = reading.first \/ Would' = SummaryAt(today)'
      BY <2>4
    <3>1. ~reading.crossed /\ today' = today
      BY <2>4
    <3>2. CASE hour' = hour
      <4>1. reading.changes = 0
        BY <2>3, <3>1, <3>2
      <4> QED BY <1>2, <2>8, <3>1, <4>1 DEF ReadingInv
    <3>3. CASE hour' # hour
      <4>1. reading.changes <= 1
        BY <2>3, <3>3
      <4> QED BY <1>2, <2>7, <3>1, <3>3, <4>1 DEF ReadingInv
    <3> QED BY <3>2, <3>3
  <2>11. SummaryHolds'
    BY <1>2, <2>4 DEF SummaryHolds
  <2> QED BY <1>2, <2>4, <2>5, <2>6, <2>9, <2>10, <2>11 DEF ReadingInv
<1> QED BY <1>1, <1>2

LEMMA ContextStep ==
  /\ RowsInv /\ ReadingInv
  /\ [ContextNext]_<<clock, periods, edits, officeVars, weeklyVars, contextVars>>
  => RowsInv' /\ ReadingInv'
<1> SUFFICES ASSUME RowsInv, ReadingInv,
                    [ContextNext]_<<clock, periods, edits, officeVars, weeklyVars, contextVars>>
             PROVE  RowsInv' /\ ReadingInv'
  OBVIOUS
<1>1. CASE /\ ReadAccess \/ ReadAnchor \/ getSummary
              \/ \E table \in {"rules", "overrides", "defaults"} : ReadTable(table)
           /\ UNCHANGED <<clock, periods, edits, officeVars, weeklyVars>>
  BY <1>1, RowsSame, AccessRead, AnchorRead, TableRead, SummaryTold DEF Tables
<1>2. ASSUME NEW w \in Wizards,
             \/ \E kind \in {"start", "complete"} : LooksAtSetup(w, kind)
             \/ startSetup(w)
             \/ \E c \in Clocks : completeSetup(c, w),
             UNCHANGED <<clock, periods, edits, officeVars, weeklyVars>>
      PROVE  RowsInv' /\ ReadingInv'
  <2>1. reading' = reading /\ (settings = "completed" => settings' = "completed")
    BY <1>2 DEF LooksAtSetup, startSetup, completeSetup
  <2> QED BY <1>2, <2>1, RowsSame, WizardCall
<1>3. CASE OfficesNext /\ Meanwhile /\ UNCHANGED <<weeklyVars, settings, wizard>>
  BY <1>3, OfficesRows, MeanwhileKeeps
<1>4. ASSUME NEW c \in Clocks, NEW date \in Days,
             \/ \E days \in DaySets : SetDefault(c, date, days) \/ SetOverride(c, date, days)
             \/ RemoveOverride(c, date),
             Meanwhile, UNCHANGED <<officeVars, settings, wizard>>
      PROVE  RowsInv' /\ ReadingInv'
  BY <1>4, WeeklyRows, MeanwhileKeeps
<1>5. CASE UNCHANGED <<clock, periods, edits, officeVars, weeklyVars, contextVars>>
  BY <1>5, RowsSame, WizardCall DEF contextVars
<1> QED BY <1>1, <1>2, <1>3, <1>4, <1>5 DEF ContextNext

(* Every reader of a day's facts tells the same, for any offices, days and *)
(* calls: the day context, the grid of any span, a page of leave and the   *)
(* member's own screen; and a summary read in several statements is that   *)
(* of one moment, with one change in between that of before or of after.   *)
THEOREM FactsAreOne == ContextSpec => []ReadersAgree
<1>1. OfficesInit /\ WeeklyInit /\ ContextInit => RowsInv /\ ReadingInv
  <2>1. ContextInit => ReadingInv
    BY DEF ContextInit, Unread, ReadingInv, SummaryHolds
  <2> QED BY <2>1, RowsStart
<1>2. RowsInv /\ ReadingInv => ReadersAgree
  BY FactsMeet, ViewMatches DEF ReadersAgree, ReadingInv
<1> QED BY <1>1, <1>2, ContextStep, PTL DEF ContextSpec

=============================================================================
