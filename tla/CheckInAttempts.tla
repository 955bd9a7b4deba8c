---------------------------- MODULE CheckInAttempts ----------------------------
(***************************************************************************)
(* The attempts behind a check-in or check-out: every call writes one row  *)
(* under its idempotency key, counted rejections arm a block, a repeated   *)
(* key is answered from its row, and mocked locations alert the admins     *)
(* once a month.                                                           *)
(*                                                                         *)
(* One call is one transaction under the employee lock, so one step; its   *)
(* now() is that of its BEGIN, at most MaxWait before the step.            *)
(***************************************************************************)
EXTENDS Integers, FiniteSets

CONSTANTS Keys,          \* idempotency keys the app made
          Employees,
          RateMax, RateWindow, RateBlock,
          AlertThreshold,
          Month,         \* ticks in a calendar month
          MaxWait, LastTick

ASSUME AttemptsAssumption ==
  /\ {RateMax, RateWindow, RateBlock, AlertThreshold, Month}
       \subseteq Nat \ {0}
  /\ RateBlock >= RateWindow          \* both ten minutes
  /\ MaxWait \in Nat /\ LastTick \in Nat

VARIABLES now,
          attempts,      \* the rows, one per key used
          records,       \* each employee's record of the day
          alerts         \* dedupe keys of the notices: employee and month

attemptVars == <<now, attempts, records, alerts>>

Kinds == {"check_in", "check_out"}

(* The outcomes that count toward the budget.                              *)
CountedOutcomes == {"too_far", "mocked"}

(* What the phone reports: the first thing wrong with the fix, if any.     *)
Fixes == CountedOutcomes \cup {"ok"}

NoBlock == 0

AttemptsInit ==
  /\ now = 1
  /\ attempts = {}
  /\ records = [e \in Employees |-> "none"]
  /\ alerts = {}

MonthOf(tick) == tick \div Month

Used(e, key) == {a \in attempts : a.employee = e /\ a.key = key}

(* Mutant: the block is read by the wrong comparison and never found.      *)
BlockedNever(e, at) == {a \in attempts : a.employee = e /\ a.until < 0}

(* The rows whose block is still in the future of this call.               *)
ActiveBlocks(e, at) == {a \in attempts : a.employee = e /\ a.until > at}

(* Mutant: each kind of call has a budget of its own.                      *)
CountedOfKind(e, at) ==
  {a \in attempts : /\ a.employee = e /\ a.outcome = "too_far"
                    /\ a.at > at - RateWindow}

CountedInWindow(e, at) ==
  {a \in attempts : /\ a.employee = e /\ a.outcome \in CountedOutcomes
                    /\ a.at > at - RateWindow}

MonthlyMocked(rows, e, at) ==
  {a \in rows : /\ a.employee = e /\ a.outcome = "mocked"
                /\ MonthOf(a.at) >= MonthOf(at)}

-----------------------------------------------------------------------------
(* The state conflicts, before the fix is looked at.                       *)
StateConflict(e, kind, tracked, onLeave, confirmed) ==
  CASE ~tracked -> "not_tracked"
    [] tracked /\ kind = "check_in" /\ records[e] # "none" ->
         "already_checked_in"
    [] tracked /\ kind = "check_out" /\ records[e] = "none" -> "not_checked_in"
    [] tracked /\ kind = "check_out" /\ records[e] = "out" ->
         "already_checked_out"
    [] tracked /\ kind = "check_in" /\ records[e] = "none" /\ onLeave
       /\ ~confirmed -> "leave_confirmation_required"
    [] OTHER -> "none"

(* The Nth counted rejection of the window carries the block.              *)
BlockOf(e, outcome, at) ==
  IF /\ outcome \in CountedOutcomes
     /\ Cardinality(CountedInWindow(e, at)) + 1 >= RateMax
  THEN at + RateBlock ELSE NoBlock

(* The row; a key another employee used aborts the whole transaction.      *)
InsertAttempt(e, key, kind, outcome, at) ==
  /\ \A a \in attempts : a.key # key
  /\ attempts' = attempts \cup
       {[employee |-> e, key |-> key, kind |-> kind, outcome |-> outcome,
         at |-> at, until |-> BlockOf(e, outcome, at)]}

(* The dedupe key of the month's notice, once enough attempts are in.      *)
Alerted(rows, e, fix, at) ==
  IF fix = "mocked" /\ Cardinality(MonthlyMocked(rows, e, at)) >= AlertThreshold
  THEN {<<e, MonthOf(at)>>} ELSE {}

(* A call whose key is new.  Under a block it is only recorded; a conflict *)
(* is recorded and not counted; a bad fix is counted and, when mocked,     *)
(* may be the one that alerts the admins; a good one writes the record.    *)
Transact(e, key, kind, fix, at, conflict) ==
  /\ Used(e, key) = {}
  /\ \/ /\ ActiveBlocks(e, at) # {}
        /\ InsertAttempt(e, key, kind, "rate_limited", at)
        /\ UNCHANGED <<records, alerts>>
     \/ /\ ActiveBlocks(e, at) = {}
        /\ conflict # "none"
        /\ InsertAttempt(e, key, kind, conflict, at)
        /\ UNCHANGED <<records, alerts>>
     \/ /\ ActiveBlocks(e, at) = {}
        /\ conflict = "none"
        /\ InsertAttempt(e, key, kind, fix, at)
        /\ records' = IF fix # "ok" THEN records
                      ELSE [records EXCEPT
                        ![e] = IF kind = "check_in" THEN "in" ELSE "out"]
        /\ alerts' = alerts \cup Alerted(attempts', e, fix, at)

Call ==
  \E e \in Employees, key \in Keys, kind \in Kinds, fix \in Fixes,
     at \in {t \in (now - MaxWait)..now : t > 0},
     tracked, onLeave, confirmed \in BOOLEAN :
    /\ Transact(e, key, kind, fix, at,
                StateConflict(e, kind, tracked, onLeave, confirmed))
    /\ UNCHANGED now

TickOn ==
  /\ now < LastTick
  /\ now' = now + 1
  /\ UNCHANGED <<attempts, records, alerts>>

AttemptsNext == Call \/ TickOn

AttemptsSpec == AttemptsInit /\ [][AttemptsNext]_attemptVars

-----------------------------------------------------------------------------
(* What a repeated key is answered: the stored outcome, or, from the other *)
(* button, the state of the day.  Nothing is written.                      *)
Replay(row, kind) ==
  CASE row.kind = kind -> row.outcome
    [] row.kind # kind /\ kind = "check_in" /\ records[row.employee] # "none" ->
         "already_checked_in"
    [] row.kind # kind /\ kind = "check_out" /\ records[row.employee] = "none" ->
         "not_checked_in"
    [] row.kind # kind /\ kind = "check_out" /\ records[row.employee] = "out" ->
         "already_checked_out"
    [] OTHER -> "duplicate"

(* Within any window an employee has at most RateMax counted rejections,   *)
(* although calls that waited for the lock stamp their rows in the past.   *)
RateBound ==
  \A e \in Employees, start \in 0..LastTick :
    Cardinality({a \in attempts :
                   /\ a.employee = e /\ a.outcome \in CountedOutcomes
                   /\ start < a.at /\ a.at <= start + RateWindow}) <= RateMax

(* A month with enough mocked attempts has alerted the admins, also when   *)
(* they were recorded by calls of two months at once.                      *)
EnoughMockedAlerts ==
  \A a \in attempts :
    Cardinality({b \in attempts : /\ b.employee = a.employee
                                  /\ b.outcome = "mocked"
                                  /\ MonthOf(b.at) = MonthOf(a.at)})
        >= AlertThreshold
      => <<a.employee, MonthOf(a.at)>> \in alerts

(* The record and the accepted attempts tell one story: it holds exactly   *)
(* the check-in and check-out that were answered ok, each once, and so a   *)
(* repeated key can still be answered ok or already done, truthfully.      *)
RecordMatchesAttempts ==
  \A e \in Employees :
    LET accepted(kind) == {a \in attempts : /\ a.employee = e /\ a.kind = kind
                                            /\ a.outcome = "ok"}
        done == (IF records[e] = "none" THEN {} ELSE {"check_in"})
                  \cup (IF records[e] = "out" THEN {"check_out"} ELSE {})
    IN
    /\ \A kind \in Kinds :
         Cardinality(accepted(kind)) = IF kind \in done THEN 1 ELSE 0
    /\ \A a \in attempts, kind \in Kinds :
         (a.employee = e /\ Replay(a, kind) \in
            {"ok", IF kind = "check_in" THEN "already_checked_in"
                   ELSE "already_checked_out"})
         => kind \in done

(* The attempts of a month: limited, alerted and borne out by the records. *)
AttemptsPoliced == RateBound /\ EnoughMockedAlerts /\ RecordMatchesAttempts
=============================================================================
