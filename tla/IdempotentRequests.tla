-------------------------- MODULE IdempotentRequests --------------------------
(***************************************************************************)
(* The idempotency interceptor: attempts of one request, sent under one    *)
(* key, look up a stored answer of the last Window, else run the handler   *)
(* and store its answer without waiting for the insert.  The primary key   *)
(* on (key, tenant, scope) refuses a second row, the old one expired or    *)
(* not; an hourly job deletes expired rows.                                *)
(***************************************************************************)
EXTENDS Integers, FiniteSets

CONSTANTS Attempts, Window, LastHour, MaxLosses, NoAnswer

ASSUME RequestAssumption ==
  /\ NoAnswer \notin Attempts /\ IsFiniteSet(Attempts)
  /\ Window \in Nat \ {0} /\ LastHour \in Nat /\ MaxLosses \in Nat

VARIABLES
  hour,
  stored,    \* the idempotency_log row: whose answer, since when
  call,      \* per attempt: its next step, or how it ended
  inserted,  \* history: per attempt, when its answer was inserted
  known,     \* history: answers inserted within the window as an attempt looked
  losses     \* failed look-ups and inserts

requestVars == <<hour, stored, call, inserted, known, losses>>

NoLog == [answer |-> NoAnswer, at |-> 0]
Never == -1

RequestInit ==
  /\ hour = 0 /\ stored = NoLog /\ losses = 0
  /\ call = [a \in Attempts |-> "unsent"]
  /\ inserted = [a \in Attempts |-> Never]
  /\ known = [a \in Attempts |-> {}]

Lose == losses < MaxLosses /\ losses' = losses + 1

Proceed(a, s) == call' = [call EXCEPT ![a] = s]

Fresh(at) == at # Never /\ at > hour - Window
Remembered == {b \in Attempts : Fresh(inserted[b])}

HourPasses ==
  /\ hour < LastHour /\ hour' = hour + 1
  /\ UNCHANGED <<stored, call, inserted, known, losses>>

LookUpAnswer(a) ==
  /\ call[a] = "unsent"
  /\ known' = [known EXCEPT ![a] = Remembered]
  /\ Proceed(a, IF stored # NoLog /\ Fresh(stored.at) THEN "replayed" ELSE "running")
  /\ UNCHANGED <<hour, stored, inserted, losses>>

(* Fails open: the handler runs.                                           *)
LookUpFails(a) ==
  /\ call[a] = "unsent" /\ Lose
  /\ known' = [known EXCEPT ![a] = {}]
  /\ Proceed(a, "running")
  /\ UNCHANGED <<hour, stored, inserted>>

(* A failed request is never stored; the client may send it again.         *)
Handle(a) ==
  /\ call[a] = "running"
  /\ \E s \in {"storing", "unsent"} : Proceed(a, s)
  /\ UNCHANGED <<hour, stored, inserted, known, losses>>

StoreAnswer(a) ==
  /\ call[a] = "storing"
  /\ \/ /\ stored = NoLog
        /\ stored' = [answer |-> a, at |-> hour]
        /\ inserted' = [inserted EXCEPT ![a] = hour]
        /\ Proceed(a, "stored")
     \/ stored # NoLog /\ Proceed(a, "conflict") /\ UNCHANGED <<stored, inserted>>
  /\ UNCHANGED <<hour, known, losses>>

StoreLost(a) ==
  /\ call[a] = "storing" /\ Lose
  /\ Proceed(a, "lost")
  /\ UNCHANGED <<hour, stored, inserted, known>>

(* Mutant: the job deletes rows as old as half the window.                  *)
PruneEarly ==
  /\ stored # NoLog /\ 2 * (hour - stored.at) >= Window
  /\ stored' = NoLog
  /\ UNCHANGED <<hour, call, inserted, known, losses>>

(* idempotency-log-cleanup, every hour: rows older than the window.        *)
Prune ==
  /\ stored # NoLog /\ stored.at < hour - Window
  /\ stored' = NoLog
  /\ UNCHANGED <<hour, call, inserted, known, losses>>

RequestNext ==
  \/ HourPasses \/ Prune
  \/ \E a \in Attempts : \/ LookUpAnswer(a) \/ LookUpFails(a) \/ Handle(a)
                         \/ StoreAnswer(a) \/ StoreLost(a)

RequestSpec == RequestInit /\ [][RequestNext]_requestVars

-----------------------------------------------------------------------------
(* An attempt runs the handler only when no answer was stored under the    *)
(* key in the window before it looked, or its look-up failed; and what it  *)
(* replays was stored in that window.  So two attempts within the window   *)
(* both run only if they overlap, or a look-up or an insert failed, or an  *)
(* expired row, not deleted yet, kept the first answer out.                *)
RepeatsExplained ==
  \A a \in Attempts :
    /\ call[a] \in {"running", "storing", "stored", "conflict", "lost"} => known[a] = {}
    /\ call[a] = "replayed" => known[a] # {}
=============================================================================
