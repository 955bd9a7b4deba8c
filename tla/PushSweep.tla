------------------------------ MODULE PushSweep -------------------------------
(***************************************************************************)
(* Push delivery: every instance sweeps the notifications table on a       *)
(* timer, claims the recent rows nobody has pushed, looks up the           *)
(* recipients' device tokens in the same transaction, and sends one        *)
(* message per row and token with up to MaxRetries retries.  Meanwhile     *)
(* phones are registered, handed over and signed off, tokens die, people   *)
(* are removed, and an instance may stop at any point.  FCM is outside: it *)
(* answers each message, or the call fails with any part of it delivered.  *)
(***************************************************************************)
EXTENDS Integers, FiniteSets

CONSTANTS Notes,     \* rows of notifications
          People, Tokens, Instances,
          MaxAge,    \* sweeps look this far back
          LastTick, BatchSize, MaxRetries,
          MaxFaults, \* failed calls, stops, removals of people
          Nobody

ASSUME PushAssumption ==
  /\ Nobody \notin People
  /\ IsFiniteSet(Notes) /\ IsFiniteSet(People) /\ IsFiniteSet(Tokens)
  /\ MaxAge \in Nat /\ LastTick \in Nat /\ BatchSize \in Nat /\ MaxRetries \in Nat
  /\ MaxFaults \in Nat

VARIABLES
  clock,
  note,      \* to whom, since when, pushed_at set
  bound,     \* device_tokens.user_id per token
  active,    \* people who are active and not disabled
  sweep,     \* per instance: its tick
  copies,    \* history: messages FCM delivered, per row and token
  retried,   \* history: whole calls that failed with the message in them
  last,      \* history: who registered a token last
  lookedUp,  \* history: per row and token, the token's last registrant at look-up
  faults

pushVars == <<clock, note, bound, active, sweep, copies, retried, last, lookedUp, faults>>

Messages == Notes \X Tokens
Idle == [state |-> "idle", rows |-> {}, queue |-> {}, dead |-> {}, attempt |-> 0]

PushInit ==
  /\ clock = 0
  /\ note = [n \in Notes |-> [to |-> Nobody, born |-> 0, pushed |-> FALSE]]
  /\ bound = [t \in Tokens |-> Nobody]
  /\ active = People
  /\ sweep = [s \in Instances |-> Idle]
  /\ copies = [m \in Messages |-> 0] /\ retried = [m \in Messages |-> 0]
  /\ last = bound
  /\ lookedUp = [m \in Messages |-> Nobody]
  /\ faults = 0

Fault == faults < MaxFaults /\ faults' = faults + 1

-----------------------------------------------------------------------------
(* The rest of the system.                                                 *)
Passes ==
  /\ clock < LastTick /\ clock' = clock + 1
  /\ UNCHANGED <<note, bound, active, sweep, copies, retried, last, lookedUp, faults>>

Insert(n, p) ==
  /\ note[n].to = Nobody
  /\ note' = [note EXCEPT ![n].to = p, ![n].born = clock]
  /\ UNCHANGED <<clock, bound, active, sweep, copies, retried, last, lookedUp, faults>>

(* POST /device-tokens: an upsert on the token; a shared phone rebinds.    *)
Register(p, t) ==
  /\ bound' = [bound EXCEPT ![t] = p]
  /\ last' = [last EXCEPT ![t] = p]
  /\ UNCHANGED <<clock, note, active, sweep, copies, retried, lookedUp, faults>>

(* DELETE /device-tokens/:token deletes the caller's own row; the nightly  *)
(* job deletes silent ones.                                                *)
Unregister(t) ==
  /\ bound[t] # Nobody
  /\ bound' = [bound EXCEPT ![t] = Nobody]
  /\ UNCHANGED <<clock, note, active, sweep, copies, retried, last, lookedUp, faults>>

LoseMembership(p) ==
  /\ p \in active /\ Fault
  /\ active' = active \ {p}
  /\ UNCHANGED <<clock, note, bound, sweep, copies, retried, last, lookedUp>>

-----------------------------------------------------------------------------
(* CLAIM_SQL: recent rows not pushed, the oldest first; rows another       *)
(* instance is claiming are skipped.                                       *)
BeingClaimed == UNION {sweep[s].rows : s \in Instances}

(* Mutant: rows are claimed without the lock that others skip.             *)
ClaimableUnlocked == {n \in Notes : /\ note[n].to # Nobody /\ ~note[n].pushed
                                    /\ note[n].born >= clock - MaxAge}

Claimable == {n \in Notes : /\ note[n].to # Nobody /\ ~note[n].pushed
                            /\ note[n].born >= clock - MaxAge
                            /\ n \notin BeingClaimed}

Oldest(found) ==
  {r \in SUBSET found :
     /\ Cardinality(r) = (IF Cardinality(found) < BatchSize
                          THEN Cardinality(found) ELSE BatchSize)
     /\ \A n \in r, k \in found \ r : note[n].born <= note[k].born}

(* tick: `running` keeps a second tick out.                                *)
Claim(s) ==
  /\ sweep[s].state = "idle" /\ Claimable # {}
  /\ \E r \in Oldest(Claimable) :
       sweep' = [sweep EXCEPT ![s] = [Idle EXCEPT !.state = "claimed", !.rows = r]]
  /\ UNCHANGED <<clock, note, bound, active, copies, retried, last, lookedUp, faults>>

(* TOKEN_LOOKUP_SQL, then the claim commits.                               *)
Addressed(r) == {m \in r \X Tokens : /\ bound[m[2]] = note[m[1]].to
                                     /\ note[m[1]].to \in active}

LookUpTokens(s) ==
  /\ sweep[s].state = "claimed"
  /\ LET r == sweep[s].rows
         q == Addressed(r) IN
       /\ note' = [n \in Notes |-> [note[n] EXCEPT !.pushed = @ \/ n \in r]]
       /\ lookedUp' = [m \in Messages |-> IF m \in q THEN last[m[2]] ELSE lookedUp[m]]
       /\ sweep' = [sweep EXCEPT ![s] =
            IF q = {} THEN Idle ELSE [Idle EXCEPT !.state = "sending", !.queue = q]]
  /\ UNCHANGED <<clock, bound, active, copies, retried, last, faults>>

ClaimFails(s) ==
  /\ sweep[s].state = "claimed" /\ Fault
  /\ sweep' = [sweep EXCEPT ![s] = Idle]
  /\ UNCHANGED <<clock, note, bound, active, copies, retried, last, lookedUp>>

(* What follows one attempt: dead tokens are deleted, then the retryable   *)
(* messages go round again, at most MaxRetries times.                      *)
AfterSend(s, dead, retry) ==
  LET again == IF sweep[s].attempt < MaxRetries THEN retry ELSE {}
      attempt == sweep[s].attempt + 1 IN
  sweep' = [sweep EXCEPT ![s] =
    IF dead # {} THEN [Idle EXCEPT !.state = "deleting", !.dead = dead, !.queue = again,
                                   !.attempt = attempt]
    ELSE IF again = {} THEN Idle
    ELSE [Idle EXCEPT !.state = "sending", !.queue = again, !.attempt = attempt]]

Deliver(ms) == copies' = [m \in Messages |-> IF m \in ms THEN copies[m] + 1 ELSE copies[m]]

(* sendEach answers every message: sent, a dead token, to be tried again   *)
(* (429, 503), or refused for good.                                        *)
Send(s) ==
  /\ sweep[s].state = "sending"
  /\ \E sent \in SUBSET sweep[s].queue :
     \E dead, retry \in SUBSET (sweep[s].queue \ sent) :
       /\ dead \cap retry = {}
       /\ Deliver(sent)
       /\ AfterSend(s, {m[2] : m \in dead}, retry)
  /\ UNCHANGED <<clock, note, bound, active, retried, last, lookedUp, faults>>

(* The call itself fails with any part delivered: all of it is retryable.  *)
TransportFails(s) ==
  /\ sweep[s].state = "sending" /\ Fault
  /\ \E sent \in SUBSET sweep[s].queue : Deliver(sent)
  /\ retried' = [m \in Messages |->
       IF m \in sweep[s].queue THEN retried[m] + 1 ELSE retried[m]]
  /\ AfterSend(s, {}, sweep[s].queue)
  /\ UNCHANGED <<clock, note, bound, active, last, lookedUp>>

(* deleteTokens deletes by value, whoever holds the token by now; when it  *)
(* fails the tick ends.                                                    *)
DeleteTokens(s) ==
  /\ sweep[s].state = "deleting"
  /\ bound' = [t \in Tokens |-> IF t \in sweep[s].dead THEN Nobody ELSE bound[t]]
  /\ sweep' = [sweep EXCEPT ![s] =
       IF sweep[s].queue = {} THEN Idle ELSE [@ EXCEPT !.state = "sending", !.dead = {}]]
  /\ UNCHANGED <<clock, note, active, copies, retried, last, lookedUp, faults>>

DeleteFails(s) ==
  /\ sweep[s].state = "deleting" /\ Fault
  /\ sweep' = [sweep EXCEPT ![s] = Idle]
  /\ UNCHANGED <<clock, note, bound, active, copies, retried, last, lookedUp>>

(* The process stops and starts again: what it claimed is lost.            *)
Restart(s) ==
  /\ sweep[s].state # "idle" /\ Fault
  /\ sweep' = [sweep EXCEPT ![s] = Idle]
  /\ UNCHANGED <<clock, note, bound, active, copies, retried, last, lookedUp>>

SweepStep(s) ==
  \/ Claim(s) \/ LookUpTokens(s) \/ Send(s) \/ DeleteTokens(s)

PushNext ==
  \/ Passes
  \/ \E p \in People : \/ LoseMembership(p)
                       \/ \E n \in Notes : Insert(n, p)
                       \/ \E t \in Tokens : Register(p, t)
  \/ \E t \in Tokens : Unregister(t)
  \/ \E s \in Instances : \/ SweepStep(s) \/ ClaimFails(s)
                          \/ TransportFails(s) \/ DeleteFails(s) \/ Restart(s)

PushSpec == PushInit /\ [][PushNext]_pushVars

-----------------------------------------------------------------------------
(* A message is sent only to a phone whose last registration, as the claim *)
(* committed, was the recipient's: after a shared phone changes hands the  *)
(* former user's notices stop but for a batch already claimed.             *)
SentToRecipient ==
  \A m \in Messages : copies[m] > 0 => lookedUp[m] = note[m[1]].to

(* push-sweep.service.ts, "claim-then-send is at-most-once": two instances,*)
(* failed claims and restarts never send a row to a phone twice.  Only a   *)
(* call that fails as a whole, which may have been delivered, is repeated. *)
CopiesExplained == \A m \in Messages : copies[m] <= 1 + retried[m]

(* Which messages are sent, and how often.                                 *)
PushesExplained == SentToRecipient /\ CopiesExplained
=============================================================================
