----------------------------- MODULE RateLimits -----------------------------
(* The counters the API keeps in its own process to slow a caller down, and  *)
(* the calls that read and write them:                                       *)
(*   - the four address look-ups (places/places.service.ts), each counted in *)
(*     the cache by PlacesRateLimitStore, whose calls queue up key by key;   *)
(*   - the codes sent to one phone (InMemoryOtpSessionStore.increment), read *)
(*     and written without a queue;                                          *)
(*   - the "already taken" answers to one person (auth/email-link.service.ts)*)
(*     and the failed sign-ins of one e-mail (auth/email-login.service.ts),  *)
(*     checked when the call begins and written when it ends.                *)
(* A counter is a cache entry with its count, the end of its window and the  *)
(* instant the cache drops it; one tick is a millisecond, the shortest life  *)
(* the code gives an entry.  The cache is one process's: a restart empties   *)
(* it.  The address provider is Google's (google-places.provider.ts), by the *)
(* shapes of its answers.                                                    *)
EXTENDS Integers, Sequences

CONSTANTS
  Keys,       \* the counters
  Kind,       \* which limit each of them serves
  Requests,   \* calls that may be under way at once
  Limit,      \* the budget of a window
  RateWindow, \* the length of a window, in ticks
  MaxTime     \* bound: time stops here

PlacesKinds == {"autosuggest", "resolve", "reverse", "geocode"}

ASSUME RateLimitsAssumption ==
  /\ Kind \in [Keys -> PlacesKinds \cup {"otp", "taken", "failures"}]
  /\ Limit \in Nat \ {0} /\ RateWindow \in Nat \ {0} /\ MaxTime \in Nat

VARIABLES
  entry,      \* the cached entry of each counter
  chain,      \* the calls queued for each counter, the running one first
  rq,         \* what each call is doing
  reply,      \* the last answer given
  now,        \* the time
  hits,       \* history: writes that counted, since the window opened
  under,      \* history: those of them made while another call held a read
  passed      \* history: calls the limit let through, since the window opened

limitVars == <<entry, chain, rq, reply, now, hits, under, passed>>

NoEntry == [count |-> 0, until |-> 0, drop |-> 0]
Quiet == [key |-> "none", stage |-> "idle", seen |-> NoEntry]
NoReply == [status |-> "none", point |-> "none"]

Chained(k) == Kind[k] \in PlacesKinds

(* What the cache gives back for a counter: nothing once it is dropped.      *)
Cached(k) == IF now < entry[k].drop THEN entry[k] ELSE NoEntry

Later(a, b) == IF a < b THEN b ELSE a

(* The entry a call writes over the one it read: a fresh window, or the same *)
(* window with one more, kept a millisecond at least.                        *)
Incremented(seen) ==
  LET until == IF seen = NoEntry THEN now + RateWindow ELSE seen.until
  IN  [count |-> seen.count + 1, until |-> until, drop |-> Later(until, now + 1)]

(* The call still acts on what it read of the counter.                       *)
Acting(r, k) ==
  rq[r].key = k /\ rq[r].stage \in {"set", "password", "link", "recount", "record"}

(* The call's turn: the calls queued before it for this counter are settled. *)
(* Mutant: calls of one counter interleave. *)
EveryTurn(r) == TRUE
MyTurn(r) == Chained(rq[r].key) => Head(chain[rq[r].key]) = r

RateInit ==
  /\ entry = [k \in Keys |-> NoEntry]
  /\ chain = [k \in Keys |-> <<>>]
  /\ rq = [r \in Requests |-> Quiet]
  /\ reply = NoReply
  /\ now = 0
  /\ hits = [k \in Keys |-> 0]
  /\ under = [k \in Keys |-> 0]
  /\ passed = [k \in Keys |-> 0]

InStage(r, stage) == rq[r].stage = stage
Goes(r, stage, seen) == rq' = [rq EXCEPT ![r].stage = stage, ![r].seen = seen]

Answers(r, status, point) ==
  /\ rq' = [rq EXCEPT ![r] = Quiet]
  /\ reply' = [status |-> status, point |-> point]

(* The counter's queue goes on, whatever became of the call that was served. *)
NextInChain(k) ==
  chain' = IF Chained(k) THEN [chain EXCEPT ![k] = Tail(@)] ELSE chain

(* A counted write lands.  The history opens a new window when the call read *)
(* nothing and no window is running.                                         *)
Lands(r, k, new, through) ==
  LET opens == rq[r].seen = NoEntry /\ now >= entry[k].until
      held == \E s \in Requests \ {r} : Acting(s, k)
  IN  /\ entry' = [entry EXCEPT ![k] = new]
      /\ hits' = [hits EXCEPT ![k] = IF opens THEN 1 ELSE @ + 1]
      /\ under' = [under EXCEPT ![k] =
                     (IF opens THEN 0 ELSE @) + (IF held THEN 1 ELSE 0)]
      /\ passed' = [passed EXCEPT ![k] =
                      (IF opens THEN 0 ELSE @) + (IF through THEN 1 ELSE 0)]

(* A call arrives: a look-up of an address joins its counter's queue.        *)
Arrive(r, k) ==
  /\ InStage(r, "idle")
  /\ rq' = [rq EXCEPT ![r] = [key |-> k, stage |-> "get", seen |-> NoEntry]]
  /\ chain' = IF Chained(k) THEN [chain EXCEPT ![k] = Append(@, r)] ELSE chain
  /\ UNCHANGED <<entry, reply, now, hits, under, passed>>

Counting(k) == Chained(k) \/ Kind[k] = "otp"

(* The read of an increment.                                                 *)
ReadCount(r) ==
  /\ InStage(r, "get") /\ Counting(rq[r].key) /\ MyTurn(r)
  /\ Goes(r, "set", Cached(rq[r].key))
  /\ UNCHANGED <<entry, chain, reply, now, hits, under, passed>>

(* Its write.  Past the budget the answer is 429; otherwise the look-up or   *)
(* the message goes out.                                                     *)
WriteCount(r) ==
  LET k == rq[r].key
      new == Incremented(rq[r].seen)
      through == new.count <= Limit
  IN  /\ InStage(r, "set") /\ MyTurn(r)
      /\ Lands(r, k, new, through)
      /\ NextInChain(k)
      /\ IF ~through
         THEN Answers(r, "429", "none")
         ELSE IF Chained(k)
         THEN Goes(r, "provider", NoEntry) /\ UNCHANGED reply
         ELSE Answers(r, "200", "none")
      /\ UNCHANGED now

(* The cache fails the read or the write: a 502 for a look-up, a 500 for the *)
(* others, and nothing is counted.                                           *)
CacheFails(r) ==
  LET k == rq[r].key
  IN  /\ rq[r].stage \in {"get", "set", "recount", "record"} /\ MyTurn(r)
      /\ NextInChain(k)
      /\ Answers(r, IF Chained(k) THEN "502" ELSE "500", "none")
      /\ UNCHANGED <<entry, now, hits, under, passed>>

(* What Google may send back.                                                *)
Responses == {"unreachable", "http_error", "denied", "zero", "empty",
              "no_point", "half_point", "off_map", "point"}

Throws == [status |-> "throws", point |-> "none"]
Gives(point) == [status |-> "200", point |-> point]

GoogleSuggests(raw) ==
  IF raw \in {"unreachable", "http_error"} THEN Throws ELSE Gives("none")

GoogleResolves(raw) ==
  IF raw \in {"off_map", "point"} THEN Gives(raw) ELSE Throws

GoogleReverses(raw) ==
  IF raw \in {"unreachable", "http_error", "denied"} THEN Throws ELSE Gives("none")

GoogleLocates(raw) ==
  IF raw \in {"unreachable", "http_error", "denied"} THEN Throws
  ELSE IF raw \in {"off_map", "point"} THEN Gives(raw) ELSE Gives("none")

(* The look-ups: a provider that throws, or coordinates off the map, is the  *)
(* documented 502; an address without coordinates is an answer only where    *)
(* the endpoint has one.                                                     *)
Refusing(given) == IF given.status = "throws" THEN [given EXCEPT !.status = "502"] ELSE given

autosuggest(raw) == Refusing(GoogleSuggests(raw))

resolve(raw) ==
  LET given == GoogleResolves(raw)
  IN  IF given.point = "off_map" THEN [status |-> "502", point |-> "none"]
      ELSE Refusing(given)

reverse(raw) == Refusing(GoogleReverses(raw))

(* A blank street is nothing to look up.                                     *)
geocodeAddress(raw, street) ==
  LET given == GoogleLocates(raw)
  IN  IF ~street THEN Gives("none")
      ELSE IF given.point = "off_map" THEN [status |-> "502", point |-> "none"]
      ELSE Refusing(given)

LookUp(r) ==
  /\ InStage(r, "provider")
  /\ \E raw \in Responses, street \in BOOLEAN :
       LET given == CASE Kind[rq[r].key] = "autosuggest" -> autosuggest(raw)
                      [] Kind[rq[r].key] = "resolve"     -> resolve(raw)
                      [] Kind[rq[r].key] = "reverse"     -> reverse(raw)
                      [] OTHER                           -> geocodeAddress(raw, street)
       IN  Answers(r, given.status, given.point)
  /\ UNCHANGED <<entry, chain, now, hits, under, passed>>

(* EmailLinkService.assertNotPaused and the head of EmailLoginService.login: *)
(* at the limit the call is refused before anything else.                    *)
CheckPaused(r) ==
  LET k == rq[r].key
      seen == Cached(k)
  IN  /\ InStage(r, "get") /\ ~Counting(k)
      /\ IF seen.count >= Limit
         THEN Answers(r, "429", "none")
         ELSE /\ UNCHANGED reply
              /\ IF Kind[k] = "failures" THEN Goes(r, "password", seen)
                                         ELSE Goes(r, "link", NoEntry)
      /\ UNCHANGED <<entry, chain, now, hits, under, passed>>

(* The password is wrong, or the e-mail has no account or a disabled one:    *)
(* the failure is recorded.  A database fault is not a failure.              *)
LoginFails(r) ==
  /\ InStage(r, "password")
  /\ \/ Goes(r, "record", rq[r].seen) /\ UNCHANGED reply
     \/ Answers(r, "500", "none")
  /\ UNCHANGED <<entry, chain, now, hits, under, passed>>

(* The person is let in and the counter forgotten.                           *)
LoginSucceeds(r) ==
  LET k == rq[r].key
  IN  /\ InStage(r, "password")
      /\ entry' = [entry EXCEPT ![k] = NoEntry]
      /\ hits' = [hits EXCEPT ![k] = 0]
      /\ under' = [under EXCEPT ![k] = 0]
      /\ passed' = [passed EXCEPT ![k] = 0]
      /\ Answers(r, "200", "none")
      /\ UNCHANGED <<chain, now>>

(* The address turns out to be another account's, and the counter is read    *)
(* again; any other outcome of the link counts nothing.                      *)
LinkAnswered(r) ==
  /\ InStage(r, "link")
  /\ \/ Goes(r, "recount", NoEntry) /\ UNCHANGED reply
     \/ Answers(r, "200", "none")
  /\ UNCHANGED <<entry, chain, now, hits, under, passed>>

ReadTaken(r) ==
  /\ InStage(r, "recount")
  /\ Goes(r, "record", Cached(rq[r].key))
  /\ UNCHANGED <<entry, chain, reply, now, hits, under, passed>>

(* recordTakenAnswer and recordFailure: the write, over the entry read       *)
(* before.                                                                   *)
Record(r) ==
  LET k == rq[r].key
  IN  /\ InStage(r, "record")
      /\ Lands(r, k, Incremented(rq[r].seen), TRUE)
      /\ Answers(r, IF Kind[k] = "taken" THEN "409" ELSE "401", "none")
      /\ UNCHANGED <<chain, now>>

Tick ==
  /\ now < MaxTime
  /\ now' = now + 1
  /\ UNCHANGED <<entry, chain, rq, reply, hits, under, passed>>

(* The process is replaced: cache, queues and calls are gone.                *)
RateRestart ==
  /\ \E r \in Requests : ~InStage(r, "idle")
  /\ entry' = [k \in Keys |-> NoEntry]
  /\ chain' = [k \in Keys |-> <<>>]
  /\ rq' = [r \in Requests |-> Quiet]
  /\ hits' = [k \in Keys |-> 0]
  /\ under' = [k \in Keys |-> 0]
  /\ passed' = [k \in Keys |-> 0]
  /\ UNCHANGED <<reply, now>>

RateStep(r) ==
  \/ ReadCount(r) \/ WriteCount(r) \/ CacheFails(r) \/ LookUp(r)
  \/ CheckPaused(r) \/ LoginFails(r) \/ LoginSucceeds(r)
  \/ LinkAnswered(r) \/ ReadTaken(r) \/ Record(r)

RateNext ==
  \/ \E r \in Requests : RateStep(r) \/ \E k \in Keys : Arrive(r, k)
  \/ Tick
  \/ RateRestart

RateSpec == RateInit /\ [][RateNext]_limitVars

(***************************************************************************)
(* Properties                                                              *)
(***************************************************************************)
RateTypeOK ==
  /\ entry \in [Keys -> [count : Nat, until : Nat, drop : Nat]]
  /\ chain \in [Keys -> Seq(Requests)]
  /\ now \in 0..MaxTime
  /\ hits \in [Keys -> Nat] /\ under \in [Keys -> Nat] /\ passed \in [Keys -> Nat]

(* The queue makes a look-up's counter exact: while its window is open it    *)
(* stands at the number of calls counted, none was counted on an entry       *)
(* another call was about to replace, and no more than the budget went on to *)
(* the provider, whatever failed in between.                                 *)
PlacesExact ==
  \A k \in Keys :
    Chained(k) =>
      /\ under[k] = 0
      /\ passed[k] <= Limit
      /\ Cached(k) # NoEntry => Cached(k).count = hits[k]

(* The other counters may fall short, but only by the calls counted while    *)
(* another one held an older read: that many more than the budget may pass.  *)
ShortOnlyByOverlap ==
  \A k \in Keys :
    /\ passed[k] <= Limit + under[k]
    /\ Cached(k) # NoEntry => hits[k] <= Cached(k).count + under[k]

(* The queue of a counter holds exactly the calls on it that are still       *)
(* counting, so that none is left waiting behind one that is gone.           *)
ChainsHoldTheWaiting ==
  \A k \in Keys :
    LET waiting == {r \in Requests : rq[r].key = k /\ rq[r].stage \in {"get", "set"}}
    IN  Chained(k) => /\ {chain[k][i] : i \in DOMAIN chain[k]} = waiting
                      /\ \A i, j \in DOMAIN chain[k] : i # j => chain[k][i] # chain[k][j]

LimitsHold == PlacesExact /\ ShortOnlyByOverlap /\ ChainsHoldTheWaiting
=============================================================================
