---------------------------- MODULE DeliveryProofs ----------------------------
(***************************************************************************)
(* What TLAPS proves of the calls that go on after their first statement:  *)
(* the stored answers of repeated requests, the push messages, the reports *)
(* of photos, the limits on calls, the sign-ins and the purge of accounts, *)
(* for any number of attempts, hours, instances, rows, phones, photos,     *)
(* people, reviewers, counters, callers, codes and accounts.               *)
(***************************************************************************)
EXTENDS IdempotentRequests, PushSweep, PhotoModeration, RateLimits, SignIn, AccountPurge,
        FiniteSetTheorems, SequenceTheorems, TLAPS

-----------------------------------------------------------------------------
(***************************************************************************)
(* Repeated requests.                                                      *)
(***************************************************************************)

CallStates ==
  {"unsent", "replayed", "running", "storing", "stored", "conflict", "lost"}

RequestTypes ==
  /\ hour \in Nat
  /\ stored \in {NoLog} \cup [answer : Attempts, at : Nat]
  /\ call \in [Attempts -> CallStates]
  /\ inserted \in [Attempts -> Nat \cup {Never}]
  /\ known \in [Attempts -> SUBSET Attempts]

(* The stored row is its attempt's, and an answer inserted within the      *)
(* window still is the stored one.                                         *)
WindowKept ==
  /\ stored # NoLog => inserted[stored.answer] = stored.at
  /\ \A b \in Remembered : stored # NoLog /\ stored.at = inserted[b]

RequestInv == RequestTypes /\ WindowKept /\ RepeatsExplained

LEMMA WindowIsANumber == Window \in Nat \ {0} /\ NoAnswer \notin Attempts
BY RequestAssumption DEF RequestAssumption

(* A row is not the empty one.                                             *)
LEMMA RowIsAnAnswer ==
  ASSUME NEW a \in Attempts, NEW h
  PROVE  [answer |-> a, at |-> h] # NoLog
BY WindowIsANumber DEF NoLog

(* A look-up finds a fresh row exactly when something is remembered.       *)
LEMMA LookUpTells ==
  ASSUME RequestTypes, WindowKept
  PROVE  Remembered = {} <=> ~(stored # NoLog /\ Fresh(stored.at))
<1>1. ASSUME NEW b \in Remembered PROVE stored # NoLog /\ Fresh(stored.at)
  BY DEF WindowKept, Remembered
<1>2. ASSUME stored # NoLog, Fresh(stored.at) PROVE stored.answer \in Remembered
  <2>1. stored.answer \in Attempts
    BY <1>2 DEF RequestTypes
  <2> QED BY <1>2, <2>1 DEF WindowKept, Remembered
<1> QED BY <1>1, <1>2

LEMMA RequestStart == RequestInit => RequestInv
BY DEF RequestInit, RequestInv, RequestTypes, WindowKept, RepeatsExplained,
       CallStates, NoLog, Never, Remembered, Fresh

LEMMA HourKeeps ==
  ASSUME RequestInv, HourPasses
  PROVE  RequestInv'
<1>1. hour \in Nat /\ hour' = hour + 1 /\ Window \in Nat
  BY WindowIsANumber DEF RequestInv, RequestTypes, HourPasses
<1>2. Remembered' \subseteq Remembered
  BY <1>1 DEF Remembered, Fresh, HourPasses, RequestInv, RequestTypes, Never
<1> QED BY <1>1, <1>2 DEF RequestInv, RequestTypes, WindowKept, RepeatsExplained, HourPasses

LEMMA PruneKeeps ==
  ASSUME RequestInv, Prune
  PROVE  RequestInv'
<1>1. hour \in Nat /\ Window \in Nat /\ stored.at \in Nat
  BY WindowIsANumber DEF RequestInv, RequestTypes, Prune
<1>2. Remembered = {}
  <2> SUFFICES ASSUME NEW b \in Remembered PROVE FALSE
    OBVIOUS
  <2>1. stored.at > hour - Window
    BY DEF RequestInv, WindowKept, Remembered, Fresh
  <2> QED BY <1>1, <2>1 DEF Prune
<1>3. Remembered' = Remembered
  BY DEF Remembered, Fresh, Prune
<1> QED BY <1>2, <1>3 DEF RequestInv, RequestTypes, WindowKept, RepeatsExplained, Prune

LEMMA LookUpKeeps ==
  ASSUME RequestInv, NEW a \in Attempts, LookUpAnswer(a) \/ LookUpFails(a)
  PROVE  RequestInv'
<1>1. Remembered' = Remembered /\ Remembered \subseteq Attempts
  BY DEF Remembered, Fresh, LookUpAnswer, LookUpFails
<1>2. RequestTypes' /\ WindowKept'
  BY <1>1 DEF RequestInv, RequestTypes, WindowKept, LookUpAnswer, LookUpFails, Proceed,
              CallStates
<1>3. RepeatsExplained'
  <2>1. \A b \in Attempts : b # a => call'[b] = call[b] /\ known'[b] = known[b]
    BY DEF RequestInv, RequestTypes, LookUpAnswer, LookUpFails, Proceed
  <2>2. CASE LookUpAnswer(a)
    <3>1. /\ known'[a] = Remembered
          /\ call'[a] = IF stored # NoLog /\ Fresh(stored.at) THEN "replayed" ELSE "running"
      BY <2>2 DEF RequestInv, RequestTypes, LookUpAnswer, Proceed
    <3> QED BY <2>1, <3>1, LookUpTells DEF RequestInv, RepeatsExplained
  <2>3. CASE LookUpFails(a)
    <3>1. known'[a] = {} /\ call'[a] = "running"
      BY <2>3 DEF RequestInv, RequestTypes, LookUpFails, Proceed
    <3> QED BY <2>1, <3>1 DEF RequestInv, RepeatsExplained
  <2> QED BY <2>2, <2>3
<1> QED BY <1>2, <1>3 DEF RequestInv

LEMMA StoreKeeps ==
  ASSUME RequestInv, NEW a \in Attempts, StoreAnswer(a)
  PROVE  RequestInv'
<1>1. RepeatsExplained' /\ call' \in [Attempts -> CallStates]
  BY DEF RequestInv, RequestTypes, RepeatsExplained, StoreAnswer, Proceed, CallStates
<1>2. CASE stored # NoLog
  <2>1. stored' = stored /\ inserted' = inserted /\ hour' = hour
    BY <1>2 DEF StoreAnswer
  <2> QED BY <1>1, <2>1 DEF RequestInv, RequestTypes, WindowKept, StoreAnswer, Remembered,
                            Fresh
<1>3. CASE stored = NoLog
  <2>1. /\ stored' = [answer |-> a, at |-> hour]
        /\ inserted' = [inserted EXCEPT ![a] = hour] /\ hour' = hour /\ known' = known
    BY <1>3 DEF StoreAnswer
  <2>2. Remembered' \subseteq {a}
    <3>1. \A b \in Attempts \ {a} : inserted'[b] = inserted[b]
      BY <2>1 DEF RequestInv, RequestTypes
    <3>2. Remembered = {}
      BY <1>3 DEF RequestInv, WindowKept
    <3> QED BY <2>1, <3>1, <3>2 DEF Remembered, Fresh
  <2>3. inserted'[a] = hour /\ stored' # NoLog /\ stored'.at = hour /\ stored'.answer = a
    BY <2>1, RowIsAnAnswer DEF RequestInv, RequestTypes
  <2>4. RequestTypes'
    BY <1>1, <2>1 DEF RequestInv, RequestTypes
  <2> QED BY <1>1, <2>2, <2>3, <2>4 DEF RequestInv, WindowKept
<1> QED BY <1>2, <1>3

LEMMA RequestStep == RequestInv /\ [RequestNext]_requestVars => RequestInv'
<1> SUFFICES ASSUME RequestInv, [RequestNext]_requestVars PROVE RequestInv'
  OBVIOUS
<1>1. CASE UNCHANGED requestVars
  BY <1>1 DEF requestVars, RequestInv, RequestTypes, WindowKept, RepeatsExplained,
              Remembered, Fresh
<1>2. ASSUME NEW a \in Attempts, Handle(a) \/ StoreLost(a) PROVE RequestInv'
  <2>1. UNCHANGED <<hour, stored, inserted, known>>
    BY <1>2 DEF Handle, StoreLost
  <2>2. /\ call' \in [Attempts -> CallStates]
        /\ \A b \in Attempts : b # a => call'[b] = call[b]
        /\ call[a] \in {"running", "storing"} /\ call'[a] \in {"storing", "unsent", "lost"}
    BY <1>2 DEF Handle, StoreLost, Proceed, RequestInv, RequestTypes, CallStates
  <2> QED BY <2>1, <2>2 DEF RequestInv, RequestTypes, WindowKept, RepeatsExplained,
                            Remembered, Fresh
<1> QED BY <1>1, <1>2, HourKeeps, PruneKeeps, LookUpKeeps, StoreKeeps DEF RequestNext

(* Within the window the handler runs again only for a reason.             *)
THEOREM RepeatsAreExplained == RequestSpec => []RepeatsExplained
<1>1. RequestInv => RepeatsExplained
  BY DEF RequestInv
<1> QED BY <1>1, RequestStart, RequestStep, PTL DEF RequestSpec

-----------------------------------------------------------------------------
(***************************************************************************)
(* Push messages.                                                          *)
(***************************************************************************)

SweepStates == {"idle", "claimed", "sending", "deleting"}

SweepType ==
  [state : SweepStates, rows : SUBSET Notes, queue : SUBSET Messages,
   dead : SUBSET Tokens, attempt : Nat]

PushTypes ==
  /\ note \in [Notes -> [to : People \cup {Nobody}, born : Int, pushed : BOOLEAN]]
  /\ clock \in Int
  /\ bound \in [Tokens -> People \cup {Nobody}] /\ last \in [Tokens -> People \cup {Nobody}]
  /\ active \subseteq People
  /\ sweep \in [Instances -> SweepType]
  /\ copies \in [Messages -> Nat] /\ retried \in [Messages -> Nat]
  /\ lookedUp \in [Messages -> People \cup {Nobody}]

(* A bound token is bound to whom registered it last; what is queued or    *)
(* was sent was looked up for its recipient.                               *)
Addressees ==
  /\ \A t \in Tokens : bound[t] # Nobody => last[t] = bound[t]
  /\ \A m \in Messages :
       copies[m] > 0 \/ (\E s \in Instances : m \in sweep[s].queue) =>
         note[m[1]].to # Nobody /\ lookedUp[m] = note[m[1]].to

(* Only a claim holds rows, only what follows it holds messages; a row is  *)
(* held once and not pushed before its claim committed, and a message is   *)
(* queued once, its row pushed.                                            *)
Claims ==
  /\ \A s \in Instances :
       /\ sweep[s].state # "claimed" => sweep[s].rows = {}
       /\ sweep[s].state \in {"idle", "claimed"} => sweep[s].queue = {}
       /\ \A n \in sweep[s].rows : ~note[n].pushed /\ note[n].to # Nobody
       /\ \A m \in sweep[s].queue : note[m[1]].pushed
  /\ \A s, o \in Instances : s # o =>
       sweep[s].rows \cap sweep[o].rows = {} /\ sweep[s].queue \cap sweep[o].queue = {}

(* Whoever is still to be sent a message has had it only by failed calls.  *)
Copied ==
  /\ \A m \in Messages : copies[m] <= 1 + retried[m]
  /\ \A m \in Messages : ~note[m[1]].pushed => copies[m] = 0
  /\ \A s \in Instances : \A m \in sweep[s].queue : copies[m] <= retried[m]

PushInv == PushTypes /\ Addressees /\ Claims /\ Copied

LEMMA MessagePair ==
  ASSUME NEW m \in Messages
  PROVE  m[1] \in Notes /\ m[2] \in Tokens
BY DEF Messages

LEMMA IdleTyped ==
  /\ Idle \in SweepType
  /\ Idle.state = "idle" /\ Idle.rows = {} /\ Idle.queue = {}
BY DEF Idle, SweepType, SweepStates

LEMMA NobodyApart == Nobody \notin People
BY PushAssumption DEF PushAssumption

LEMMA PushStart == PushInit => PushInv
BY IdleTyped, NobodyApart DEF PushInit, PushInv, PushTypes, Addressees, Claims, Copied, Messages

(* The rest of the system touches no sweep and no message.                 *)
LEMMA OthersKeep ==
  ASSUME PushInv,
         \/ Passes
         \/ \E p \in People : \/ LoseMembership(p)
                              \/ \E n \in Notes : Insert(n, p)
                              \/ \E t \in Tokens : Register(p, t)
         \/ \E t \in Tokens : Unregister(t)
  PROVE  PushInv'
<1>1. ASSUME Passes \/ \E p \in People : LoseMembership(p) PROVE PushInv'
  BY <1>1 DEF Passes, LoseMembership, PushInv, PushTypes, Addressees, Claims, Copied
<1>2. ASSUME NEW n \in Notes, NEW p \in People, Insert(n, p) PROVE PushInv'
  <2>1. /\ note[n].to = Nobody
        /\ note' \in [Notes -> [to : People \cup {Nobody}, born : Int, pushed : BOOLEAN]]
        /\ \A k \in Notes : note'[k].pushed = note[k].pushed
        /\ \A k \in Notes : k # n => note'[k].to = note[k].to
        /\ note'[n].to = p
    BY <1>2 DEF Insert, PushInv, PushTypes
  <2>2. UNCHANGED <<clock, bound, active, sweep, copies, retried, last, lookedUp>>
    BY <1>2 DEF Insert
  <2>3. PushTypes'
    BY <2>1, <2>2 DEF PushInv, PushTypes
  <2>4. Addressees'
    BY <2>1, <2>2, MessagePair DEF PushInv, Addressees
  <2>5. Claims'
    <3>1. \A s \in Instances : sweep[s].rows \subseteq Notes /\ sweep[s].queue \subseteq Messages
      BY DEF PushInv, PushTypes, SweepType
    <3> QED BY <2>1, <2>2, <3>1, MessagePair, NobodyApart DEF PushInv, Claims
  <2>6. Copied'
    BY <2>1, <2>2, MessagePair DEF PushInv, Copied
  <2> QED BY <2>3, <2>4, <2>5, <2>6 DEF PushInv
<1>3. ASSUME NEW p \in People, NEW t \in Tokens, Register(p, t) PROVE PushInv'
  BY <1>3 DEF Register, PushInv, PushTypes, Addressees, Claims, Copied
<1>4. ASSUME NEW t \in Tokens, Unregister(t) PROVE PushInv'
  BY <1>4 DEF Unregister, PushInv, PushTypes, Addressees, Claims, Copied
<1> QED BY <1>1, <1>2, <1>3, <1>4

(* A sweep that lets go of rows or messages, and writes nothing else.      *)
LEMMA LettingGo ==
  ASSUME PushInv, NEW s \in Instances, NEW kept \in SweepType,
         sweep' = [sweep EXCEPT ![s] = kept],
         kept.rows = {}, kept.queue \subseteq sweep[s].queue,
         kept.state \in {"idle", "claimed"} => kept.queue = {},
         UNCHANGED <<clock, note, active, copies, retried, last, lookedUp>>,
         bound' \in [Tokens -> People \cup {Nobody}],
         \A t \in Tokens : bound'[t] \in {bound[t], Nobody}
  PROVE  PushInv'
<1>1. /\ sweep'[s] = kept /\ sweep' \in [Instances -> SweepType]
      /\ \A o \in Instances : o # s => sweep'[o] = sweep[o]
  BY DEF PushInv, PushTypes
<1>2. \A o \in Instances : /\ sweep'[o].queue \subseteq sweep[o].queue
                           /\ sweep'[o].rows \subseteq sweep[o].rows
  BY <1>1
<1>3. PushTypes'
  BY <1>1 DEF PushInv, PushTypes
<1>4. Addressees'
  BY <1>2 DEF PushInv, Addressees
<1>5. Claims'
  BY <1>1, <1>2 DEF PushInv, Claims
<1>6. Copied'
  BY <1>2 DEF PushInv, Copied
<1> QED BY <1>3, <1>4, <1>5, <1>6 DEF PushInv

LEMMA ClaimKeeps ==
  ASSUME PushInv, NEW s \in Instances, Claim(s)
  PROVE  PushInv'
<1>1. PICK r \in SUBSET Claimable :
        sweep' = [sweep EXCEPT ![s] = [Idle EXCEPT !.state = "claimed", !.rows = r]]
  BY DEF Claim, Oldest
<1> DEFINE claimed == [Idle EXCEPT !.state = "claimed", !.rows = r]
<1>2. claimed \in SweepType /\ claimed.rows = r /\ claimed.queue = {} /\ claimed.state = "claimed"
  BY DEF Idle, SweepType, SweepStates, Claimable
<1>3. UNCHANGED <<clock, note, bound, active, copies, retried, last, lookedUp>>
  BY DEF Claim
<1> HIDE DEF claimed
<1>4. /\ sweep'[s] = claimed /\ sweep' \in [Instances -> SweepType]
      /\ \A o \in Instances : o # s => sweep'[o] = sweep[o]
  BY <1>1, <1>2 DEF PushInv, PushTypes, claimed
<1>5. \A n \in r : ~note[n].pushed /\ note[n].to # Nobody
                   /\ \A o \in Instances : n \notin sweep[o].rows
  BY DEF Claimable, BeingClaimed
<1>6. PushTypes'
  BY <1>3, <1>4 DEF PushInv, PushTypes
<1>7. Addressees' /\ Copied'
  <2>1. \A o \in Instances : sweep'[o].queue \subseteq sweep[o].queue
    BY <1>2, <1>4
  <2> QED BY <1>3, <2>1 DEF PushInv, Addressees, Copied
<1>8. Claims'
  BY <1>2, <1>3, <1>4, <1>5 DEF PushInv, Claims
<1> QED BY <1>6, <1>7, <1>8 DEF PushInv

LEMMA LookUpTokensKeeps ==
  ASSUME PushInv, NEW s \in Instances, LookUpTokens(s)
  PROVE  PushInv'
<1> DEFINE r == sweep[s].rows
           q == Addressed(r)
           next == IF q = {} THEN Idle ELSE [Idle EXCEPT !.state = "sending", !.queue = q]
<1>1. /\ sweep[s].state = "claimed"
      /\ note' = [n \in Notes |-> [note[n] EXCEPT !.pushed = @ \/ n \in r]]
      /\ lookedUp' = [m \in Messages |-> IF m \in q THEN last[m[2]] ELSE lookedUp[m]]
      /\ sweep' = [sweep EXCEPT ![s] = next]
      /\ UNCHANGED <<clock, bound, active, copies, retried, last, faults>>
  BY DEF LookUpTokens
<1>2. r \subseteq Notes
  BY DEF PushInv, PushTypes, SweepType
<1>3. q \subseteq Messages /\ \A m \in q : /\ m[1] \in r /\ bound[m[2]] = note[m[1]].to
                                           /\ note[m[1]].to \in People
  BY <1>2 DEF Addressed, Messages, PushInv, PushTypes
<1>4. next \in SweepType /\ next.rows = {} /\ next.queue = q /\ next.state \in {"idle", "sending"}
      /\ (next.state = "idle" => q = {})
  BY <1>3, IdleTyped DEF Idle, SweepType, SweepStates
<1>5. /\ note' \in [Notes -> [to : People \cup {Nobody}, born : Int, pushed : BOOLEAN]]
      /\ \A n \in Notes : /\ note'[n].to = note[n].to
                          /\ note'[n].pushed <=> note[n].pushed \/ n \in r
  BY <1>1 DEF PushInv, PushTypes
<1>6. \A m \in q : lookedUp'[m] = note[m[1]].to /\ note[m[1]].to # Nobody
  <2> SUFFICES ASSUME NEW m \in q PROVE lookedUp'[m] = note[m[1]].to /\ note[m[1]].to # Nobody
    OBVIOUS
  <2>1. m \in Messages /\ bound[m[2]] = note[m[1]].to /\ note[m[1]].to # Nobody
    BY <1>3, NobodyApart
  <2>2. last[m[2]] = bound[m[2]]
    BY <2>1, MessagePair DEF PushInv, Addressees
  <2> QED BY <1>1, <2>1, <2>2
<1>7. \A m \in q : copies[m] = 0 /\ ~note[m[1]].pushed
  BY <1>3 DEF PushInv, Claims, Copied
<1>8. \A o \in Instances : sweep[o].queue \subseteq Messages /\ sweep[o].rows \subseteq Notes
  BY DEF PushInv, PushTypes, SweepType
<1> HIDE DEF r, q, next
<1>9. /\ sweep'[s] = next /\ sweep' \in [Instances -> SweepType]
      /\ \A o \in Instances : o # s => sweep'[o] = sweep[o]
  BY <1>1, <1>4 DEF PushInv, PushTypes
<1>10. PushTypes'
  <2>1. lookedUp' \in [Messages -> People \cup {Nobody}]
    BY <1>1, MessagePair DEF PushInv, PushTypes
  <2> QED BY <1>1, <1>5, <1>9, <2>1 DEF PushInv, PushTypes
<1>11. Addressees'
  <2>1. \A m \in Messages : note'[m[1]].to = note[m[1]].to
    BY <1>5, MessagePair
  <2>2. \A m \in Messages \ q : lookedUp'[m] = lookedUp[m]
    BY <1>1
  <2>3. \A m \in Messages \ q :
          (\E o \in Instances : m \in sweep'[o].queue) => \E o \in Instances : m \in sweep[o].queue
    BY <1>4, <1>9
  <2>4. \A t \in Tokens : bound'[t] # Nobody => last'[t] = bound'[t]
    BY <1>1 DEF PushInv, Addressees
  <2>5. \A m \in Messages :
          copies'[m] > 0 \/ (\E o \in Instances : m \in sweep'[o].queue) =>
            note'[m[1]].to # Nobody /\ lookedUp'[m] = note'[m[1]].to
    BY <1>1, <1>6, <2>1, <2>2, <2>3 DEF PushInv, Addressees
  <2> QED BY <2>4, <2>5 DEF Addressees
<1>12. Claims'
  <2>1. \A o \in Instances : o # s => sweep[o].rows \cap r = {}
    BY DEF PushInv, Claims, r
  <2>2. \A o \in Instances : \A m \in sweep[o].queue : note[m[1]].pushed /\ m[1] \in Notes
    BY <1>8, MessagePair DEF PushInv, Claims
  <2>3. \A m \in q : m[1] \in r /\ m[1] \in Notes
    BY <1>2, <1>3
  <2>4. ASSUME NEW o \in Instances
        PROVE  /\ sweep'[o].state # "claimed" => sweep'[o].rows = {}
               /\ sweep'[o].state \in {"idle", "claimed"} => sweep'[o].queue = {}
               /\ \A n \in sweep'[o].rows : ~note'[n].pushed /\ note'[n].to # Nobody
               /\ \A m \in sweep'[o].queue : note'[m[1]].pushed
    <3>1. CASE o = s
      BY <1>4, <1>5, <1>9, <2>3, <3>1
    <3>2. CASE o # s
      BY <1>5, <1>8, <1>9, <2>1, <2>2, <3>2 DEF PushInv, Claims
    <3> QED BY <3>1, <3>2
  <2>5. ASSUME NEW o \in Instances, NEW w \in Instances, o # w
        PROVE  /\ sweep'[o].rows \cap sweep'[w].rows = {}
               /\ sweep'[o].queue \cap sweep'[w].queue = {}
    BY <1>4, <1>7, <1>9, <2>2, <2>5 DEF PushInv, Claims
  <2> QED BY <2>4, <2>5 DEF Claims
<1>13. Copied'
  <2>1. \A m \in Messages : ~note'[m[1]].pushed => ~note[m[1]].pushed
    BY <1>5, MessagePair
  <2>2. \A m \in q : copies[m] <= retried[m]
    BY <1>3, <1>7 DEF PushInv, PushTypes
  <2>3. \A o \in Instances : \A m \in sweep'[o].queue : copies[m] <= retried[m]
    BY <1>4, <1>9, <2>2 DEF PushInv, Copied
  <2> QED BY <1>1, <2>1, <2>3 DEF PushInv, Copied
<1> QED BY <1>10, <1>11, <1>12, <1>13 DEF PushInv

(* After an attempt the messages to be tried again stay, the rest go.      *)
LEMMA AfterSendKeeps ==
  ASSUME PushInv, NEW s \in Instances, sweep[s].state = "sending",
         NEW dead \in SUBSET Tokens, NEW retry \in SUBSET sweep[s].queue,
         AfterSend(s, dead, retry)
  PROVE  /\ sweep' \in [Instances -> SweepType]
         /\ \A o \in Instances : o # s => sweep'[o] = sweep[o]
         /\ sweep'[s].rows = {} /\ sweep'[s].queue \subseteq retry
         /\ sweep'[s].state \in {"idle", "claimed"} => sweep'[s].queue = {}
<1> DEFINE again == IF sweep[s].attempt < MaxRetries THEN retry ELSE {}
           attempt == sweep[s].attempt + 1
           next == IF dead # {} THEN [Idle EXCEPT !.state = "deleting", !.dead = dead,
                                        !.queue = again, !.attempt = attempt]
                   ELSE IF again = {} THEN Idle
                   ELSE [Idle EXCEPT !.state = "sending", !.queue = again,
                                     !.attempt = attempt]
<1>1. sweep' = [sweep EXCEPT ![s] = next]
  BY DEF AfterSend
<1>2. attempt \in Nat /\ sweep[s].queue \subseteq Messages
  BY DEF PushInv, PushTypes, SweepType
<1>3. again \subseteq retry /\ again \subseteq Messages
  BY <1>2
<1> HIDE DEF again, attempt
<1>4. CASE dead # {}
  <2>1. next = [Idle EXCEPT !.state = "deleting", !.dead = dead, !.queue = again,
                            !.attempt = attempt]
    BY <1>4
  <2>2. /\ next \in SweepType /\ next.rows = {} /\ next.queue = again
        /\ next.state = "deleting"
    BY <1>2, <1>3, <2>1 DEF Idle, SweepType, SweepStates
  <2> HIDE DEF next
  <2> QED BY <1>1, <1>3, <2>2 DEF PushInv, PushTypes
<1>5. CASE dead = {} /\ again = {}
  <2>1. next = Idle
    BY <1>5
  <2> HIDE DEF next
  <2> QED BY <1>1, <2>1, IdleTyped DEF PushInv, PushTypes
<1>6. CASE dead = {} /\ again # {}
  <2>1. next = [Idle EXCEPT !.state = "sending", !.queue = again, !.attempt = attempt]
    BY <1>6
  <2>2. /\ next \in SweepType /\ next.rows = {} /\ next.queue = again
        /\ next.state = "sending"
    BY <1>2, <1>3, <2>1 DEF Idle, SweepType, SweepStates
  <2> HIDE DEF next
  <2> QED BY <1>1, <1>3, <2>2 DEF PushInv, PushTypes
<1> QED BY <1>4, <1>5, <1>6

(* One attempt: what was delivered goes unless the whole call failed.      *)
LEMMA AttemptKeeps ==
  ASSUME PushInv, NEW s \in Instances, sweep[s].state = "sending",
         NEW sent \in SUBSET sweep[s].queue, Deliver(sent),
         NEW dead \in SUBSET Tokens, NEW retry \in SUBSET sweep[s].queue,
         AfterSend(s, dead, retry),
         \/ retried' = retried /\ retry \cap sent = {}
         \/ retried' = [m \in Messages |->
              IF m \in sweep[s].queue THEN retried[m] + 1 ELSE retried[m]],
         UNCHANGED <<clock, note, bound, active, last, lookedUp>>
  PROVE  PushInv'
<1>1. /\ sweep' \in [Instances -> SweepType]
      /\ \A o \in Instances : o # s => sweep'[o] = sweep[o]
      /\ sweep'[s].rows = {} /\ sweep'[s].queue \subseteq retry
      /\ sweep'[s].state \in {"idle", "claimed"} => sweep'[s].queue = {}
  BY AfterSendKeeps
<1>2. \A o \in Instances : /\ sweep'[o].queue \subseteq sweep[o].queue
                           /\ sweep'[o].rows \subseteq sweep[o].rows
  BY <1>1
<1>3. sweep[s].queue \subseteq Messages
  BY DEF PushInv, PushTypes, SweepType
<1>4. \A m \in Messages :
        /\ copies[m] \in Nat /\ retried[m] \in Nat
        /\ copies'[m] = IF m \in sent THEN copies[m] + 1 ELSE copies[m]
  BY DEF PushInv, PushTypes, Deliver
<1>5. copies' \in [Messages -> Nat]
  BY <1>4 DEF Deliver
<1>6. /\ retried' \in [Messages -> Nat]
      /\ \A m \in Messages : retried'[m] >= retried[m]
      /\ \A m \in retry \cap sent : retried'[m] = retried[m] + 1
  BY <1>3, <1>4 DEF PushInv, PushTypes
<1>7. PushTypes'
  BY <1>1, <1>5, <1>6 DEF PushInv, PushTypes
<1>8. Addressees'
  <2>1. \A m \in Messages :
          copies'[m] > 0 => copies[m] > 0 \/ m \in sweep[s].queue
    BY <1>4
  <2> QED BY <1>2, <2>1 DEF PushInv, Addressees
<1>9. Claims'
  BY <1>1, <1>2 DEF PushInv, Claims
<1>10. Copied'
  <2>1. \A m \in sent : m \in Messages /\ copies[m] <= retried[m] /\ note[m[1]].pushed
    BY <1>3 DEF PushInv, Claims, Copied
  <2>2. \A m \in Messages : copies'[m] <= 1 + retried'[m]
    BY <1>4, <1>6, <2>1 DEF PushInv, PushTypes, Copied
  <2>3. \A m \in Messages : ~note'[m[1]].pushed => copies'[m] = 0
    BY <1>4, <2>1 DEF PushInv, Copied
  <2>4. \A m \in sweep'[s].queue : copies'[m] <= retried'[m]
    <3> SUFFICES ASSUME NEW m \in sweep'[s].queue PROVE copies'[m] <= retried'[m]
      OBVIOUS
    <3>1. m \in retry /\ m \in Messages /\ copies[m] <= retried[m]
      BY <1>1, <1>3 DEF PushInv, Copied
    <3>2. retried'[m] \in Nat
      BY <1>6, <3>1
    <3> QED BY <1>4, <1>6, <3>1, <3>2
  <2>5. ASSUME NEW o \in Instances, o # s, NEW m \in sweep'[o].queue
        PROVE  copies'[m] <= retried'[m]
    <3>1. m \in sweep[o].queue /\ m \in Messages
      BY <1>2, <2>5 DEF PushInv, PushTypes, SweepType
    <3>2. m \notin sent /\ copies[m] <= retried[m]
      BY <2>5, <3>1 DEF PushInv, Claims, Copied
    <3>3. retried'[m] \in Nat
      BY <1>6, <3>1
    <3> QED BY <1>4, <1>6, <3>1, <3>2, <3>3
  <2> QED BY <2>2, <2>3, <2>4, <2>5 DEF Copied
<1> QED BY <1>7, <1>8, <1>9, <1>10 DEF PushInv

LEMMA SendKeeps ==
  ASSUME PushInv, NEW s \in Instances, Send(s) \/ TransportFails(s)
  PROVE  PushInv'
<1>1. sweep[s].queue \subseteq Messages
  BY DEF PushInv, PushTypes, SweepType
<1>2. CASE Send(s)
  <2>1. PICK sent \in SUBSET sweep[s].queue :
        \E dead, retry \in SUBSET (sweep[s].queue \ sent) :
          /\ Deliver(sent) /\ AfterSend(s, {m[2] : m \in dead}, retry)
    BY <1>2 DEF Send
  <2>2. PICK dead, retry \in SUBSET (sweep[s].queue \ sent) :
          /\ Deliver(sent) /\ AfterSend(s, {m[2] : m \in dead}, retry)
    BY <2>1
  <2>3. {m[2] : m \in dead} \in SUBSET Tokens
    BY <1>1, <2>2, MessagePair
  <2>4. retry \in SUBSET sweep[s].queue /\ retry \cap sent = {}
    BY <2>2
  <2>5. /\ sweep[s].state = "sending" /\ retried' = retried
        /\ UNCHANGED <<clock, note, bound, active, last, lookedUp>>
    BY <1>2 DEF Send
  <2> QED BY <2>2, <2>3, <2>4, <2>5, AttemptKeeps
<1>3. CASE TransportFails(s)
  <2>1. PICK sent \in SUBSET sweep[s].queue : Deliver(sent)
    BY <1>3 DEF TransportFails
  <2>2. /\ sweep[s].state = "sending" /\ AfterSend(s, {}, sweep[s].queue)
        /\ retried' = [m \in Messages |->
             IF m \in sweep[s].queue THEN retried[m] + 1 ELSE retried[m]]
        /\ UNCHANGED <<clock, note, bound, active, last, lookedUp>>
    BY <1>3 DEF TransportFails
  <2>3. {} \in SUBSET Tokens /\ sweep[s].queue \in SUBSET sweep[s].queue
    OBVIOUS
  <2> QED BY <2>1, <2>2, <2>3, AttemptKeeps
<1> QED BY <1>2, <1>3

LEMMA DropKeeps ==
  ASSUME PushInv, NEW s \in Instances,
         ClaimFails(s) \/ DeleteFails(s) \/ Restart(s) \/ DeleteTokens(s)
  PROVE  PushInv'
<1>1. CASE ClaimFails(s) \/ DeleteFails(s) \/ Restart(s)
  <2>1. /\ sweep' = [sweep EXCEPT ![s] = Idle]
        /\ UNCHANGED <<clock, note, bound, active, copies, retried, last, lookedUp>>
    BY <1>1 DEF ClaimFails, DeleteFails, Restart
  <2>2. /\ bound' \in [Tokens -> People \cup {Nobody}]
        /\ \A t \in Tokens : bound'[t] \in {bound[t], Nobody}
    BY <2>1 DEF PushInv, PushTypes
  <2> QED BY <2>1, <2>2, IdleTyped, LettingGo
<1>2. CASE DeleteTokens(s)
  <2> DEFINE next == IF sweep[s].queue = {} THEN Idle
                     ELSE [sweep[s] EXCEPT !.state = "sending", !.dead = {}]
  <2>1. /\ sweep' = [sweep EXCEPT ![s] = next] /\ sweep[s].state = "deleting"
        /\ bound' = [t \in Tokens |-> IF t \in sweep[s].dead THEN Nobody ELSE bound[t]]
        /\ UNCHANGED <<clock, note, active, copies, retried, last, lookedUp>>
    BY <1>2 DEF DeleteTokens
  <2>2. sweep[s] \in SweepType /\ sweep[s].rows = {}
    BY <2>1 DEF PushInv, PushTypes, Claims
  <2>3. /\ next \in SweepType /\ next.rows = {} /\ next.queue \subseteq sweep[s].queue
        /\ next.state \in {"idle", "claimed"} => next.queue = {}
    BY <2>2, IdleTyped DEF SweepType, SweepStates
  <2>4. /\ bound' \in [Tokens -> People \cup {Nobody}]
        /\ \A t \in Tokens : bound'[t] \in {bound[t], Nobody}
    BY <2>1 DEF PushInv, PushTypes
  <2> HIDE DEF next
  <2> QED BY <2>1, <2>3, <2>4, LettingGo
<1> QED BY <1>1, <1>2

LEMMA PushStep == PushInv /\ [PushNext]_pushVars => PushInv'
<1> SUFFICES ASSUME PushInv, [PushNext]_pushVars PROVE PushInv'
  OBVIOUS
<1>1. CASE UNCHANGED pushVars
  BY <1>1 DEF pushVars, PushInv, PushTypes, Addressees, Claims, Copied
<1> QED BY <1>1, OthersKeep, ClaimKeeps, LookUpTokensKeeps, SendKeeps, DropKeeps
        DEF PushNext, SweepStep

(* Whatever fails or stops on the way, a push goes to the row's recipient, *)
(* and once more only after a call that failed as a whole.                 *)
THEOREM PushesAreExplained == PushSpec => []PushesExplained
<1>1. PushInv => PushesExplained
  BY MessagePair DEF PushInv, Addressees, Copied, PushesExplained, SentToRecipient,
                     CopiesExplained
<1> QED BY <1>1, PushStart, PushStep, PTL DEF PushSpec

-----------------------------------------------------------------------------
(***************************************************************************)
(* Reports of photos.                                                      *)
(***************************************************************************)

PhotoTypes ==
  /\ hidden \subseteq JobPhotos /\ dismissedOver \subseteq JobPhotos
  /\ report \in [JobPhotos -> [Viewers -> {"none", "open", "hidden", "dismissed"}]]
  /\ stamp \in Nat /\ device.cursor \in Nat /\ device.cursor <= stamp
  /\ filing \in [Viewers -> JobPhotos \cup {"none"}]
  /\ resolving \in [Staff -> Resolution \cup {NoReview}]

(* s is in the middle of a hide of photo p.                                *)
Hides(s, p) == resolving[s] # NoReview /\ resolving[s].action = "hide" /\ resolving[s].photo = p

(* What the report a hide was started on has become.                       *)
StillReported(p, u) == report[p][u] \in {"open", "hidden"} \/ p \in dismissedOver

LateOnly(p, u) == report[p][u] = "open" => <<p, u>> \in late

(* Where each hide stands: the photo is hidden before the job is stamped,  *)
(* the job stamped before the other reports are settled.                   *)
HidesStand ==
  /\ \A s \in Staff : \A p \in JobPhotos : Hides(s, p) =>
       /\ StillReported(p, resolving[s].by)
       /\ resolving[s].stage # "hide" => p \in hidden
       /\ resolving[s].stage \in {"others", "claim"} => ~Stuck(p)
       /\ resolving[s].stage = "claim" =>
            \A u \in Viewers : u # resolving[s].by => LateOnly(p, u)
  /\ \A s \in Staff : resolving[s] # NoReview /\ resolving[s].action = "dismiss" =>
       resolving[s].stage = "claim"

(* What a photo once hidden keeps.                                         *)
HiddenKept ==
  \A p \in JobPhotos :
    /\ p \in hidden => \E u \in Viewers : StillReported(p, u)
    /\ p \in hidden \ failed /\ ~Hiding(p) => \A u \in Viewers : LateOnly(p, u)
    /\ \A u \in Viewers : report[p][u] = "hidden" => p \in hidden /\ ~Stuck(p)

PhotoInv == PhotoTypes /\ HidesStand /\ HiddenKept /\ HiddenLeavesDevice

LEMMA ReviewStages ==
  ASSUME PhotoTypes, NEW s \in Staff
  PROVE  /\ resolving[s] # NoReview => resolving[s] \in Resolution
         /\ resolving[s].stage \in Stages => resolving[s] # NoReview
         /\ \A p \in JobPhotos : Hides(s, p) => Hiding(p)
BY DEF PhotoTypes, NoReview, Stages, Hides, Hiding

LEMMA HidingIsHides ==
  ASSUME NEW p
  PROVE  Hiding(p) <=> \E s \in Staff : Hides(s, p)
BY DEF Hiding, Hides

LEMMA PhotoStart == PhotoInit => PhotoInv
BY DEF PhotoInit, PhotoInv, PhotoTypes, HidesStand, HiddenKept, HiddenLeavesDevice, Hides,
       Hiding, NoReview, Stuck

(* What every step but a hide and a review keeps, and what it may add.     *)
LEMMA PhotoQuiet ==
  ASSUME PhotoInv, PhotoTypes',
         UNCHANGED <<hidden, stamp, resolving, failed, dismissedOver>>,
         \A p \in JobPhotos : Stuck(p)' => Stuck(p),
         \A p \in JobPhotos, u \in Viewers :
           /\ report[p][u] \in {"open", "hidden"} => report'[p][u] = report[p][u]
           /\ report'[p][u] = "hidden" => report[p][u] = "hidden"
           /\ p \in hidden /\ LateOnly(p, u) => LateOnly(p, u)'
  PROVE  PhotoInv'
<1>1. \A s, p : Hides(s, p)' <=> Hides(s, p)
  BY DEF Hides
<1>2. \A p \in JobPhotos, u \in Viewers : StillReported(p, u) => StillReported(p, u)'
  BY DEF StillReported
<1>3. \A p \in JobPhotos : Hiding(p)' <=> Hiding(p)
  BY DEF Hiding
<1>4. HidesStand'
  <2>1. ASSUME NEW s \in Staff, NEW p \in JobPhotos, Hides(s, p)'
        PROVE  /\ StillReported(p, resolving[s].by)'
               /\ resolving'[s].stage # "hide" => p \in hidden'
               /\ resolving'[s].stage \in {"others", "claim"} => ~Stuck(p)'
               /\ resolving'[s].stage = "claim" =>
                    \A u \in Viewers : u # resolving'[s].by => LateOnly(p, u)'
    <3>1. Hides(s, p) /\ resolving' = resolving /\ hidden' = hidden
      BY <1>1, <2>1
    <3>2. resolving[s].by \in Viewers
      BY <3>1, ReviewStages DEF PhotoInv, Hides, Resolution
    <3> QED BY <1>2, <3>1, <3>2 DEF PhotoInv, HidesStand
  <2> QED BY <2>1 DEF PhotoInv, HidesStand
<1>5. HiddenKept'
  <2>1. ASSUME NEW p \in JobPhotos
        PROVE  /\ p \in hidden' => \E u \in Viewers : StillReported(p, u)'
               /\ p \in hidden' \ failed' /\ ~Hiding(p)' => \A u \in Viewers : LateOnly(p, u)'
               /\ \A u \in Viewers : report'[p][u] = "hidden" => p \in hidden' /\ ~Stuck(p)'
    BY <1>2, <1>3 DEF PhotoInv, HiddenKept
  <2> QED BY <2>1 DEF HiddenKept
<1>6. HiddenLeavesDevice'
  <2>1. \A p \in JobPhotos : OpenOn(p) => OpenOn(p)'
    BY DEF OpenOn
  <2> QED BY <2>1 DEF PhotoInv, HiddenLeavesDevice
<1> QED BY <1>4, <1>5, <1>6 DEF PhotoInv

LEMMA FilingKeeps ==
  ASSUME PhotoInv, NEW u \in Viewers,
         StoreReport(u) \/ \E p \in JobPhotos : FindPhoto(u, p)
  PROVE  PhotoInv'
<1>1. UNCHANGED <<hidden, stamp, device, resolving, failed, dismissedOver>>
  BY DEF StoreReport, FindPhoto
<1>2. \A p : Stuck(p)' <=> Stuck(p)
  BY <1>1 DEF Stuck
<1>3. CASE \E p \in JobPhotos : FindPhoto(u, p)
  <2>1. report' = report /\ late' = late /\ filing' \in [Viewers -> JobPhotos \cup {"none"}]
    BY <1>3 DEF FindPhoto, PhotoInv, PhotoTypes
  <2>2. PhotoTypes'
    BY <1>1, <2>1 DEF PhotoInv, PhotoTypes
  <2> QED BY <1>1, <1>2, <2>1, <2>2, PhotoQuiet DEF LateOnly
<1>4. CASE StoreReport(u)
  <2> DEFINE p == filing[u]
  <2>1. p \in JobPhotos
    BY <1>4 DEF StoreReport, PhotoInv, PhotoTypes
  <2>2. filing' \in [Viewers -> JobPhotos \cup {"none"}]
    BY <1>4 DEF StoreReport, PhotoInv, PhotoTypes
  <2>3. CASE report[p][u] # "none"
    <3>1. report' = report /\ late' = late
      BY <1>4, <2>3 DEF StoreReport
    <3>2. PhotoTypes'
      BY <1>1, <2>2, <3>1 DEF PhotoInv, PhotoTypes
    <3> QED BY <1>1, <1>2, <3>1, <3>2, PhotoQuiet DEF LateOnly
  <2>4. CASE report[p][u] = "none"
    <3>1. /\ report' = [report EXCEPT ![p][u] = "open"]
          /\ late' = IF p \in hidden THEN late \cup {<<p, u>>} ELSE late
      BY <1>4, <2>4 DEF StoreReport
    <3> HIDE DEF p
    <3>2. /\ report' \in [JobPhotos -> [Viewers -> {"none", "open", "hidden", "dismissed"}]]
          /\ report'[p][u] = "open"
          /\ \A x \in JobPhotos, y \in Viewers :
               ~(x = p /\ y = u) => report'[x][y] = report[x][y]
      BY <2>1, <3>1 DEF PhotoInv, PhotoTypes
    <3>3. PhotoTypes'
      BY <1>1, <2>2, <3>2 DEF PhotoInv, PhotoTypes
    <3>4. ASSUME NEW x \in JobPhotos, NEW y \in Viewers, x \in hidden, LateOnly(x, y)
          PROVE  LateOnly(x, y)'
      BY <3>1, <3>2, <3>4 DEF LateOnly
    <3> QED BY <1>1, <1>2, <2>4, <3>2, <3>3, <3>4, PhotoQuiet
  <2> QED BY <2>3, <2>4
<1> QED BY <1>3, <1>4

(* A feed takes what is hidden off the device.                             *)
LEMMA SyncKeeps ==
  ASSUME PhotoInv, SyncPhotos
  PROVE  PhotoInv'
<1>1. /\ device' = [cursor |-> stamp, photos |-> JobPhotos \ hidden]
      /\ UNCHANGED <<hidden, report, stamp, filing, resolving, failed, dismissedOver, late>>
  BY DEF SyncPhotos
<1>2. PhotoTypes'
  BY <1>1 DEF PhotoInv, PhotoTypes
<1>3. \A p \in JobPhotos : ~Stuck(p)'
  BY <1>1 DEF Stuck
<1> QED BY <1>1, <1>2, <1>3, PhotoQuiet DEF LateOnly

(* A review under way is typed, and only a hide is before its claim.       *)
LEMMA UnderWay ==
  ASSUME PhotoInv, NEW s \in Staff, resolving[s].stage \in Stages
  PROVE  /\ resolving[s] \in Resolution /\ resolving[s] # NoReview
         /\ resolving[s].photo \in JobPhotos /\ resolving[s].by \in Viewers
         /\ resolving[s].stage # "claim" => Hides(s, resolving[s].photo)
         /\ Hides(s, resolving[s].photo) => Hiding(resolving[s].photo)
<1>1. resolving[s] \in Resolution /\ resolving[s] # NoReview
  BY ReviewStages DEF PhotoInv
<1>2. resolving[s].photo \in JobPhotos /\ resolving[s].by \in Viewers
  BY <1>1 DEF Resolution
<1>3. resolving[s].action \in {"hide", "dismiss"}
  BY <1>1 DEF Resolution
<1> QED BY <1>1, <1>2, <1>3 DEF PhotoInv, HidesStand, Hides, Hiding

(* One reviewer's step leaves the others where they are.                   *)
LEMMA OneReviewer ==
  ASSUME PhotoTypes, NEW s \in Staff, NEW next, resolving' = [resolving EXCEPT ![s] = next]
  PROVE  /\ resolving'[s] = next
         /\ \A o \in Staff : o # s => resolving'[o] = resolving[o]
         /\ \A p : \A o \in Staff : o # s => (Hides(o, p)' <=> Hides(o, p))
<1>1. /\ resolving'[s] = next
      /\ \A o \in Staff : o # s => resolving'[o] = resolving[o]
  BY DEF PhotoTypes
<1> QED BY <1>1 DEF Hides

LEMMA ReadKeeps ==
  ASSUME PhotoInv, NEW s \in Staff, NEW p \in JobPhotos, NEW u \in Viewers,
         NEW a \in {"hide", "dismiss"}, ReadReport(s, p, u, a)
  PROVE  PhotoInv'
<1> DEFINE next == [stage |-> IF a = "hide" THEN "hide" ELSE "claim",
                    action |-> a, photo |-> p, by |-> u]
<1>1. /\ resolving[s] = NoReview /\ report[p][u] = "open"
      /\ resolving' = [resolving EXCEPT ![s] = next]
      /\ UNCHANGED <<hidden, report, stamp, device, filing, failed, dismissedOver, late>>
  BY DEF ReadReport
<1>2. /\ next \in Resolution /\ next # NoReview
      /\ next.stage = (IF a = "hide" THEN "hide" ELSE "claim")
      /\ next.action = a /\ next.photo = p /\ next.by = u
  BY DEF Resolution, Stages, NoReview
<1> HIDE DEF next
<1>3. /\ resolving'[s] = next
      /\ \A o \in Staff : o # s => resolving'[o] = resolving[o]
      /\ \A x : \A o \in Staff : o # s => (Hides(o, x)' <=> Hides(o, x))
  BY <1>1, OneReviewer DEF PhotoInv
<1>4. PhotoTypes'
  BY <1>1, <1>2 DEF PhotoInv, PhotoTypes
<1>5. HidesStand'
  <2>1. ASSUME NEW o \in Staff, NEW x \in JobPhotos, Hides(o, x)'
        PROVE  /\ StillReported(x, resolving[o].by)' 
               /\ resolving'[o].stage # "hide" => x \in hidden'
               /\ resolving'[o].stage \in {"others", "claim"} => ~Stuck(x)'
               /\ resolving'[o].stage = "claim" =>
                    \A v \in Viewers : v # resolving'[o].by => LateOnly(x, v)'
    <3>1. CASE o # s
      BY <1>1, <1>3, <2>1, <3>1 DEF PhotoInv, HidesStand, StillReported, Stuck, LateOnly
    <3>2. CASE o = s
      BY <1>1, <1>2, <1>3, <2>1, <3>2 DEF Hides, StillReported
    <3> QED BY <3>1, <3>2
  <2>2. ASSUME NEW o \in Staff, resolving'[o] # NoReview, resolving'[o].action = "dismiss"
        PROVE  resolving'[o].stage = "claim"
    BY <1>2, <1>3, <2>2 DEF PhotoInv, HidesStand
  <2> QED BY <2>1, <2>2 DEF HidesStand
<1>6. ASSUME NEW x PROVE Hiding(x) => Hiding(x)'
  BY <1>1, <1>3 DEF Hiding
<1>7. HiddenKept'
  BY <1>1, <1>6 DEF PhotoInv, HiddenKept, StillReported, Stuck, LateOnly
<1>8. HiddenLeavesDevice'
  <2>1. \A o \in Staff : resolving[o].stage = "touch" => resolving'[o] = resolving[o]
    BY <1>1, <1>3 DEF NoReview
  <2> QED BY <1>1, <2>1 DEF PhotoInv, HiddenLeavesDevice, Stuck, OpenOn
<1> QED BY <1>4, <1>5, <1>7, <1>8 DEF PhotoInv

(* A hide that moves on: the reviews under way are what they were, one of  *)
(* them at its next stage.                                                 *)
LEMMA HideMoves ==
  ASSUME PhotoInv, NEW s \in Staff, resolving[s].stage \in Stages \ {"claim"},
         NEW stage \in Stages, MovesOn(s, stage)
  PROVE  /\ resolving' \in [Staff -> Resolution \cup {NoReview}]
         /\ resolving'[s] # NoReview /\ resolving'[s].action = "hide"
         /\ resolving'[s].stage = stage /\ resolving'[s].photo = resolving[s].photo
         /\ resolving'[s].by = resolving[s].by
         /\ \A o \in Staff : o # s => resolving'[o] = resolving[o]
         /\ \A x : \A o \in Staff : Hides(o, x)' <=> Hides(o, x)
         /\ \A x : Hiding(x)' <=> Hiding(x)
<1> DEFINE next == [resolving[s] EXCEPT !.stage = stage]
<1>1. /\ resolving[s] \in Resolution /\ resolving[s] # NoReview
      /\ Hides(s, resolving[s].photo)
  BY UnderWay
<1>2. resolving' = [resolving EXCEPT ![s] = next]
  BY DEF MovesOn, PhotoInv, PhotoTypes
<1>3. /\ next \in Resolution /\ next # NoReview
      /\ next.stage = stage /\ next.photo = resolving[s].photo
      /\ next.by = resolving[s].by /\ next.action = "hide"
  BY <1>1 DEF Resolution, NoReview, Stages, Hides
<1> HIDE DEF next
<1>4. /\ resolving'[s] = next
      /\ \A o \in Staff : o # s => resolving'[o] = resolving[o]
      /\ \A x : \A o \in Staff : o # s => (Hides(o, x)' <=> Hides(o, x))
  BY <1>2, OneReviewer DEF PhotoInv
<1>5. \A x : Hides(s, x)' <=> Hides(s, x)
  BY <1>1, <1>3, <1>4 DEF Hides
<1>6. \A x : \A o \in Staff : Hides(o, x)' <=> Hides(o, x)
  BY <1>4, <1>5
<1>7. \A x : Hiding(x)' <=> Hiding(x)
  BY <1>6 DEF Hiding, Hides
<1>8. resolving' \in [Staff -> Resolution \cup {NoReview}]
  BY <1>2, <1>3 DEF PhotoInv, PhotoTypes
<1> QED BY <1>3, <1>4, <1>6, <1>7, <1>8

(* Only hides are short of their claim, in the step's second state too.    *)
LEMMA DismissalsClaim ==
  ASSUME PhotoInv, NEW s \in Staff, resolving'[s] # NoReview => resolving'[s].action = "hide",
         \A o \in Staff : o # s => resolving'[o] = resolving[o]
  PROVE  \A o \in Staff : resolving'[o] # NoReview /\ resolving'[o].action = "dismiss" =>
           resolving'[o].stage = "claim"
BY DEF PhotoInv, HidesStand

LEMMA HideKeeps ==
  ASSUME PhotoInv, NEW s \in Staff, HidePhoto(s)
  PROVE  PhotoInv'
<1> DEFINE p == resolving[s].photo
<1>1. /\ resolving[s].stage = "hide" /\ hidden' = hidden \cup {p} /\ MovesOn(s, "touch")
      /\ UNCHANGED <<report, stamp, device, filing, failed, dismissedOver, late>>
  BY DEF HidePhoto
<1>2. resolving[s].stage \in Stages \ {"claim"} /\ "touch" \in Stages
  BY <1>1 DEF Stages
<1>3. /\ p \in JobPhotos /\ Hides(s, p) /\ Hiding(p) /\ resolving[s].by \in Viewers
  BY <1>2, UnderWay
<1>4. /\ resolving' \in [Staff -> Resolution \cup {NoReview}]
      /\ resolving'[s] # NoReview /\ resolving'[s].action = "hide"
      /\ resolving'[s].stage = "touch" /\ resolving'[s].photo = p
      /\ resolving'[s].by = resolving[s].by
      /\ \A o \in Staff : o # s => resolving'[o] = resolving[o]
      /\ \A x : \A o \in Staff : Hides(o, x)' <=> Hides(o, x)
      /\ \A x : Hiding(x)' <=> Hiding(x)
  BY <1>1, <1>2, HideMoves
<1>5. StillReported(p, resolving[s].by)
  BY <1>3 DEF PhotoInv, HidesStand
<1> HIDE DEF p
<1>6. PhotoTypes'
  BY <1>1, <1>3, <1>4 DEF PhotoInv, PhotoTypes
<1>7. \A x \in JobPhotos : x \in hidden => (Stuck(x)' <=> Stuck(x))
  BY <1>1 DEF Stuck
<1>8. HidesStand'
  <2>1. ASSUME NEW o \in Staff, NEW x \in JobPhotos, Hides(o, x)'
        PROVE  /\ StillReported(x, resolving[o].by)'
               /\ resolving'[o].stage # "hide" => x \in hidden'
               /\ resolving'[o].stage \in {"others", "claim"} => ~Stuck(x)'
               /\ resolving'[o].stage = "claim" =>
                    \A v \in Viewers : v # resolving'[o].by => LateOnly(x, v)'
    <3>1. CASE o = s
      <4>1. x = p
        BY <1>4, <2>1, <3>1 DEF Hides
      <4> QED BY <1>1, <1>4, <1>5, <3>1, <4>1 DEF StillReported
    <3>2. CASE o # s
      BY <1>1, <1>4, <1>7, <2>1, <3>2 DEF PhotoInv, HidesStand, StillReported, LateOnly
    <3> QED BY <3>1, <3>2
  <2> QED BY <1>4, <2>1, DismissalsClaim DEF HidesStand
<1>9. HiddenKept'
  <2>1. ASSUME NEW x \in JobPhotos, x \in hidden'
        PROVE  \E u \in Viewers : StillReported(x, u)'
    BY <1>1, <1>3, <1>5, <2>1 DEF PhotoInv, HiddenKept, StillReported
  <2>2. ASSUME NEW x \in JobPhotos, x \in hidden' \ failed', ~Hiding(x)', NEW u \in Viewers
        PROVE  LateOnly(x, u)'
    BY <1>1, <1>3, <1>4, <2>2 DEF PhotoInv, HiddenKept, LateOnly
  <2>3. ASSUME NEW x \in JobPhotos, NEW u \in Viewers, report'[x][u] = "hidden"
        PROVE  x \in hidden' /\ ~Stuck(x)'
    BY <1>1, <1>7, <2>3 DEF PhotoInv, HiddenKept
  <2> QED BY <2>1, <2>2, <2>3 DEF HiddenKept
<1>10. HiddenLeavesDevice'
  <2> SUFFICES ASSUME NEW x \in JobPhotos, Stuck(x)'
               PROVE  \/ \E o \in Staff : resolving'[o].stage = "touch" /\ resolving'[o].photo = x
                      \/ x \in failed' /\ (OpenOn(x)' \/ x \in dismissedOver')
    BY DEF HiddenLeavesDevice
  <2>1. CASE x = p
    BY <1>4, <2>1
  <2>2. CASE x # p
    <3>1. Stuck(x)
      BY <1>1, <2>2 DEF Stuck
    <3>2. \A o \in Staff : resolving[o].stage = "touch" => resolving'[o] = resolving[o]
      BY <1>1, <1>4
    <3> QED BY <1>1, <3>1, <3>2 DEF PhotoInv, HiddenLeavesDevice, OpenOn
  <2> QED BY <2>1, <2>2
<1> QED BY <1>6, <1>8, <1>9, <1>10 DEF PhotoInv

(* A stamped job comes with the next feed.                                 *)
LEMMA TouchKeeps ==
  ASSUME PhotoInv, NEW s \in Staff, TouchJob(s)
  PROVE  PhotoInv'
<1> DEFINE p == resolving[s].photo
<1>1. /\ resolving[s].stage = "touch" /\ stamp' = stamp + 1 /\ MovesOn(s, "others")
      /\ UNCHANGED <<hidden, report, device, filing, failed, dismissedOver, late>>
  BY DEF TouchJob
<1>2. resolving[s].stage \in Stages \ {"claim"} /\ "others" \in Stages
  BY <1>1 DEF Stages
<1>3. /\ p \in JobPhotos /\ Hides(s, p) /\ resolving[s].by \in Viewers
  BY <1>2, UnderWay
<1>4. /\ resolving' \in [Staff -> Resolution \cup {NoReview}]
      /\ resolving'[s] # NoReview /\ resolving'[s].action = "hide"
      /\ resolving'[s].stage = "others" /\ resolving'[s].photo = p
      /\ resolving'[s].by = resolving[s].by
      /\ \A o \in Staff : o # s => resolving'[o] = resolving[o]
      /\ \A x : \A o \in Staff : Hides(o, x)' <=> Hides(o, x)
      /\ \A x : Hiding(x)' <=> Hiding(x)
  BY <1>1, <1>2, HideMoves
<1>5. StillReported(p, resolving[s].by) /\ p \in hidden
  BY <1>1, <1>3 DEF PhotoInv, HidesStand
<1> HIDE DEF p
<1>6. PhotoTypes'
  BY <1>1, <1>4 DEF PhotoInv, PhotoTypes
<1>7. \A x : ~Stuck(x)'
  BY <1>1 DEF Stuck, PhotoInv, PhotoTypes
<1>8. HidesStand'
  <2>1. ASSUME NEW o \in Staff, NEW x \in JobPhotos, Hides(o, x)'
        PROVE  /\ StillReported(x, resolving[o].by)'
               /\ resolving'[o].stage # "hide" => x \in hidden'
               /\ resolving'[o].stage \in {"others", "claim"} => ~Stuck(x)'
               /\ resolving'[o].stage = "claim" =>
                    \A v \in Viewers : v # resolving'[o].by => LateOnly(x, v)'
    <3>1. CASE o = s
      <4>1. x = p
        BY <1>4, <2>1, <3>1 DEF Hides
      <4> QED BY <1>1, <1>4, <1>5, <1>7, <3>1, <4>1 DEF StillReported
    <3>2. CASE o # s
      BY <1>1, <1>4, <1>7, <2>1, <3>2 DEF PhotoInv, HidesStand, StillReported, LateOnly
    <3> QED BY <3>1, <3>2
  <2> QED BY <1>4, <2>1, DismissalsClaim DEF HidesStand
<1>9. HiddenKept'
  BY <1>1, <1>4, <1>7 DEF PhotoInv, HiddenKept, StillReported, LateOnly
<1>10. HiddenLeavesDevice'
  BY <1>7 DEF HiddenLeavesDevice
<1> QED BY <1>6, <1>8, <1>9, <1>10 DEF PhotoInv

LEMMA SettleKeeps ==
  ASSUME PhotoInv, NEW s \in Staff, SettleOthers(s)
  PROVE  PhotoInv'
<1> DEFINE p == resolving[s].photo
           by == resolving[s].by
<1>1. /\ resolving[s].stage = "others" /\ MovesOn(s, "claim")
      /\ report' = [report EXCEPT ![p] = [u \in Viewers |->
           IF report[p][u] = "open" /\ u # by THEN "hidden" ELSE report[p][u]]]
      /\ UNCHANGED <<hidden, stamp, device, filing, failed, dismissedOver, late>>
  BY DEF SettleOthers
<1>2. resolving[s].stage \in Stages \ {"claim"} /\ "claim" \in Stages
  BY <1>1 DEF Stages
<1>3. /\ p \in JobPhotos /\ Hides(s, p) /\ by \in Viewers
  BY <1>2, UnderWay
<1>4. /\ resolving' \in [Staff -> Resolution \cup {NoReview}]
      /\ resolving'[s] # NoReview /\ resolving'[s].action = "hide"
      /\ resolving'[s].stage = "claim" /\ resolving'[s].photo = p
      /\ resolving'[s].by = by
      /\ \A o \in Staff : o # s => resolving'[o] = resolving[o]
      /\ \A x : \A o \in Staff : Hides(o, x)' <=> Hides(o, x)
      /\ \A x : Hiding(x)' <=> Hiding(x)
  BY <1>1, <1>2, HideMoves
<1>5. StillReported(p, by) /\ p \in hidden /\ ~Stuck(p)
  BY <1>1, <1>3 DEF PhotoInv, HidesStand
<1> HIDE DEF p, by
<1>6. /\ report' \in [JobPhotos -> [Viewers -> {"none", "open", "hidden", "dismissed"}]]
      /\ \A x \in JobPhotos, u \in Viewers :
           report'[x][u] = IF x = p /\ report[p][u] = "open" /\ u # by
                           THEN "hidden" ELSE report[x][u]
  BY <1>1, <1>3 DEF PhotoInv, PhotoTypes
<1>7. PhotoTypes'
  BY <1>1, <1>4, <1>6 DEF PhotoInv, PhotoTypes
<1>8. \A x : Stuck(x)' <=> Stuck(x)
  BY <1>1 DEF Stuck
<1>9. \A x \in JobPhotos, u \in Viewers :
        /\ StillReported(x, u) => StillReported(x, u)'
        /\ LateOnly(x, u) => LateOnly(x, u)'
  BY <1>1, <1>6 DEF StillReported, LateOnly
<1>10. HidesStand'
  <2>1. ASSUME NEW o \in Staff, NEW x \in JobPhotos, Hides(o, x)'
        PROVE  /\ StillReported(x, resolving[o].by)'
               /\ resolving'[o].stage # "hide" => x \in hidden'
               /\ resolving'[o].stage \in {"others", "claim"} => ~Stuck(x)'
               /\ resolving'[o].stage = "claim" =>
                    \A v \in Viewers : v # resolving'[o].by => LateOnly(x, v)'
    <3>1. CASE o = s
      <4>1. x = p
        BY <1>4, <2>1, <3>1 DEF Hides
      <4>2. StillReported(x, resolving[o].by)'
        BY <1>1, <1>3, <1>4, <1>5, <1>9, <3>1, <4>1 DEF by, StillReported
      <4>3. \A v \in Viewers : v # by => LateOnly(x, v)'
        BY <1>6, <4>1 DEF LateOnly
      <4> QED BY <1>1, <1>4, <1>5, <1>8, <3>1, <4>1, <4>2, <4>3
    <3>2. CASE o # s
      <4>1. Hides(o, x) /\ resolving'[o] = resolving[o]
        BY <1>4, <2>1, <3>2
      <4>2. resolving[o].by \in Viewers
        BY <4>1 DEF PhotoInv, PhotoTypes, Hides, Resolution
      <4>3. StillReported(x, resolving[o].by)'
        BY <1>1, <1>9, <4>1, <4>2 DEF PhotoInv, HidesStand, StillReported
      <4> QED BY <1>1, <1>8, <1>9, <4>1, <4>3 DEF PhotoInv, HidesStand
    <3> QED BY <3>1, <3>2
  <2> QED BY <1>4, <2>1, DismissalsClaim DEF HidesStand
<1>11. HiddenKept'
  <2>1. ASSUME NEW x \in JobPhotos, x \in hidden'
        PROVE  \E u \in Viewers : StillReported(x, u)'
    BY <1>1, <1>9, <2>1 DEF PhotoInv, HiddenKept
  <2>2. ASSUME NEW x \in JobPhotos, x \in hidden' \ failed', ~Hiding(x)', NEW u \in Viewers
        PROVE  LateOnly(x, u)'
    BY <1>1, <1>4, <1>9, <2>2 DEF PhotoInv, HiddenKept
  <2>3. ASSUME NEW x \in JobPhotos, NEW u \in Viewers, report'[x][u] = "hidden"
        PROVE  x \in hidden' /\ ~Stuck(x)'
    BY <1>1, <1>5, <1>6, <1>8, <2>3 DEF PhotoInv, HiddenKept
  <2> QED BY <2>1, <2>2, <2>3 DEF HiddenKept
<1>12. HiddenLeavesDevice'
  <2> SUFFICES ASSUME NEW x \in JobPhotos, Stuck(x)'
               PROVE  \/ \E o \in Staff : resolving'[o].stage = "touch" /\ resolving'[o].photo = x
                      \/ x \in failed' /\ (OpenOn(x)' \/ x \in dismissedOver')
    BY DEF HiddenLeavesDevice
  <2>1. Stuck(x) /\ x # p
    BY <1>5, <1>8
  <2>2. OpenOn(x) => OpenOn(x)'
    BY <1>6, <2>1 DEF OpenOn
  <2>3. \A o \in Staff : resolving[o].stage = "touch" => resolving'[o] = resolving[o]
    BY <1>1, <1>4
  <2> QED BY <1>1, <2>1, <2>2, <2>3 DEF PhotoInv, HiddenLeavesDevice
<1> QED BY <1>7, <1>10, <1>11, <1>12 DEF PhotoInv

(* A review that ends, by its claim or by giving up, when nothing more was *)
(* hidden or stamped: what its photo has to keep beyond it.                *)
LEMMA ReviewEnds ==
  ASSUME PhotoInv, PhotoTypes', NEW s \in Staff, resolving[s] # NoReview,
         resolving' = [resolving EXCEPT ![s] = NoReview],
         UNCHANGED <<hidden, stamp, device, late>>,
         failed \subseteq failed', dismissedOver \subseteq dismissedOver',
         \A x \in JobPhotos, u \in Viewers :
           /\ report'[x][u] # report[x][u] => report[x][u] = "open" /\ report'[x][u] # "open"
           /\ report'[x][u] = "hidden" => x \in hidden /\ ~Stuck(x)
           /\ report[x][u] = "open" /\ report'[x][u] \notin {"open", "hidden"} =>
                (x \in hidden \/ Hiding(x) => x \in dismissedOver'),
         \A x \in JobPhotos : Hides(s, x) /\ x \notin failed' =>
                                \A u \in Viewers : LateOnly(x, u)',
         \A x \in JobPhotos : resolving[s].stage = "touch" /\ resolving[s].photo = x =>
                                x \in failed'
  PROVE  PhotoInv'
<1>1. /\ resolving'[s] = NoReview
      /\ \A o \in Staff : o # s => resolving'[o] = resolving[o]
      /\ \A x : \A o \in Staff : o # s => (Hides(o, x)' <=> Hides(o, x))
  BY OneReviewer DEF PhotoInv
<1>2. \A x : ~Hides(s, x)'
  BY <1>1 DEF Hides
<1>3. \A x : Stuck(x)' <=> Stuck(x)
  BY DEF Stuck
<1>4. \A x \in JobPhotos, u \in Viewers : LateOnly(x, u) => LateOnly(x, u)'
  BY DEF LateOnly
<1>5. ASSUME NEW x \in JobPhotos, NEW u \in Viewers, StillReported(x, u), x \in hidden \/ Hiding(x)
      PROVE  StillReported(x, u)'
  BY <1>5 DEF StillReported
<1>6. HidesStand'
  <2>1. ASSUME NEW o \in Staff, NEW x \in JobPhotos, Hides(o, x)'
        PROVE  /\ StillReported(x, resolving[o].by)'
               /\ resolving'[o].stage # "hide" => x \in hidden'
               /\ resolving'[o].stage \in {"others", "claim"} => ~Stuck(x)'
               /\ resolving'[o].stage = "claim" =>
                    \A v \in Viewers : v # resolving'[o].by => LateOnly(x, v)'
    <3>1. o # s /\ Hides(o, x) /\ resolving'[o] = resolving[o]
      BY <1>1, <1>2, <2>1
    <3>2. resolving[o].by \in Viewers /\ Hiding(x)
      BY <3>1 DEF PhotoInv, PhotoTypes, Hides, Hiding, Resolution
    <3>3. StillReported(x, resolving[o].by)
      BY <3>1 DEF PhotoInv, HidesStand
    <3> DEFINE v == resolving[o].by
    <3>4. v \in Viewers /\ StillReported(x, v) /\ resolving'[o].by = v
      BY <3>1, <3>2, <3>3
    <3>5. report'[x][v] \in {"open", "hidden"} \/ x \in dismissedOver'
      BY <3>2, <3>4 DEF StillReported
    <3>6. StillReported(x, resolving[o].by)'
      BY <3>4, <3>5 DEF StillReported
    <3> QED BY <1>3, <1>4, <3>1, <3>6 DEF PhotoInv, HidesStand
  <2>2. ASSUME NEW o \in Staff, resolving'[o] # NoReview, resolving'[o].action = "dismiss"
        PROVE  resolving'[o].stage = "claim"
    BY <1>1, <2>2 DEF PhotoInv, HidesStand
  <2> QED BY <2>1, <2>2 DEF HidesStand
<1>7. HiddenKept'
  <2>1. ASSUME NEW x \in JobPhotos, x \in hidden'
        PROVE  \E u \in Viewers : StillReported(x, u)'
    BY <1>5, <2>1 DEF PhotoInv, HiddenKept
  <2>2. ASSUME NEW x \in JobPhotos, x \in hidden' \ failed', ~Hiding(x)', NEW u \in Viewers
        PROVE  LateOnly(x, u)'
    <3>1. CASE Hides(s, x)
      BY <2>2, <3>1
    <3>2. CASE ~Hides(s, x)
      <4>1. ~Hiding(x)
        BY <1>1, <2>2, <3>2, HidingIsHides DEF Hiding, Hides
      <4> QED BY <1>4, <2>2, <4>1 DEF PhotoInv, HiddenKept
    <3> QED BY <3>1, <3>2
  <2>3. ASSUME NEW x \in JobPhotos, NEW u \in Viewers, report'[x][u] = "hidden"
        PROVE  x \in hidden' /\ ~Stuck(x)'
    BY <1>3, <2>3
  <2> QED BY <2>1, <2>2, <2>3 DEF HiddenKept
<1>8. HiddenLeavesDevice'
  <2> SUFFICES ASSUME NEW x \in JobPhotos, Stuck(x)'
               PROVE  \/ \E o \in Staff : resolving'[o].stage = "touch" /\ resolving'[o].photo = x
                      \/ x \in failed' /\ (OpenOn(x)' \/ x \in dismissedOver')
    BY DEF HiddenLeavesDevice
  <2>1. Stuck(x) /\ x \in hidden
    BY <1>3 DEF Stuck
  <2>2. ASSUME NEW u \in Viewers, StillReported(x, u)
        PROVE  OpenOn(x)' \/ x \in dismissedOver'
    <3>1. report[x][u] # "hidden"
      BY <2>1 DEF PhotoInv, HiddenKept
    <3>2. CASE report[x][u] = "open" /\ report'[x][u] = "open"
      BY <3>2 DEF OpenOn
    <3>3. CASE report[x][u] = "open" /\ report'[x][u] # "open"
      <4>1. report'[x][u] # "hidden"
        BY <2>1
      <4> QED BY <2>1, <3>3, <4>1
    <3> QED BY <2>2, <3>1, <3>2, <3>3 DEF StillReported
  <2>3. CASE x \in failed
    <3>1. \E u \in Viewers : StillReported(x, u)
      BY <2>1 DEF PhotoInv, HiddenKept
    <3> QED BY <2>2, <2>3, <3>1
  <2>4. CASE x \notin failed
    <3>1. PICK o \in Staff : resolving[o].stage = "touch" /\ resolving[o].photo = x
      BY <2>1, <2>4 DEF PhotoInv, HiddenLeavesDevice
    <3>2. CASE o # s
      BY <1>1, <3>1, <3>2
    <3>3. CASE o = s
      <4>1. x \in failed'
        BY <3>1, <3>3
      <4>2. \E u \in Viewers : StillReported(x, u)
        BY <2>1 DEF PhotoInv, HiddenKept
      <4> QED BY <2>2, <4>1, <4>2
    <3> QED BY <3>2, <3>3
  <2> QED BY <2>3, <2>4
<1> QED BY <1>6, <1>7, <1>8 DEF PhotoInv

LEMMA ClaimEnds ==
  ASSUME PhotoInv, NEW s \in Staff, ClaimReport(s)
  PROVE  PhotoInv'
<1> DEFINE c == resolving[s]
           p == c.photo
           by == c.by
<1>1. /\ c.stage = "claim" /\ resolving' = [resolving EXCEPT ![s] = NoReview]
      /\ UNCHANGED <<hidden, stamp, device, filing, failed, late>>
  BY DEF ClaimReport
<1>2. c \in Resolution /\ c # NoReview /\ p \in JobPhotos /\ by \in Viewers
  BY <1>1, UnderWay DEF Stages
<1>3. c.action \in {"hide", "dismiss"}
  BY <1>2 DEF Resolution
<1>4. Hides(s, p) => p \in hidden /\ ~Stuck(p) /\ \A u \in Viewers : u # by => LateOnly(p, u)
  BY <1>1, <1>2 DEF PhotoInv, HidesStand
<1>5. Hides(s, p) <=> c.action = "hide"
  BY <1>2 DEF Hides
<1>6. \A x \in JobPhotos : Hides(s, x) => x = p
  BY DEF Hides
<1>7. CASE report[p][by] # "open"
  <2>1. report' = report /\ dismissedOver' = dismissedOver
    BY <1>7 DEF ClaimReport
  <2>2. PhotoTypes'
    BY <1>1, <2>1 DEF PhotoInv, PhotoTypes
  <2>3. ASSUME NEW x \in JobPhotos, Hides(s, x), NEW u \in Viewers PROVE LateOnly(x, u)'
    BY <1>1, <1>4, <1>6, <1>7, <2>1, <2>3 DEF LateOnly
  <2>4. \A x \in JobPhotos, u \in Viewers :
          report'[x][u] = "hidden" => x \in hidden /\ ~Stuck(x)
    BY <2>1 DEF PhotoInv, HiddenKept
  <2> HIDE DEF c, p, by
  <2> QED BY <1>1, <1>2, <2>1, <2>2, <2>3, <2>4, ReviewEnds DEF c
<1>8. CASE report[p][by] = "open"
  <2> DEFINE ending == IF c.action = "hide" THEN "hidden" ELSE "dismissed"
  <2>1. /\ report' = [report EXCEPT ![p][by] = ending]
        /\ dismissedOver' = IF c.action = "dismiss" /\ (p \in hidden \/ Hiding(p))
                            THEN dismissedOver \cup {p} ELSE dismissedOver
    BY <1>8 DEF ClaimReport
  <2>2. /\ report' \in [JobPhotos -> [Viewers -> {"none", "open", "hidden", "dismissed"}]]
        /\ report'[p][by] = ending
        /\ \A x \in JobPhotos, u \in Viewers :
             ~(x = p /\ u = by) => report'[x][u] = report[x][u]
    BY <1>2, <2>1 DEF PhotoInv, PhotoTypes
  <2>3. PhotoTypes'
    BY <1>1, <1>2, <2>1, <2>2 DEF PhotoInv, PhotoTypes
  <2>4. ASSUME NEW x \in JobPhotos, Hides(s, x), NEW u \in Viewers PROVE LateOnly(x, u)'
    BY <1>1, <1>4, <1>6, <2>2, <2>4 DEF LateOnly
  <2>5. \A x \in JobPhotos, u \in Viewers :
          report'[x][u] = "hidden" => x \in hidden /\ ~Stuck(x)
    BY <1>3, <1>4, <1>5, <2>2 DEF PhotoInv, HiddenKept
  <2>6. \A x \in JobPhotos, u \in Viewers :
          report[x][u] = "open" /\ report'[x][u] \notin {"open", "hidden"} =>
            (x \in hidden \/ Hiding(x) => x \in dismissedOver')
    BY <1>3, <2>1, <2>2
  <2>7. \A x \in JobPhotos, u \in Viewers :
          report'[x][u] # report[x][u] => report[x][u] = "open" /\ report'[x][u] # "open"
    BY <1>8, <2>2
  <2>8. dismissedOver \subseteq dismissedOver' /\ failed \subseteq failed'
    BY <1>1, <2>1
  <2> HIDE DEF c, p, by, ending
  <2> QED BY <1>1, <1>2, <2>3, <2>4, <2>5, <2>6, <2>7, <2>8, ReviewEnds DEF c
<1> QED BY <1>7, <1>8

LEMMA GiveUpEnds ==
  ASSUME PhotoInv, NEW s \in Staff, GiveUp(s)
  PROVE  PhotoInv'
<1>1. /\ resolving[s] # NoReview /\ resolving' = [resolving EXCEPT ![s] = NoReview]
      /\ failed' = IF resolving[s].action = "hide"
                   THEN failed \cup {resolving[s].photo} ELSE failed
      /\ UNCHANGED <<hidden, report, stamp, device, filing, dismissedOver, late>>
  BY DEF GiveUp
<1>2. PhotoTypes'
  BY <1>1 DEF PhotoInv, PhotoTypes
<1>3. \A x : Hides(s, x) => x \in failed'
  BY <1>1 DEF Hides
<1>4. \A x \in JobPhotos : resolving[s].stage = "touch" /\ resolving[s].photo = x => x \in failed'
  BY <1>3, UnderWay DEF Stages
<1>5. \A x \in JobPhotos, u \in Viewers :
        report'[x][u] = "hidden" => x \in hidden /\ ~Stuck(x)
  BY <1>1 DEF PhotoInv, HiddenKept
<1> QED BY <1>1, <1>2, <1>3, <1>4, <1>5, ReviewEnds

LEMMA PhotoStep == PhotoInv /\ [PhotoNext]_photoVars => PhotoInv'
<1> SUFFICES ASSUME PhotoInv, [PhotoNext]_photoVars PROVE PhotoInv'
  OBVIOUS
<1>1. CASE UNCHANGED photoVars
  <2>1. PhotoTypes' /\ \A p \in JobPhotos : Stuck(p)' => Stuck(p)
    BY <1>1 DEF photoVars, PhotoInv, PhotoTypes, Stuck
  <2> QED BY <1>1, <2>1, PhotoQuiet DEF photoVars, LateOnly
<1> QED BY <1>1, FilingKeeps, SyncKeeps, ReadKeeps, HideKeeps, TouchKeeps, SettleKeeps,
           ClaimEnds, GiveUpEnds DEF PhotoNext

(* A hidden photo leaves the device and the reviewers' queue, and is       *)
(* accounted for by a report, but for the failures and races named there.  *)
THEOREM HidesAreAccounted == PhotoSpec => []HidesAccounted
<1>1. PhotoInv => HidesAccounted
  <2> SUFFICES ASSUME PhotoInv PROVE HidesAccounted
    OBVIOUS
  <2>1. HiddenLeavesQueue
    BY DEF PhotoInv, PhotoTypes, HiddenKept, HiddenLeavesQueue, LateOnly
  <2>2. HiddenOnReport
    BY DEF PhotoInv, PhotoTypes, HiddenKept, HiddenOnReport, StillReported
  <2> QED BY <2>1, <2>2 DEF PhotoInv, HidesAccounted
<1> QED BY <1>1, PhotoStart, PhotoStep, PTL DEF PhotoSpec
-----------------------------------------------------------------------------
(***************************************************************************)
(* The limits.                                                             *)
(***************************************************************************)
RateStages ==
  {"idle", "get", "set", "provider", "password", "link", "recount", "record"}

Entries == [count : Nat, until : Nat, drop : Nat]

(* The stages in which a call acts on a counter it read, has read the entry *)
(* it will write over, and was let through by the check.                   *)
ReadStages == {"set", "password", "record"}
PassedStages == {"password", "link", "recount", "record"}

CallFits(c) ==
  /\ c.stage # "idle" => c.key \in Keys
  /\ c.stage = "set" => Counting(c.key)
  /\ c.stage = "provider" => Chained(c.key)
  /\ c.stage \in PassedStages => ~Counting(c.key)

RateTypes ==
  /\ entry \in [Keys -> Entries]
  /\ now \in Nat
  /\ hits \in [Keys -> Nat] /\ under \in [Keys -> Nat] /\ passed \in [Keys -> Nat]
  /\ chain \in [Keys -> Seq(Requests)]
  /\ rq \in [Requests -> [key : Keys \cup {"none"}, stage : RateStages, seen : Entries]]
  /\ \A r \in Requests : CallFits(rq[r])

(* The hits of a window that no older read can still take back.            *)
Drift(k) == hits[k] - under[k]

(* A counter never falls short of them, and no more were let through than  *)
(* the budget and the hits made beside an older read.                      *)
CounterKept(k) ==
  /\ entry[k].until <= entry[k].drop
  /\ now < entry[k].drop => Drift(k) <= entry[k].count
  /\ passed[k] <= hits[k] /\ passed[k] <= Limit + under[k]
  /\ Chained(k) => under[k] = 0 /\ (now < entry[k].drop => entry[k].count = hits[k])

(* Neither does the entry a call read, as long as the call acts on it.  A   *)
(* call the check let through does so below the budget, or in a new window.*)
ReadFits(c, k) ==
  /\ c.key = k /\ c.stage \in ReadStages =>
       /\ Drift(k) > 0 => IF c.seen = NoEntry THEN entry[k].until <= now
                          ELSE c.seen.until = entry[k].until
       /\ c.seen # NoEntry => Drift(k) <= c.seen.count
       /\ Chained(k) => IF c.seen = NoEntry THEN entry[k].until <= now
                        ELSE c.seen.count = hits[k]
  /\ c.key = k /\ c.stage \in PassedStages =>
       \/ Drift(k) < Limit
       \/ entry[k].drop <= now /\ c.seen = NoEntry

Countered ==
  \A k \in Keys : CounterKept(k) /\ \A r \in Requests : ReadFits(rq[r], k)

Waits(c, k) == c.key = k /\ c.stage \in {"get", "set"}

(* A queue holds the calls that wait, each once, and the one in front may   *)
(* have read.                                                              *)
QueueKept(k) ==
  /\ \A r \in Requests : Waits(rq[r], k) <=> \E i \in DOMAIN chain[k] : chain[k][i] = r
  /\ \A i, j \in DOMAIN chain[k] : chain[k][i] = chain[k][j] => i = j
  /\ \A r \in Requests : rq[r].key = k /\ rq[r].stage = "set" => chain[k][1] = r

Queues == \A k \in Keys : Chained(k) => QueueKept(k)

RateInv == RateTypes /\ Countered /\ Queues

LEMMA LimitNumbers ==
  Limit \in Nat \ {0} /\ RateWindow \in Nat \ {0}
BY RateLimitsAssumption DEF RateLimitsAssumption

LEMMA NoEntryTyped == NoEntry \in Entries
BY DEF NoEntry, Entries

LEMMA QuietTyped ==
  Quiet \in [key : Keys \cup {"none"}, stage : RateStages, seen : Entries]
BY NoEntryTyped DEF Quiet, RateStages

(* What the cache gives back is the live entry or says there is none.      *)
LEMMA CacheTells ==
  ASSUME RateTypes, NEW k \in Keys
  PROVE  /\ Cached(k) \in Entries
         /\ Cached(k) = NoEntry => entry[k].drop <= now
         /\ Cached(k) # NoEntry => Cached(k) = entry[k] /\ now < entry[k].drop
<1>1. entry[k] \in Entries /\ now \in Nat
  BY DEF RateTypes
<1>2. entry[k] = NoEntry => entry[k].drop = 0
  BY DEF NoEntry
<1>3. CASE now < entry[k].drop
  <2>1. Cached(k) = entry[k]
    BY <1>3 DEF Cached
  <2> QED BY <1>1, <1>2, <1>3, <2>1 DEF Entries
<1>4. CASE ~(now < entry[k].drop)
  <2>1. Cached(k) = NoEntry
    BY <1>4 DEF Cached
  <2> QED BY <1>1, <1>4, <2>1, NoEntryTyped DEF Entries
<1> QED BY <1>3, <1>4

LEMMA RateStart == RateInit => RateInv
<1> SUFFICES ASSUME RateInit PROVE RateInv
  OBVIOUS
<1>1. RateTypes
  <2>1. \A r \in Requests : rq[r] = Quiet
    BY DEF RateInit
  <2>2. CallFits(Quiet)
    BY DEF CallFits, Quiet, PassedStages
  <2>3. rq \in [Requests -> [key : Keys \cup {"none"}, stage : RateStages, seen : Entries]]
    BY QuietTyped DEF RateInit
  <2>4. entry \in [Keys -> Entries]
    BY NoEntryTyped DEF RateInit
  <2> QED BY <2>1, <2>2, <2>3, <2>4 DEF RateInit, RateTypes
<1>2. \A k \in Keys : entry[k].until = 0 /\ entry[k].drop = 0 /\ entry[k].count = 0
  BY DEF RateInit, NoEntry
<1>3. Countered
  <2>1. ASSUME NEW k \in Keys PROVE CounterKept(k)
    BY <1>2, LimitNumbers DEF RateInit, CounterKept, Drift
  <2>2. ASSUME NEW k \in Keys, NEW r \in Requests PROVE ReadFits(rq[r], k)
    BY DEF RateInit, ReadFits, Quiet, ReadStages, PassedStages
  <2> QED BY <2>1, <2>2 DEF Countered
<1>4. Queues
  <2> SUFFICES ASSUME NEW k \in Keys PROVE QueueKept(k)
    BY DEF Queues
  <2>1. chain[k] = <<>> /\ DOMAIN chain[k] = {}
    BY DEF RateInit
  <2>2. \A r \in Requests : rq[r].stage = "idle"
    BY DEF RateInit, Quiet
  <2> QED BY <2>1, <2>2 DEF QueueKept, Waits
<1> QED BY <1>1, <1>3, <1>4 DEF RateInv

(* A call that only moves on leaves the counters and the others' reads.    *)
LEMMA MoveKeeps ==
  ASSUME RateTypes, Countered, UNCHANGED <<entry, now, hits, under, passed>>,
         NEW r \in Requests, NEW v, rq' = [rq EXCEPT ![r] = v],
         \A k \in Keys : ReadFits(v, k)
  PROVE  Countered'
<1>1. \A s \in Requests : rq'[s] = IF s = r THEN v ELSE rq[s]
  BY DEF RateTypes
<1>2. \A s \in Requests : \A k \in Keys : ReadFits(rq'[s], k)
  BY <1>1 DEF Countered
<1>3. ASSUME NEW k \in Keys PROVE CounterKept(k)'
  BY DEF Countered, CounterKept, Drift
<1>4. ASSUME NEW k \in Keys, NEW s \in Requests PROVE ReadFits(rq[s], k)'
  <2>1. ReadFits(rq'[s], k)
    BY <1>2
  <2> QED BY <2>1 DEF ReadFits, Drift
<1> QED BY <1>3, <1>4 DEF Countered

(* A read is in step with its counter, and one below the budget passes.    *)
LEMMA FreshRead ==
  ASSUME RateTypes, Countered, NEW k \in Keys
  PROVE  LET seen == Cached(k)
         IN  /\ Drift(k) > 0 => IF seen = NoEntry THEN entry[k].until <= now
                                ELSE seen.until = entry[k].until
             /\ seen # NoEntry => Drift(k) <= seen.count
             /\ Chained(k) => IF seen = NoEntry THEN entry[k].until <= now
                              ELSE seen.count = hits[k]
             /\ seen.count < Limit => \/ Drift(k) < Limit
                                      \/ entry[k].drop <= now /\ seen = NoEntry
<1>1. /\ entry[k].until \in Nat /\ entry[k].drop \in Nat /\ entry[k].count \in Nat
      /\ now \in Nat /\ hits[k] \in Nat /\ under[k] \in Nat /\ Limit \in Nat
  BY LimitNumbers DEF RateTypes, Entries
<1>2. CounterKept(k)
  BY DEF Countered
<1> QED BY <1>1, <1>2, CacheTells DEF CounterKept, Drift

Opens(r, k) == rq[r].seen = NoEntry /\ now >= entry[k].until
Beside(r, k) == \E s \in Requests \ {r} : Acting(s, k)

(* A write keeps the counter and the reads made of it by others.           *)
LEMMA LandingKeeps ==
  ASSUME RateTypes, Countered, Queues, NEW r \in Requests, NEW k \in Keys, NEW v,
         rq[r].key = k, rq[r].stage \in {"set", "record"},
         v.stage \in {"idle", "provider"}, rq' = [rq EXCEPT ![r] = v],
         now' = now,
         entry' = [entry EXCEPT ![k] = Incremented(rq[r].seen)],
         hits' = [hits EXCEPT ![k] = IF Opens(r, k) THEN 1 ELSE hits[k] + 1],
         under' = [under EXCEPT ![k] = (IF Opens(r, k) THEN 0 ELSE under[k])
                                       + (IF Beside(r, k) THEN 1 ELSE 0)],
         passed' \in [Keys -> Nat], \A j \in Keys : j # k => passed'[j] = passed[j],
         passed'[k] <= IF Opens(r, k) THEN 1 ELSE passed[k] + 1,
         Counting(k) /\ Incremented(rq[r].seen).count > Limit =>
           passed'[k] <= IF Opens(r, k) THEN 0 ELSE passed[k]
  PROVE  Countered'
<1> DEFINE seen == rq[r].seen
           new == Incremented(seen)
<1>1. /\ entry[k].until \in Nat /\ entry[k].drop \in Nat /\ entry[k].count \in Nat
      /\ now \in Nat /\ hits[k] \in Nat /\ under[k] \in Nat /\ passed[k] \in Nat
      /\ seen.count \in Nat /\ seen.until \in Nat /\ passed'[k] \in Nat
      /\ Limit \in Nat \ {0} /\ RateWindow \in Nat
  BY LimitNumbers DEF RateTypes, Entries
<1>2. /\ new.count = seen.count + 1
      /\ seen # NoEntry => new.until = seen.until
      /\ new.until <= new.drop /\ new.until \in Nat /\ new.drop \in Nat /\ new.count \in Nat
  BY <1>1 DEF Incremented, Later
<1>3. CounterKept(k) /\ ReadFits(rq[r], k) /\ CallFits(rq[r])
  BY DEF Countered, RateTypes
<1>4. /\ Drift(k) > 0 => IF seen = NoEntry THEN entry[k].until <= now
                         ELSE seen.until = entry[k].until
      /\ seen # NoEntry => Drift(k) <= seen.count
      /\ Chained(k) => IF seen = NoEntry THEN entry[k].until <= now
                       ELSE seen.count = hits[k]
      /\ ~Counting(k) => \/ Drift(k) < Limit
                         \/ entry[k].drop <= now /\ seen = NoEntry
  BY <1>3 DEF ReadFits, CallFits, ReadStages, PassedStages
<1>5. /\ entry'[k] = new /\ now' = now
      /\ hits'[k] = IF Opens(r, k) THEN 1 ELSE hits[k] + 1
      /\ under'[k] = (IF Opens(r, k) THEN 0 ELSE under[k])
                      + (IF Beside(r, k) THEN 1 ELSE 0)
      /\ \A j \in Keys : j # k => /\ entry'[j] = entry[j] /\ hits'[j] = hits[j]
                                  /\ under'[j] = under[j] /\ passed'[j] = passed[j]
      /\ \A s \in Requests : rq'[s] = IF s = r THEN v ELSE rq[s]
  BY DEF RateTypes
<1>6. Opens(r, k) <=> seen = NoEntry /\ now >= entry[k].until
  BY DEF Opens
<1>7. Chained(k) => ~Beside(r, k)
  <2> SUFFICES ASSUME Chained(k), NEW s \in Requests, s # r, Acting(s, k) PROVE FALSE
    BY DEF Beside
  <2>1. rq[s].stage = "set" /\ rq[s].key = k
    BY DEF Acting, RateTypes, CallFits, PassedStages, Counting
  <2>2. rq[r].stage = "set"
    BY <1>3 DEF CallFits, PassedStages, Counting
  <2> QED BY <2>1, <2>2 DEF Queues, QueueKept
<1>8. seen = NoEntry => seen.count = 0
  BY DEF NoEntry
<1> HIDE DEF seen, new
<1>9. CounterKept(k)'
  <2>1. hits'[k] - under'[k] <= new.count
    BY <1>1, <1>2, <1>4, <1>5, <1>6 DEF Drift
  <2>2. passed'[k] <= hits'[k]
    BY <1>1, <1>3, <1>5 DEF CounterKept
  <2>3. passed'[k] <= Limit + under'[k]
    <3>1. CASE Opens(r, k) \/ Beside(r, k)
      BY <1>1, <1>3, <1>5, <3>1 DEF CounterKept
    <3>2. CASE ~Opens(r, k) /\ ~Beside(r, k) /\ ~Counting(k)
      BY <1>1, <1>3, <1>4, <1>5, <1>6, <3>2 DEF CounterKept, Drift
    <3>3. CASE ~Opens(r, k) /\ ~Beside(r, k) /\ Counting(k)
      <4>1. CASE new.count > Limit
        <5>1. passed'[k] <= passed[k]
          BY <3>3, <4>1 DEF new, seen
        <5> QED BY <1>1, <1>3, <1>5, <3>3, <5>1 DEF CounterKept
      <4>2. CASE ~(new.count > Limit)
        BY <1>1, <1>2, <1>3, <1>5, <2>1, <2>2, <3>3, <4>2
      <4> QED BY <4>1, <4>2
    <3> QED BY <3>1, <3>2, <3>3
  <2>4. Chained(k) => under'[k] = 0 /\ new.count = hits'[k]
    BY <1>1, <1>2, <1>3, <1>4, <1>5, <1>6, <1>7, <1>8 DEF CounterKept
  <2> QED BY <1>2, <1>5, <2>1, <2>2, <2>3, <2>4 DEF CounterKept, Drift
<1>10. ASSUME NEW s \in Requests, s # r PROVE ReadFits(rq[s], k)'
  <2>1. rq'[s] = rq[s] /\ ReadFits(rq[s], k) /\ CallFits(rq[s]) /\ rq[s].seen.count \in Nat
    BY <1>5, <1>10 DEF Countered, RateTypes, Entries
  <2>2. ASSUME rq[s].key = k, rq[s].stage \in ReadStages \cup PassedStages
        PROVE  /\ ~Chained(k)
               /\ hits'[k] - under'[k] = IF Opens(r, k) THEN 0 ELSE Drift(k)
    <3>1. Beside(r, k)
      BY <1>10, <2>2 DEF Beside, Acting, ReadStages, PassedStages
    <3> QED BY <1>1, <1>5, <1>7, <3>1 DEF Drift
  <2>3. ASSUME rq[s].key = k, rq[s].stage \in ReadStages
        PROVE  /\ (Drift(k) > 0)' => IF rq[s].seen = NoEntry THEN entry'[k].until <= now
                                     ELSE rq[s].seen.until = entry'[k].until
               /\ rq[s].seen # NoEntry => Drift(k)' <= rq[s].seen.count
    <3>1. /\ Drift(k) > 0 => IF rq[s].seen = NoEntry THEN entry[k].until <= now
                             ELSE rq[s].seen.until = entry[k].until
          /\ rq[s].seen # NoEntry => Drift(k) <= rq[s].seen.count
      BY <2>1, <2>3 DEF ReadFits
    <3>2. hits'[k] - under'[k] = IF Opens(r, k) THEN 0 ELSE Drift(k)
      BY <2>2, <2>3
    <3>3. ~Opens(r, k) /\ Drift(k) > 0 => entry'[k].until = entry[k].until
      BY <1>2, <1>4, <1>5, <1>6
    <3>4. Drift(k) \in Int
      BY <1>1 DEF Drift
    <3> QED BY <2>1, <3>1, <3>2, <3>3, <3>4 DEF Drift
  <2>4. ASSUME rq[s].key = k, rq[s].stage \in PassedStages
        PROVE  (Drift(k) < Limit)'
    <3>1. hits'[k] - under'[k] = IF Opens(r, k) THEN 0 ELSE Drift(k)
      BY <2>2, <2>4
    <3>2. ~Counting(k)
      BY <2>1, <2>4 DEF CallFits
    <3>3. ~Opens(r, k) => Drift(k) < Limit
      BY <1>1, <1>3, <1>4, <1>6, <3>2 DEF CounterKept
    <3> QED BY <1>1, <3>1, <3>3 DEF Drift
  <2>5. Chained(k) => ~(rq[s].key = k /\ rq[s].stage \in ReadStages)
    BY <2>2
  <2> QED BY <2>1, <2>3, <2>4, <2>5, <1>5 DEF ReadFits
<1>11. ASSUME NEW j \in Keys PROVE ReadFits(rq[r], j)'
  <2>1. rq'[r].stage \in {"idle", "provider"}
    BY <1>5
  <2> QED BY <2>1 DEF ReadFits, ReadStages, PassedStages
<1>12. ASSUME NEW j \in Keys, j # k
       PROVE  CounterKept(j)' /\ \A s \in Requests \ {r} : ReadFits(rq[s], j)'
  <2>1. CounterKept(j)'
    BY <1>5, <1>12 DEF Countered, CounterKept, Drift
  <2>2. ASSUME NEW s \in Requests \ {r} PROVE ReadFits(rq[s], j)'
    <3>1. ReadFits(rq[s], j) /\ rq'[s] = rq[s]
      BY <1>5 DEF Countered
    <3> QED BY <1>5, <1>12, <3>1 DEF ReadFits, Drift
  <2> QED BY <2>1, <2>2
<1> QED BY <1>9, <1>10, <1>11, <1>12 DEF Countered

(* How a call's move changes the queues: not at all, at the end, in front. *)
QueueMoves(r, v) ==
  /\ chain' \in [Keys -> Seq(Requests)]
  /\ \A k \in Keys : Chained(k) =>
       \/ /\ chain'[k] = chain[k] /\ (Waits(v, k) <=> Waits(rq[r], k))
          /\ v.key = k /\ v.stage = "set" => chain[k][1] = r
       \/ /\ chain'[k] = Append(chain[k], r)
          /\ ~Waits(rq[r], k) /\ Waits(v, k) /\ v.stage # "set"
       \/ /\ chain'[k] = Tail(chain[k]) /\ chain[k] # <<>> /\ chain[k][1] = r
          /\ ~Waits(v, k)

LEMMA QueuesMove ==
  ASSUME RateTypes, Queues, NEW r \in Requests, NEW v, rq' = [rq EXCEPT ![r] = v],
         QueueMoves(r, v)
  PROVE  Queues'
<1> SUFFICES ASSUME NEW k \in Keys, Chained(k) PROVE QueueKept(k)'
  BY DEF Queues, Chained
<1> DEFINE old == chain[k]
           new == chain'[k]
<1>1. \A s \in Requests : rq'[s] = IF s = r THEN v ELSE rq[s]
  BY DEF RateTypes
<1>2. /\ \A s \in Requests : Waits(rq[s], k) <=> \E i \in DOMAIN old : old[i] = s
      /\ \A i, j \in DOMAIN old : old[i] = old[j] => i = j
      /\ \A s \in Requests : rq[s].key = k /\ rq[s].stage = "set" => old[1] = s
  BY DEF Queues, QueueKept
<1>3. old \in Seq(Requests) /\ DOMAIN old = 1..Len(old) /\ Len(old) \in Nat
  BY DEF RateTypes
<1>4. ASSUME \A s \in Requests : Waits(rq'[s], k) <=> \E i \in DOMAIN new : new[i] = s,
             \A i, j \in DOMAIN new : new[i] = new[j] => i = j,
             \A s \in Requests : rq'[s].key = k /\ rq'[s].stage = "set" => new[1] = s
      PROVE  QueueKept(k)'
  BY <1>4 DEF QueueKept, Waits
<1>5. CASE /\ new = old /\ (Waits(v, k) <=> Waits(rq[r], k))
           /\ v.key = k /\ v.stage = "set" => old[1] = r
  <2> HIDE DEF old, new
  <2> QED BY <1>1, <1>2, <1>4, <1>5
<1>6. CASE /\ new = Append(old, r)
           /\ ~Waits(rq[r], k) /\ Waits(v, k) /\ v.stage # "set"
  <2> HIDE DEF old, new
  <2>1. /\ DOMAIN new = 1..(Len(old) + 1) /\ new[Len(old) + 1] = r
        /\ \A i \in 1..Len(old) : new[i] = old[i]
    BY <1>3, <1>6, AppendProperties
  <2>2. \A i \in 1..Len(old) : old[i] # r
    BY <1>2, <1>3, <1>6
  <2>3. \A s \in Requests : Waits(rq'[s], k) <=> \E i \in DOMAIN new : new[i] = s
    BY <1>1, <1>2, <1>3, <1>6, <2>1
  <2>4. \A i, j \in DOMAIN new : new[i] = new[j] => i = j
    BY <1>2, <1>3, <2>1, <2>2
  <2>5. ASSUME NEW s \in Requests, rq'[s].key = k, rq'[s].stage = "set" PROVE new[1] = s
    <3>1. s # r /\ rq'[s] = rq[s]
      BY <1>1, <1>6, <2>5
    <3>2. old[1] = s /\ Waits(rq[s], k)
      BY <1>2, <2>5, <3>1 DEF Waits
    <3>3. 1 \in 1..Len(old)
      BY <1>2, <1>3, <3>2
    <3> QED BY <2>1, <3>2, <3>3
  <2> QED BY <1>4, <2>3, <2>4, <2>5
<1>7. CASE /\ new = Tail(old) /\ old # <<>> /\ old[1] = r
           /\ ~Waits(v, k)
  <2> HIDE DEF old, new
  <2>1. /\ DOMAIN new = 1..(Len(old) - 1) /\ Len(old) >= 1
        /\ \A i \in 1..(Len(old) - 1) : new[i] = old[i + 1]
    BY <1>3, <1>7, HeadTailProperties
  <2>2. \A i \in 2..Len(old) : i - 1 \in 1..(Len(old) - 1) /\ new[i - 1] = old[i]
    BY <1>3, <2>1
  <2>3. \A i \in 2..Len(old) : old[i] # r
    BY <1>2, <1>3, <1>7, <2>1
  <2>4. ASSUME NEW s \in Requests
        PROVE  Waits(rq'[s], k) <=> \E i \in DOMAIN new : new[i] = s
    <3>1. CASE s = r
      <4>1. \A i \in DOMAIN new : new[i] # s
        BY <1>3, <2>1, <2>3, <3>1
      <4> QED BY <1>1, <1>7, <3>1, <4>1
    <3>2. CASE s # r
      <4>1. (\E i \in DOMAIN old : old[i] = s) => \E i \in DOMAIN new : new[i] = s
        <5> SUFFICES ASSUME NEW i \in DOMAIN old, old[i] = s
                     PROVE  \E j \in DOMAIN new : new[j] = s
          OBVIOUS
        <5>1. i \in 2..Len(old)
          BY <1>3, <1>7, <3>2
        <5> QED BY <2>1, <2>2, <5>1
      <4>2. (\E i \in DOMAIN new : new[i] = s) => \E i \in DOMAIN old : old[i] = s
        BY <1>3, <2>1
      <4> QED BY <1>1, <1>2, <3>2, <4>1, <4>2
    <3> QED BY <3>1, <3>2
  <2>5. ASSUME NEW i \in DOMAIN new, NEW j \in DOMAIN new, new[i] = new[j] PROVE i = j
    <3>1. i \in Int /\ j \in Int /\ i + 1 \in DOMAIN old /\ j + 1 \in DOMAIN old
      BY <1>3, <2>1
    <3>2. old[i + 1] = old[j + 1]
      BY <2>1, <2>5
    <3>3. i + 1 = j + 1
      BY <1>2, <3>1, <3>2
    <3> QED BY <3>1, <3>3
  <2>6. ASSUME NEW s \in Requests, rq'[s].key = k, rq'[s].stage = "set" PROVE FALSE
    <3>1. s # r
      BY <1>1, <1>7, <2>6 DEF Waits
    <3> QED BY <1>1, <1>2, <1>7, <2>6, <3>1
  <2> QED BY <1>4, <2>4, <2>5, <2>6
<1> QED BY <1>5, <1>6, <1>7 DEF QueueMoves

(* The first call of a queue leaves it.                                    *)
LEMMA NextLeaves ==
  ASSUME RateTypes, Queues, NEW r \in Requests, NEW v,
         rq[r].stage \in {"get", "set", "recount", "record"}, MyTurn(r),
         NextInChain(rq[r].key), v.stage \in {"idle", "provider"}
  PROVE  QueueMoves(r, v)
<1> DEFINE k == rq[r].key
<1>1. k \in Keys /\ chain \in [Keys -> Seq(Requests)] /\ CallFits(rq[r])
  BY DEF RateTypes, CallFits
<1>2. ASSUME NEW j \in Keys PROVE ~Waits(v, j)
  BY DEF Waits
<1>3. CASE Chained(k)
  <2>1. Waits(rq[r], k)
    BY <1>1, <1>3 DEF CallFits, Waits, Counting, PassedStages
  <2>2. chain[k] # <<>>
    BY <1>1, <1>3, <2>1 DEF Queues, QueueKept
  <2>3. chain[k][1] = r
    BY <1>3 DEF MyTurn
  <2>4. chain' = [chain EXCEPT ![k] = Tail(chain[k])]
    BY <1>3 DEF NextInChain
  <2>5. chain[k] \in Seq(Requests) /\ Tail(chain[k]) \in Seq(Requests)
    BY <1>1, <2>2, HeadTailProperties
  <2>6. chain' \in [Keys -> Seq(Requests)] /\ chain'[k] = Tail(chain[k])
        /\ \A j \in Keys : j # k => chain'[j] = chain[j]
    BY <1>1, <2>4, <2>5
  <2>7. ASSUME NEW j \in Keys, j # k PROVE ~Waits(rq[r], j) /\ ~(v.key = j /\ v.stage = "set")
    BY <2>7 DEF Waits
  <2> QED BY <1>2, <2>2, <2>3, <2>6, <2>7 DEF QueueMoves
<1>4. CASE ~Chained(k)
  <2>1. chain' = chain
    BY <1>4 DEF NextInChain
  <2>2. ASSUME NEW j \in Keys, Chained(j) PROVE ~Waits(rq[r], j) /\ ~(v.key = j /\ v.stage = "set")
    BY <1>4, <2>2 DEF Waits
  <2> QED BY <1>1, <1>2, <2>1, <2>2 DEF QueueMoves
<1> QED BY <1>3, <1>4

RateCall == [key : Keys \cup {"none"}, stage : RateStages, seen : Entries]

(* A call that moves on keeps everything.                                  *)
LEMMA MovesKeep ==
  ASSUME RateInv, UNCHANGED <<entry, now, hits, under, passed>>,
         NEW r \in Requests, NEW v, v \in RateCall, CallFits(v),
         rq' = [rq EXCEPT ![r] = v], QueueMoves(r, v),
         \A k \in Keys : ReadFits(v, k)
  PROVE  RateInv'
<1>1. Countered' /\ Queues'
  BY MoveKeeps, QueuesMove DEF RateInv
<1>2. rq' \in [Requests -> RateCall] /\ \A s \in Requests : rq'[s] = IF s = r THEN v ELSE rq[s]
  BY DEF RateInv, RateTypes, RateCall
<1>3. \A s \in Requests : CallFits(rq'[s])
  BY <1>2 DEF RateInv, RateTypes
<1>4. RateTypes'
  BY <1>2, <1>3 DEF RateInv, RateTypes, RateCall, QueueMoves, CallFits, Counting, Chained
<1> QED BY <1>1, <1>4 DEF RateInv

(* A call that neither waits before nor after leaves the queues alone.     *)
LEMMA QueuesStay ==
  ASSUME RateTypes, chain' = chain, NEW r \in Requests, NEW v,
         rq[r].stage \notin {"get", "set"} \/ ~Counting(rq[r].key),
         v.stage \notin {"get", "set"}
  PROVE  QueueMoves(r, v)
<1>1. ASSUME NEW k \in Keys, Chained(k) PROVE ~Waits(rq[r], k) /\ ~Waits(v, k)
  BY <1>1 DEF Waits, Counting
<1>2. ASSUME NEW k \in Keys PROVE ~(v.key = k /\ v.stage = "set")
  OBVIOUS
<1> QED BY <1>1, <1>2 DEF QueueMoves, RateTypes

(* The steps that leave the counters alone.                                *)
LEMMA ArriveKeeps ==
  ASSUME RateInv, NEW r \in Requests, NEW k \in Keys, Arrive(r, k)
  PROVE  RateInv'
<1> DEFINE v == [key |-> k, stage |-> "get", seen |-> NoEntry]
<1>1. v \in RateCall /\ CallFits(v) /\ \A j \in Keys : ReadFits(v, j)
  BY NoEntryTyped DEF RateCall, RateStages, CallFits, ReadFits, ReadStages, PassedStages
<1>2. /\ rq' = [rq EXCEPT ![r] = v] /\ rq[r].stage = "idle"
      /\ UNCHANGED <<entry, now, hits, under, passed>>
      /\ chain' = IF Chained(k) THEN [chain EXCEPT ![k] = Append(chain[k], r)] ELSE chain
  BY DEF Arrive, InStage
<1>3. QueueMoves(r, v)
  <2>1. chain \in [Keys -> Seq(Requests)]
    BY DEF RateInv, RateTypes
  <2>2. Append(chain[k], r) \in Seq(Requests)
    BY <2>1, AppendProperties
  <2>3. /\ chain' \in [Keys -> Seq(Requests)]
        /\ \A j \in Keys : j # k => chain'[j] = chain[j]
        /\ Chained(k) => chain'[k] = Append(chain[k], r)
    BY <1>2, <2>1, <2>2
  <2>4. \A j \in Keys : ~Waits(rq[r], j)
    BY <1>2 DEF Waits
  <2>5. Waits(v, k) /\ v.stage # "set" /\ \A j \in Keys : j # k => ~Waits(v, j)
    BY DEF Waits
  <2> HIDE DEF v
  <2> QED BY <2>3, <2>4, <2>5 DEF QueueMoves
<1> HIDE DEF v
<1> QED BY <1>1, <1>2, <1>3, MovesKeep

LEMMA CallKnown ==
  ASSUME RateTypes, NEW r \in Requests
  PROVE  /\ rq[r] \in RateCall /\ CallFits(rq[r])
         /\ rq[r].stage # "idle" => rq[r].key \in Keys
BY DEF RateTypes, RateCall, CallFits

(* What a call's record becomes when it goes to a stage.                   *)
LEMMA GoesTo ==
  ASSUME RateTypes, NEW r \in Requests, NEW stage \in RateStages, NEW seen \in Entries,
         Goes(r, stage, seen)
  PROVE  \E v \in RateCall : /\ rq' = [rq EXCEPT ![r] = v]
                             /\ v.key = rq[r].key /\ v.stage = stage /\ v.seen = seen
<1> DEFINE v == [rq[r] EXCEPT !.stage = stage, !.seen = seen]
<1>1. rq' = [rq EXCEPT ![r] = v]
  BY DEF Goes
<1>2. v \in RateCall /\ v.key = rq[r].key /\ v.stage = stage /\ v.seen = seen
  BY CallKnown DEF RateCall
<1> QED BY <1>1, <1>2

(* A call that answers is done.                                            *)
LEMMA AnswersKeep ==
  ASSUME RateInv, UNCHANGED <<entry, now, hits, under, passed>>,
         NEW r \in Requests, rq' = [rq EXCEPT ![r] = Quiet], QueueMoves(r, Quiet)
  PROVE  RateInv'
<1>1. Quiet \in RateCall /\ CallFits(Quiet) /\ \A k \in Keys : ReadFits(Quiet, k)
  BY QuietTyped DEF RateCall, CallFits, ReadFits, Quiet, ReadStages, PassedStages
<1> QED BY <1>1, MovesKeep

LEMMA ReadCountKeeps ==
  ASSUME RateInv, NEW r \in Requests, ReadCount(r)
  PROVE  RateInv'
<1> DEFINE k == rq[r].key
<1>1. /\ rq[r].stage = "get" /\ Counting(k) /\ MyTurn(r)
      /\ UNCHANGED <<entry, now, hits, under, passed, chain>>
      /\ Goes(r, "set", Cached(k))
  BY DEF ReadCount, InStage
<1>2. k \in Keys /\ RateTypes /\ Countered /\ Queues
  BY <1>1, CallKnown DEF RateInv
<1>3. PICK v \in RateCall : /\ rq' = [rq EXCEPT ![r] = v]
                            /\ v.key = k /\ v.stage = "set" /\ v.seen = Cached(k)
  BY <1>1, <1>2, CacheTells, GoesTo DEF RateStages
<1>4. CallFits(v)
  BY <1>1, <1>2, <1>3 DEF CallFits, PassedStages
<1>5. ASSUME NEW j \in Keys PROVE ReadFits(v, j)
  BY <1>2, <1>3, FreshRead DEF ReadFits, PassedStages
<1>6. QueueMoves(r, v)
  <2>1. ASSUME NEW j \in Keys
        PROVE  /\ Waits(v, j) <=> Waits(rq[r], j)
               /\ Chained(j) /\ v.key = j => chain[j][1] = r
    BY <1>1, <1>3 DEF Waits, MyTurn
  <2>2. chain' = chain /\ chain \in [Keys -> Seq(Requests)]
    BY <1>1, <1>2 DEF RateTypes
  <2> QED BY <2>1, <2>2 DEF QueueMoves
<1> QED BY <1>1, <1>3, <1>4, <1>5, <1>6, MovesKeep

LEMMA CacheFailsKeeps ==
  ASSUME RateInv, NEW r \in Requests, CacheFails(r)
  PROVE  RateInv'
<1>1. /\ rq[r].stage \in {"get", "set", "recount", "record"} /\ MyTurn(r)
      /\ NextInChain(rq[r].key) /\ rq' = [rq EXCEPT ![r] = Quiet]
      /\ UNCHANGED <<entry, now, hits, under, passed>>
  BY DEF CacheFails, Answers
<1>2. Quiet.stage \in {"idle", "provider"}
  BY DEF Quiet
<1>3. QueueMoves(r, Quiet)
  BY <1>1, <1>2, NextLeaves DEF RateInv
<1> QED BY <1>1, <1>3, AnswersKeep

(* The calls that do not count before they act.                            *)
LEMMA UncountedKeeps ==
  ASSUME RateInv, NEW r \in Requests,
         LookUp(r) \/ CheckPaused(r) \/ LoginFails(r) \/ LinkAnswered(r) \/ ReadTaken(r)
  PROVE  RateInv'
<1> DEFINE k == rq[r].key
<1>1. /\ UNCHANGED <<entry, now, hits, under, passed, chain>> /\ rq[r].stage # "idle"
      /\ rq[r].stage \notin {"get", "set"} \/ ~Counting(k)
  BY DEF LookUp, CheckPaused, LoginFails, LinkAnswered, ReadTaken, InStage
<1>2. k \in Keys /\ RateTypes /\ Countered /\ CallFits(rq[r]) /\ rq[r] \in RateCall
      /\ ReadFits(rq[r], k)
  BY <1>1, CallKnown DEF RateInv, Countered
<1>3. CASE rq' = [rq EXCEPT ![r] = Quiet]
  <2>1. QueueMoves(r, Quiet)
    BY <1>1, <1>2, QueuesStay DEF Quiet
  <2> QED BY <1>1, <1>3, <2>1, AnswersKeep
<1>4. ASSUME NEW stage \in PassedStages, NEW seen \in Entries, Goes(r, stage, seen), ~Counting(k),
             stage \in ReadStages =>
               /\ Drift(k) > 0 => IF seen = NoEntry THEN entry[k].until <= now
                                  ELSE seen.until = entry[k].until
               /\ seen # NoEntry => Drift(k) <= seen.count,
             Drift(k) < Limit \/ (entry[k].drop <= now /\ seen = NoEntry)
      PROVE  RateInv'
  <2>1. PICK v \in RateCall : /\ rq' = [rq EXCEPT ![r] = v]
                              /\ v.key = k /\ v.stage = stage /\ v.seen = seen
    BY <1>2, <1>4, GoesTo DEF RateStages, PassedStages
  <2>2. CallFits(v)
    BY <1>2, <1>4, <2>1 DEF CallFits, PassedStages
  <2>3. ~Chained(k)
    BY <1>4 DEF Counting
  <2>4. ASSUME NEW j \in Keys PROVE ReadFits(v, j)
    BY <1>4, <2>1, <2>3 DEF ReadFits
  <2>5. QueueMoves(r, v)
    BY <1>1, <1>2, <2>1, <1>4, QueuesStay DEF PassedStages
  <2> QED BY <1>1, <2>1, <2>2, <2>4, <2>5, MovesKeep
<1>5. CASE LookUp(r)
  BY <1>3, <1>5 DEF LookUp, Answers
<1>6. CASE CheckPaused(r)
  <2>1. CASE Cached(k).count >= Limit
    BY <1>3, <1>6, <2>1 DEF CheckPaused, Answers
  <2>2. CASE ~(Cached(k).count >= Limit)
    <3>1. Cached(k).count < Limit
      BY <1>2, <2>2, CacheTells, LimitNumbers DEF Entries
    <3>2. /\ Drift(k) < Limit \/ (entry[k].drop <= now /\ Cached(k) = NoEntry)
          /\ Drift(k) > 0 => IF Cached(k) = NoEntry THEN entry[k].until <= now
                             ELSE Cached(k).until = entry[k].until
          /\ Cached(k) # NoEntry => Drift(k) <= Cached(k).count
      BY <1>2, <3>1, FreshRead
    <3>3. ~Counting(k) /\ \/ Goes(r, "password", Cached(k))
                          \/ Goes(r, "link", NoEntry)
      BY <1>6, <2>2 DEF CheckPaused
    <3>4. Drift(k) < Limit \/ (entry[k].drop <= now /\ NoEntry = NoEntry)
      BY <3>2
    <3>5. Cached(k) \in Entries /\ NoEntry \in Entries
      BY <1>2, CacheTells, NoEntryTyped
    <3>6. CASE Goes(r, "password", Cached(k))
      BY <1>4, <3>2, <3>3, <3>5, <3>6 DEF PassedStages
    <3>7. CASE Goes(r, "link", NoEntry)
      BY <1>4, <3>3, <3>4, <3>5, <3>7 DEF PassedStages, ReadStages
    <3> QED BY <3>3, <3>6, <3>7
  <2> QED BY <2>1, <2>2
<1>7. CASE LoginFails(r)
  <2>1. rq[r].stage = "password" /\ ~Counting(k) /\ rq[r].seen \in Entries
    BY <1>2, <1>7 DEF LoginFails, InStage, CallFits, PassedStages, RateCall
  <2>2. /\ Drift(k) > 0 => IF rq[r].seen = NoEntry THEN entry[k].until <= now
                           ELSE rq[r].seen.until = entry[k].until
        /\ rq[r].seen # NoEntry => Drift(k) <= rq[r].seen.count
        /\ Drift(k) < Limit \/ (entry[k].drop <= now /\ rq[r].seen = NoEntry)
    BY <1>2, <2>1 DEF ReadFits, ReadStages, PassedStages
  <2>3. CASE Goes(r, "record", rq[r].seen)
    BY <1>4, <2>1, <2>2, <2>3 DEF PassedStages
  <2> QED BY <1>3, <1>7, <2>3 DEF LoginFails, Answers
<1>8. CASE LinkAnswered(r)
  <2>1. rq[r].stage = "link" /\ ~Counting(k)
    BY <1>2, <1>8 DEF LinkAnswered, InStage, CallFits, PassedStages
  <2>2. Drift(k) < Limit \/ (entry[k].drop <= now /\ NoEntry = NoEntry)
    BY <1>2, <2>1 DEF ReadFits, PassedStages
  <2>3. CASE Goes(r, "recount", NoEntry)
    BY <1>4, <2>1, <2>2, <2>3, NoEntryTyped DEF PassedStages, ReadStages
  <2> QED BY <1>3, <1>8, <2>3 DEF LinkAnswered, Answers
<1>9. CASE ReadTaken(r)
  <2>1. rq[r].stage = "recount" /\ ~Counting(k) /\ Goes(r, "record", Cached(k))
    BY <1>2, <1>9 DEF ReadTaken, InStage, CallFits, PassedStages
  <2>2. /\ Drift(k) > 0 => IF Cached(k) = NoEntry THEN entry[k].until <= now
                           ELSE Cached(k).until = entry[k].until
        /\ Cached(k) # NoEntry => Drift(k) <= Cached(k).count
    BY <1>2, FreshRead
  <2>3. Drift(k) < Limit \/ (entry[k].drop <= now /\ Cached(k) = NoEntry)
    <3>1. Drift(k) < Limit \/ entry[k].drop <= now
      BY <1>2, <2>1 DEF ReadFits, PassedStages
    <3>2. entry[k].drop \in Nat /\ now \in Nat
      BY <1>2 DEF RateTypes, Entries
    <3> QED BY <1>2, <3>1, <3>2, CacheTells
  <2>4. Cached(k) \in Entries
    BY <1>2, CacheTells
  <2> QED BY <1>4, <2>1, <2>2, <2>3, <2>4 DEF PassedStages
<1> QED BY <1>5, <1>6, <1>7, <1>8, <1>9

(* The steps that write a counter.                                         *)
LEMMA CountersTyped ==
  ASSUME RateTypes, NEW r \in Requests, NEW k \in Keys, NEW v, v \in RateCall, CallFits(v),
         rq' = [rq EXCEPT ![r] = v], now' = now, QueueMoves(r, v),
         entry' = [entry EXCEPT ![k] = Incremented(rq[r].seen)],
         hits' = [hits EXCEPT ![k] = IF Opens(r, k) THEN 1 ELSE hits[k] + 1],
         under' = [under EXCEPT ![k] = (IF Opens(r, k) THEN 0 ELSE under[k])
                                       + (IF Beside(r, k) THEN 1 ELSE 0)],
         passed' \in [Keys -> Nat]
  PROVE  RateTypes'
<1>1. /\ rq[r].seen \in Entries /\ now \in Nat
      /\ hits \in [Keys -> Nat] /\ under \in [Keys -> Nat] /\ entry \in [Keys -> Entries]
  BY DEF RateTypes
<1>2. Incremented(rq[r].seen) \in Entries
  BY <1>1, LimitNumbers DEF Incremented, Later, Entries
<1>3. hits' \in [Keys -> Nat] /\ under' \in [Keys -> Nat] /\ entry' \in [Keys -> Entries]
  <2>1. (IF Opens(r, k) THEN 1 ELSE hits[k] + 1) \in Nat
    BY <1>1
  <2>2. (IF Opens(r, k) THEN 0 ELSE under[k]) + (IF Beside(r, k) THEN 1 ELSE 0) \in Nat
    BY <1>1
  <2> QED BY <1>1, <1>2, <2>1, <2>2
<1>4. rq' \in [Requests -> RateCall] /\ \A s \in Requests : rq'[s] = IF s = r THEN v ELSE rq[s]
  BY DEF RateTypes, RateCall
<1>5. \A s \in Requests : CallFits(rq'[s])
  BY <1>4 DEF RateTypes
<1> QED BY <1>1, <1>3, <1>4, <1>5
        DEF RateTypes, RateCall, QueueMoves, CallFits, Counting, Chained

LEMMA WriteKeeps ==
  ASSUME RateInv, NEW r \in Requests, NEW k \in Keys, k = rq[r].key,
         rq[r].stage \in {"set", "record"}, NEW v, v \in RateCall, CallFits(v),
         v.stage \in {"idle", "provider"}, rq' = [rq EXCEPT ![r] = v], QueueMoves(r, v),
         now' = now, NEW pass \in {0, 1},
         Counting(k) /\ Incremented(rq[r].seen).count > Limit => pass = 0,
         entry' = [entry EXCEPT ![k] = Incremented(rq[r].seen)],
         hits' = [hits EXCEPT ![k] = IF Opens(r, k) THEN 1 ELSE hits[k] + 1],
         under' = [under EXCEPT ![k] = (IF Opens(r, k) THEN 0 ELSE under[k])
                                       + (IF Beside(r, k) THEN 1 ELSE 0)],
         passed' = [passed EXCEPT ![k] = (IF Opens(r, k) THEN 0 ELSE passed[k]) + pass]
  PROVE  RateInv'
<1>1. passed \in [Keys -> Nat]
  BY DEF RateInv, RateTypes
<1>2. (IF Opens(r, k) THEN 0 ELSE passed[k]) + pass \in Nat
  BY <1>1
<1>3. /\ passed' \in [Keys -> Nat] /\ \A j \in Keys : j # k => passed'[j] = passed[j]
      /\ passed'[k] = (IF Opens(r, k) THEN 0 ELSE passed[k]) + pass
  BY <1>1, <1>2
<1>4. /\ passed'[k] <= IF Opens(r, k) THEN 1 ELSE passed[k] + 1
      /\ Counting(k) /\ Incremented(rq[r].seen).count > Limit =>
           passed'[k] <= IF Opens(r, k) THEN 0 ELSE passed[k]
  BY <1>1, <1>3
<1>5. Countered'
  <2>1. RateTypes /\ Countered /\ Queues /\ rq[r].key = k
    BY DEF RateInv
  <2> QED BY <1>3, <1>4, <2>1, LandingKeeps
<1>6. RateTypes'
  <2>1. RateTypes
    BY DEF RateInv
  <2> QED BY <1>3, <2>1, CountersTyped
<1>7. Queues'
  BY QueuesMove DEF RateInv
<1> QED BY <1>5, <1>6, <1>7 DEF RateInv

LEMMA WriteCountKeeps ==
  ASSUME RateInv, NEW r \in Requests, WriteCount(r)
  PROVE  RateInv'
<1> DEFINE k == rq[r].key
           new == Incremented(rq[r].seen)
           pass == IF new.count <= Limit THEN 1 ELSE 0
<1>1. /\ rq[r].stage = "set" /\ MyTurn(r) /\ NextInChain(k) /\ now' = now
      /\ \/ rq' = [rq EXCEPT ![r] = Quiet]
         \/ Chained(k) /\ Goes(r, "provider", NoEntry)
  BY DEF WriteCount, InStage, Answers
<1>2. RateTypes /\ Queues /\ k \in Keys /\ rq[r].seen \in Entries
  BY <1>1, CallKnown DEF RateInv, RateCall
<1>3. /\ entry' = [entry EXCEPT ![k] = new]
      /\ hits' = [hits EXCEPT ![k] = IF Opens(r, k) THEN 1 ELSE hits[k] + 1]
      /\ under' = [under EXCEPT ![k] = (IF Opens(r, k) THEN 0 ELSE under[k])
                                       + (IF Beside(r, k) THEN 1 ELSE 0)]
      /\ passed' = [passed EXCEPT ![k] = (IF Opens(r, k) THEN 0 ELSE passed[k]) + pass]
  BY DEF WriteCount, Lands, Opens, Beside
<1>4. pass \in {0, 1} /\ (Counting(k) /\ new.count > Limit => pass = 0)
  <2>1. new.count \in Nat /\ Limit \in Nat
    BY <1>2, LimitNumbers DEF Incremented, Entries
  <2> QED BY <2>1
<1>5. PICK v \in RateCall : /\ rq' = [rq EXCEPT ![r] = v] /\ CallFits(v)
                            /\ v.stage \in {"idle", "provider"}
  <2>1. CASE rq' = [rq EXCEPT ![r] = Quiet]
    <3>1. Quiet \in RateCall /\ CallFits(Quiet) /\ Quiet.stage = "idle"
      BY QuietTyped DEF RateCall, CallFits, Quiet, PassedStages
    <3> QED BY <2>1, <3>1
  <2>2. CASE Chained(k) /\ Goes(r, "provider", NoEntry)
    <3>1. PICK v \in RateCall : /\ rq' = [rq EXCEPT ![r] = v]
                                /\ v.key = k /\ v.stage = "provider" /\ v.seen = NoEntry
      BY <1>2, <2>2, NoEntryTyped, GoesTo DEF RateStages
    <3>2. CallFits(v)
      BY <1>2, <2>2, <3>1 DEF CallFits, PassedStages
    <3> QED BY <3>1, <3>2
  <2> QED BY <1>1, <2>1, <2>2
<1>6. QueueMoves(r, v)
  BY <1>1, <1>2, <1>5, NextLeaves
<1> HIDE DEF pass
<1> QED BY <1>1, <1>2, <1>3, <1>4, <1>5, <1>6, WriteKeeps

LEMMA RecordKeeps ==
  ASSUME RateInv, NEW r \in Requests, Record(r)
  PROVE  RateInv'
<1> DEFINE k == rq[r].key
<1>1. /\ rq[r].stage = "record" /\ now' = now /\ chain' = chain
      /\ rq' = [rq EXCEPT ![r] = Quiet]
  BY DEF Record, InStage, Answers
<1>2. RateTypes /\ k \in Keys /\ CallFits(rq[r])
  BY <1>1, CallKnown DEF RateInv
<1>3. ~Counting(k)
  BY <1>1, <1>2 DEF CallFits, PassedStages
<1>4. /\ entry' = [entry EXCEPT ![k] = Incremented(rq[r].seen)]
      /\ hits' = [hits EXCEPT ![k] = IF Opens(r, k) THEN 1 ELSE hits[k] + 1]
      /\ under' = [under EXCEPT ![k] = (IF Opens(r, k) THEN 0 ELSE under[k])
                                       + (IF Beside(r, k) THEN 1 ELSE 0)]
      /\ passed' = [passed EXCEPT ![k] = (IF Opens(r, k) THEN 0 ELSE passed[k]) + 1]
  BY DEF Record, Lands, Opens, Beside
<1>5. Quiet \in RateCall /\ CallFits(Quiet) /\ Quiet.stage = "idle"
  BY QuietTyped DEF RateCall, CallFits, Quiet, PassedStages
<1>6. QueueMoves(r, Quiet)
  BY <1>1, <1>2, <1>5, QueuesStay
<1> QED BY <1>1, <1>2, <1>3, <1>4, <1>5, <1>6, WriteKeeps

(* A sign-in forgets the failures, and the reads of them are ahead.        *)
LEMMA LoginKeeps ==
  ASSUME RateInv, NEW r \in Requests, LoginSucceeds(r), NEW k \in Keys, rq[r].key = k
  PROVE  RateInv'
<1>1. /\ rq[r].stage = "password" /\ now' = now /\ chain' = chain
      /\ rq' = [rq EXCEPT ![r] = Quiet]
      /\ entry' = [entry EXCEPT ![k] = NoEntry] /\ hits' = [hits EXCEPT ![k] = 0]
      /\ under' = [under EXCEPT ![k] = 0] /\ passed' = [passed EXCEPT ![k] = 0]
  BY DEF LoginSucceeds, InStage, Answers
<1>2. RateTypes /\ Countered /\ Queues /\ k \in Keys /\ CallFits(rq[r])
  BY CallKnown DEF RateInv
<1>3. ~Chained(k)
  BY <1>1, <1>2 DEF CallFits, PassedStages, Counting
<1>4. Quiet \in RateCall /\ CallFits(Quiet) /\ Quiet.stage = "idle"
  BY QuietTyped DEF RateCall, CallFits, Quiet, PassedStages
<1>5. QueueMoves(r, Quiet)
  BY <1>1, <1>2, <1>4, QueuesStay
<1>6. /\ \A s \in Requests : rq'[s] = IF s = r THEN Quiet ELSE rq[s]
      /\ entry'[k] = NoEntry /\ hits'[k] = 0 /\ under'[k] = 0 /\ passed'[k] = 0
      /\ \A j \in Keys : j # k => /\ entry'[j] = entry[j] /\ hits'[j] = hits[j]
                                  /\ under'[j] = under[j] /\ passed'[j] = passed[j]
  BY <1>1, <1>2 DEF RateTypes
<1>7. RateTypes'
  <2>1. /\ entry' \in [Keys -> Entries] /\ hits' \in [Keys -> Nat]
        /\ under' \in [Keys -> Nat] /\ passed' \in [Keys -> Nat]
    BY <1>1, <1>2, NoEntryTyped DEF RateTypes
  <2>2. rq' \in [Requests -> RateCall]
    BY <1>1, <1>2, <1>4 DEF RateTypes, RateCall
  <2>3. \A s \in Requests : CallFits(rq'[s])
    BY <1>2, <1>4, <1>6 DEF RateTypes
  <2> QED BY <1>1, <1>2, <2>1, <2>2, <2>3
          DEF RateTypes, RateCall, CallFits, Counting, Chained
<1>8. Queues'
  BY <1>1, <1>2, <1>5, QueuesMove
<1>9. Countered'
  <2>1. ASSUME NEW j \in Keys, j # k PROVE CounterKept(j)'
    BY <1>1, <1>2, <1>6, <2>1 DEF Countered, CounterKept, Drift
  <2>2. CounterKept(k)'
    BY <1>3, <1>6, LimitNumbers DEF CounterKept, Drift, NoEntry, Chained
  <2>3. ASSUME NEW j \in Keys, NEW s \in Requests PROVE ReadFits(rq[s], j)'
    <3>1. CASE s = r
      BY <1>4, <1>6, <3>1 DEF ReadFits, ReadStages, PassedStages
    <3>2. CASE s # r /\ j # k
      <4>1. ReadFits(rq[s], j) /\ rq'[s] = rq[s]
        BY <1>2, <1>6, <3>2 DEF Countered
      <4> QED BY <1>1, <1>6, <3>2, <4>1 DEF ReadFits, Drift
    <3>3. CASE s # r /\ j = k
      <4>1. rq'[s] = rq[s] /\ rq[s].seen.count \in Nat
        BY <1>2, <1>6, <3>3 DEF RateTypes, Entries
      <4>2. hits'[j] - under'[j] = 0
        BY <1>6, <3>3
      <4> QED BY <1>3, <3>3, <4>1, <4>2, LimitNumbers DEF ReadFits, Drift, Chained
    <3> QED BY <3>1, <3>2, <3>3
  <2> QED BY <2>1, <2>2, <2>3 DEF Countered
<1> QED BY <1>7, <1>8, <1>9 DEF RateInv

LEMMA TickKeeps ==
  ASSUME RateInv, now' \in Nat, now' >= now, UNCHANGED <<entry, chain, rq, hits, under, passed>>
  PROVE  RateInv'
<1>1. RateTypes' /\ Queues'
  BY DEF RateInv, RateTypes, Queues, QueueKept, Waits, CallFits, Counting, Chained
<1>2. ASSUME NEW k \in Keys
      PROVE  CounterKept(k)' /\ \A r \in Requests : ReadFits(rq[r], k)'
  <2>1. entry[k].until \in Nat /\ entry[k].drop \in Nat /\ now \in Nat
    BY DEF RateInv, RateTypes, Entries
  <2>2. CounterKept(k)'
    BY <2>1 DEF RateInv, Countered, CounterKept, Drift
  <2>3. ASSUME NEW r \in Requests PROVE ReadFits(rq[r], k)'
    <3>1. ReadFits(rq[r], k)
      BY DEF RateInv, Countered
    <3> QED BY <2>1, <3>1 DEF ReadFits, Drift
  <2> QED BY <2>2, <2>3
<1> QED BY <1>1, <1>2 DEF RateInv, Countered

LEMMA RestartKeeps ==
  ASSUME RateInv, RateRestart
  PROVE  RateInv'
<1>1. /\ entry' = [k \in Keys |-> NoEntry] /\ chain' = [k \in Keys |-> <<>>]
      /\ rq' = [r \in Requests |-> Quiet] /\ hits' = [k \in Keys |-> 0]
      /\ under' = [k \in Keys |-> 0] /\ passed' = [k \in Keys |-> 0] /\ now' = now
      /\ now \in Nat
  BY DEF RateRestart, RateInv, RateTypes
<1>2. \A r \in Requests : rq'[r] = Quiet /\ rq'[r].stage = "idle"
  BY <1>1 DEF Quiet
<1>3. RateTypes'
  <2>1. CallFits(Quiet)
    BY DEF CallFits, Quiet, PassedStages
  <2>2. rq' \in [Requests -> RateCall] /\ entry' \in [Keys -> Entries]
    BY <1>1, QuietTyped, NoEntryTyped DEF RateCall
  <2>3. \A r \in Requests : CallFits(rq'[r])
    BY <1>2, <2>1
  <2> QED BY <1>1, <2>2, <2>3 DEF RateTypes, RateCall, CallFits, Counting, Chained
<1>4. Countered'
  <2>1. ASSUME NEW k \in Keys PROVE CounterKept(k)'
    BY <1>1, LimitNumbers DEF CounterKept, Drift, NoEntry
  <2>2. ASSUME NEW k \in Keys, NEW r \in Requests PROVE ReadFits(rq[r], k)'
    BY <1>2 DEF ReadFits, ReadStages, PassedStages
  <2> QED BY <2>1, <2>2 DEF Countered
<1>5. Queues'
  <2> SUFFICES ASSUME NEW k \in Keys PROVE QueueKept(k)'
    BY DEF Queues
  <2>1. chain'[k] = <<>> /\ DOMAIN (chain'[k]) = {}
    BY <1>1
  <2> QED BY <1>2, <2>1 DEF QueueKept, Waits
<1> QED BY <1>3, <1>4, <1>5 DEF RateInv

LEMMA RatesStep == RateInv /\ [RateNext]_limitVars => RateInv'
<1> SUFFICES ASSUME RateInv, [RateNext]_limitVars PROVE RateInv'
  OBVIOUS
<1>1. ASSUME NEW r \in Requests, RateStep(r) PROVE RateInv'
  <2>1. CASE LookUp(r) \/ CheckPaused(r) \/ LoginFails(r) \/ LinkAnswered(r) \/ ReadTaken(r)
    BY <2>1, UncountedKeeps
  <2>2. CASE LoginSucceeds(r)
    <3>1. rq[r].key \in Keys
      BY <2>2, CallKnown DEF LoginSucceeds, InStage, RateInv
    <3> QED BY <2>2, <3>1, LoginKeeps
  <2> QED BY <1>1, <2>1, <2>2, ReadCountKeeps, WriteCountKeeps, CacheFailsKeeps,
             RecordKeeps DEF RateStep
<1>2. ASSUME NEW r \in Requests, NEW k \in Keys, Arrive(r, k) PROVE RateInv'
  BY <1>2, ArriveKeeps
<1>3. now \in Nat
  BY DEF RateInv, RateTypes
<1>4. CASE Tick
  <2>1. now' \in Nat /\ now' >= now /\ UNCHANGED <<entry, chain, rq, hits, under, passed>>
    BY <1>3, <1>4 DEF Tick
  <2> QED BY <2>1, TickKeeps
<1>5. CASE RateRestart
  BY <1>5, RestartKeeps
<1>6. CASE UNCHANGED limitVars
  <2>1. now' \in Nat /\ now' >= now /\ UNCHANGED <<entry, chain, rq, hits, under, passed>>
    BY <1>3, <1>6 DEF limitVars
  <2> QED BY <2>1, TickKeeps
<1> QED BY <1>1, <1>2, <1>4, <1>5, <1>6 DEF RateNext

(* For any number of counters, callers and milliseconds and any budget: a   *)
(* look-up's counter is exact, the other ones fall short only by the calls  *)
(* counted beside an older read, and a queue holds the calls that wait.     *)
THEOREM TheLimitsHold == RateSpec => []LimitsHold
<1>1. RateInv => LimitsHold
  <2> SUFFICES ASSUME RateInv PROVE LimitsHold
    OBVIOUS
  <2>1. ASSUME NEW k \in Keys
        PROVE  /\ hits[k] \in Nat /\ under[k] \in Nat /\ passed[k] \in Nat /\ Limit \in Nat
               /\ CounterKept(k) /\ Cached(k).count \in Nat
               /\ Cached(k) # NoEntry => Cached(k) = entry[k] /\ now < entry[k].drop
    BY LimitNumbers, CacheTells DEF RateInv, RateTypes, Countered, Entries
  <2>2. ASSUME NEW k \in Keys, Chained(k)
        PROVE  /\ under[k] = 0 /\ passed[k] <= Limit
               /\ Cached(k) # NoEntry => Cached(k).count = hits[k]
    BY <2>1, <2>2 DEF CounterKept
  <2>3. ASSUME NEW k \in Keys
        PROVE  /\ passed[k] <= Limit + under[k]
               /\ Cached(k) # NoEntry => hits[k] <= Cached(k).count + under[k]
    BY <2>1 DEF CounterKept, Drift
  <2>4. ChainsHoldTheWaiting
    <3> SUFFICES ASSUME NEW k \in Keys, Chained(k)
                 PROVE  /\ {chain[k][i] : i \in DOMAIN chain[k]} =
                             {r \in Requests : rq[r].key = k /\ rq[r].stage \in {"get", "set"}}
                        /\ \A i, j \in DOMAIN chain[k] : i # j => chain[k][i] # chain[k][j]
      BY DEF ChainsHoldTheWaiting
    <3>1. QueueKept(k)
      BY DEF RateInv, Queues
    <3>2. \A i \in DOMAIN chain[k] : chain[k][i] \in Requests
      BY DEF RateInv, RateTypes
    <3> QED BY <3>1, <3>2 DEF QueueKept, Waits
  <2> QED BY <2>2, <2>3, <2>4 DEF LimitsHold, PlacesExact, ShortOnlyByOverlap
<1> QED BY <1>1, RateStart, RatesStep, PTL DEF RateSpec

-----------------------------------------------------------------------------
(***************************************************************************)
(* Signing in.                                                             *)
(***************************************************************************)
CodeStages ==
  {"deliver", "discard", "compare", "find", "insert", "reread", "activate", "finish",
   "end", "look"}

SessionRecords == [attempts : Nat, locked : BOOLEAN, live : BOOLEAN]

SignInCall ==
  [kind : {"none", "send", "login", "deletion", "app"} \cup Emails,
   stage : CodeStages \cup {"idle", "file", "link"},
   sid : Sessions \cup {"none"}, copy : SessionRecords, who : Accounts \cup {NoAccount}]

SignInTypes ==
  /\ session \in [Sessions -> SessionRecords]
  /\ DOMAIN issued \subseteq Sessions /\ \A s \in DOMAIN issued : issued[s] \in Phones
  /\ given \subseteq DOMAIN issued
  /\ account \in [Phones -> Accounts \cup {NoAccount}]
  /\ DOMAIN filed = Accounts /\ DOMAIN email = Accounts /\ DOMAIN linked = Accounts
  /\ calls \in [Calls -> SignInCall]
  /\ wrongs \in [Sessions -> Nat] /\ raced \in [Sessions -> Nat]
  /\ spent \in [Sessions -> {"no", "alone", "overlapped"}]
  /\ DOMAIN granted = Phones /\ told \subseteq Accounts

(* The wrong answers no older copy can take back are counted in the        *)
(* session, and in each copy of it that may still be written back; a       *)
(* session ended alone has no such copy.                                   *)
SessionKept(s) ==
  /\ s \notin DOMAIN issued => wrongs[s] = 0 /\ raced[s] = 0 /\ spent[s] = "no"
  /\ wrongs[s] <= MaxAttempts + raced[s]
  /\ session[s].live =>
       /\ spent[s] # "alone"
       /\ wrongs[s] - raced[s] <= session[s].attempts
       /\ session[s].locked <=> session[s].attempts >= MaxAttempts
       /\ raced[s] = 0 => session[s].attempts = wrongs[s]

CopyFits(v, s) ==
  v.stage = "compare" /\ v.sid = s =>
    /\ spent[s] # "alone" /\ v.copy.live
    /\ wrongs[s] - raced[s] <= v.copy.attempts /\ v.copy.attempts < MaxAttempts
    /\ raced[s] = 0 => v.copy.attempts = wrongs[s]

SessionsKept ==
  \A s \in Sessions : SessionKept(s) /\ \A c \in Calls : CopyFits(calls[c], s)

(* A call knows the session it is about and the account it signs in, and   *)
(* one that lost the race for a phone's first user finds the winner's.     *)
CallServes(v) ==
  /\ v.stage \in CodeStages => v.sid \in DOMAIN issued
  /\ v.stage \in {"activate", "finish"} =>
       v.who # NoAccount /\ v.who = account[issued[v.sid]]
  /\ v.stage = "reread" => account[issued[v.sid]] # NoAccount
  /\ v.stage \in {"file", "link"} => v.who \in Accounts

AccountsKept ==
  /\ \A p \in Phones : granted[p] \subseteq {account[p]} \ {NoAccount}
  /\ \A p, q \in Phones : p # q /\ account[p] # NoAccount => account[p] # account[q]
  /\ \A c \in Calls : CallServes(calls[c])

FiledRequests ==
  [n : Nat, status : {"open", "completed", "rejected"}, source : {"app", "web"},
   by : Accounts \cup {NoAccount}]

RequestsApart ==
  \A a \in Accounts :
    /\ filed[a] \subseteq FiledRequests /\ IsFiniteSet(filed[a])
    /\ a \in told => filed[a] # {}
    /\ \A q, r \in filed[a] : q.status = "open" /\ r.status = "open" => q = r
    /\ \A q \in filed[a] : (q.status = "open" <=> q.by = NoAccount) /\ q.by # a

EmailsApart ==
  /\ \A a \in Accounts : linked[a] \subseteq email[a] /\ Cardinality(email[a]) <= 1
  /\ \A a, b \in Accounts : a # b => email[a] \cap email[b] = {}

SignInInv == SignInTypes /\ SessionsKept /\ AccountsKept /\ RequestsApart /\ EmailsApart

LEMMA SignInNumbers ==
  /\ MaxAttempts \in Nat \ {0} /\ NoAccount \notin Accounts /\ Reviewers \subseteq Accounts
BY SignInAssumption DEF SignInAssumption

LEMMA RestingTyped ==
  /\ NoSession \in SessionRecords /\ NewSession \in SessionRecords
  /\ ~NoSession.live /\ NewSession.live /\ ~NewSession.locked /\ NewSession.attempts = 0
  /\ Resting \in SignInCall /\ Resting.stage = "idle" /\ Resting.sid = "none"
BY DEF NoSession, NewSession, SessionRecords, Resting, SignInCall

LEMMA RestingFits ==
  CallServes(Resting) /\ \A s \in Sessions : CopyFits(Resting, s)
BY RestingTyped DEF CallServes, CopyFits, CodeStages

LEMMA SignInStart ==
  ASSUME NEW start \in [Phones -> Accounts \cup {NoAccount}],
         \A p, q \in Phones : p # q /\ start[p] = start[q] => start[p] = NoAccount,
         SignInInit(start)
  PROVE  SignInInv
<1>1. SignInTypes
  BY RestingTyped DEF SignInInit, SignInTypes
<1>2. \A c \in Calls : calls[c] = Resting
  BY DEF SignInInit
<1>3. SessionsKept
  <2>1. ASSUME NEW s \in Sessions PROVE SessionKept(s)
    <3>1. wrongs[s] = 0 /\ raced[s] = 0 /\ spent[s] = "no" /\ session[s] = NoSession
      BY DEF SignInInit
    <3> QED BY <3>1, SignInNumbers, RestingTyped DEF SessionKept
  <2> QED BY <1>2, <2>1, RestingFits DEF SessionsKept
<1>4. AccountsKept
  <2>1. \A p \in Phones : granted[p] = {} /\ account[p] = start[p]
    BY DEF SignInInit
  <2> QED BY <1>2, <2>1, RestingFits DEF AccountsKept
<1>5. \A a \in Accounts : filed[a] = {} /\ email[a] = {} /\ linked[a] = {}
  BY DEF SignInInit
<1>6. told = {}
  BY DEF SignInInit
<1>7. RequestsApart
  BY <1>5, <1>6, FS_EmptySet DEF RequestsApart
<1>8. EmailsApart
  BY <1>5, FS_EmptySet DEF EmailsApart
<1> QED BY <1>1, <1>3, <1>4, <1>7, <1>8 DEF SignInInv

(* What a call's move leaves alone.                                        *)
LEMMA SessionsStay ==
  ASSUME SignInTypes, SessionsKept, UNCHANGED <<session, issued, wrongs, raced, spent>>,
         NEW c \in Calls, NEW v, calls' = [calls EXCEPT ![c] = v],
         \A s \in Sessions : CopyFits(v, s)
  PROVE  SessionsKept'
<1>1. \A d \in Calls : calls'[d] = IF d = c THEN v ELSE calls[d]
  BY DEF SignInTypes
<1>2. ASSUME NEW s \in Sessions PROVE SessionKept(s)'
  BY DEF SessionsKept, SessionKept
<1>3. ASSUME NEW s \in Sessions, NEW d \in Calls PROVE CopyFits(calls[d], s)'
  <2>1. CopyFits(calls'[d], s)
    BY <1>1 DEF SessionsKept
  <2> QED BY <2>1 DEF CopyFits
<1> QED BY <1>2, <1>3 DEF SessionsKept

LEMMA AccountsStay ==
  ASSUME SignInTypes, AccountsKept, UNCHANGED <<issued, account, granted>>,
         NEW c \in Calls, NEW v, calls' = [calls EXCEPT ![c] = v], CallServes(v)
  PROVE  AccountsKept'
<1>1. \A d \in Calls : calls'[d] = IF d = c THEN v ELSE calls[d]
  BY DEF SignInTypes
<1>2. ASSUME NEW d \in Calls PROVE CallServes(calls[d])'
  <2>1. CallServes(calls'[d])
    BY <1>1 DEF AccountsKept
  <2> QED BY <2>1 DEF CallServes
<1> QED BY <1>2 DEF AccountsKept

(* A call that only moves on.                                              *)
LEMMA CallMoves ==
  ASSUME SignInInv, UNCHANGED <<session, issued, account, filed, email, historyVars>>,
         given' \subseteq DOMAIN issued,
         NEW c \in Calls, NEW v, v \in SignInCall, calls' = [calls EXCEPT ![c] = v],
         CallServes(v), \A s \in Sessions : CopyFits(v, s)
  PROVE  SignInInv'
<1>1. UNCHANGED <<wrongs, raced, spent, granted, told, linked>>
  BY DEF historyVars
<1>2. SessionsKept'
  BY <1>1, SessionsStay DEF SignInInv
<1>3. AccountsKept'
  BY <1>1, AccountsStay DEF SignInInv
<1>4. SignInTypes'
  <2>1. calls' \in [Calls -> SignInCall]
    BY DEF SignInInv, SignInTypes
  <2> QED BY <1>1, <2>1 DEF SignInInv, SignInTypes
<1>5. RequestsApart' /\ EmailsApart'
  BY <1>1 DEF SignInInv, RequestsApart, EmailsApart
<1> QED BY <1>2, <1>3, <1>4, <1>5 DEF SignInInv

LEMMA CallEnds ==
  ASSUME SignInInv, UNCHANGED <<session, issued, account, filed, email, historyVars>>,
         given' \subseteq DOMAIN issued, NEW c \in Calls, Ends(c)
  PROVE  SignInInv'
BY CallMoves, RestingTyped, RestingFits DEF Ends

(* The steps of a call that only moves on.                                 *)
LEMMA MovingOn ==
  ASSUME SignInInv, NEW c \in Calls,
         \/ DeliverCode(c) \/ AnswerRight(c) \/ FindUser(c) \/ RereadUser(c) \/ Activate(c)
         \/ LookForAccount(c) \/ DatabaseFails(c)
  PROVE  SignInInv'
<1> DEFINE stands == UNCHANGED <<session, issued, account, filed, email, historyVars>>
           p == PhoneOf(c)
<1>1. /\ stands /\ given' \subseteq given \cup {calls[c].sid}
      /\ calls[c].stage \in CodeStages \/ given' = given
  BY DEF DeliverCode, AnswerRight, FindUser, RereadUser, Activate, LookForAccount,
         DatabaseFails, sessionVars, rowVars, At, CodeStages
<1>2. SignInTypes /\ CallServes(calls[c])
  BY DEF SignInInv, AccountsKept
<1>3. given' \subseteq DOMAIN issued
  BY <1>1, <1>2 DEF SignInTypes, CallServes
<1>4. CASE Ends(c)
  BY <1>1, <1>3, <1>4, CallEnds
<1>5. ASSUME NEW stage \in {"discard", "find", "end", "insert"}, Moves(c, stage),
             calls[c].stage \in CodeStages
      PROVE  SignInInv'
  <2> DEFINE v == [calls[c] EXCEPT !.stage = stage]
  <2>1. v \in SignInCall /\ v.stage = stage /\ v.sid = calls[c].sid
    BY <1>2 DEF SignInTypes, SignInCall, CodeStages
  <2>2. calls' = [calls EXCEPT ![c] = v]
    BY <1>5 DEF Moves
  <2> HIDE DEF v
  <2>3. CallServes(v) /\ \A s \in Sessions : CopyFits(v, s)
    BY <1>2, <1>5, <2>1 DEF CallServes, CopyFits, CodeStages
  <2> QED BY <1>1, <1>3, <2>1, <2>2, <2>3, CallMoves
<1>6. ASSUME NEW stage \in {"activate", "file"}, calls[c].stage \in CodeStages,
             account[p] # NoAccount,
             calls' = [calls EXCEPT ![c].stage = stage, ![c].who = account[p]]
      PROVE  SignInInv'
  <2> DEFINE v == [calls[c] EXCEPT !.stage = stage, !.who = account[p]]
  <2>1. calls[c].sid \in DOMAIN issued /\ p \in Phones /\ account[p] \in Accounts
    BY <1>2, <1>6 DEF CallServes, SignInTypes, PhoneOf
  <2>2. v \in SignInCall /\ v.stage = stage /\ v.sid = calls[c].sid /\ v.who = account[p]
    BY <1>2, <2>1 DEF SignInTypes, SignInCall, CodeStages
  <2>3. calls' = [calls EXCEPT ![c] = v]
    BY <1>6
  <2> HIDE DEF v
  <2>4. CallServes(v) /\ \A s \in Sessions : CopyFits(v, s)
    BY <1>6, <2>1, <2>2 DEF CallServes, CopyFits, CodeStages, PhoneOf
  <2> QED BY <1>1, <1>3, <2>2, <2>3, <2>4, CallMoves
<1>7. CASE DeliverCode(c)
  BY <1>4, <1>5, <1>7 DEF DeliverCode, At, CodeStages
<1>8. CASE AnswerRight(c)
  BY <1>5, <1>8 DEF AnswerRight, At, CodeStages
<1>9. CASE FindUser(c)
  BY <1>4, <1>5, <1>6, <1>9 DEF FindUser, SignsInAs, At, CodeStages
<1>10. CASE RereadUser(c)
  BY <1>4, <1>6, <1>10 DEF RereadUser, SignsInAs, At, CodeStages
<1>11. CASE Activate(c)
  <2> DEFINE v == [calls[c] EXCEPT !.stage = "finish"]
  <2>1. calls[c].stage = "activate" /\ calls' = [calls EXCEPT ![c] = v]
    BY <1>11 DEF Activate, At, Moves
  <2>2. v \in SignInCall /\ v.stage = "finish" /\ v.sid = calls[c].sid /\ v.who = calls[c].who
    BY <1>2 DEF SignInTypes, SignInCall, CodeStages
  <2> HIDE DEF v
  <2>3. CallServes(v) /\ \A s \in Sessions : CopyFits(v, s)
    BY <1>2, <2>1, <2>2 DEF CallServes, CopyFits, CodeStages
  <2> QED BY <1>1, <1>3, <2>1, <2>2, <2>3, CallMoves
<1>12. CASE LookForAccount(c)
  BY <1>4, <1>6, <1>12 DEF LookForAccount, At, CodeStages
<1>13. CASE DatabaseFails(c)
  BY <1>4, <1>13 DEF DatabaseFails
<1> QED BY <1>7, <1>8, <1>9, <1>10, <1>11, <1>12, <1>13

(* The steps that begin a call.                                            *)
LEMMA CodeIsChecked ==
  ASSUME SignInInv, NEW c \in Calls, NEW kind \in {"login", "deletion"}, NEW s \in Sessions,
         CheckCode(c, kind, s)
  PROVE  SignInInv'
<1> DEFINE v == [Resting EXCEPT !.kind = kind, !.stage = "compare", !.sid = s,
                                !.copy = session[s]]
<1>1. /\ s \in given /\ session[s].live /\ ~session[s].locked
      /\ calls' = [calls EXCEPT ![c] = v]
      /\ UNCHANGED <<session, issued, account, filed, email, historyVars, given>>
  BY DEF CheckCode, sessionVars, rowVars
<1>2. session[s] \in SessionRecords /\ s \in DOMAIN issued /\ SessionKept(s)
  BY <1>1 DEF SignInInv, SignInTypes, SessionsKept
<1>3. v \in SignInCall /\ v.stage = "compare" /\ v.sid = s /\ v.copy = session[s]
  BY <1>2, RestingTyped DEF SignInCall, CodeStages
<1> HIDE DEF v
<1>4. CallServes(v)
  BY <1>2, <1>3 DEF CallServes, CodeStages
<1>5. session[s].attempts \in Nat /\ MaxAttempts \in Nat
  BY <1>2, SignInNumbers DEF SessionRecords
<1>6. ASSUME NEW t \in Sessions PROVE CopyFits(v, t)
  BY <1>1, <1>2, <1>3, <1>5 DEF CopyFits, SessionKept
<1>7. given' \subseteq DOMAIN issued
  BY <1>1 DEF SignInInv, SignInTypes
<1> QED BY <1>1, <1>3, <1>4, <1>6, <1>7, CallMoves

LEMMA AppAsks ==
  ASSUME SignInInv, NEW c \in Calls, NEW a \in Accounts, AskFromApp(c, a)
  PROVE  SignInInv'
<1> DEFINE v == [Resting EXCEPT !.kind = "app", !.stage = "file", !.who = a]
<1>1. /\ calls' = [calls EXCEPT ![c] = v]
      /\ UNCHANGED <<session, issued, account, filed, email, historyVars, given>>
  BY DEF AskFromApp, sessionVars, rowVars
<1>2. v \in SignInCall /\ v.stage = "file" /\ v.who = a
  BY RestingTyped DEF SignInCall
<1> HIDE DEF v
<1>3. CallServes(v) /\ \A s \in Sessions : CopyFits(v, s)
  BY <1>2 DEF CallServes, CopyFits, CodeStages
<1>4. given' \subseteq DOMAIN issued
  BY <1>1 DEF SignInInv, SignInTypes
<1> QED BY <1>1, <1>2, <1>3, <1>4, CallMoves

LEMMA LinkBegins ==
  ASSUME SignInInv, NEW c \in Calls, NEW a \in Accounts, NEW e \in Emails, BeginLink(c, a, e)
  PROVE  SignInInv'
<1>1. /\ UNCHANGED <<session, issued, given, account, filed, email>>
      /\ UNCHANGED <<wrongs, raced, spent, granted, told>>
  BY DEF BeginLink, sessionVars, rowVars
<1>2. CASE email[a] = {}
  <2> DEFINE v == [Resting EXCEPT !.kind = e, !.stage = "link", !.who = a]
  <2>1. calls' = [calls EXCEPT ![c] = v] /\ UNCHANGED historyVars
    BY <1>1, <1>2 DEF BeginLink, historyVars
  <2>2. v \in SignInCall /\ v.stage = "link" /\ v.who = a
    BY RestingTyped DEF SignInCall
  <2> HIDE DEF v
  <2>3. CallServes(v) /\ \A s \in Sessions : CopyFits(v, s)
    BY <2>2 DEF CallServes, CopyFits, CodeStages
  <2>4. given' \subseteq DOMAIN issued
    BY <1>1 DEF SignInInv, SignInTypes
  <2> QED BY <1>1, <2>1, <2>2, <2>3, <2>4, CallMoves
<1>3. CASE email[a] # {}
  <2>1. calls' = calls /\ linked' = [linked EXCEPT ![a] = @ \cup ({e} \cap email[a])]
    BY <1>3 DEF BeginLink
  <2>2. /\ DOMAIN linked' = Accounts
        /\ \A b \in Accounts : linked'[b] \subseteq linked[b] \cup email[b]
    BY <2>1 DEF SignInInv, SignInTypes
  <2>3. SignInTypes'
    BY <1>1, <2>1, <2>2 DEF SignInInv, SignInTypes
  <2>4. SessionsKept'
    BY <1>1, <2>1 DEF SignInInv, SessionsKept, SessionKept, CopyFits
  <2>5. AccountsKept'
    BY <1>1, <2>1 DEF SignInInv, AccountsKept, CallServes
  <2>6. RequestsApart'
    BY <1>1 DEF SignInInv, RequestsApart
  <2>7. EmailsApart'
    <3>1. \A b \in Accounts : linked[b] \subseteq email[b]
      BY DEF SignInInv, EmailsApart
    <3> QED BY <1>1, <2>2, <3>1 DEF SignInInv, EmailsApart
  <2> QED BY <2>3, <2>4, <2>5, <2>6, <2>7 DEF SignInInv
<1> QED BY <1>2, <1>3

(* The steps that write sessions.                                          *)
LEMMA SessionDrops ==
  ASSUME SignInInv, NEW s \in Sessions, UNCHANGED <<issued, wrongs, raced>>,
         spent'[s] = spent[s] \/ s \in DOMAIN issued,
         session' = [session EXCEPT ![s] = NoSession],
         \A t \in Sessions : t # s => spent'[t] = spent[t],
         spent'[s] = "alone" => spent[s] = "alone" \/ Holders(s) = {},
         \A d \in Calls : calls'[d] = calls[d] \/ calls'[d].stage # "compare"
  PROVE  SessionsKept'
<1>1. session'[s] = NoSession /\ \A t \in Sessions : t # s => session'[t] = session[t]
  BY DEF SignInInv, SignInTypes
<1>2. ASSUME NEW t \in Sessions PROVE SessionKept(t)'
  <2>1. SessionKept(t)
    BY DEF SignInInv, SessionsKept
  <2>2. CASE t = s
    BY <1>1, <2>1, <2>2, RestingTyped DEF SessionKept
  <2>3. CASE t # s
    BY <1>1, <2>1, <2>3 DEF SessionKept
  <2> QED BY <2>2, <2>3
<1>3. ASSUME NEW t \in Sessions, NEW d \in Calls PROVE CopyFits(calls[d], t)'
  <2>1. CASE calls'[d].stage # "compare"
    BY <2>1 DEF CopyFits
  <2>2. CASE calls'[d] = calls[d] /\ calls[d].stage = "compare" /\ calls[d].sid = t
    <3>1. CopyFits(calls[d], t)
      BY DEF SignInInv, SessionsKept
    <3>2. d \in Holders(t)
      BY <2>2 DEF Holders, At
    <3>3. spent'[t] # "alone"
      BY <2>2, <3>1, <3>2 DEF CopyFits
    <3> QED BY <2>2, <3>1, <3>3 DEF CopyFits
  <2>3. CASE calls'[d] = calls[d] /\ calls[d].sid # t
    BY <2>3 DEF CopyFits
  <2> QED BY <2>1, <2>2, <2>3
<1> QED BY <1>2, <1>3 DEF SessionsKept

LEMMA CodeIsSent ==
  ASSUME SignInInv, NEW c \in Calls, NEW p \in Phones, NEW s \in Sessions, SendCode(c, p, s)
  PROVE  SignInInv'
<1> DEFINE v == [Resting EXCEPT !.kind = "send", !.stage = "deliver", !.sid = s]
<1>1. /\ s \notin DOMAIN issued
      /\ issued' = [t \in DOMAIN issued \cup {s} |-> IF t = s THEN p ELSE issued[t]]
      /\ session' = [session EXCEPT ![s] = NewSession] /\ calls' = [calls EXCEPT ![c] = v]
      /\ UNCHANGED <<given, account, filed, email>>
      /\ UNCHANGED <<wrongs, raced, spent, granted, told, linked>>
  BY DEF SendCode, rowVars, historyVars
<1>2. v \in SignInCall /\ v.stage = "deliver" /\ v.sid = s
  BY RestingTyped DEF SignInCall, CodeStages
<1> HIDE DEF v
<1>3. /\ DOMAIN issued' = DOMAIN issued \cup {s} /\ issued'[s] = p
      /\ \A t \in DOMAIN issued : issued'[t] = issued[t]
      /\ session'[s] = NewSession /\ \A t \in Sessions : t # s => session'[t] = session[t]
      /\ \A d \in Calls : calls'[d] = IF d = c THEN v ELSE calls[d]
  BY <1>1 DEF SignInInv, SignInTypes
<1>4. SignInTypes'
  <2>1. session' \in [Sessions -> SessionRecords] /\ calls' \in [Calls -> SignInCall]
    BY <1>1, <1>2, RestingTyped DEF SignInInv, SignInTypes
  <2> QED BY <1>1, <1>3, <2>1 DEF SignInInv, SignInTypes
<1>5. SessionsKept'
  <2>1. ASSUME NEW t \in Sessions PROVE SessionKept(t)'
    <3>1. SessionKept(t)
      BY DEF SignInInv, SessionsKept
    <3>2. CASE t = s
      BY <1>1, <1>3, <3>1, <3>2, RestingTyped, SignInNumbers DEF SessionKept
    <3>3. CASE t # s
      BY <1>1, <1>3, <3>1, <3>3 DEF SessionKept
    <3> QED BY <3>2, <3>3
  <2>2. ASSUME NEW t \in Sessions, NEW d \in Calls PROVE CopyFits(calls[d], t)'
    <3>1. CASE d = c
      BY <1>2, <1>3, <3>1 DEF CopyFits
    <3>2. CASE d # c
      <4>1. CopyFits(calls[d], t) /\ calls'[d] = calls[d]
        BY <1>3, <3>2 DEF SignInInv, SessionsKept
      <4> QED BY <1>1, <4>1 DEF CopyFits
    <3> QED BY <3>1, <3>2
  <2> QED BY <2>1, <2>2 DEF SessionsKept
<1>6. AccountsKept'
  <2>1. ASSUME NEW d \in Calls PROVE CallServes(calls[d])'
    <3>1. CASE d = c
      BY <1>2, <1>3, <3>1 DEF CallServes
    <3>2. CASE d # c
      <4>1. CallServes(calls[d]) /\ calls'[d] = calls[d]
        BY <1>3, <3>2 DEF SignInInv, AccountsKept
      <4> QED BY <1>1, <1>3, <4>1 DEF CallServes, CodeStages
    <3> QED BY <3>1, <3>2
  <2> QED BY <1>1, <2>1 DEF SignInInv, AccountsKept
<1>7. RequestsApart' /\ EmailsApart'
  BY <1>1 DEF SignInInv, RequestsApart, EmailsApart
<1> QED BY <1>4, <1>5, <1>6, <1>7 DEF SignInInv

LEMMA WrongIsCounted ==
  ASSUME SignInInv, NEW c \in Calls, AnswerWrong(c), NEW s \in Sessions, calls[c].sid = s
  PROVE  SignInInv'
<1> DEFINE copy == calls[c].copy
           new == WrongAttempt(copy)
           alone == Holders(s) = {c}
<1>1. /\ calls[c].stage = "compare" /\ calls' = [calls EXCEPT ![c] = Resting]
      /\ session' = [session EXCEPT ![s] = new]
      /\ wrongs' = [wrongs EXCEPT ![s] = wrongs[s] + 1]
      /\ raced' = [raced EXCEPT ![s] = raced[s] + (IF alone THEN 0 ELSE 1)]
      /\ UNCHANGED <<issued, given, account, filed, email, spent, granted, told, linked>>
  BY DEF AnswerWrong, At, Ends, rowVars
<1>2. /\ copy \in SessionRecords /\ CopyFits(calls[c], s) /\ SessionKept(s)
      /\ s \in DOMAIN issued /\ wrongs[s] \in Nat /\ raced[s] \in Nat
  <2>1. CallServes(calls[c])
    BY DEF SignInInv, AccountsKept
  <2>2. s \in DOMAIN issued
    BY <1>1, <2>1 DEF CallServes, CodeStages
  <2> QED BY <2>2 DEF SignInInv, SignInTypes, SignInCall, SessionsKept
<1>3. /\ copy.attempts \in Nat /\ copy.attempts < MaxAttempts /\ copy.live
      /\ spent[s] # "alone" /\ wrongs[s] - raced[s] <= copy.attempts
      /\ raced[s] = 0 => copy.attempts = wrongs[s]
      /\ MaxAttempts \in Nat
  BY <1>1, <1>2, SignInNumbers DEF CopyFits, SessionRecords
<1>4. /\ new \in SessionRecords /\ new.live = copy.live /\ new.attempts = copy.attempts + 1
      /\ new.locked = (copy.attempts + 1 >= MaxAttempts)
  <2> DEFINE n == copy.attempts + 1
             full == n >= MaxAttempts
  <2>1. n \in Nat /\ full \in BOOLEAN
    BY <1>3
  <2>2. new = [copy EXCEPT !.attempts = n, !.locked = full]
    BY DEF WrongAttempt
  <2>3. copy \in SessionRecords
    BY <1>2
  <2> HIDE DEF copy, new
  <2>4. n = copy.attempts + 1 /\ full = (copy.attempts + 1 >= MaxAttempts)
    OBVIOUS
  <2> HIDE DEF n, full
  <2>5. /\ new \in SessionRecords /\ new.live = copy.live /\ new.attempts = n
        /\ new.locked = full
    BY <2>1, <2>2, <2>3 DEF SessionRecords
  <2> QED BY <2>4, <2>5
<1>5. /\ session'[s] = new /\ \A t \in Sessions : t # s => session'[t] = session[t]
      /\ wrongs'[s] = wrongs[s] + 1 /\ raced'[s] = raced[s] + (IF alone THEN 0 ELSE 1)
      /\ \A t \in Sessions : t # s => wrongs'[t] = wrongs[t] /\ raced'[t] = raced[t]
      /\ \A d \in Calls : calls'[d] = IF d = c THEN Resting ELSE calls[d]
  BY <1>1 DEF SignInInv, SignInTypes
<1>6. c \in Holders(s)
  BY <1>1 DEF Holders, At
<1> HIDE DEF new, copy, alone
<1>7. SignInTypes'
  <2>1. raced[s] + (IF alone THEN 0 ELSE 1) \in Nat /\ wrongs[s] + 1 \in Nat
    BY <1>2
  <2>2. /\ session' \in [Sessions -> SessionRecords] /\ calls' \in [Calls -> SignInCall]
        /\ wrongs' \in [Sessions -> Nat] /\ raced' \in [Sessions -> Nat]
    BY <1>1, <1>4, <2>1, RestingTyped DEF SignInInv, SignInTypes
  <2> QED BY <1>1, <2>2 DEF SignInInv, SignInTypes
<1>8. ASSUME NEW t \in Sessions PROVE SessionKept(t)'
  <2>1. SessionKept(t)
    BY DEF SignInInv, SessionsKept
  <2>2. CASE t = s
    <3>1. /\ wrongs'[s] - raced'[s] <= new.attempts
          /\ wrongs'[s] <= MaxAttempts + raced'[s]
          /\ raced'[s] = 0 => new.attempts = wrongs'[s]
      BY <1>2, <1>3, <1>4, <1>5 DEF SessionKept
    <3>2. session'[s].locked <=> session'[s].attempts >= MaxAttempts
      BY <1>4, <1>5
    <3>3. s \in DOMAIN issued' /\ spent'[s] # "alone" /\ session'[s].attempts = new.attempts
      BY <1>1, <1>2, <1>3, <1>5
    <3> QED BY <2>2, <3>1, <3>2, <3>3 DEF SessionKept
  <2>3. CASE t # s
    BY <1>1, <1>5, <2>1, <2>3 DEF SessionKept
  <2> QED BY <2>2, <2>3
<1>9. ASSUME NEW t \in Sessions, NEW d \in Calls PROVE CopyFits(calls[d], t)'
  <2>1. CASE d = c
    BY <1>5, <2>1, RestingTyped DEF CopyFits
  <2>2. CASE d # c /\ t # s
    <3>1. CopyFits(calls[d], t) /\ calls'[d] = calls[d]
      BY <1>5, <2>2 DEF SignInInv, SessionsKept
    <3> QED BY <1>1, <1>5, <2>2, <3>1 DEF CopyFits
  <2>3. CASE d # c /\ t = s /\ calls[d].stage = "compare" /\ calls[d].sid = s
    <3>1. CopyFits(calls[d], s) /\ calls'[d] = calls[d]
      BY <1>5, <2>3 DEF SignInInv, SessionsKept
    <3>2. ~alone
      BY <2>3 DEF alone, Holders, At
    <3>3. wrongs'[s] - raced'[s] = wrongs[s] - raced[s] /\ raced'[s] # 0
      BY <1>2, <1>5, <3>2
    <3> QED BY <1>1, <2>3, <3>1, <3>3 DEF CopyFits
  <2>4. CASE d # c /\ t = s /\ ~(calls[d].stage = "compare" /\ calls[d].sid = s)
    BY <1>5, <2>4 DEF CopyFits
  <2> QED BY <2>1, <2>2, <2>3, <2>4
<1>10. SessionsKept'
  BY <1>8, <1>9 DEF SessionsKept
<1>11. AccountsKept'
  BY <1>1, RestingFits, AccountsStay DEF SignInInv
<1>12. RequestsApart' /\ EmailsApart'
  BY <1>1 DEF SignInInv, RequestsApart, EmailsApart
<1> QED BY <1>7, <1>10, <1>11, <1>12 DEF SignInInv

(* The code is right and the session is deleted, or nobody received it.    *)
LEMMA EndsSession ==
  ASSUME SignInInv, NEW c \in Calls, NEW s \in Sessions, calls[c].sid = s, s \in DOMAIN issued,
         session' = [session EXCEPT ![s] = NoSession],
         NEW w \in {"no", "alone", "overlapped"}, spent' = [spent EXCEPT ![s] = w],
         w = "alone" => spent[s] = "alone" \/ Holders(s) = {},
         UNCHANGED <<issued, given, account, filed, email, wrongs, raced, told, linked>>,
         NEW v \in SignInCall, calls' = [calls EXCEPT ![c] = v],
         v.stage = "idle" \/ (v.stage = "look" /\ v.sid = s),
         DOMAIN granted' = Phones,
         \A p \in Phones : granted'[p] \subseteq {account[p]} \ {NoAccount}
  PROVE  SignInInv'
<1>1. /\ \A d \in Calls : calls'[d] = IF d = c THEN v ELSE calls[d]
      /\ spent'[s] = w /\ \A t \in Sessions : t # s => spent'[t] = spent[t]
  BY DEF SignInInv, SignInTypes
<1>2. SignInTypes'
  <2>1. /\ session' \in [Sessions -> SessionRecords] /\ calls' \in [Calls -> SignInCall]
        /\ spent' \in [Sessions -> {"no", "alone", "overlapped"}]
    BY RestingTyped DEF SignInInv, SignInTypes
  <2> QED BY <2>1 DEF SignInInv, SignInTypes
<1>3. \A d \in Calls : calls'[d] = calls[d] \/ calls'[d].stage # "compare"
  BY <1>1
<1>4. SessionsKept'
  BY <1>1, <1>3, SessionDrops
<1>5. AccountsKept'
  <2>1. ASSUME NEW d \in Calls PROVE CallServes(calls[d])'
    <3>1. CASE d = c
      BY <1>1, <3>1 DEF CallServes, CodeStages
    <3>2. CASE d # c
      <4>1. CallServes(calls[d]) /\ calls'[d] = calls[d]
        BY <1>1, <3>2 DEF SignInInv, AccountsKept
      <4> QED BY <4>1 DEF CallServes
    <3> QED BY <3>1, <3>2
  <2> QED BY <2>1 DEF SignInInv, AccountsKept
<1>6. RequestsApart' /\ EmailsApart'
  BY DEF SignInInv, RequestsApart, EmailsApart
<1> QED BY <1>2, <1>4, <1>5, <1>6 DEF SignInInv

LEMMA CallNames ==
  ASSUME SignInInv, NEW c \in Calls, calls[c].stage \in CodeStages
  PROVE  /\ calls[c].sid \in DOMAIN issued /\ calls[c].sid \in Sessions
         /\ PhoneOf(c) \in Phones /\ PhoneOf(c) = issued[calls[c].sid]
         /\ calls[c] \in SignInCall /\ CallServes(calls[c])
<1>1. SignInTypes /\ CallServes(calls[c])
  BY DEF SignInInv, AccountsKept
<1> QED BY <1>1 DEF SignInTypes, CallServes, PhoneOf

LEMMA SignInFinishes ==
  ASSUME SignInInv, NEW c \in Calls, FinishSignIn(c), NEW s \in Sessions, calls[c].sid = s
  PROVE  SignInInv'
<1> DEFINE p == issued[s]
           w == IF Holders(s) = {} /\ spent[s] # "overlapped" THEN "alone" ELSE "overlapped"
<1>1. /\ calls[c].stage = "finish" /\ session' = [session EXCEPT ![s] = NoSession]
      /\ spent' = [spent EXCEPT ![s] = w]
      /\ granted' = [granted EXCEPT ![p] = granted[p] \cup {calls[c].who}]
      /\ calls' = [calls EXCEPT ![c] = Resting]
      /\ UNCHANGED <<issued, given, account, filed, email, wrongs, raced, told, linked>>
  BY DEF FinishSignIn, SessionEnded, At, Ends, rowVars, PhoneOf
<1>2. s \in DOMAIN issued /\ p \in Phones /\ CallServes(calls[c])
  BY <1>1, CallNames DEF CodeStages
<1>3. calls[c].who # NoAccount /\ calls[c].who = account[p]
  BY <1>1, <1>2 DEF CallServes
<1> HIDE DEF p
<1>4. /\ DOMAIN granted' = Phones
      /\ \A q \in Phones : granted'[q] \subseteq {account[q]} \ {NoAccount}
  <2>1. /\ DOMAIN granted = Phones
        /\ \A q \in Phones : granted[q] \subseteq {account[q]} \ {NoAccount}
    BY DEF SignInInv, SignInTypes, AccountsKept
  <2>2. DOMAIN granted' = Phones
    BY <1>1, <2>1
  <2>3. ASSUME NEW q \in Phones PROVE granted'[q] \subseteq {account[q]} \ {NoAccount}
    <3>1. granted'[q] = IF q = p THEN granted[q] \cup {calls[c].who} ELSE granted[q]
      BY <1>1, <2>1
    <3> QED BY <1>3, <2>1, <3>1
  <2> QED BY <2>2, <2>3
<1>5. w \in {"no", "alone", "overlapped"} /\ (w = "alone" => Holders(s) = {})
  OBVIOUS
<1> HIDE DEF w
<1> QED BY <1>1, <1>2, <1>4, <1>5, RestingTyped, EndsSession

LEMMA DeletionEnds ==
  ASSUME SignInInv, NEW c \in Calls, EndForDeletion(c), NEW s \in Sessions, calls[c].sid = s
  PROVE  SignInInv'
<1> DEFINE v == [calls[c] EXCEPT !.stage = "look"]
           w == IF Holders(s) = {} /\ spent[s] # "overlapped" THEN "alone" ELSE "overlapped"
<1>1. /\ calls[c].stage = "end" /\ session' = [session EXCEPT ![s] = NoSession]
      /\ spent' = [spent EXCEPT ![s] = w] /\ granted' = granted
      /\ calls' = [calls EXCEPT ![c] = v]
      /\ UNCHANGED <<issued, given, account, filed, email, wrongs, raced, told, linked>>
  BY DEF EndForDeletion, SessionEnded, At, Moves, rowVars
<1>2. s \in DOMAIN issued /\ calls[c] \in SignInCall
  BY <1>1, CallNames DEF CodeStages
<1>3. v \in SignInCall /\ v.stage = "look" /\ v.sid = s
  BY <1>2 DEF SignInCall, CodeStages
<1>4. w \in {"no", "alone", "overlapped"} /\ (w = "alone" => Holders(s) = {})
  OBVIOUS
<1>5. /\ DOMAIN granted' = Phones
      /\ \A q \in Phones : granted'[q] \subseteq {account[q]} \ {NoAccount}
  BY <1>1 DEF SignInInv, SignInTypes, AccountsKept
<1> HIDE DEF v, w
<1> QED BY <1>1, <1>2, <1>3, <1>4, <1>5, EndsSession

LEMMA CodeIsDiscarded ==
  ASSUME SignInInv, NEW c \in Calls, DiscardCode(c), NEW s \in Sessions, calls[c].sid = s
  PROVE  SignInInv'
<1>1. /\ calls[c].stage = "discard" /\ calls' = [calls EXCEPT ![c] = Resting]
      /\ session' = [session EXCEPT ![s] = NoSession] \/ session' = session
      /\ UNCHANGED <<issued, given, account, filed, email, historyVars>>
      /\ UNCHANGED <<wrongs, raced, spent, granted, told, linked>>
  BY DEF DiscardCode, At, Ends, rowVars, historyVars
<1>2. s \in DOMAIN issued /\ given' \subseteq DOMAIN issued
  BY <1>1, CallNames DEF CodeStages, SignInInv, SignInTypes
<1>3. CASE session' = session
  BY <1>1, <1>2, <1>3, CallEnds DEF Ends
<1>4. CASE session' = [session EXCEPT ![s] = NoSession]
  <2>1. PICK w \in {"no", "alone", "overlapped"} :
          spent' = [spent EXCEPT ![s] = w] /\ w = spent[s]
    BY <1>1 DEF SignInInv, SignInTypes
  <2>2. w = "alone" => spent[s] = "alone" \/ Holders(s) = {}
    BY <2>1
  <2>3. /\ DOMAIN granted' = Phones
        /\ \A q \in Phones : granted'[q] \subseteq {account[q]} \ {NoAccount}
    BY <1>1 DEF SignInInv, SignInTypes, AccountsKept
  <2>4. Resting \in SignInCall /\ Resting.stage = "idle"
    BY RestingTyped
  <2>5. /\ calls' = [calls EXCEPT ![c] = Resting]
        /\ UNCHANGED <<issued, given, account, filed, email, wrongs, raced, told, linked>>
    BY <1>1
  <2> QED BY <1>2, <1>4, <2>1, <2>2, <2>3, <2>4, <2>5, EndsSession
<1> QED BY <1>1, <1>3, <1>4

LEMMA SessionExpires ==
  ASSUME SignInInv, NEW s \in Sessions, Expire(s)
  PROVE  SignInInv'
<1>1. /\ session' = [session EXCEPT ![s] = NoSession] /\ calls' = calls
      /\ UNCHANGED <<issued, given, account, filed, email>>
      /\ UNCHANGED <<wrongs, raced, spent, granted, told, linked>>
  BY DEF Expire, rowVars, historyVars
<1>2. SessionsKept'
  BY <1>1, SessionDrops
<1>3. SignInTypes'
  BY <1>1, RestingTyped DEF SignInInv, SignInTypes
<1>4. AccountsKept' /\ RequestsApart' /\ EmailsApart'
  BY <1>1 DEF SignInInv, AccountsKept, CallServes, RequestsApart, EmailsApart
<1> QED BY <1>2, <1>3, <1>4 DEF SignInInv

(* The first sign-in of a phone.                                           *)
LEMMA UserIsInserted ==
  ASSUME SignInInv, NEW c \in Calls, InsertUser(c), NEW p \in Phones, PhoneOf(c) = p
  PROVE  SignInInv'
<1>1. calls[c].stage = "insert"
  BY DEF InsertUser, At
<1>2. /\ calls[c].sid \in DOMAIN issued /\ p = issued[calls[c].sid]
      /\ calls[c] \in SignInCall
  BY <1>1, CallNames DEF CodeStages
<1>3. CASE account[p] # NoAccount
  <2> DEFINE v == [calls[c] EXCEPT !.stage = "reread"]
  <2>1. /\ calls' = [calls EXCEPT ![c] = v]
        /\ UNCHANGED <<session, issued, given, account, filed, email, historyVars>>
    BY <1>3 DEF InsertUser, Moves, sessionVars
  <2>2. v \in SignInCall /\ v.stage = "reread" /\ v.sid = calls[c].sid
    BY <1>2 DEF SignInCall, CodeStages
  <2> HIDE DEF v
  <2>3. CallServes(v) /\ \A s \in Sessions : CopyFits(v, s)
    BY <1>2, <1>3, <2>2 DEF CallServes, CopyFits
  <2>4. given' \subseteq DOMAIN issued
    BY <2>1 DEF SignInInv, SignInTypes
  <2> QED BY <2>1, <2>2, <2>3, <2>4, CallMoves
<1>4. CASE account[p] = NoAccount
  <2>1. PICK a \in Accounts :
          /\ \A q \in Phones : account[q] # a
          /\ account' = [account EXCEPT ![p] = a]
          /\ calls' = [calls EXCEPT ![c].stage = "activate", ![c].who = a]
    BY <1>4 DEF InsertUser
  <2> DEFINE v == [calls[c] EXCEPT !.stage = "activate", !.who = a]
  <2>2. /\ calls' = [calls EXCEPT ![c] = v]
        /\ UNCHANGED <<session, issued, given, filed, email>>
        /\ UNCHANGED <<wrongs, raced, spent, granted, told, linked>>
    BY <2>1 DEF InsertUser, sessionVars, historyVars
  <2>3. v \in SignInCall /\ v.stage = "activate" /\ v.sid = calls[c].sid /\ v.who = a
    BY <1>2 DEF SignInCall, CodeStages
  <2> HIDE DEF v
  <2>4. /\ account'[p] = a /\ \A q \in Phones : q # p => account'[q] = account[q]
        /\ \A d \in Calls : calls'[d] = IF d = c THEN v ELSE calls[d]
    BY <2>1, <2>2 DEF SignInInv, SignInTypes
  <2>5. SignInTypes'
    <3>1. account' \in [Phones -> Accounts \cup {NoAccount}] /\ calls' \in [Calls -> SignInCall]
      BY <2>1, <2>2, <2>3 DEF SignInInv, SignInTypes
    <3> QED BY <2>2, <3>1 DEF SignInInv, SignInTypes
  <2>6. SessionsKept'
    BY <2>2, <2>3, SessionsStay DEF SignInInv, CopyFits
  <2>7. AccountsKept'
    <3>1. AccountsKept /\ a # NoAccount
      BY SignInNumbers DEF SignInInv
    <3>2. ASSUME NEW q \in Phones PROVE granted'[q] \subseteq {account'[q]} \ {NoAccount}
      BY <1>4, <2>2, <2>4, <3>1 DEF AccountsKept
    <3>3. ASSUME NEW q \in Phones, NEW r \in Phones, q # r, account'[q] # NoAccount
          PROVE  account'[q] # account'[r]
      BY <2>1, <2>4, <3>1, <3>3 DEF AccountsKept
    <3>4. ASSUME NEW d \in Calls PROVE CallServes(calls[d])'
      <4>1. CASE d = c
        BY <1>2, <2>2, <2>3, <2>4, <3>1, <4>1 DEF CallServes
      <4>2. CASE d # c
        <5>1. CallServes(calls[d]) /\ calls'[d] = calls[d]
          BY <2>4, <3>1, <4>2 DEF AccountsKept
        <5>2. calls[d].stage \in CodeStages => issued[calls[d].sid] \in Phones
          BY <5>1 DEF CallServes, SignInInv, SignInTypes
        <5> QED BY <1>4, <2>2, <2>4, <5>1, <5>2 DEF CallServes, CodeStages
      <4> QED BY <4>1, <4>2
    <3> QED BY <3>2, <3>3, <3>4 DEF AccountsKept
  <2>8. RequestsApart' /\ EmailsApart'
    BY <2>2 DEF SignInInv, RequestsApart, EmailsApart
  <2> QED BY <2>5, <2>6, <2>7, <2>8 DEF SignInInv
<1> QED BY <1>3, <1>4

(* The requests of one account.                                            *)
LEMMA RequestsMove ==
  ASSUME SignInTypes, RequestsApart, NEW a \in Accounts, NEW F,
         F \subseteq FiledRequests, IsFiniteSet(F), F # {},
         \A q, r \in F : q.status = "open" /\ r.status = "open" => q = r,
         \A q \in F : (q.status = "open" <=> q.by = NoAccount) /\ q.by # a,
         filed' = [filed EXCEPT ![a] = F], told' \subseteq told \cup {a}
  PROVE  RequestsApart'
<1>1. filed'[a] = F /\ \A b \in Accounts : b # a => filed'[b] = filed[b]
  BY DEF SignInTypes
<1>2. ASSUME NEW b \in Accounts
      PROVE  /\ filed'[b] \subseteq FiledRequests /\ IsFiniteSet(filed'[b])
             /\ b \in told' => filed'[b] # {}
             /\ \A q, r \in filed'[b] : q.status = "open" /\ r.status = "open" => q = r
             /\ \A q \in filed'[b] : (q.status = "open" <=> q.by = NoAccount) /\ q.by # b
  <2>1. CASE b = a
    BY <1>1, <2>1
  <2>2. CASE b # a
    <3>1. filed'[b] = filed[b] /\ (b \in told' => b \in told)
      BY <1>1, <2>2
    <3> QED BY <3>1 DEF RequestsApart
  <2> QED BY <2>1, <2>2
<1> QED BY <1>2 DEF RequestsApart, FiledRequests

LEMMA RequestIsFiled ==
  ASSUME SignInInv, NEW c \in Calls, FileRequest(c), NEW a \in Accounts, calls[c].who = a
  PROVE  SignInInv'
<1> DEFINE source == IF calls[c].kind = "app" THEN "app" ELSE "web"
           new == [n |-> Cardinality(filed[a]) + 1, status |-> "open",
                   source |-> source, by |-> NoAccount]
           F == filed[a] \cup {new}
<1>1. /\ filed' = IF OpenOf(a) = {} THEN [filed EXCEPT ![a] = F] ELSE filed
      /\ told' = told \cup {a} /\ calls' = [calls EXCEPT ![c] = Resting]
      /\ UNCHANGED <<session, issued, given, account, email>>
      /\ UNCHANGED <<wrongs, raced, spent, granted, linked>>
  BY DEF FileRequest, Ends, sessionVars
<1>2. /\ filed[a] \subseteq FiledRequests /\ IsFiniteSet(filed[a])
      /\ \A q \in filed[a] : (q.status = "open" <=> q.by = NoAccount) /\ q.by # a
  BY DEF SignInInv, RequestsApart
<1>3. Cardinality(filed[a]) + 1 \in Nat
  BY <1>2, FS_CardinalityType
<1>4. new \in FiledRequests /\ new.status = "open" /\ new.by = NoAccount
  BY <1>3 DEF FiledRequests
<1> HIDE DEF new
<1>5. F \subseteq FiledRequests /\ IsFiniteSet(F) /\ F # {}
  BY <1>2, <1>4, FS_AddElement
<1>6. RequestsApart'
  <2>1. CASE OpenOf(a) = {}
    <3>1. filed' = [filed EXCEPT ![a] = F]
      BY <1>1, <2>1
    <3>2. \A q \in filed[a] : q.status # "open"
      BY <2>1 DEF OpenOf
    <3>3. \A q, r \in F : q.status = "open" /\ r.status = "open" => q = r
      BY <3>2
    <3>4. \A q \in F : (q.status = "open" <=> q.by = NoAccount) /\ q.by # a
      BY <1>2, <1>4, SignInNumbers
    <3> HIDE DEF F
    <3> QED BY <1>1, <1>5, <3>1, <3>3, <3>4, RequestsMove DEF SignInInv
  <2>2. CASE OpenOf(a) # {}
    <3>1. filed' = filed /\ filed[a] # {}
      BY <1>1, <2>2 DEF OpenOf
    <3> QED BY <1>1, <3>1 DEF SignInInv, RequestsApart
  <2> QED BY <2>1, <2>2
<1>7. DOMAIN filed' = Accounts
  BY <1>1 DEF SignInInv, SignInTypes
<1>8. SignInTypes'
  <2>1. calls' \in [Calls -> SignInCall] /\ told' \subseteq Accounts
    BY <1>1, RestingTyped DEF SignInInv, SignInTypes
  <2> QED BY <1>1, <1>7, <2>1 DEF SignInInv, SignInTypes
<1>9. SessionsKept' /\ AccountsKept'
  BY <1>1, RestingFits, SessionsStay, AccountsStay DEF SignInInv
<1>10. EmailsApart'
  BY <1>1 DEF SignInInv, EmailsApart
<1> QED BY <1>6, <1>8, <1>9, <1>10 DEF SignInInv

LEMMA RequestIsResolved ==
  ASSUME SignInInv, NEW admin \in Accounts, NEW a \in Accounts, NEW n,
         NEW verdict \in {"completed", "rejected"}, Resolve(admin, a, n, verdict)
  PROVE  SignInInv'
<1>1. PICK q \in OpenOf(a) :
        filed' = [filed EXCEPT ![a] =
                    (filed[a] \ {q}) \cup {[q EXCEPT !.status = verdict, !.by = admin]}]
  BY DEF Resolve
<1> DEFINE w == [q EXCEPT !.status = verdict, !.by = admin]
           F == (filed[a] \ {q}) \cup {w}
<1>2. /\ admin # a /\ UNCHANGED <<session, issued, given, account, email, calls>>
      /\ UNCHANGED <<wrongs, raced, spent, granted, told, linked>>
      /\ filed' = [filed EXCEPT ![a] = F]
  BY <1>1 DEF Resolve, sessionVars, historyVars
<1>3. /\ filed[a] \subseteq FiledRequests /\ IsFiniteSet(filed[a]) /\ q \in filed[a]
      /\ q.status = "open"
      /\ \A o, r \in filed[a] : o.status = "open" /\ r.status = "open" => o = r
      /\ \A o \in filed[a] : (o.status = "open" <=> o.by = NoAccount) /\ o.by # a
  BY DEF SignInInv, RequestsApart, OpenOf
<1>4. w \in FiledRequests /\ w.status = verdict /\ w.by = admin
  BY <1>3 DEF FiledRequests
<1> HIDE DEF w
<1>5. F \subseteq FiledRequests /\ IsFiniteSet(F) /\ F # {}
  <2>1. IsFiniteSet(filed[a] \ {q})
    BY <1>3, FS_RemoveElement
  <2> QED BY <1>3, <1>4, <2>1, FS_AddElement
<1>6. /\ \A o, r \in F : o.status = "open" /\ r.status = "open" => o = r
      /\ \A o \in F : (o.status = "open" <=> o.by = NoAccount) /\ o.by # a
  BY <1>2, <1>3, <1>4, SignInNumbers
<1> HIDE DEF F
<1>7. RequestsApart'
  BY <1>2, <1>5, <1>6, RequestsMove DEF SignInInv
<1>8. DOMAIN filed' = Accounts
  BY <1>2 DEF SignInInv, SignInTypes
<1>9. SignInTypes'
  BY <1>2, <1>8 DEF SignInInv, SignInTypes
<1>10. SessionsKept'
  BY <1>2 DEF SignInInv, SessionsKept, SessionKept, CopyFits
<1>11. AccountsKept' /\ EmailsApart'
  BY <1>2 DEF SignInInv, AccountsKept, CallServes, EmailsApart
<1> QED BY <1>7, <1>9, <1>10, <1>11 DEF SignInInv

LEMMA EmailIsSet ==
  ASSUME SignInInv, NEW c \in Calls, SetEmail(c),
         NEW a \in Accounts, calls[c].who = a, NEW e, calls[c].kind = e
  PROVE  SignInInv'
<1> DEFINE sets == email[a] = {} /\ \A b \in Accounts : e \notin email[b]
<1>1. /\ email' = IF sets THEN [email EXCEPT ![a] = {e}] ELSE email
      /\ linked' = IF sets THEN [linked EXCEPT ![a] = linked[a] \cup {e}] ELSE linked
      /\ calls' = [calls EXCEPT ![c] = Resting]
      /\ UNCHANGED <<session, issued, given, account, filed>>
      /\ UNCHANGED <<wrongs, raced, spent, granted, told>>
  BY DEF SetEmail, Ends, sessionVars
<1>2. DOMAIN email = Accounts /\ DOMAIN linked = Accounts /\ EmailsApart
  BY DEF SignInInv, SignInTypes
<1>3. EmailsApart'
  <2>1. CASE ~sets
    BY <1>1, <1>2, <2>1 DEF EmailsApart
  <2>2. CASE sets
    <3>1. /\ email'[a] = {e} /\ linked'[a] = linked[a] \cup {e} /\ linked[a] \subseteq {}
          /\ \A b \in Accounts : b # a => email'[b] = email[b] /\ linked'[b] = linked[b]
      BY <1>1, <1>2, <2>2 DEF EmailsApart
    <3>2. Cardinality({e}) = 1
      BY FS_Singleton
    <3>3. ASSUME NEW b \in Accounts
          PROVE  linked'[b] \subseteq email'[b] /\ Cardinality(email'[b]) <= 1
      BY <1>2, <3>1, <3>2 DEF EmailsApart
    <3>4. ASSUME NEW b \in Accounts, NEW d \in Accounts, b # d
          PROVE  email'[b] \cap email'[d] = {}
      <4>1. email[b] \cap email[d] = {} /\ e \notin email[b] /\ e \notin email[d]
        BY <1>2, <2>2, <3>4 DEF EmailsApart
      <4> QED BY <3>1, <3>4, <4>1
    <3> QED BY <3>3, <3>4 DEF EmailsApart
  <2> QED BY <2>1, <2>2
<1>4. DOMAIN email' = Accounts /\ DOMAIN linked' = Accounts
  BY <1>1, <1>2
<1> HIDE DEF sets
<1>5. SignInTypes'
  <2>1. calls' \in [Calls -> SignInCall]
    BY <1>1, RestingTyped DEF SignInInv, SignInTypes
  <2> QED BY <1>1, <1>4, <2>1 DEF SignInInv, SignInTypes
<1>6. SessionsKept' /\ AccountsKept'
  BY <1>1, RestingFits, SessionsStay, AccountsStay DEF SignInInv
<1>7. RequestsApart'
  BY <1>1 DEF SignInInv, RequestsApart
<1> QED BY <1>3, <1>5, <1>6, <1>7 DEF SignInInv

LEMMA SignInsRestart ==
  ASSUME SignInInv, SignInRestart
  PROVE  SignInInv'
<1>1. /\ session' = [s \in Sessions |-> NoSession] /\ calls' = [d \in Calls |-> Resting]
      /\ UNCHANGED <<issued, given, account, filed, email>>
      /\ UNCHANGED <<wrongs, raced, spent, granted, told, linked>>
  BY DEF SignInRestart, rowVars, historyVars
<1>2. SignInTypes'
  <2>1. session' \in [Sessions -> SessionRecords] /\ calls' \in [Calls -> SignInCall]
    BY <1>1, RestingTyped
  <2> QED BY <1>1, <2>1 DEF SignInInv, SignInTypes
<1>3. SessionsKept'
  <2>1. ASSUME NEW s \in Sessions PROVE SessionKept(s)'
    <3>1. SessionKept(s) /\ session'[s] = NoSession
      BY <1>1 DEF SignInInv, SessionsKept
    <3> QED BY <1>1, <3>1, RestingTyped DEF SessionKept
  <2>2. ASSUME NEW s \in Sessions, NEW d \in Calls PROVE CopyFits(calls[d], s)'
    BY <1>1, RestingTyped DEF CopyFits
  <2> QED BY <2>1, <2>2 DEF SessionsKept
<1>4. AccountsKept'
  <2>1. ASSUME NEW d \in Calls PROVE CallServes(calls[d])'
    BY <1>1, RestingTyped DEF CallServes, CodeStages
  <2> QED BY <1>1, <2>1 DEF SignInInv, AccountsKept
<1>5. RequestsApart' /\ EmailsApart'
  BY <1>1 DEF SignInInv, RequestsApart, EmailsApart
<1> QED BY <1>2, <1>3, <1>4, <1>5 DEF SignInInv

LEMMA SignInsStay ==
  ASSUME SignInInv,
         UNCHANGED <<session, issued, given, account, filed, email, calls, historyVars>>
  PROVE  SignInInv'
<1>1. UNCHANGED <<wrongs, raced, spent, granted, told, linked>>
  BY DEF historyVars
<1>2. SignInTypes' /\ RequestsApart' /\ EmailsApart'
  BY <1>1 DEF SignInInv, SignInTypes, RequestsApart, EmailsApart
<1>3. SessionsKept' /\ AccountsKept'
  BY <1>1 DEF SignInInv, SessionsKept, SessionKept, CopyFits, AccountsKept, CallServes
<1> QED BY <1>2, <1>3 DEF SignInInv

LEMMA SignInsStep == SignInInv /\ [SignInNext]_signInVars => SignInInv'
<1> SUFFICES ASSUME SignInInv, [SignInNext]_signInVars PROVE SignInInv'
  OBVIOUS
<1>1. ASSUME NEW c \in Calls, CodeStep(c) PROVE SignInInv'
  <2>1. calls[c].stage \in CodeStages => calls[c].sid \in Sessions /\ PhoneOf(c) \in Phones
    BY CallNames
  <2>2. calls[c].stage \in {"file", "link"} => calls[c].who \in Accounts
    BY DEF SignInInv, AccountsKept, CallServes
  <2>3. CASE DiscardCode(c)
    <3>1. calls[c].sid \in Sessions
      BY <2>1, <2>3 DEF DiscardCode, At, CodeStages
    <3> QED BY <2>3, <3>1, CodeIsDiscarded
  <2>4. CASE AnswerWrong(c)
    <3>1. calls[c].sid \in Sessions
      BY <2>1, <2>4 DEF AnswerWrong, At, CodeStages
    <3> QED BY <2>4, <3>1, WrongIsCounted
  <2>5. CASE InsertUser(c)
    <3>1. PhoneOf(c) \in Phones
      BY <2>1, <2>5 DEF InsertUser, At, CodeStages
    <3> QED BY <2>5, <3>1, UserIsInserted
  <2>6. CASE FinishSignIn(c)
    <3>1. calls[c].sid \in Sessions
      BY <2>1, <2>6 DEF FinishSignIn, At, CodeStages
    <3> QED BY <2>6, <3>1, SignInFinishes
  <2>7. CASE EndForDeletion(c)
    <3>1. calls[c].sid \in Sessions
      BY <2>1, <2>7 DEF EndForDeletion, At, CodeStages
    <3> QED BY <2>7, <3>1, DeletionEnds
  <2>8. CASE FileRequest(c)
    <3>1. calls[c].who \in Accounts
      BY <2>2, <2>8 DEF FileRequest, At
    <3> QED BY <2>8, <3>1, RequestIsFiled
  <2>9. CASE SetEmail(c)
    <3>1. calls[c].who \in Accounts
      BY <2>2, <2>9 DEF SetEmail, At
    <3> QED BY <2>9, <3>1, EmailIsSet
  <2> QED BY <1>1, <2>3, <2>4, <2>5, <2>6, <2>7, <2>8, <2>9, MovingOn DEF CodeStep
<1>2. ASSUME NEW c \in Calls, CodeBegins(c) PROVE SignInInv'
  BY <1>2, CodeIsSent, CodeIsChecked DEF CodeBegins
<1>3. ASSUME NEW c \in Calls, AccountBegins(c) PROVE SignInInv'
  BY <1>3, AppAsks, LinkBegins DEF AccountBegins
<1>4. CASE Around
  <2>1. CASE \E s \in Sessions : Expire(s)
    BY <2>1, SessionExpires
  <2>2. CASE \E a \in Accounts : flipFlag(a)
    BY <2>2, SignInsStay DEF flipFlag, sessionVars
  <2>3. ASSUME NEW admin \in Accounts, NEW a \in Accounts,
               NEW verdict \in {"completed", "rejected"},
               NEW n \in 1..Cardinality(filed[a]), Resolve(admin, a, n, verdict)
        PROVE  SignInInv'
    BY <2>3, RequestIsResolved
  <2> QED BY <1>4, <2>1, <2>2, <2>3, SignInsRestart DEF Around
<1>5. CASE UNCHANGED signInVars
  BY <1>5, SignInsStay DEF signInVars, sessionVars, rowVars
<1> QED BY <1>1, <1>2, <1>3, <1>4, <1>5 DEF SignInNext

(* For any number of phones, accounts, codes and calls and any limit on     *)
(* attempts: a code used while nobody else compares it is over for good,    *)
(* wrong answers exceed the limit only by those written beside another      *)
(* comparison, sign-ins that race for a phone's first user all get the one  *)
(* account, and what a person was told of a deletion request or an e-mail   *)
(* is so.                                                                   *)
THEOREM SignInsAreAccounted == SignInSpec => []SignInsAccounted
<1>1. SignInInv => SignInsAccounted
  <2> SUFFICES ASSUME SignInInv PROVE SignInsAccounted
    OBVIOUS
  <2>1. SpentSessionsOver
    BY DEF SignInInv, SessionsKept, SessionKept, SpentSessionsOver
  <2>2. WrongAnswersBounded
    <3>1. \A s \in Sessions : SessionKept(s)
      BY DEF SignInInv, SessionsKept
    <3>2. \A s \in Sessions : session[s].locked \in BOOLEAN
      BY DEF SignInInv, SignInTypes, SessionRecords
    <3> QED BY <3>1, <3>2 DEF WrongAnswersBounded, SessionKept
  <2>3. RacersAgree
    <3>1. \A c \in Calls : At(c, "reread") => account[PhoneOf(c)] # NoAccount
      BY DEF SignInInv, AccountsKept, CallServes, At, PhoneOf
    <3> QED BY <3>1 DEF SignInInv, AccountsKept, RacersAgree
  <2>4. RequestsKept
    <3> SUFFICES ASSUME NEW a \in Accounts PROVE Cardinality(OpenOf(a)) <= 1
      BY DEF SignInInv, RequestsApart, RequestsKept
    <3>1. CASE OpenOf(a) = {}
      BY <3>1, FS_EmptySet
    <3>2. CASE OpenOf(a) # {}
      <4>1. PICK q : q \in OpenOf(a)
        BY <3>2
      <4>2. OpenOf(a) = {q}
        BY <4>1 DEF SignInInv, RequestsApart, OpenOf
      <4> QED BY <4>2, FS_Singleton
    <3> QED BY <3>1, <3>2
  <2>5. EmailsKept
    BY DEF SignInInv, EmailsApart, EmailsKept
  <2> QED BY <2>1, <2>2, <2>3, <2>4, <2>5 DEF SignInsAccounted
<1>2. ASSUME NEW start \in [Phones -> Accounts \cup {NoAccount}],
             \A p, q \in Phones : p # q /\ start[p] = start[q] => start[p] = NoAccount,
             SignInInit(start)
      PROVE  SignInInv
  BY <1>2, SignInStart
<1>3. SignInSpec => SignInInv
  BY <1>2 DEF SignInSpec
<1> QED BY <1>1, <1>3, SignInsStep, PTL DEF SignInSpec

-----------------------------------------------------------------------------
(***************************************************************************)
(* The operator's purge.                                                   *)
(***************************************************************************)

(* From its backup on, what a purge saved is in a file that is kept.       *)
PurgeInv ==
  /\ Original \subseteq ever /\ newcomers \cap Original = {}
  /\ purge.stage \in {"idle", "backup", "logins", "delete"}
  /\ purge.stage # "idle" =>
       DOMAIN purge = {"stage", "people", "company", "at", "saved", "nulls"}
  /\ purge.stage \in {"logins", "delete"} =>
       [saved |-> purge.saved, nulls |-> purge.nulls] \in files
  /\ NothingElseLost

LEMMA LossesKept ==
  ASSUME PurgeInv, UNCHANGED <<db, ever, fallen>>, files \subseteq files'
  PROVE  NothingElseLost'
BY DEF PurgeInv, NothingElseLost, SavedRows

LEMMA DeleteLosesNothing ==
  ASSUME PurgeInv, DeleteRows
  PROVE  PurgeInv'
<1> DEFINE end == FoldLeft(Deleted, [db |-> db, pins |-> {}, nulls |-> cleared], Plan)
           f == [saved |-> purge.saved, nulls |-> purge.nulls]
<1>1. /\ purge.stage = "delete" /\ f \in files /\ SavedRows(f) = SavedRows(purge)
      /\ purge' = NoPurge /\ UNCHANGED <<ever, newcomers, files>>
  BY DEF DeleteRows, PurgeInv, SavedRows
<1>2. \/ UNCHANGED <<db, fallen>>
      \/ /\ db' = end.db
         /\ fallen' = fallen \cup ((db \ end.db) \ (newcomers \cup SavedRows(purge)))
  BY DEF DeleteRows
<1> HIDE DEF end, f
<1>3. NothingElseLost'
  <2>1. CASE UNCHANGED <<db, fallen>>
    BY <1>1, <2>1, LossesKept
  <2>2. CASE /\ db' = end.db
             /\ fallen' = fallen \cup ((db \ end.db) \ (newcomers \cup SavedRows(purge)))
    <3> SUFFICES ASSUME NEW r \in ever \ db'
                 PROVE  (\E g \in files' : r \in SavedRows(g)) \/ r \in fallen' \/ r \notin Original
      BY <1>1 DEF NothingElseLost, SavedRows
    <3>1. CASE r \in db
      BY <1>1, <2>2, <3>1 DEF PurgeInv
    <3>2. CASE r \notin db
      BY <1>1, <2>2, <3>2 DEF PurgeInv, NothingElseLost
    <3> QED BY <3>1, <3>2
  <2> QED BY <1>2, <2>1, <2>2
<1>4. purge'.stage = "idle"
  BY <1>1 DEF NoPurge
<1> QED BY <1>1, <1>3, <1>4 DEF PurgeInv

(* A restore only adds rows, and lets go of a file all of whose rows are   *)
(* back.                                                                   *)
LEMMA RestoreLosesNothing ==
  ASSUME PurgeInv, NEW f \in files, Restore(f)
  PROVE  PurgeInv'
<1>1. /\ purge = NoPurge /\ UNCHANGED <<purge, ever, newcomers, fallen>>
      /\ \/ UNCHANGED <<db, files>>
         \/ \E new : /\ db' = db \cup new
                     /\ files' = IF new = SavedRows(f) THEN files \ {f} ELSE files
  BY DEF Restore
<1>2. NothingElseLost'
  <2>1. CASE UNCHANGED <<db, files>>
    BY <1>1, <2>1, LossesKept
  <2>2. ASSUME NEW new, db' = db \cup new,
               files' = IF new = SavedRows(f) THEN files \ {f} ELSE files
        PROVE  NothingElseLost'
    <3> SUFFICES ASSUME NEW r \in ever \ db'
                 PROVE  (\E g \in files' : r \in SavedRows(g)) \/ r \in fallen \/ r \notin Original
      BY <1>1 DEF NothingElseLost, SavedRows
    <3>1. r \notin db /\ r \notin new
      BY <2>2
    <3>2. (\E g \in files : r \in SavedRows(g)) \/ r \in fallen \/ r \notin Original
      BY <3>1 DEF PurgeInv, NothingElseLost
    <3>3. ASSUME NEW g \in files, r \in SavedRows(g) PROVE g \in files'
      BY <2>2, <3>1, <3>3
    <3> QED BY <3>2, <3>3
  <2> QED BY <1>1, <2>1, <2>2
<1>3. purge'.stage = "idle"
  BY <1>1 DEF NoPurge
<1> QED BY <1>1, <1>2, <1>3 DEF PurgeInv

LEMMA PurgeStart == PurgeInit => PurgeInv
<1> SUFFICES ASSUME PurgeInit PROVE PurgeInv
  OBVIOUS
<1>1. purge.stage = "idle"
  BY DEF PurgeInit, NoPurge
<1> QED BY <1>1 DEF PurgeInit, PurgeInv, NothingElseLost

LEMMA PurgeStep == PurgeInv /\ [PurgeNext]_purgeVars => PurgeInv'
<1> SUFFICES ASSUME PurgeInv, [PurgeNext]_purgeVars PROVE PurgeInv'
  OBVIOUS
<1>1. ASSUME NEW u \in Users, PreparePerson(u) \/ PrepareCompany(u) PROVE PurgeInv'
  <2>1. \E people, company : Begin(people, company)
    BY <1>1 DEF PreparePerson, PrepareCompany
  <2>2. /\ UNCHANGED <<db, ever, fallen, files>> /\ newcomers' = {}
        /\ purge'.stage = "backup"
        /\ DOMAIN purge' = {"stage", "people", "company", "at", "saved", "nulls"}
    BY <2>1 DEF Begin
  <2>3. NothingElseLost'
    BY <2>2, LossesKept
  <2> QED BY <2>2, <2>3 DEF PurgeInv
<1>2. CASE ReadTable
  <2>1. /\ UNCHANGED <<db, ever, fallen, files, newcomers>>
        /\ purge'.stage = "backup" /\ DOMAIN purge' = DOMAIN purge /\ purge.stage = "backup"
    BY <1>2 DEF ReadTable, PurgeInv
  <2>2. NothingElseLost'
    BY <2>1, LossesKept
  <2> QED BY <2>1, <2>2 DEF PurgeInv
<1>3. CASE WriteBackup
  <2>1. /\ UNCHANGED <<db, ever, fallen, newcomers>>
        /\ files' = files \cup {[saved |-> purge.saved, nulls |-> purge.nulls]}
        /\ purge'.stage = "logins" /\ DOMAIN purge' = DOMAIN purge /\ purge.stage = "backup"
        /\ purge'.saved = purge.saved /\ purge'.nulls = purge.nulls
    BY <1>3 DEF WriteBackup, PurgeInv
  <2>2. NothingElseLost'
    BY <2>1, LossesKept
  <2> QED BY <2>1, <2>2 DEF PurgeInv
<1>4. CASE RemoveLogins
  <2>1. UNCHANGED <<db, ever, fallen, files, newcomers>> /\ purge.stage = "logins"
    BY <1>4 DEF RemoveLogins
  <2>2. NothingElseLost'
    BY <2>1, LossesKept
  <2>3. CASE purge' = NoPurge
    <3>1. purge'.stage = "idle"
      BY <2>3 DEF NoPurge
    <3> QED BY <2>1, <2>2, <3>1 DEF PurgeInv
  <2>4. CASE purge' = [purge EXCEPT !.stage = "delete"]
    <3>1. /\ purge'.stage = "delete" /\ DOMAIN purge' = DOMAIN purge
          /\ purge'.saved = purge.saved /\ purge'.nulls = purge.nulls
      BY <2>1, <2>4 DEF PurgeInv
    <3> QED BY <2>1, <2>2, <3>1 DEF PurgeInv
  <2> QED BY <1>4, <2>3, <2>4 DEF RemoveLogins
<1>5. CASE DeleteRows
  BY <1>5, DeleteLosesNothing
<1>6. CASE \E f \in files : Restore(f)
  BY <1>6, RestoreLosesNothing
<1>7. ASSUME NEW r \in Rows, Write(r) \/ \E u \in Users : FlipStaff(u, r) PROVE PurgeInv'
  <2>1. /\ r \notin ever /\ db' = db \cup {r} /\ ever' = ever \cup {r}
        /\ newcomers' = newcomers \cup {r} /\ UNCHANGED <<purge, files, fallen>>
    BY <1>7 DEF Write, FlipStaff, Added
  <2>2. NothingElseLost'
    BY <2>1 DEF PurgeInv, NothingElseLost, SavedRows
  <2> QED BY <2>1, <2>2 DEF PurgeInv
<1>8. CASE UNCHANGED purgeVars
  <2>1. UNCHANGED <<db, ever, fallen, files, newcomers, purge>>
    BY <1>8 DEF purgeVars
  <2>2. NothingElseLost'
    BY <2>1, LossesKept
  <2> QED BY <2>1, <2>2 DEF PurgeInv
<1> QED BY <1>1, <1>2, <1>3, <1>4, <1>5, <1>6, <1>7, <1>8 DEF PurgeNext

(* Whatever is purged, restored and added meanwhile, a row that was there  *)
(* at the start is in the database or in a backup that is kept, or fell    *)
(* with a row it hangs on.                                                 *)
THEOREM NoRowIsLost == PurgeSpec => []NothingElseLost
<1>1. PurgeInv => NothingElseLost
  BY DEF PurgeInv
<1> QED BY <1>1, PurgeStart, PurgeStep, PTL DEF PurgeSpec
=============================================================================
