----------------------------- MODULE ReadsProofs -----------------------------
(***************************************************************************)
(* What TLAPS proves of what a client reads and keeps, for any number of   *)
(* jobs, connections, technicians and syncs, and of what the screens tell   *)
(* of any number of days.                                                  *)
(***************************************************************************)
EXTENDS JobDigests, DeltaSync, DayViews, FiniteSetTheorems, WellFoundedInduction, TLAPS

-----------------------------------------------------------------------------
(***************************************************************************)
(* Delta sync.                                                             *)
(***************************************************************************)

SyncTypes ==
  /\ clock \in Nat
  /\ job \in [Jobs -> [owner : Owners, version : Nat, updated : Int]]
  /\ tx \in [Writers -> [state : {"none", "open", "locked"}, job : Jobs \cup {NoJob},
                         start : Int]]
  /\ device \in [holds : [Jobs -> Nat], cursor : Int]
  /\ sync \in [state : {"idle", "asked"}, since : Int, time : Int]

(* A sync asks from the cursor, and no time was taken after now.           *)
TimesTaken ==
  /\ device.cursor <= 2 * clock
  /\ sync.state = "asked" => sync.since = device.cursor /\ sync.time <= 2 * clock

(* A transaction no sync's time fell into began after every time taken.    *)
UnspannedAreLater ==
  \A w \in Writers : tx[w].state # "none" /\ w \notin spanned =>
    /\ tx[w].start > device.cursor
    /\ sync.state = "asked" => tx[w].start > sync.time

LockedJob == \A w \in Writers : tx[w].state = "locked" => tx[w].job \in Jobs

SyncInv ==
  SyncTypes /\ TimesTaken /\ UnspannedAreLater /\ LockedJob /\ MissedOnlyIfOpen

LEMMA SyncStart == SyncInit => SyncInv
BY DEF SyncInit, SyncInv, SyncTypes, TimesTaken, UnspannedAreLater, LockedJob,
       MissedOnlyIfOpen, Missed, NoTx, NoSync

LEMMA TickKeeps ==
  ASSUME SyncInv, Tick
  PROVE  SyncInv'
BY DEF Tick, SyncInv, SyncTypes, TimesTaken, UnspannedAreLater, LockedJob,
       MissedOnlyIfOpen, Missed

(* The steps of a transaction but its commit.                              *)
LEMMA WriterKeeps ==
  ASSUME SyncInv, NEW w \in Writers,
         Begin(w) \/ RollBackTx(w) \/ \E j \in Jobs : Lock(w, j)
  PROVE  SyncInv'
<1>1. UNCHANGED <<clock, job, device, sync, cut>>
  BY DEF Begin, RollBackTx, Lock
<1>2. TimesTaken' /\ MissedOnlyIfOpen'
  BY <1>1 DEF SyncInv, TimesTaken, MissedOnlyIfOpen, Missed
<1>3. CASE Begin(w)
  <2> DEFINE opened == [state |-> "open", job |-> NoJob, start |-> 2 * clock + 1]
  <2>1. tx' = [tx EXCEPT ![w] = opened] /\ spanned' = spanned \ {w}
    BY <1>3 DEF Begin
  <2>2. /\ tx'[w] = opened /\ opened.state = "open" /\ opened.start = 2 * clock + 1
        /\ \A v \in Writers : v # w => tx'[v] = tx[v]
    BY <2>1 DEF SyncInv, SyncTypes
  <2>3. SyncTypes'
    BY <1>1, <2>1 DEF SyncInv, SyncTypes
  <2> HIDE DEF opened
  <2>4. UnspannedAreLater' /\ LockedJob'
    BY <1>1, <2>1, <2>2 DEF SyncInv, SyncTypes, TimesTaken, UnspannedAreLater, LockedJob
  <2> QED BY <1>2, <2>3, <2>4 DEF SyncInv
<1>4. CASE RollBackTx(w)
  <2>1. /\ tx'[w] = NoTx /\ spanned' = spanned \ {w}
        /\ \A v \in Writers : v # w => tx'[v] = tx[v]
    BY <1>4 DEF RollBackTx, SyncInv, SyncTypes
  <2>2. SyncTypes'
    BY <1>1, <1>4 DEF RollBackTx, SyncInv, SyncTypes, NoTx
  <2>3. UnspannedAreLater' /\ LockedJob'
    BY <1>1, <2>1 DEF SyncInv, UnspannedAreLater, LockedJob, NoTx
  <2> QED BY <1>2, <2>2, <2>3 DEF SyncInv
<1>5. ASSUME NEW j \in Jobs, Lock(w, j) PROVE SyncInv'
  <2>1. /\ tx'[w].state = "locked" /\ tx'[w].job = j /\ tx'[w].start = tx[w].start
        /\ tx[w].state = "open" /\ spanned' = spanned
        /\ \A v \in Writers : v # w => tx'[v] = tx[v]
    BY <1>5 DEF Lock, SyncInv, SyncTypes
  <2> DEFINE Txs == [state : {"none", "open", "locked"}, job : Jobs \cup {NoJob}, start : Int]
             mid  == [tx EXCEPT ![w].state = "locked"]
  <2>2. tx \in [Writers -> Txs]
    BY DEF SyncInv, SyncTypes
  <2>3. mid \in [Writers -> Txs]
    BY <2>2
  <2>4. tx' = [mid EXCEPT ![w].job = j]
    BY <1>5, <2>2 DEF Lock
  <2> HIDE DEF mid
  <2>5. tx' \in [Writers -> Txs]
    BY <2>3, <2>4
  <2>6. SyncTypes'
    BY <1>1, <2>1, <2>5 DEF SyncInv, SyncTypes
  <2>7. UnspannedAreLater' /\ LockedJob'
    BY <1>1, <2>1 DEF SyncInv, UnspannedAreLater, LockedJob
  <2> QED BY <1>2, <2>6, <2>7 DEF SyncInv
<1> QED BY <1>3, <1>4, <1>5

LEMMA CommitKeeps ==
  ASSUME SyncInv, NEW w \in Writers, Commit(w)
  PROVE  SyncInv'
<1> DEFINE j == tx[w].job
<1>1. /\ tx[w].state = "locked"
      /\ cut' = IF w \in spanned THEN cut \cup {j} ELSE cut \ {j}
      /\ tx' = [tx EXCEPT ![w] = NoTx] /\ spanned' = spanned \ {w}
      /\ UNCHANGED <<clock, device, sync>>
  BY DEF Commit
<1>2. j \in Jobs
  BY <1>1 DEF SyncInv, LockedJob
<1>3. PICK o \in Owners :
        job' = [job EXCEPT ![j] = [owner |-> o, version |-> job[j].version + 1,
                                   updated |-> tx[w].start]]
  BY DEF Commit
<1> HIDE DEF j
<1>4. /\ job'[j].updated = tx[w].start
      /\ \A k \in Jobs : k # j => job'[k] = job[k]
      /\ job' \in [Jobs -> [owner : Owners, version : Nat, updated : Int]]
  BY <1>2, <1>3 DEF SyncInv, SyncTypes
<1>5. /\ tx'[w] = NoTx /\ \A v \in Writers : v # w => tx'[v] = tx[v]
      /\ tx' \in [Writers -> [state : {"none", "open", "locked"}, job : Jobs \cup {NoJob},
                              start : Int]]
  BY <1>1 DEF SyncInv, SyncTypes, NoTx
<1>6. SyncTypes' /\ TimesTaken'
  BY <1>1, <1>4, <1>5 DEF SyncInv, SyncTypes, TimesTaken
<1>7. UnspannedAreLater' /\ LockedJob'
  BY <1>1, <1>5 DEF SyncInv, UnspannedAreLater, LockedJob, NoTx
<1>8. MissedOnlyIfOpen'
  <2> SUFFICES ASSUME NEW k \in Jobs, Missed(k)' PROVE k \in cut'
    BY DEF MissedOnlyIfOpen
  <2>1. CASE k # j
    BY <1>1, <1>4, <2>1 DEF SyncInv, MissedOnlyIfOpen, Missed
  <2>2. CASE k = j /\ w \notin spanned
    <3>1. tx[w].start > device.cursor
      BY <1>1, <2>2 DEF SyncInv, UnspannedAreLater
    <3>2. tx[w].start <= device.cursor
      BY <1>1, <1>4, <2>2 DEF Missed
    <3>3. tx[w].start \in Int /\ device.cursor \in Int
      BY DEF SyncInv, SyncTypes
    <3> QED BY <3>1, <3>2, <3>3
  <2>3. CASE k = j /\ w \in spanned
    BY <1>1, <2>3
  <2> QED BY <2>1, <2>2, <2>3
<1> QED BY <1>6, <1>7, <1>8 DEF SyncInv

(* What the sync does not send it names, or the device had it.             *)
LEMMA AnswerKeeps ==
  ASSUME SyncInv, Answer
  PROVE  SyncInv'
<1>1. PICK sent \in SUBSET Changed :
        /\ device' = [holds |-> [j \in Jobs |-> IF j \in sent THEN job[j].version
                                                              ELSE device.holds[j]],
                      cursor |-> sync.time]
        /\ cut' = (cut \cup Changed) \ sent /\ sync' = NoSync
  BY DEF Answer, Take, Newest
<1>2. sync.state = "asked" /\ UNCHANGED <<clock, job, tx, spanned>>
  BY DEF Answer
<1>3. /\ device'.cursor = sync.time
      /\ \A j \in Jobs : device'.holds[j] = IF j \in sent THEN job[j].version
                                                          ELSE device.holds[j]
  BY <1>1
<1>4. SyncTypes'
  <2>1. device' \in [holds : [Jobs -> Nat], cursor : Int]
    BY <1>1 DEF SyncInv, SyncTypes
  <2> QED BY <1>1, <1>2, <2>1 DEF SyncInv, SyncTypes, NoSync
<1>5. TimesTaken' /\ UnspannedAreLater' /\ LockedJob'
  BY <1>1, <1>2, <1>3 DEF SyncInv, TimesTaken, UnspannedAreLater, LockedJob, NoSync
<1>6. MissedOnlyIfOpen'
  <2> SUFFICES ASSUME NEW j \in Jobs, Missed(j)' PROVE j \in cut'
    BY DEF MissedOnlyIfOpen
  <2>1. /\ job[j].owner = Device /\ job[j].version \in Nat /\ job[j].updated \in Int
        /\ device'.holds[j] < job[j].version
    BY <1>2 DEF Missed, SyncInv, SyncTypes
  <2>2. j \notin sent /\ device.holds[j] < job[j].version
    BY <1>3, <2>1
  <2>3. CASE job[j].updated > sync.since
    BY <1>1, <2>1, <2>2, <2>3 DEF Changed
  <2>4. CASE ~(job[j].updated > sync.since)
    <3>1. job[j].updated <= device.cursor
      BY <1>2, <2>1, <2>4 DEF SyncInv, SyncTypes, TimesTaken
    <3>2. Missed(j)
      BY <2>1, <2>2, <3>1 DEF Missed
    <3> QED BY <1>1, <2>2, <3>2 DEF SyncInv, MissedOnlyIfOpen
  <2> QED BY <2>3, <2>4
<1> QED BY <1>4, <1>5, <1>6 DEF SyncInv

LEMMA AskingKeeps ==
  ASSUME SyncInv, StartSync \/ SyncFails
  PROVE  SyncInv'
<1>1. UNCHANGED <<clock, job, tx, device, cut>>
  BY DEF StartSync, SyncFails
<1>2. LockedJob' /\ MissedOnlyIfOpen'
  BY <1>1 DEF SyncInv, LockedJob, MissedOnlyIfOpen, Missed
<1>3. CASE StartSync
  <2>1. /\ sync' = [state |-> "asked", since |-> device.cursor, time |-> 2 * clock]
        /\ spanned' = spanned \cup {w \in Writers : tx[w].state # "none"}
    BY <1>3 DEF StartSync
  <2>2. SyncTypes' /\ TimesTaken'
    BY <1>1, <2>1 DEF SyncInv, SyncTypes, TimesTaken
  <2>3. UnspannedAreLater'
    BY <1>1, <2>1 DEF UnspannedAreLater
  <2> QED BY <1>2, <2>2, <2>3 DEF SyncInv
<1>4. CASE SyncFails
  <2>1. sync' = NoSync /\ spanned' = spanned
    BY <1>4 DEF SyncFails
  <2> QED BY <1>1, <1>2, <2>1
        DEF SyncInv, SyncTypes, TimesTaken, UnspannedAreLater, NoSync
<1> QED BY <1>3, <1>4

LEMMA SyncStep == SyncInv /\ [SyncNext]_syncVars => SyncInv'
<1> SUFFICES ASSUME SyncInv, [SyncNext]_syncVars PROVE SyncInv'
  OBVIOUS
<1>1. CASE UNCHANGED syncVars
  BY <1>1 DEF syncVars, SyncInv, SyncTypes, TimesTaken, UnspannedAreLater, LockedJob,
              MissedOnlyIfOpen, Missed
<1> QED BY <1>1, TickKeeps, WriterKeeps, CommitKeeps, AnswerKeeps, AskingKeeps DEF SyncNext

(* A device misses a change for good only if its transaction was open as a *)
(* sync took its time, or the answer could not carry it.                   *)
THEOREM MissesExplained == SyncSpec => []MissedOnlyIfOpen
<1>1. SyncInv => MissedOnlyIfOpen
  BY DEF SyncInv
<1> QED BY <1>1, SyncStart, SyncStep, PTL DEF SyncSpec

-----------------------------------------------------------------------------
(***************************************************************************)
(* Paged lists.                                                            *)
(***************************************************************************)

(* What a list sorts on, and when its cursor drops the microseconds.       *)
LEMMA ListTypes ==
  ASSUME NEW list \in Lists
  PROVE  /\ list.key \in {"created", "start"}
         /\ list.truncated => list.key = "created" /\ ~list.ascending
<1>1. CASE list \in TimelineLists
  BY <1>1 DEF TimelineLists, List
<1>2. CASE list \in {ProfileJobs, ProfileToday}
  BY <1>2 DEF ProfileJobs, ProfileToday, List
<1>3. CASE list \in {CustomersList, CustomerHistory, ReportsList, NotificationsList}
  BY <1>3 DEF CustomersList, CustomerHistory, ReportsList, NotificationsList, List
<1>4. CASE list \in {LeaveList, CorrectionsList}
  BY <1>4 DEF LeaveList, CorrectionsList, List
<1> QED BY <1>1, <1>2, <1>3, <1>4 DEF Lists, JobLists

(* Keys and ids order the rows of a list totally.                          *)
LEMMA FollowsOrders ==
  ASSUME NEW list \in Lists,
         NEW k \in Int, NEW i \in Int, NEW l \in Int, NEW j \in Int, NEW m \in Int, NEW h \in Int
  PROVE  /\ ~Follows(list, k, i, k, i)
         /\ Follows(list, k, i, l, j) => ~Follows(list, l, j, k, i)
         /\ i # j => Follows(list, k, i, l, j) \/ Follows(list, l, j, k, i)
         /\ Follows(list, k, i, l, j) /\ Follows(list, l, j, m, h) => Follows(list, k, i, m, h)
<1>1. CASE list.ascending
  BY <1>1 DEF Follows
<1>2. CASE ~list.ascending
  BY <1>2 DEF Follows
<1> QED BY <1>1, <1>2

LEMMA NeverAfterItself ==
  ASSUME NEW list, NEW k \in Int, NEW i \in Int
  PROVE  ~Follows(list, k, i, k, i)
BY DEF Follows

(* The rows of a page are those of the set, each once, in order.           *)
LEMMA Sorted ==
  ASSUME NEW list \in Lists, NEW S \in SUBSET Ids, IsFiniteSet(S),
         \A i \in S : rows[i][list.key] \in Int
  PROVE  /\ InOrder(list, S) \in [1..Cardinality(S) -> S]
         /\ \A m, n \in 1..Cardinality(S) :
              m < n => Follows(list, rows[InOrder(list, S)[n]][list.key], InOrder(list, S)[n],
                                     rows[InOrder(list, S)[m]][list.key], InOrder(list, S)[m])
         /\ \A i \in S : \E n \in 1..Cardinality(S) : InOrder(list, S)[n] = i
<1> DEFINE N == Cardinality(S)
           s == InOrder(list, S)
           After2(i, j) == Follows(list, rows[i][list.key], i, rows[j][list.key], j)
           rank == [i \in S |-> Cardinality(Before(list, S, i))]
<1>1. /\ N \in Nat
      /\ \A i \in S : i \in Int /\ rows[i][list.key] \in Int
  BY FS_CardinalityType, FeedsAssumption
<1>2. ASSUME NEW i \in S
      PROVE  /\ Before(list, S, i) \in SUBSET S /\ i \notin Before(list, S, i)
             /\ IsFiniteSet(Before(list, S, i)) /\ rank[i] \in 0..N - 1
  <2>1. Before(list, S, i) \in SUBSET S /\ i \notin Before(list, S, i)
    BY <1>1, FollowsOrders DEF Before
  <2>2. IsFiniteSet(Before(list, S, i)) /\ Cardinality(Before(list, S, i)) <= N
        /\ Cardinality(Before(list, S, i)) # N
    BY <2>1, FS_Subset
  <2>3. Cardinality(Before(list, S, i)) \in Nat
    BY <2>2, FS_CardinalityType
  <2> QED BY <1>1, <2>1, <2>2, <2>3
<1>3. ASSUME NEW i \in S, NEW j \in S, After2(i, j)
      PROVE  rank[j] < rank[i]
  <2>1. Before(list, S, j) \subseteq Before(list, S, i)
    BY <1>1, <1>3, FollowsOrders DEF Before
  <2>2. j \in Before(list, S, i) \ Before(list, S, j)
    BY <1>2, <1>3 DEF Before
  <2>3. Cardinality(Before(list, S, j)) < Cardinality(Before(list, S, i))
    <3>1. /\ Cardinality(Before(list, S, j)) <= Cardinality(Before(list, S, i))
          /\ Cardinality(Before(list, S, j)) # Cardinality(Before(list, S, i))
      BY <1>2, <2>1, <2>2, FS_Subset
    <3> QED BY <1>1, <1>2, <3>1
  <2> QED BY <2>3
<1>4. \A i, j \in S : i # j => After2(i, j) \/ After2(j, i)
  BY <1>1, FollowsOrders
<1>5. \A i, j \in S : rank[i] = rank[j] => i = j
  BY <1>1, <1>2, <1>3, <1>4
<1>6. \A n \in 1..N : \E i \in S : rank[i] = n - 1
  <2>1. IsFiniteSet(0..N - 1) /\ Cardinality(0..N - 1) = N
    BY <1>1, FS_Interval
  <2>2. rank \in Injection(S, 0..N - 1)
    BY <1>2, <1>5 DEF Injection, IsInjective
  <2>3. rank \in Surjection(S, 0..N - 1)
    BY <2>1, <2>2, FS_Injection
  <2> HIDE DEF rank
  <2>4. \A v \in 0..N - 1 : \E i \in S : rank[i] = v
    BY <2>3 DEF Surjection
  <2>5. ASSUME NEW n \in 1..N PROVE \E i \in S : rank[i] = n - 1
    <3>1. n - 1 \in 0..N - 1
      BY <1>1
    <3> HIDE DEF N
    <3> QED BY <2>4, <3>1
  <2> QED BY <2>5
<1>7. \A n \in 1..N : s[n] \in S /\ rank[s[n]] = n - 1
  <2> SUFFICES ASSUME NEW n \in 1..N PROVE s[n] \in S /\ rank[s[n]] = n - 1
    OBVIOUS
  <2>1. s[n] = CHOOSE i \in S : Cardinality(Before(list, S, i)) = n - 1
    BY DEF InOrder
  <2>2. \E i \in S : Cardinality(Before(list, S, i)) = n - 1
    BY <1>6
  <2> QED BY <2>1, <2>2
<1>8. s \in [1..N -> S]
  BY <1>7 DEF InOrder
<1> HIDE DEF s, rank, After2
<1>9. \A m, n \in 1..N : m < n => After2(s[n], s[m])
  <2> SUFFICES ASSUME NEW m \in 1..N, NEW n \in 1..N, m < n PROVE After2(s[n], s[m])
    OBVIOUS
  <2>1. /\ s[m] \in S /\ s[n] \in S /\ rank[s[m]] = m - 1 /\ rank[s[n]] = n - 1
    BY <1>7
  <2>2. s[m] # s[n] /\ ~(rank[s[n]] < rank[s[m]])
    BY <1>1, <2>1
  <2> QED BY <1>3, <1>4, <2>1, <2>2
<1>10. \A i \in S : \E n \in 1..N : s[n] = i
  <2> SUFFICES ASSUME NEW i \in S PROVE \E n \in 1..N : s[n] = i
    OBVIOUS
  <2>1. rank[i] \in 0..N - 1
    BY <1>2
  <2>2. rank[i] + 1 \in 1..N /\ rank[s[rank[i] + 1]] = rank[i]
    BY <1>1, <1>7, <2>1
  <2> QED BY <1>5, <1>7, <2>2
<1> QED BY <1>8, <1>9, <1>10 DEF s, After2
(* A time is a number of whole milliseconds and a rest; two times between  *)
(* a millisecond's start and one of its moments are of that millisecond.   *)
LEMMA WholeAndRest ==
  ASSUME NEW m \in Nat \ {0}, NEW k \in Nat
  PROVE  /\ k = m * (k \div m) + (k % m) /\ k % m \in 0..m - 1 /\ k \div m \in Nat
         /\ k - (k % m) \in Int
OBVIOUS

LEMMA OneMillisecond ==
  ASSUME NEW m \in Nat \ {0}, NEW k \in Nat, NEW c \in Nat, k - (k % m) <= c, c <= k
  PROVE  k \div m = c \div m
<1> DEFINE q == k \div m
           p == c \div m
<1>1. /\ k = m * q + (k % m) /\ k % m \in 0..m-1 /\ q \in Nat
      /\ c = m * p + (c % m) /\ c % m \in 0..m-1 /\ p \in Nat
  BY WholeAndRest
<1>2. m * q <= m * p + (c % m) /\ m * p + (c % m) <= m * q + (k % m)
  BY <1>1
<1> HIDE DEF q, p
<1>3. ~(p < q)
  <2> SUFFICES ASSUME p < q PROVE FALSE
    OBVIOUS
  <2>1. p + 1 <= q
    BY <1>1
  <2>2. m * (p + 1) <= m * q /\ m * (p + 1) = m * p + m
    BY <1>1, <2>1
  <2> QED BY <1>1, <1>2, <2>2
<1>4. ~(q < p)
  <2> SUFFICES ASSUME q < p PROVE FALSE
    OBVIOUS
  <2>1. q + 1 <= p
    BY <1>1
  <2>2. m * (q + 1) <= m * p /\ m * (q + 1) = m * q + m
    BY <1>1, <2>1
  <2> QED BY <1>1, <1>2, <2>2
<1> QED BY <1>1, <1>3, <1>4 DEF q, p

Positions == [key : Int, id : Ids, scope : Scopes]

LEMMA PlacesAreNumbers ==
  ASSUME NEW p \in Positions
  PROVE  p.key \in Int /\ p.id \in Int
<1>1. p.key \in Int /\ p.id \in Ids
  BY DEF Positions
<1>2. \A x \in Ids : x \in Int
  BY FeedsAssumption
<1> QED BY <1>1, <1>2

FeedTypes ==
  /\ rows \in [Ids -> Rows \cup {NoRow}]
  /\ today \in 0..LastDay
  /\ steady \subseteq Stored
  /\ reader \in [state : {"idle", "paging", "done", "refused"}, list : Lists,
                 who : Technicians \cup {Admin}, cursor : Positions \cup {NoCursor},
                 shown : Seq(Ids), edges : SUBSET Nat]
  /\ reader.state = "idle" => reader.shown = <<>> /\ reader.cursor = NoCursor
  /\ reader.state = "paging" => reader.cursor # NoCursor

(* The rows that stay where they are are in the list, on one page at most, *)
(* and the cursor stands between those shown and those to come.            *)
Shown(i) == \E n \in DOMAIN reader.shown : reader.shown[n] = i

ShownOnce(i) ==
  \A m, n \in DOMAIN reader.shown : reader.shown[m] = i /\ reader.shown[n] = i => m = n

Divided(i) ==
  /\ Shown(i) => ~After(reader.list, reader.cursor, i)
  /\ ~Shown(i) => After(reader.list, reader.cursor, i) \/ SameMillisecond(i)

PagesInv ==
  /\ FeedTypes
  /\ \A i \in steady :
       /\ Shows(reader.list, reader.who, rows[i], today)
       /\ ShownOnce(i)
       /\ reader.state = "paging" => Divided(i)
       /\ reader.state = "done" => Shown(i) \/ SameMillisecond(i)

LEMMA KeysAreNumbers ==
  ASSUME FeedTypes, NEW list \in Lists, NEW i \in Stored
  PROVE  /\ i \in Int /\ rows[i] \in Rows
         /\ rows[i][list.key] \in Nat /\ rows[i].created \in Nat
<1>1. i \in Int /\ rows[i] \in Rows
  BY FeedsAssumption DEF FeedTypes, Stored
<1>2. list.key = "created" \/ list.key = "start"
  BY ListTypes
<1>3. rows[i].created \in Nat /\ rows[i].start \in Nat
  BY <1>1, FeedsAssumption DEF Rows
<1>4. CASE list.key = "created"
  BY <1>1, <1>3, <1>4
<1>5. CASE list.key = "start"
  BY <1>1, <1>3, <1>5
<1> QED BY <1>2, <1>4, <1>5

(* The cursor of a row stands at the row, or before it and at most as far  *)
(* as the start of its millisecond: rows after the cursor are after the    *)
(* row, and rows after the row are after the cursor, but for those of the  *)
(* same millisecond.                                                       *)
LEMMA CursorStands ==
  ASSUME FeedTypes, NEW list \in Lists, NEW last \in Stored, NEW i \in Stored
  PROVE  LET cursor == CursorAt(list, last)
             follows == Follows(list, rows[i][list.key], i, rows[last][list.key], last)
         IN /\ cursor \in Positions /\ cursor # NoCursor
            /\ After(list, cursor, i) => follows
            /\ follows => \/ After(list, cursor, i)
                          \/ /\ list.truncated
                             /\ rows[last].created \div Millisecond
                                  = rows[i].created \div Millisecond
<1> DEFINE cursor == CursorAt(list, last)
           k == rows[last][list.key]
           c == rows[i][list.key]
           kept == IF list.truncated THEN k - (k % Millisecond) ELSE k
<1>1. /\ i \in Int /\ last \in Int /\ k \in Nat /\ c \in Nat
      /\ last \in Ids /\ Millisecond \in Nat \ {0}
  BY KeysAreNumbers, FeedsAssumption DEF Stored
<1>2. kept \in Int /\ kept <= k
  BY <1>1, WholeAndRest
<1>3. /\ cursor = [key |-> kept, id |-> last, scope |-> list.scope]
      /\ cursor.key = kept /\ cursor.id = last
  BY DEF CursorAt
<1>4. cursor \in Positions /\ cursor # NoCursor
  BY <1>1, <1>2, <1>3, MarkersAssumption DEF Positions, Scopes
<1>5. After(list, cursor, i) <=> Follows(list, c, i, kept, last)
  BY <1>3, <1>4 DEF After
<1>6. CASE ~list.truncated
  <2>1. kept = k
    BY <1>6
  <2> QED BY <1>4, <1>5, <2>1
<1>7. CASE list.truncated
  <2>1. list.key = "created" /\ ~list.ascending
    BY <1>7, ListTypes
  <2>2. kept = k - (k % Millisecond)
    BY <1>7
  <2>3. k = rows[last].created /\ c = rows[i].created
    BY <2>1
  <2> HIDE DEF k, c, kept, cursor
  <2>4. After(list, cursor, i) => Follows(list, c, i, k, last)
    BY <1>1, <1>2, <1>5, <2>1 DEF Follows
  <2>5. ASSUME Follows(list, c, i, k, last), ~After(list, cursor, i)
        PROVE  k \div Millisecond = c \div Millisecond
    <3>1. c <= k /\ k - (k % Millisecond) <= c
      BY <1>1, <1>2, <1>5, <2>1, <2>2, <2>5 DEF Follows
    <3> QED BY <1>1, <3>1, OneMillisecond
  <2> QED BY <1>4, <1>7, <2>3, <2>4, <2>5 DEF k, c, cursor
<1> QED BY <1>6, <1>7

(* A page takes the next rows in order, up to its size.                    *)
LEMMA PageKeeps ==
  ASSUME FeedTypes, ReadPage, UNCHANGED <<rows, today>>, steady' \subseteq Stored,
         \A i \in steady' : /\ Shows(reader.list, reader.who, rows[i], today)
                            /\ ShownOnce(i) /\ Divided(i)
  PROVE  PagesInv'
<1> DEFINE list == reader.list
           S == {i \in Stored : /\ Shows(list, reader.who, rows[i], today)
                                /\ After(list, reader.cursor, i)}
           s == InOrder(list, S)
           N == Cardinality(S)
           more == N > PageSize
           page == IF more THEN SubSeq(s, 1, PageSize) ELSE s
           M == IF more THEN PageSize ELSE N
           last == s[PageSize]
           K(i) == rows[i][list.key]
<1>1. /\ list \in Lists /\ S \in SUBSET Ids /\ S \subseteq Stored /\ IsFiniteSet(S)
      /\ \A i \in S : K(i) \in Int /\ i \in Int
  <2>1. list \in Lists /\ S \subseteq Stored /\ Stored \subseteq Ids
    BY DEF FeedTypes, Stored
  <2>2. IsFiniteSet(S)
    BY <2>1, FS_Subset, FeedsAssumption
  <2> QED BY <2>1, <2>2, KeysAreNumbers
<1>2. /\ s \in [1..N -> S] /\ N \in Nat
      /\ \A m, n \in 1..N : m < n => Follows(list, K(s[n]), s[n], K(s[m]), s[m])
      /\ \A i \in S : \E n \in 1..N : s[n] = i
  BY <1>1, Sorted, FS_CardinalityType
<1>3. \A m, n \in 1..N : s[m] = s[n] => m = n
  <2> SUFFICES ASSUME NEW m \in 1..N, NEW n \in 1..N, m < n, s[m] = s[n] PROVE FALSE
    BY <1>2
  <2>1. /\ Follows(list, K(s[n]), s[n], K(s[n]), s[n])
        /\ K(s[n]) \in Int /\ s[n] \in Int
    BY <1>1, <1>2
  <2> QED BY <2>1, NeverAfterItself
<1>4. /\ page \in Seq(Ids) /\ Len(page) = M /\ M \in 0..N /\ PageSize \in Nat \ {0}
      /\ \A n \in 1..M : page[n] = s[n]
      /\ more => page[Len(page)] = last /\ last \in S /\ PageSize \in 1..N /\ M = PageSize
  <2>1. s \in Seq(S) /\ Len(s) = N /\ PageSize \in Nat \ {0}
    BY <1>2, FeedsAssumption
  <2>2. CASE more
    <3>1. PageSize \in 1..N /\ M = PageSize /\ page = SubSeq(s, 1, PageSize)
      BY <1>2, <2>1, <2>2
    <3> HIDE DEF s, N, page, M
    <3>2. /\ page \in Seq(S) /\ Len(page) = PageSize
          /\ \A n \in 1..PageSize : page[n] = s[n]
      BY <1>2, <2>1, <3>1
    <3>3. page \in Seq(Ids)
      BY <1>1, <3>2
    <3>4. page[Len(page)] = last /\ last \in S
      BY <1>2, <3>1, <3>2
    <3> QED BY <1>2, <2>1, <3>1, <3>2, <3>3, <3>4
  <2>3. CASE ~more
    <3>1. page = s /\ M = N
      BY <2>3
    <3>2. page \in Seq(Ids)
      BY <1>1, <2>1, <3>1
    <3> HIDE DEF s, N, page, M
    <3> QED BY <1>2, <2>1, <2>3, <3>1, <3>2
  <2> QED BY <2>2, <2>3
<1> DEFINE next == IF more THEN CursorAt(list, last) ELSE NoCursor
           edges == IF more THEN reader.edges \cup {rows[last].created} ELSE reader.edges
           state == IF more THEN "paging" ELSE "done"
<1>5. reader' = [reader EXCEPT !.shown = @ \o page, !.state = state,
                               !.cursor = next, !.edges = edges]
  <2>1. Listed(list, reader.who, today, reader.cursor) = s
    BY DEF Listed
  <2>2. Len(s) = N
    BY <1>2
  <2>3. more => Last(page) = last
    BY <1>4 DEF Last
  <2> HIDE DEF s, N, page, last
  <2> QED BY <2>1, <2>2, <2>3 DEF ReadPage, page
<1> HIDE DEF s, N, page, last, S
<1>6. /\ reader'.list = list /\ reader'.who = reader.who /\ reader'.state = state
      /\ reader'.cursor = next /\ reader'.shown = reader.shown \o page
      /\ reader'.edges = edges
  BY <1>5 DEF FeedTypes
<1>7. more => /\ last \in Stored /\ next \in Positions /\ next # NoCursor
              /\ rows[last].created \in Nat
  BY <1>1, <1>4, CursorStands, KeysAreNumbers
<1>8. FeedTypes'
  <2>1. reader.shown \o page \in Seq(Ids)
    BY <1>4 DEF FeedTypes
  <2>2. edges \in SUBSET Nat /\ next \in Positions \cup {NoCursor}
    BY <1>7 DEF FeedTypes
  <2>3. state \in {"paging", "done"} /\ (state = "paging" => next # NoCursor)
    BY <1>7
  <2>4. reader' \in [state : {"idle", "paging", "done", "refused"}, list : Lists,
                     who : Technicians \cup {Admin}, cursor : Positions \cup {NoCursor},
                     shown : Seq(Ids), edges : SUBSET Nat]
    <3> HIDE DEF edges, next, state
    <3> QED BY <1>5, <2>1, <2>2, <2>3 DEF FeedTypes
  <2>5. Stored' = Stored /\ steady' \subseteq Stored
    BY DEF Stored
  <2> HIDE DEF edges, next, state
  <2> QED BY <1>6, <2>3, <2>4, <2>5 DEF FeedTypes
<1>9. ASSUME NEW i \in steady'
      PROVE  /\ ShownOnce(i)' /\ (more => Divided(i)')
             /\ ~more => Shown(i)' \/ SameMillisecond(i)'
  <2> DEFINE old == reader.shown
             new == old \o page
  <2>1. /\ old \in Seq(Ids) /\ Len(old) \in Nat /\ DOMAIN old = 1..Len(old)
        /\ DOMAIN new = 1..(Len(old) + M)
        /\ \A n \in 1..Len(old) : new[n] = old[n]
        /\ \A n \in 1..M : new[Len(old) + n] = s[n]
    <3>1. old \in Seq(Ids)
      BY DEF FeedTypes
    <3> HIDE DEF old, page, M
    <3>2. page \in Seq(Ids) /\ Len(page) = M /\ M \in Nat
      BY <1>2, <1>4
    <3>3. \A n \in 1..M : new[Len(old) + n] = page[n]
      BY <3>1, <3>2
    <3>4. Len(old) \in Nat /\ DOMAIN old = 1..Len(old)
      BY <3>1
    <3>5. DOMAIN new = 1..(Len(old) + M) /\ \A n \in 1..Len(old) : new[n] = old[n]
      BY <3>1, <3>2
    <3>6. \A n \in 1..M : new[Len(old) + n] = s[n]
      BY <1>4, <3>3
    <3> QED BY <3>1, <3>4, <3>5, <3>6
  <2> HIDE DEF new, old
  <2>2. /\ i \in Stored /\ i \in Int /\ K(i) \in Int
        /\ Shows(list, reader.who, rows[i], today)
        /\ ShownOnce(i) /\ Divided(i)
    BY <1>1, KeysAreNumbers DEF FeedTypes
  <2>3. /\ Shown(i) <=> \E n \in 1..Len(old) : old[n] = i
        /\ Shown(i)' <=> \E n \in 1..(Len(old) + M) : new[n] = i
        /\ ShownOnce(i)' <=> \A m, n \in 1..(Len(old) + M) : new[m] = i /\ new[n] = i => m = n
    BY <1>6, <2>1 DEF Shown, ShownOnce, old, new
  <2>4. Shown(i)' <=> Shown(i) \/ \E n \in 1..M : s[n] = i
    <3>1. ASSUME NEW n \in 1..(Len(old) + M), new[n] = i
          PROVE  Shown(i) \/ \E m \in 1..M : s[m] = i
      <4>1. CASE n <= Len(old)
        BY <2>1, <2>3, <3>1, <4>1
      <4>2. CASE n > Len(old)
        <5>1. n - Len(old) \in 1..M /\ n = Len(old) + (n - Len(old))
          BY <1>4, <2>1, <4>2
        <5> QED BY <2>1, <3>1, <5>1
      <4> QED BY <2>1, <4>1, <4>2
    <3>2. ASSUME NEW n \in 1..Len(old), old[n] = i
          PROVE  Shown(i)'
      BY <1>4, <2>1, <2>3, <3>2
    <3>3. ASSUME NEW n \in 1..M, s[n] = i
          PROVE  Shown(i)'
      BY <1>4, <2>1, <2>3, <3>3
    <3> QED BY <2>3, <3>1, <3>2, <3>3
  <2>5. Shown(i) => i \notin S
    BY <2>2 DEF Divided, S
  <2>6. ShownOnce(i)'
    <3> SUFFICES ASSUME NEW m \in 1..(Len(old) + M), NEW n \in 1..(Len(old) + M),
                        new[m] = i, new[n] = i, m < n
                 PROVE  FALSE
      BY <2>1, <2>3, <1>4
    <3>1. CASE n <= Len(old)
      BY <2>1, <2>2, <3>1 DEF ShownOnce, old
    <3>2. CASE n > Len(old)
      <4>1. n - Len(old) \in 1..M /\ n = Len(old) + (n - Len(old))
        BY <1>4, <2>1, <3>2
      <4>2. s[n - Len(old)] = i /\ i \in S /\ n - Len(old) \in 1..N
        BY <1>2, <1>4, <2>1, <4>1
      <4>3. CASE m <= Len(old)
        BY <2>1, <2>3, <2>5, <4>2, <4>3
      <4>4. CASE m > Len(old)
        <5>1. m - Len(old) \in 1..M /\ m = Len(old) + (m - Len(old))
          BY <1>4, <2>1, <4>4
        <5>2. new[Len(old) + (m - Len(old))] = s[m - Len(old)]
          BY <2>1, <5>1
        <5>3. s[m - Len(old)] = i /\ m - Len(old) \in 1..N
          BY <1>2, <1>4, <5>1, <5>2
        <5> QED BY <1>3, <2>1, <4>2, <5>3
      <4> QED BY <2>1, <4>3, <4>4
    <3> QED BY <2>1, <3>1, <3>2
  <2>7. SameMillisecond(i) => SameMillisecond(i)'
    BY <1>6 DEF SameMillisecond
  <2>8. ASSUME more PROVE Divided(i)'
    <3> DEFINE after == After(list, next, i)
               follows == Follows(list, K(i), i, K(last), last)
    <3>1. After(reader.list, reader.cursor, i)' <=> after
      BY <1>6 DEF After
    <3>2. /\ next = CursorAt(list, last) /\ last \in S /\ last \in Stored /\ M = PageSize
          /\ K(last) \in Int /\ last \in Int /\ PageSize \in 1..N /\ last = s[PageSize]
      BY <1>1, <1>4, <1>7, <2>8 DEF last
    <3>3. after => follows
      BY <1>1, <2>2, <3>2, CursorStands
    <3>4. follows => after \/ SameMillisecond(i)'
      <4>1. follows => \/ after
                       \/ /\ list.truncated
                          /\ rows[last].created \div Millisecond
                               = rows[i].created \div Millisecond
        BY <1>1, <2>2, <3>2, CursorStands
      <4>2. rows[last].created \in reader'.edges /\ reader'.list = list
        BY <1>6, <2>8
      <4> QED BY <4>1, <4>2 DEF SameMillisecond
    <3> HIDE DEF after, follows, next
    <3>5. CASE Shown(i)
      <4>1. ~After(list, reader.cursor, i) /\ reader.cursor # NoCursor
        BY <2>2, <3>5 DEF Divided, After
      <4>2. After(list, reader.cursor, last)
        BY <3>2 DEF S
      <4>3. reader.cursor.key \in Int /\ reader.cursor.id \in Int
        <5>1. reader.cursor \in Positions
          BY <4>1 DEF FeedTypes
        <5> QED BY <5>1, PlacesAreNumbers
      <4>4. ~follows
        BY <1>1, <2>2, <3>2, <4>1, <4>2, <4>3, FollowsOrders DEF After, follows
      <4> QED BY <2>4, <3>1, <3>3, <3>5, <4>4 DEF Divided
    <3>6. CASE ~Shown(i) /\ i \in S
      <4>1. PICK n \in 1..N : s[n] = i
        BY <1>2, <3>6
      <4>2. CASE n <= M
        <5>1. ~follows
          <6>1. CASE n = PageSize
            BY <1>1, <2>2, <3>2, <4>1, <6>1, FollowsOrders DEF follows
          <6>2. CASE n < PageSize
            <7>1. Follows(list, K(s[PageSize]), s[PageSize], K(s[n]), s[n])
              BY <1>2, <3>2, <6>2
            <7>2. Follows(list, K(last), last, K(i), i)
              BY <3>2, <4>1, <7>1
            <7> QED BY <1>1, <2>2, <3>2, <7>2, FollowsOrders DEF follows
          <6> QED BY <1>4, <3>2, <4>2, <6>1, <6>2
        <5>2. Shown(i)'
          BY <1>4, <2>4, <4>1, <4>2
        <5> QED BY <3>1, <3>3, <5>1, <5>2 DEF Divided
      <4>3. CASE n > M
        <5>1. follows
          BY <1>2, <1>4, <3>2, <4>1, <4>3 DEF follows
        <5>2. ~Shown(i)'
          <6> SUFFICES ASSUME NEW m \in 1..M, s[m] = i PROVE FALSE
            BY <2>4, <3>6
          <6>1. m \in 1..N
            BY <1>2, <1>4
          <6> QED BY <1>2, <1>3, <1>4, <4>1, <4>3, <6>1
        <5> QED BY <3>1, <3>4, <5>1, <5>2 DEF Divided
      <4> QED BY <1>4, <4>2, <4>3
    <3>7. CASE ~Shown(i) /\ i \notin S
      <4>1. SameMillisecond(i)
        BY <2>2, <3>7 DEF S, Divided
      <4>2. ~Shown(i)'
        BY <1>2, <1>4, <2>4, <3>7
      <4> QED BY <2>7, <4>1, <4>2 DEF Divided
    <3> QED BY <3>5, <3>6, <3>7
  <2>9. ASSUME ~more PROVE Shown(i)' \/ SameMillisecond(i)'
    <3>1. CASE i \in S
      BY <1>2, <2>4, <2>9, <3>1
    <3>2. CASE i \notin S
      BY <2>2, <2>4, <2>7, <3>2 DEF S, Divided
    <3> QED BY <3>1, <3>2
  <2> QED BY <2>6, <2>8, <2>9
<1>10. \A i \in steady' : Shows(reader.list, reader.who, rows[i], today)'
  BY <1>6
<1> QED BY <1>6, <1>8, <1>9, <1>10 DEF PagesInv

LEMMA ReadingKeeps ==
  ASSUME PagesInv, FirstPage \/ NextPage
  PROVE  PagesInv'
<1>1. FeedTypes /\ ReadPage /\ UNCHANGED <<rows, today>>
  BY DEF FirstPage, NextPage, PagesInv
<1>2. CASE FirstPage
  <2>1. /\ steady' = {i \in Stored : Shows(reader.list, reader.who, rows[i], today)}
        /\ reader.state = "idle"
    BY <1>2 DEF FirstPage
  <2>2. reader.shown = <<>> /\ reader.cursor = NoCursor
    BY <1>1, <2>1 DEF FeedTypes
  <2>3. \A i \in steady' : ShownOnce(i) /\ Divided(i)
    BY <2>2 DEF ShownOnce, Divided, Shown, After
  <2> QED BY <1>1, <2>1, <2>3, PageKeeps
<1>3. CASE NextPage
  <2>1. steady' = steady /\ reader.state = "paging"
    BY <1>3 DEF NextPage
  <2>2. steady' \subseteq Stored
    BY <1>1, <2>1 DEF FeedTypes
  <2>3. \A i \in steady' : /\ Shows(reader.list, reader.who, rows[i], today)
                           /\ ShownOnce(i) /\ Divided(i)
    BY <2>1 DEF PagesInv
  <2> QED BY <1>1, <2>2, <2>3, PageKeeps
<1> QED BY <1>2, <1>3

LEMMA MisdirectKeeps ==
  ASSUME PagesInv, Misdirect
  PROVE  PagesInv'
<1>1. /\ reader' = [reader EXCEPT !.state = "refused"]
      /\ UNCHANGED <<rows, today, steady>>
  BY DEF Misdirect
<1>2. /\ reader'.state = "refused" /\ reader'.list = reader.list /\ reader'.who = reader.who
      /\ reader'.shown = reader.shown
  BY <1>1 DEF PagesInv, FeedTypes
<1>3. FeedTypes'
  <2>1. reader' \in [state : {"idle", "paging", "done", "refused"}, list : Lists,
                     who : Technicians \cup {Admin}, cursor : Positions \cup {NoCursor},
                     shown : Seq(Ids), edges : SUBSET Nat]
    BY <1>1 DEF PagesInv, FeedTypes
  <2> QED BY <1>1, <1>2, <2>1 DEF PagesInv, FeedTypes, Stored
<1> QED BY <1>1, <1>2, <1>3 DEF PagesInv, ShownOnce

(* A change of rows keeps, of the rows that stay, the place and the time   *)
(* of creation.                                                            *)
LEMMA WritesAre ==
  ASSUME rows \in [Ids -> Rows \cup {NoRow}], NEW i \in Ids, Add(i) \/ Edit(i) \/ MoveOn(i)
  PROVE  \E row \in Rows : /\ Write(i, row)
                           /\ i \in Stored => row.created = rows[i].created
<1>1. i \in Stored => rows[i] \in Rows
  BY DEF Stored
<1>2. CASE Add(i)
  BY <1>2 DEF Add
<1>3. CASE Edit(i)
  <2>1. PICK d \in 0..LastDay, t \in Technicians :
          Write(i, [rows[i] EXCEPT !.start = d, !.technician = t])
    BY <1>3 DEF Edit
  <2>2. i \in Stored
    BY <1>3 DEF Edit
  <2>3. /\ [rows[i] EXCEPT !.start = d, !.technician = t] \in Rows
        /\ [rows[i] EXCEPT !.start = d, !.technician = t].created = rows[i].created
    BY <1>1, <2>2 DEF Rows
  <2> QED BY <2>1, <2>3
<1>4. CASE MoveOn(i)
  <2>1. PICK st \in Statuses : Write(i, [rows[i] EXCEPT !.status = st])
    BY <1>4 DEF MoveOn, Statuses
  <2>2. i \in Stored
    BY <1>4 DEF MoveOn
  <2>3. /\ [rows[i] EXCEPT !.status = st] \in Rows
        /\ [rows[i] EXCEPT !.status = st].created = rows[i].created
    BY <1>1, <2>2 DEF Rows
  <2> QED BY <2>1, <2>3
<1> QED BY <1>2, <1>3, <1>4

LEMMA StoredIs ==
  ASSUME NEW i \in Ids, rows[i] \in Rows
  PROVE  i \in Stored
BY MarkersAssumption DEF Stored

LEMMA ChangesKeepPages ==
  ASSUME PagesInv, WriteStep
  PROVE  PagesInv'
<1>1. /\ reader' = reader /\ steady' = {j \in steady : Kept(j, rows', today')}
      /\ today' \in 0..LastDay
      /\ \/ rows' = rows
         \/ \E i \in Ids, row \in Rows :
              /\ rows' = [rows EXCEPT ![i] = row]
              /\ i \in Stored => row.created = rows[i].created
  <2>1. CASE Midnight
    BY <2>1, FeedsAssumption DEF Midnight, PagesInv, FeedTypes
  <2>2. CASE \E i \in Ids : Add(i) \/ Edit(i) \/ MoveOn(i)
    <3>1. PICK i \in Ids : Add(i) \/ Edit(i) \/ MoveOn(i)
      BY <2>2
    <3>2. PICK row \in Rows : Write(i, row) /\ (i \in Stored => row.created = rows[i].created)
      BY <3>1, WritesAre DEF PagesInv, FeedTypes
    <3> QED BY <3>2 DEF Write, PagesInv, FeedTypes
  <2> QED BY <2>1, <2>2 DEF WriteStep
<1>2. rows' \in [Ids -> Rows \cup {NoRow}]
  BY <1>1 DEF PagesInv, FeedTypes
<1>3. ASSUME NEW j \in steady'
      PROVE  /\ j \in steady /\ j \in Stored' /\ rows'[j].created = rows[j].created
             /\ rows'[j][reader.list.key] = rows[j][reader.list.key]
             /\ Shows(reader.list, reader.who, rows'[j], today')
  <2>1. j \in steady /\ Kept(j, rows', today')
    BY <1>1
  <2>2. j \in Stored /\ j \in Ids /\ rows[j] # NoRow
    BY <2>1 DEF PagesInv, FeedTypes, Stored
  <2>3. rows'[j] # NoRow /\ rows'[j].created = rows[j].created
    BY <1>1, <2>2, MarkersAssumption DEF PagesInv, FeedTypes
  <2> QED BY <2>1, <2>2, <2>3 DEF Kept, Stored
<1>4. FeedTypes'
  BY <1>1, <1>2, <1>3 DEF PagesInv, FeedTypes
<1>5. ASSUME NEW j \in steady'
      PROVE  /\ ShownOnce(j)' /\ (Shown(j)' <=> Shown(j))
             /\ SameMillisecond(j)' <=> SameMillisecond(j)
             /\ After(reader.list, reader.cursor, j)' <=> After(reader.list, reader.cursor, j)
  BY <1>1, <1>3 DEF PagesInv, ShownOnce, Shown, SameMillisecond, After
<1> QED BY <1>1, <1>3, <1>4, <1>5 DEF PagesInv, Divided

LEMMA PagesStart == FeedsInit => PagesInv
<1> SUFFICES ASSUME FeedsInit PROVE PagesInv
  OBVIOUS
<1>1. PICK list \in Lists, who \in Technicians \cup {Admin} :
        reader = [NoReader EXCEPT !.list = list, !.who = who]
  BY DEF FeedsInit
<1>2. reader = [state |-> "idle", list |-> list, who |-> who, cursor |-> NoCursor,
                shown |-> <<>>, edges |-> {}]
  BY <1>1 DEF NoReader
<1>3. FeedTypes
  <2>1. reader \in [state : {"idle", "paging", "done", "refused"}, list : Lists,
                    who : Technicians \cup {Admin}, cursor : Positions \cup {NoCursor},
                    shown : Seq(Ids), edges : SUBSET Nat]
    BY <1>2
  <2>2. reader.state = "idle" /\ reader.shown = <<>> /\ reader.cursor = NoCursor
    BY <1>2
  <2> QED BY <2>1, <2>2 DEF FeedsInit, FeedTypes
<1> QED BY <1>3 DEF FeedsInit, PagesInv

LEMMA PagesStep == PagesInv /\ [FeedsNext]_feedVars => PagesInv'
<1> SUFFICES ASSUME PagesInv, [FeedsNext]_feedVars PROVE PagesInv'
  OBVIOUS
<1>1. CASE UNCHANGED <<rows, today, steady, reader>>
  BY <1>1 DEF PagesInv, FeedTypes, Stored, ShownOnce, Divided, Shown, After, SameMillisecond
<1>2. CASE PageStep
  BY <1>2, ReadingKeeps, MisdirectKeeps DEF PageStep
<1>3. CASE ProfileStep \/ DetailStep
  BY <1>1, <1>3 DEF ProfileStep, DetailStep, AskProfile, Count, FetchJob, FetchLog
<1>4. CASE UNCHANGED feedVars
  BY <1>1, <1>4 DEF feedVars
<1> QED BY <1>2, <1>3, <1>4, ChangesKeepPages DEF FeedsNext

(* A row that is in the list, at one place, from the first page to the     *)
(* last is shown exactly once, whatever is added, moved or finished in     *)
(* between; the one exception are rows of the millisecond of a page's end, *)
(* in the lists whose cursor drops the microseconds.                       *)
THEOREM PagesAreExact == FeedsSpec => []PagesExact
<1>1. PagesInv => PagesExact
  <2> SUFFICES ASSUME PagesInv, NEW i \in steady
               PROVE  /\ Times(i) <= 1
                      /\ reader.state = "done" => Times(i) = 1 \/ SameMillisecond(i)
    BY DEF PagesExact
  <2> DEFINE T == {n \in DOMAIN reader.shown : reader.shown[n] = i}
  <2>1. \A m, n \in T : m = n
    BY DEF PagesInv, ShownOnce
  <2>2. CASE T = {}
    BY <2>2, FS_EmptySet DEF PagesInv, Shown, Times
  <2>3. CASE T # {}
    <3>1. PICK n \in T : T = {n}
      BY <2>1, <2>3
    <3> HIDE DEF T
    <3>2. Cardinality(T) = 1
      BY <3>1, FS_Singleton
    <3> QED BY <3>2 DEF Times, T
  <2> QED BY <2>2, <2>3
<1> QED BY <1>1, PagesStart, PagesStep, PTL DEF FeedsSpec

-----------------------------------------------------------------------------
(***************************************************************************)
(* The profile's counts and a job's detail.                                *)
(***************************************************************************)

(* Each of an answer's counts is done or to come; the jobs of the kinds    *)
(* that are done are as many as was counted, but for the changes since.    *)
Done(k) == profile.counts[k] # NoCount

Number(k) == IF Done(k) THEN profile.counts[k] ELSE 0

Sum == Number("today") + Number("upcoming") + Number("overdue") + Number("completed")
         + Number("cancelled")

CountedJobs ==
  {i \in Mine(profile.who) : \E k \in Kinds : Done(k) /\ Counted(k, rows[i], profile.day)}

ProfileTypes ==
  /\ rows \in [Ids -> Rows \cup {NoRow}]
  /\ today \in 0..LastDay
  /\ moved \in Nat
  /\ profile \in [who : Technicians \cup {Admin}, day : 0..LastDay,
                  counts : [Kinds -> Nat \cup {NoCount}], asked : BOOLEAN]
  /\ ~profile.asked => \A k \in Kinds : profile.counts[k] = NoCount

ProfileInv ==
  /\ ProfileTypes
  /\ Sum \in (Cardinality(CountedJobs) - moved)..(Cardinality(CountedJobs) + moved)

LEMMA NumbersAre ==
  ASSUME ProfileTypes
  PROVE  /\ \A k \in Kinds : Number(k) \in Nat
         /\ Sum \in Nat
         /\ \A X \in SUBSET Ids : IsFiniteSet(X) /\ Cardinality(X) \in Nat
         /\ Stored \subseteq Ids /\ Mine(profile.who) \subseteq Stored
         /\ CountedJobs \subseteq Mine(profile.who) /\ CountedJobs \subseteq Ids
<1>1. \A k \in Kinds : Number(k) \in Nat
  BY DEF ProfileTypes, Number, Done
<1>2. Sum \in Nat
  BY <1>1 DEF Sum, Kinds
<1>3. \A X \in SUBSET Ids : IsFiniteSet(X) /\ Cardinality(X) \in Nat
  BY FS_Subset, FS_CardinalityType, FeedsAssumption
<1>4. /\ Stored \subseteq Ids /\ Mine(profile.who) \subseteq Stored
      /\ CountedJobs \subseteq Mine(profile.who)
  BY DEF Stored, Mine, CountedJobs
<1> QED BY <1>1, <1>2, <1>3, <1>4

(* A job is of one kind at most, and of one unless it is the known gap.    *)
LEMMA KindsPartition ==
  ASSUME NEW row \in Rows, NEW day \in 0..LastDay
  PROVE  /\ \A k, l \in Kinds : Counted(k, row, day) /\ Counted(l, row, day) => k = l
         /\ (\E k \in Kinds : Counted(k, row, day))
              <=> ~(row.status = "in_progress" /\ row.start > day)
<1>1. row.start \in Int /\ day \in Int /\ row.status \in Statuses
  BY FeedsAssumption DEF Rows
<1>2. CASE row.status = "scheduled"
  BY <1>1, <1>2 DEF Kinds, Counted, Open
<1>3. CASE row.status = "in_progress"
  BY <1>1, <1>3 DEF Kinds, Counted, Open
<1>4. CASE row.status \in {"completed", "cancelled"}
  BY <1>1, <1>4 DEF Kinds, Counted, Open
<1> QED BY <1>1, <1>2, <1>3, <1>4 DEF Statuses

(* One number of five is replaced.                                         *)
LEMMA CountKeeps ==
  ASSUME ProfileInv, NEW kind \in Kinds, Count(kind)
  PROVE  ProfileInv'
<1> DEFINE X == {i \in Mine(profile.who) : Counted(kind, rows[i], profile.day)}
           n == Cardinality(X)
<1>1. /\ profile' = [profile EXCEPT !.counts[kind] = n]
      /\ profile.asked /\ ~Done(kind)
      /\ UNCHANGED <<rows, today, moved>>
  BY DEF Count, Done
<1>2. /\ ProfileTypes /\ X \in SUBSET Ids /\ n \in Nat /\ n # NoCount
      /\ IsFiniteSet(X) /\ IsFiniteSet(CountedJobs)
  BY NumbersAre, MarkersAssumption DEF ProfileInv
<1> HIDE DEF n
<1>3. /\ profile'.counts = [profile.counts EXCEPT ![kind] = n]
      /\ profile'.who = profile.who /\ profile'.day = profile.day /\ profile'.asked
      /\ profile' \in [who : Technicians \cup {Admin}, day : 0..LastDay,
                       counts : [Kinds -> Nat \cup {NoCount}], asked : BOOLEAN]
  BY <1>1, <1>2 DEF ProfileTypes
<1>4. /\ Done(kind)' /\ Number(kind)' = n /\ Number(kind) = 0
      /\ \A k \in Kinds : k # kind => (Done(k)' <=> Done(k)) /\ Number(k)' = Number(k)
  BY <1>1, <1>2, <1>3 DEF ProfileTypes, Done, Number
<1>5. Sum' = Sum + n
  BY <1>2, <1>4, NumbersAre DEF Sum, Kinds
<1>6. CountedJobs' = CountedJobs \cup X
  <2>1. Mine(profile.who)' = Mine(profile.who)
    BY <1>1, <1>3 DEF Mine, Stored
  <2>2. \A i : (\E k \in Kinds : Done(k)' /\ Counted(k, rows[i], profile.day))
               <=> \/ Counted(kind, rows[i], profile.day)
                   \/ \E k \in Kinds : Done(k) /\ Counted(k, rows[i], profile.day)
    BY <1>1, <1>4
  <2> QED BY <1>1, <1>3, <2>1, <2>2 DEF CountedJobs
<1>7. CountedJobs \cap X = {}
  <2> SUFFICES ASSUME NEW i \in CountedJobs \cap X PROVE FALSE
    OBVIOUS
  <2>1. i \in Stored /\ rows[i] \in Rows
    BY <1>2, NumbersAre DEF ProfileTypes, Stored
  <2>2. PICK k \in Kinds : Done(k) /\ Counted(k, rows[i], profile.day)
    BY DEF CountedJobs
  <2>3. profile.day \in 0..LastDay
    BY <1>2 DEF ProfileTypes
  <2> QED BY <1>1, <2>1, <2>2, <2>3, KindsPartition
<1>8. Cardinality(CountedJobs') = Cardinality(CountedJobs) + n
  <2> DEFINE S == CountedJobs
  <2>1. S \cap X = {} /\ IsFiniteSet(S) /\ Cardinality(S) \in Nat
    BY <1>2, <1>7, NumbersAre
  <2> HIDE DEF S, X
  <2>2. Cardinality(S \cup X) = Cardinality(S) + Cardinality(X) - Cardinality(S \cap X)
    BY <1>2, <2>1, FS_Union
  <2>3. Cardinality(S \cap X) = 0
    BY <2>1, FS_EmptySet
  <2>4. Cardinality(S \cup X) = Cardinality(S) + n
    BY <1>2, <2>1, <2>2, <2>3 DEF n
  <2> QED BY <1>6, <2>4 DEF S
<1>9. ProfileTypes'
  BY <1>1, <1>2, <1>3 DEF ProfileTypes
<1>10. Cardinality(CountedJobs) \in Nat /\ Sum \in Nat /\ moved \in Nat
  BY <1>2, NumbersAre DEF ProfileTypes
<1>11. Sum + n \in (Cardinality(CountedJobs) + n - moved)..(Cardinality(CountedJobs) + n + moved)
  BY <1>2, <1>10 DEF ProfileInv
<1>12. Sum' \in (Cardinality(CountedJobs') - moved')..(Cardinality(CountedJobs') + moved')
  <2> DEFINE a == Cardinality(CountedJobs)
             b == Cardinality(CountedJobs')
             v == Sum'
  <2>1. moved' = moved /\ b = a + n /\ v = Sum + n /\ Sum + n \in (a + n - moved)..(a + n + moved)
    BY <1>1, <1>5, <1>8, <1>11
  <2>3. a \in Nat /\ n \in Nat /\ Sum \in Nat /\ moved \in Nat
    BY <1>2, <1>10
  <2> HIDE DEF a, b, v
  <2>2. v \in (b - moved')..(b + moved')
    BY <2>1, <2>3
  <2> QED BY <2>2 DEF a, b, v
<1> QED BY <1>9, <1>12 DEF ProfileInv

LEMMA AskKeeps ==
  ASSUME ProfileInv, AskProfile
  PROVE  ProfileInv'
<1>1. /\ profile' = [profile EXCEPT !.asked = TRUE, !.day = today] /\ ~profile.asked
      /\ moved' = 0 /\ UNCHANGED <<rows, today>>
  BY DEF AskProfile
<1>2. /\ profile'.counts = profile.counts
      /\ profile' \in [who : Technicians \cup {Admin}, day : 0..LastDay,
                       counts : [Kinds -> Nat \cup {NoCount}], asked : BOOLEAN]
      /\ profile'.asked
  BY <1>1 DEF ProfileInv, ProfileTypes
<1>3. \A k \in Kinds : ~Done(k)' /\ Number(k)' = 0
  BY <1>1, <1>2 DEF ProfileInv, ProfileTypes, Done, Number
<1>4. Sum' = 0 /\ CountedJobs' = {}
  BY <1>3 DEF Sum, CountedJobs, Kinds
<1>5. ProfileTypes'
  BY <1>1, <1>2 DEF ProfileInv, ProfileTypes
<1>6. 0 \in (0 - 0)..(0 + 0)
  OBVIOUS
<1> QED BY <1>1, <1>4, <1>5, <1>6, FS_EmptySet DEF ProfileInv

(* A change is one of one job.                                             *)
LEMMA ChangesKeepCounts ==
  ASSUME ProfileInv, WriteStep
  PROVE  ProfileInv'
<1>1. CASE UNCHANGED <<rows, moved, profile>> /\ today' \in 0..LastDay
  BY <1>1 DEF ProfileInv, ProfileTypes, Sum, Number, Done, CountedJobs, Mine, Stored
<1>2. ASSUME NEW i \in Ids, NEW row \in Rows, Write(i, row)
      PROVE  ProfileInv'
  <2> DEFINE S == CountedJobs
             T == CountedJobs'
  <2>1. /\ rows' = [rows EXCEPT ![i] = row] /\ moved' = moved + 1
        /\ UNCHANGED <<today, profile>>
    BY <1>2 DEF Write
  <2>2. ProfileTypes'
    BY <2>1 DEF ProfileInv, ProfileTypes
  <2>3. S \ {i} = T \ {i}
    <3>1. \A j \in Ids : j # i => rows'[j] = rows[j]
      BY <2>1 DEF ProfileInv, ProfileTypes
    <3> QED BY <2>1, <3>1 DEF CountedJobs, Mine, Stored, Done
  <2>4. /\ IsFiniteSet(S) /\ IsFiniteSet(T)
        /\ Cardinality(S) \in Nat /\ Cardinality(T) \in Nat /\ Sum \in Nat /\ moved \in Nat
    <3>1. T \subseteq Ids /\ S \subseteq Ids
      BY DEF CountedJobs, Mine, Stored
    <3> QED BY <3>1, NumbersAre DEF ProfileInv, ProfileTypes
  <2>5. Sum' = Sum
    BY <2>1 DEF Sum, Number, Done
  <2> HIDE DEF S, T
  <2>6. Cardinality(S) \in (Cardinality(T) - 1)..(Cardinality(T) + 1)
    <3>1. Cardinality(S \ {i}) = IF i \in S THEN Cardinality(S) - 1 ELSE Cardinality(S)
      BY <2>4, FS_RemoveElement
    <3>2. Cardinality(T \ {i}) = IF i \in T THEN Cardinality(T) - 1 ELSE Cardinality(T)
      BY <2>4, FS_RemoveElement
    <3> QED BY <2>3, <2>4, <3>1, <3>2
  <2>7. Sum \in (Cardinality(T) - (moved + 1))..(Cardinality(T) + (moved + 1))
    <3>1. Sum \in (Cardinality(S) - moved)..(Cardinality(S) + moved)
      BY DEF ProfileInv, S
    <3> QED BY <2>4, <2>6, <3>1
  <2> QED BY <2>1, <2>2, <2>5, <2>7 DEF ProfileInv, T
<1>3. CASE Midnight
  <2>1. UNCHANGED <<rows, moved, profile>> /\ today' \in 0..LastDay
    BY <1>3, FeedsAssumption DEF Midnight, ProfileInv, ProfileTypes
  <2> QED BY <1>1, <2>1
<1>4. ASSUME NEW i \in Ids, Add(i) \/ Edit(i) \/ MoveOn(i)
      PROVE  \E row \in Rows : Write(i, row)
  BY <1>4, WritesAre DEF ProfileInv, ProfileTypes
<1> QED BY <1>2, <1>3, <1>4 DEF WriteStep

LEMMA ProfileStart == FeedsInit => ProfileInv
<1> SUFFICES ASSUME FeedsInit PROVE ProfileInv
  OBVIOUS
<1>1. PICK who \in Technicians \cup {Admin} : profile = NoProfile(who)
  BY DEF FeedsInit
<1>2. profile = [who |-> who, day |-> 0, counts |-> [k \in Kinds |-> NoCount], asked |-> FALSE]
  BY <1>1 DEF NoProfile
<1>3. ProfileTypes
  BY <1>2, FeedsAssumption DEF FeedsInit, ProfileTypes
<1>4. \A k \in Kinds : ~Done(k) /\ Number(k) = 0
  BY <1>2 DEF Done, Number
<1>5. Sum = 0 /\ CountedJobs = {} /\ moved = 0
  BY <1>4 DEF Sum, CountedJobs, Kinds, FeedsInit
<1> QED BY <1>3, <1>5, FS_EmptySet DEF ProfileInv

LEMMA ProfileSteps == ProfileInv /\ [FeedsNext]_feedVars => ProfileInv'
<1> SUFFICES ASSUME ProfileInv, [FeedsNext]_feedVars PROVE ProfileInv'
  OBVIOUS
<1>1. CASE UNCHANGED <<rows, today, profile, moved>>
  BY <1>1 DEF ProfileInv, ProfileTypes, Sum, Number, Done, CountedJobs, Mine, Stored
<1>2. CASE ProfileStep
  BY <1>2, CountKeeps, AskKeeps DEF ProfileStep
<1>3. CASE PageStep
  BY <1>1, <1>3 DEF PageStep, FirstPage, NextPage, Misdirect
<1>4. CASE DetailStep
  BY <1>1, <1>4 DEF DetailStep, FetchJob, FetchLog
<1>5. CASE UNCHANGED feedVars
  BY <1>1, <1>5 DEF feedVars
<1> QED BY <1>2, <1>3, <1>4, <1>5, ChangesKeepCounts DEF FeedsNext

LEMMA CountsFollow == ProfileInv => CountsAddUp
<1> SUFFICES ASSUME ProfileInv, \A k \in Kinds : Done(k)
             PROVE  Total(profile.counts)
                      \in (Cardinality({i \in Mine(profile.who) : ~Gap(i)}) - moved)
                          ..(Cardinality({i \in Mine(profile.who) : ~Gap(i)}) + moved)
  BY DEF CountsAddUp, Done
<1>1. Total(profile.counts) = Sum
  BY DEF Total, Sum, Number, Kinds
<1>2. CountedJobs = {i \in Mine(profile.who) : ~Gap(i)}
  <2> SUFFICES ASSUME NEW i \in Mine(profile.who)
               PROVE  (\E k \in Kinds : Counted(k, rows[i], profile.day)) <=> ~Gap(i)
    BY DEF CountedJobs
  <2>1. rows[i] \in Rows
    BY DEF ProfileInv, ProfileTypes, Mine, Stored
  <2> QED BY <2>1, KindsPartition DEF ProfileInv, ProfileTypes, Gap
<1> QED BY <1>1, <1>2 DEF ProfileInv

(* The log of a job only grows, and the detail reads it after the row.     *)
DetailInv ==
  /\ log \in [Ids -> Nat]
  /\ detail \in [who : Technicians \cup {Admin},
                 state : {"idle", "not_found", "forbidden", "fetched", "shown"},
                 job : Ids \cup {NoRow}, logged : Nat, log : Nat]
  /\ detail.state = "fetched" => detail.job \in Ids /\ detail.logged <= log[detail.job]
  /\ detail.state = "shown" => detail.logged <= detail.log

LEMMA DetailStart == FeedsInit => DetailInv
<1> SUFFICES ASSUME FeedsInit PROVE DetailInv
  OBVIOUS
<1>1. PICK who \in Technicians \cup {Admin} : detail = NoDetail(who)
  BY DEF FeedsInit
<1> QED BY <1>1 DEF FeedsInit, DetailInv, NoDetail

LEMMA DetailKeeps == DetailInv /\ [FeedsNext]_feedVars => DetailInv'
<1> SUFFICES ASSUME DetailInv, [FeedsNext]_feedVars PROVE DetailInv'
  OBVIOUS
<1>1. CASE UNCHANGED <<log, detail>>
  BY <1>1 DEF DetailInv
<1>2. ASSUME NEW i \in Ids, FetchJob(i)
      PROVE  DetailInv'
  <2>1. PICK st \in {"not_found", "forbidden", "fetched"} :
          detail' = [detail EXCEPT !.job = i, !.logged = log[i], !.state = st] /\ log' = log
    BY <1>2 DEF FetchJob
  <2>2. log[i] \in Nat
    BY DEF DetailInv
  <2>3. detail'.state = st /\ detail'.job = i /\ detail'.logged = log[i]
    BY <2>1 DEF DetailInv
  <2>4. detail' \in [who : Technicians \cup {Admin},
                   state : {"idle", "not_found", "forbidden", "fetched", "shown"},
                   job : Ids \cup {NoRow}, logged : Nat, log : Nat]
    BY <2>1, <2>2 DEF DetailInv
  <2> QED BY <2>1, <2>2, <2>3, <2>4 DEF DetailInv
<1>3. CASE FetchLog
  <2>1. /\ detail.state = "fetched" /\ log' = log
        /\ detail' = [detail EXCEPT !.log = log[detail.job], !.state = "shown"]
    BY <1>3 DEF FetchLog
  <2>2. log[detail.job] \in Nat /\ detail.logged <= log[detail.job]
    BY <2>1 DEF DetailInv
  <2>3. detail'.state = "shown" /\ detail'.log = log[detail.job] /\ detail'.logged = detail.logged
    BY <2>1 DEF DetailInv
  <2>4. detail' \in [who : Technicians \cup {Admin},
                   state : {"idle", "not_found", "forbidden", "fetched", "shown"},
                   job : Ids \cup {NoRow}, logged : Nat, log : Nat]
    BY <2>1, <2>2 DEF DetailInv
  <2> QED BY <2>1, <2>2, <2>3, <2>4 DEF DetailInv
<1>4. ASSUME NEW i \in Ids, NEW row, Write(i, row)
      PROVE  DetailInv'
  <2>1. log' = [log EXCEPT ![i] = IF Logs(i, row) THEN @ + 1 ELSE @] /\ detail' = detail
    BY <1>4 DEF Write
  <2>2. log' \in [Ids -> Nat] /\ \A j \in Ids : log[j] <= log'[j]
    BY <2>1 DEF DetailInv
  <2> QED BY <2>1, <2>2 DEF DetailInv
<1>5. CASE PageStep \/ ProfileStep \/ Midnight \/ UNCHANGED feedVars
  BY <1>1, <1>5 DEF PageStep, FirstPage, NextPage, Misdirect, ProfileStep, AskProfile, Count,
    Midnight, feedVars
<1>6. CASE \E i \in Ids : Add(i) \/ Edit(i) \/ MoveOn(i)
  BY <1>4, <1>6 DEF Add, Edit, MoveOn
<1> QED BY <1>2, <1>3, <1>5, <1>6 DEF FeedsNext, DetailStep, WriteStep

(* The profile's five counts, each a query of its own while jobs change,   *)
(* add up to the caller's jobs, but for the jobs of a later day already in *)
(* progress and one for each change meanwhile; a job's detail never shows  *)
(* a state whose log entry it does not show.                               *)
THEOREM ReadsAreConsistent == FeedsSpec => []ReadsFitTogether
<1>1. DetailInv => DetailLogCovers
  BY DEF DetailInv, DetailLogCovers
<1> QED BY <1>1, CountsFollow, ProfileStart, ProfileSteps, DetailStart, DetailKeeps, PTL
  DEF FeedsSpec, ReadsFitTogether

-----------------------------------------------------------------------------
(***************************************************************************)
(* What is told of many jobs at once.                                      *)
(***************************************************************************)

(* A bounded set of naturals has a last one, and Max finds it.             *)
LEMMA MaxIs ==
  ASSUME NEW S, S \subseteq Int, NEW m \in S, \A x \in S : x <= m
  PROVE  Max(S) = m
<1>1. \A y \in S : m >= y
  OBVIOUS
<1>2. Max(S) \in S /\ \A y \in S : Max(S) >= y
  BY <1>1 DEF Max
<1>3. m <= Max(S) /\ Max(S) <= m /\ m \in Int /\ Max(S) \in Int
  BY <1>2
<1> QED BY <1>3

LEMMA MaxOf ==
  ASSUME NEW S, S \subseteq Nat, S # {}, NEW b \in Nat, \A x \in S : x <= b
  PROVE  Max(S) \in S /\ \A x \in S : x <= Max(S)
<1> DEFINE T == {b - x : x \in S}
<1>1. \A x \in S : b - x \in Nat
  OBVIOUS
<1>2. T \subseteq Nat /\ T # {}
  BY <1>1
<1>3. \E t \in T : \A u \in T : t <= u
  <2> HIDE DEF T
  <2>1. IsWellFoundedOn(OpToRel(<, Nat), Nat)
    BY NatLessThanWellFounded
  <2>2. PICK t \in T : \A u \in T : <<u, t>> \notin OpToRel(<, Nat)
    BY <1>2, <2>1, WFMin
  <2>3. \A u \in T : ~(u < t)
    BY <1>2, <2>2 DEF OpToRel
  <2> QED BY <1>2, <2>3
<1>4. PICK m \in S : \A x \in S : b - m <= b - x
  BY <1>3
<1>5. \A x \in S : x <= m
  BY <1>4
<1>6. Max(S) = m
  <2>1. S \subseteq Int
    OBVIOUS
  <2> QED BY <1>5, <2>1, MaxIs
<1> QED BY <1>5, <1>6

LEMMA MinOfTwo ==
  ASSUME NEW a \in Int, NEW b \in Int
  PROVE  Min({a, b}) = IF a <= b THEN a ELSE b
BY DEF Min

(* A sum is the number of its units.                                       *)
Units(f) == UNION {{x} \X (1..f[x]) : x \in DOMAIN f}

LEMMA UnitsAre ==
  ASSUME NEW T, NEW f \in [T -> Nat]
  PROVE  /\ SumOf(f) = Cardinality(Units(f))
         /\ \A u : u \in Units(f) <=> \E x \in T : \E n \in 1..f[x] : u = <<x, n>>
BY DEF SumOf, Units

(* The sizes of the parts of a finite set add up to its size.              *)
LEMMA SumOfParts ==
  ASSUME NEW D, IsFiniteSet(D), NEW T, NEW P \in [T -> SUBSET D],
         \A t, u \in T : P[t] \cap P[u] # {} => t = u,
         \A d \in D : \E t \in T : d \in P[t]
  PROVE  LET sizes == [t \in T |-> Cardinality(P[t])]
         IN /\ sizes \in [T -> Nat] /\ IsFiniteSet(Units(sizes))
            /\ SumOf(sizes) = Cardinality(D)
<1> DEFINE sizes == [t \in T |-> Cardinality(P[t])]
           number(t) == CHOOSE b : b \in Bijection(1..Cardinality(P[t]), P[t])
           g == [u \in Units(sizes) |-> number(u[1])[u[2]]]
<1>1. ASSUME NEW t \in T
      PROVE  /\ Cardinality(P[t]) \in Nat
             /\ number(t) \in Bijection(1..Cardinality(P[t]), P[t])
  <2>1. IsFiniteSet(P[t])
    BY FS_Subset
  <2>2. ExistsBijection(1..Cardinality(P[t]), P[t]) /\ Cardinality(P[t]) \in Nat
    BY <2>1, FS_CardinalityType
  <2> QED BY <2>2 DEF ExistsBijection
<1> HIDE DEF number
<1>2. sizes \in [T -> Nat]
  BY <1>1
<1>3. \A t \in T : sizes[t] = Cardinality(P[t])
  OBVIOUS
<1> HIDE DEF sizes
<1>4. ASSUME NEW t \in T
      PROVE  /\ \A n \in 1..sizes[t] : number(t)[n] \in P[t]
             /\ \A m, n \in 1..sizes[t] : number(t)[m] = number(t)[n] => m = n
             /\ \A d \in P[t] : \E n \in 1..sizes[t] : number(t)[n] = d
  <2>1. number(t) \in Bijection(1..sizes[t], P[t])
    BY <1>1, <1>3
  <2> HIDE DEF number
  <2> QED BY <2>1 DEF Bijection, Injection, Surjection, IsInjective
<1>5. \A u : u \in Units(sizes) <=> \E t \in T : \E n \in 1..sizes[t] : u = <<t, n>>
  BY <1>2, UnitsAre
<1>6. \A t \in T : \A n \in 1..sizes[t] : <<t, n>> \in Units(sizes) /\ g[<<t, n>>] = number(t)[n]
  BY <1>5
<1> HIDE DEF g
<1>7. g \in Bijection(Units(sizes), D)
  <2>1. \A u \in Units(sizes) : g[u] \in D
    BY <1>4, <1>5, <1>6
  <2>2. \A u, v \in Units(sizes) : g[u] = g[v] => u = v
    <3> SUFFICES ASSUME NEW u \in Units(sizes), NEW v \in Units(sizes), g[u] = g[v]
                 PROVE  u = v
      OBVIOUS
    <3>1. PICK t \in T : \E m \in 1..sizes[t] : u = <<t, m>>
      BY <1>5
    <3>2. PICK s \in T : \E n \in 1..sizes[s] : v = <<s, n>>
      BY <1>5
    <3> PICK m \in 1..sizes[t] : u = <<t, m>>
      BY <3>1
    <3> PICK n \in 1..sizes[s] : v = <<s, n>>
      BY <3>2
    <3>3. /\ number(t)[m] = number(s)[n]
          /\ number(t)[m] \in P[t] /\ number(s)[n] \in P[s]
      BY <1>4, <1>6
    <3>4. t = s
      BY <3>3
    <3> QED BY <1>4, <3>3, <3>4
  <2>3. \A d \in D : \E u \in Units(sizes) : g[u] = d
    <3> SUFFICES ASSUME NEW d \in D PROVE \E u \in Units(sizes) : g[u] = d
      OBVIOUS
    <3>1. PICK t \in T : d \in P[t]
      OBVIOUS
    <3>2. PICK n \in 1..sizes[t] : number(t)[n] = d
      BY <1>4, <3>1
    <3> QED BY <1>6, <3>2
  <2>4. g \in [Units(sizes) -> D]
    BY <2>1 DEF g
  <2> QED BY <2>2, <2>3, <2>4 DEF Bijection, Injection, Surjection, IsInjective
<1>8. IsFiniteSet(Units(sizes)) /\ Cardinality(Units(sizes)) = Cardinality(D)
  BY <1>7, FS_Injection DEF Bijection
<1> QED BY <1>2, <1>8, UnitsAre DEF sizes

(* The kinds of things the parts hold may be in several parts.             *)
LEMMA SumCoversParts ==
  ASSUME NEW D, IsFiniteSet(D), NEW T, NEW P \in [T -> SUBSET D],
         \A d \in D : \E t \in T : d \in P[t],
         NEW sizes \in [T -> Nat], IsFiniteSet(Units(sizes)),
         \A t \in T : sizes[t] = Cardinality(P[t])
  PROVE  Cardinality(D) <= SumOf(sizes)
<1> DEFINE number(t) == CHOOSE b : b \in Bijection(1..Cardinality(P[t]), P[t])
           g == [u \in Units(sizes) |-> number(u[1])[u[2]]]
<1>1. ASSUME NEW t \in T
      PROVE  number(t) \in Bijection(1..Cardinality(P[t]), P[t])
  <2>1. IsFiniteSet(P[t])
    BY FS_Subset
  <2>2. ExistsBijection(1..Cardinality(P[t]), P[t])
    BY <2>1, FS_CardinalityType
  <2> QED BY <2>2 DEF ExistsBijection
<1> HIDE DEF number
<1>2. ASSUME NEW t \in T
      PROVE  /\ \A n \in 1..sizes[t] : number(t)[n] \in P[t]
             /\ \A d \in P[t] : \E n \in 1..sizes[t] : number(t)[n] = d
  BY <1>1 DEF Bijection, Surjection
<1>3. \A u : u \in Units(sizes) <=> \E t \in T : \E n \in 1..sizes[t] : u = <<t, n>>
  BY UnitsAre
<1>4. \A t \in T : \A n \in 1..sizes[t] : <<t, n>> \in Units(sizes) /\ g[<<t, n>>] = number(t)[n]
  BY <1>3
<1>5. g \in [Units(sizes) -> D]
  BY <1>2, <1>3
<1> HIDE DEF g
<1>6. \A d \in D : \E u \in Units(sizes) : g[u] = d
  <2> SUFFICES ASSUME NEW d \in D PROVE \E u \in Units(sizes) : g[u] = d
    OBVIOUS
  <2>1. PICK t \in T : d \in P[t]
    OBVIOUS
  <2>2. PICK n \in 1..sizes[t] : number(t)[n] = d
    BY <1>2, <2>1
  <2> QED BY <1>4, <2>2
<1>7. g \in Surjection(Units(sizes), D)
  BY <1>5, <1>6 DEF Surjection
<1> QED BY <1>7, FS_Surjection, UnitsAre

Entries == [id : Ids, row : Rows, had : Nat]

DigestFields == {"kind", "state", "asked", "until", "count", "found", "stays", "ties",
                 "named", "proofs", "vague", "cards", "customer", "history"}

DigestTypes ==
  /\ rows \in [Ids -> Rows \cup {NoRow}]
  /\ standing \in [Technicians -> {"member", "removed", "disabled"}]
  /\ proofs \in [Ids -> Nat] /\ shifts \in Nat
  /\ DOMAIN digest = DigestFields
  /\ digest.kind \in {"report", "card", "profile"}
  /\ digest.kind = "profile" => digest.asked = {}
  /\ digest.kind = "card" =>
       digest.state \in {"idle", "listed", "found", "not_found", "shown"}
  /\ digest.asked \subseteq Technicians /\ digest.until \in Int /\ digest.count \in Nat
  /\ digest.found \in Seq(Entries)
  /\ digest.stays \subseteq Ids /\ digest.ties \in BOOLEAN
  /\ digest.proofs \in [Ids -> Nat]

(* Every job read has one place, a performer and so one section.           *)
LEMMA SectionsPart ==
  ASSUME DigestTypes
  PROVE  /\ IsFiniteSet(DOMAIN digest.found)
         /\ \A n \in DOMAIN digest.found : digest.found[n] \in Entries
         /\ \A t \in Sections : SectionOf(t) \subseteq DOMAIN digest.found
         /\ \A t, u \in Sections : SectionOf(t) \cap SectionOf(u) # {} => t = u
         /\ \A n \in DOMAIN digest.found : \E t \in Sections : n \in SectionOf(t)
<1>1. digest.found \in Seq(Entries)
  BY DEF DigestTypes
<1>2. DOMAIN digest.found = 1..Len(digest.found) /\ Len(digest.found) \in Nat
  BY <1>1
<1>3. IsFiniteSet(DOMAIN digest.found)
  BY <1>2, FS_Interval
<1>4. \A n \in DOMAIN digest.found : digest.found[n] \in Entries
  BY <1>1
<1>5. \A n \in DOMAIN digest.found :
        digest.found[n].row.technician \in Sections
  BY DEF Sections, Performers, ToSet
<1> QED BY <1>3, <1>4, <1>5 DEF SectionOf

(* A count over places adds up over the sections.                          *)
LEMMA CountsAdd ==
  ASSUME DigestTypes, NEW S, S \subseteq DOMAIN digest.found
  PROVE  SumOf([t \in Sections |-> Cardinality(SectionOf(t) \cap S)]) = Cardinality(S)
<1> DEFINE P == [t \in Sections |-> SectionOf(t) \cap S]
<1>1. IsFiniteSet(S) /\ P \in [Sections -> SUBSET S]
  BY SectionsPart, FS_Subset
<1>2. /\ \A t, u \in Sections : P[t] \cap P[u] # {} => t = u
      /\ \A n \in S : \E t \in Sections : n \in P[t]
  BY SectionsPart
<1>3. SumOf([t \in Sections |-> Cardinality(P[t])]) = Cardinality(S)
  <2> HIDE DEF P
  <2> QED BY <1>1, <1>2, SumOfParts
<1> QED BY <1>3

(* The units of finitely many numbers are finitely many.                   *)
LEMMA UnitsFinite ==
  ASSUME NEW n \in Nat, NEW w \in [1..n -> Nat]
  PROVE  IsFiniteSet(Units(w))
<1> DEFINE upto(k) == {u \in Units(w) : u[1] <= k}
           B == {k \in Nat : k <= n /\ ~IsFiniteSet(upto(k))}
<1>1. \A u : u \in Units(w) <=> \E x \in 1..n : \E m \in 1..w[x] : u = <<x, m>>
  BY UnitsAre
<1>2. upto(0) = {} /\ upto(n) = Units(w)
  BY <1>1
<1>3. ASSUME NEW k \in 1..n, IsFiniteSet(upto(k - 1))
      PROVE  IsFiniteSet(upto(k))
  <2> DEFINE last == {k} \X (1..w[k])
             f == [m \in 1..w[k] |-> <<k, m>>]
  <2>1. f \in Surjection(1..w[k], last)
    <3>1. f \in [1..w[k] -> last]
      OBVIOUS
    <3>2. \A u \in last : \E m \in 1..w[k] : u = <<k, m>>
      OBVIOUS
    <3>3. \A u \in last : \E m \in 1..w[k] : f[m] = u
      BY <3>2
    <3> QED BY <3>1, <3>3 DEF Surjection
  <2>2. w[k] \in Nat
    OBVIOUS
  <2>3. IsFiniteSet(1..w[k])
    BY <2>2, FS_Interval
  <2>4. IsFiniteSet(last)
    <3> HIDE DEF f, last
    <3> QED BY <2>1, <2>3, FS_Surjection
  <2>5. upto(k) = upto(k - 1) \cup last
    <3>1. ASSUME NEW u \in upto(k) PROVE u \in upto(k - 1) \cup last
      <4>1. PICK x \in 1..n : \E m \in 1..w[x] : u = <<x, m>>
        BY <1>1
      <4>2. CASE x <= k - 1
        BY <4>1, <4>2
      <4>3. CASE x = k
        BY <4>1, <4>3
      <4> QED BY <4>1, <4>2, <4>3
    <3>2. ASSUME NEW u \in upto(k - 1) PROVE u \in upto(k)
      <4>1. PICK x \in 1..n : \E m \in 1..w[x] : u = <<x, m>>
        BY <1>1
      <4> QED BY <4>1
    <3>3. last \subseteq upto(k)
      BY <1>1
    <3> QED BY <3>1, <3>2, <3>3
  <2> DEFINE U == upto(k - 1)
  <2>6. IsFiniteSet(U)
    BY <1>3
  <2> HIDE DEF last, U
  <2>7. IsFiniteSet(U \cup last)
    BY <2>4, <2>6, FS_Union
  <2> QED BY <2>5, <2>7 DEF U
<1> HIDE DEF upto
<1>4. B = {}
  <2> SUFFICES ASSUME B # {} PROVE FALSE
    OBVIOUS
  <2>1. B \subseteq Nat
    OBVIOUS
  <2>2. PICK k \in B : \A m \in B : ~(m < k)
    <3> HIDE DEF B
    <3>1. IsWellFoundedOn(OpToRel(<, Nat), Nat)
      BY NatLessThanWellFounded
    <3>2. PICK k \in B : \A m \in B : <<m, k>> \notin OpToRel(<, Nat)
      BY <2>1, <3>1, WFMin
    <3> QED BY <2>1, <3>2 DEF OpToRel
  <2>3. k # 0
    BY <1>2, FS_EmptySet
  <2>4. k \in 1..n /\ k - 1 \in Nat /\ k - 1 <= n /\ k - 1 < k
    BY <2>3
  <2>5. IsFiniteSet(upto(k - 1))
    BY <2>2, <2>4
  <2> QED BY <1>3, <2>4, <2>5
<1> QED BY <1>2, <1>4

LEMMA DisjointUnion ==
  ASSUME NEW A, NEW B, IsFiniteSet(A), IsFiniteSet(B), A \cap B = {}
  PROVE  Cardinality(A \cup B) = Cardinality(A) + Cardinality(B)
<1>1. Cardinality(A \cup B) = Cardinality(A) + Cardinality(B) - Cardinality(A \cap B)
  BY FS_Union
<1>2. Cardinality(A \cap B) = 0 /\ Cardinality(A) \in Nat /\ Cardinality(B) \in Nat
  BY FS_EmptySet, FS_CardinalityType
<1> QED BY <1>1, <1>2

(* The same of entries for some of the days 1..n.                          *)
LEMMA UnitsFiniteIn ==
  ASSUME NEW n \in Nat, NEW T \in SUBSET (1..n), NEW f \in [T -> Nat]
  PROVE  IsFiniteSet(Units(f))
<1> DEFINE g == [x \in 1..n |-> IF x \in T THEN f[x] ELSE 0]
<1>1. g \in [1..n -> Nat] /\ \A x \in T : g[x] = f[x]
  OBVIOUS
<1> HIDE DEF g
<1>2. IsFiniteSet(Units(g))
  BY <1>1, UnitsFinite
<1>3. \A u : u \in Units(g) <=> \E x \in 1..n : \E m \in 1..g[x] : u = <<x, m>>
  BY <1>1 DEF Units
<1>4. \A u : u \in Units(f) <=> \E x \in T : \E m \in 1..f[x] : u = <<x, m>>
  BY DEF Units
<1>5. Units(f) \in SUBSET Units(g)
  BY <1>1, <1>3, <1>4
<1> QED BY <1>2, <1>5, FS_Subset

(* A sum of w adds up over parts that are disjoint and hold every day: s[t] *)
(* is the sum of the part Q[t].                                            *)
Splits(T, Q, D) ==
  /\ \A t \in T : Q[t] \subseteq D
  /\ \A t, u \in T : Q[t] \cap Q[u] # {} => t = u
  /\ \A d \in D : \E t \in T : d \in Q[t]

SumsOf(s, T, Q, D, w) ==
  /\ w \in [D -> Nat]
  /\ s = [t \in T |-> s[t]] /\ \A t \in T : s[t] = SumOf([x \in Q[t] |-> w[x]])

LEMMA PartsSum ==
  ASSUME NEW D, NEW w, NEW T, NEW Q, NEW s,
         IsFiniteSet(Units(w)), Splits(T, Q, D), SumsOf(s, T, Q, D, w)
  PROVE  SumOf(s) = SumOf(w)
<1> DEFINE v(t) == [x \in Q[t] |-> w[x]]
           P == [t \in T |-> Units(v(t))]
<1>1. IsFiniteSet(Units(w))
  OBVIOUS
<1>2. \A u : u \in Units(w) <=> \E x \in D : \E m \in 1..w[x] : u = <<x, m>>
  BY DEF Units, SumsOf
<1>3. ASSUME NEW t \in T
      PROVE  /\ s[t] = Cardinality(P[t])
             /\ \A u : u \in P[t] <=> \E x \in Q[t] : \E m \in 1..w[x] : u = <<x, m>>
  <2>1. DOMAIN v(t) = Q[t] /\ \A x \in Q[t] : v(t)[x] = w[x]
    OBVIOUS
  <2>2. P[t] = Units(v(t)) /\ s[t] = SumOf(v(t))
    BY DEF SumsOf
  <2> HIDE DEF P, v
  <2>3. \A u : u \in P[t] <=> \E x \in Q[t] : \E m \in 1..v(t)[x] : u = <<x, m>>
    BY <2>1, <2>2 DEF Units
  <2>4. \A u : u \in P[t] <=> \E x \in Q[t] : \E m \in 1..w[x] : u = <<x, m>>
    BY <2>1, <2>3
  <2> QED BY <2>2, <2>4 DEF SumOf, Units
<1>4. P = [t \in T |-> P[t]]
  OBVIOUS
<1> HIDE DEF P, v
<1>5. s = [t \in T |-> Cardinality(P[t])]
  <2>1. s = [t \in T |-> s[t]]
    BY DEF SumsOf
  <2> QED BY <1>3, <2>1
<1>6. P \in [T -> SUBSET Units(w)]
  <2>1. ASSUME NEW t \in T, NEW u \in P[t] PROVE u \in Units(w)
    <3>1. PICK x \in Q[t] : \E m \in 1..w[x] : u = <<x, m>>
      BY <1>3
    <3>2. x \in D
      BY DEF Splits
    <3> QED BY <1>2, <3>1, <3>2
  <2> QED BY <1>4, <2>1
<1>7. ASSUME NEW t \in T, NEW r \in T, P[t] \cap P[r] # {}
      PROVE  t = r
  <2>1. PICK u \in P[t] : u \in P[r]
    BY <1>7
  <2>2. PICK x \in Q[t] : \E m \in 1..w[x] : u = <<x, m>>
    BY <1>3
  <2>3. PICK y \in Q[r] : \E m \in 1..w[y] : u = <<y, m>>
    BY <1>3, <2>1
  <2>4. x = y
    BY <2>2, <2>3
  <2>5. Q[t] \cap Q[r] # {}
    BY <2>4
  <2> QED BY <2>5 DEF Splits
<1>8. \A u \in Units(w) : \E t \in T : u \in P[t]
  <2> SUFFICES ASSUME NEW u \in Units(w) PROVE \E t \in T : u \in P[t]
    OBVIOUS
  <2>1. PICK x \in D : \E m \in 1..w[x] : u = <<x, m>>
    BY <1>2
  <2>2. PICK t \in T : x \in Q[t]
    BY DEF Splits
  <2> QED BY <1>3, <2>1, <2>2
<1>9. SumOf([t \in T |-> Cardinality(P[t])]) = Cardinality(Units(w))
  BY <1>1, <1>6, <1>7, <1>8, SumOfParts
<1>10. SumOf(w) = Cardinality(Units(w))
  BY DEF SumOf, Units
<1> QED BY <1>5, <1>9, <1>10

(* Sums add up entry by entry.                                             *)
LEMMA SumAdds ==
  ASSUME NEW n \in Nat, NEW T \in SUBSET (1..n),
         NEW f \in [T -> Nat], NEW g \in [T -> Nat]
  PROVE  /\ SumOf(f) \in Nat /\ SumOf(g) \in Nat
         /\ SumOf([x \in T |-> f[x] + g[x]]) = SumOf(f) + SumOf(g)
<1> DEFINE h == [x \in T |-> f[x] + g[x]]
           shifted(u) == <<u[1], f[u[1]] + u[2]>>
           B == {shifted(u) : u \in Units(g)}
           s == [u \in Units(g) |-> shifted(u)]
<1>1. h \in [T -> Nat] /\ \A x \in T : h[x] = f[x] + g[x]
  OBVIOUS
<1> HIDE DEF h
<1>2. /\ IsFiniteSet(Units(f)) /\ IsFiniteSet(Units(g)) /\ IsFiniteSet(Units(h))
      /\ SumOf(f) = Cardinality(Units(f)) /\ SumOf(g) = Cardinality(Units(g))
      /\ SumOf(h) = Cardinality(Units(h))
  <2>1. SumOf(f) = Cardinality(Units(f)) /\ SumOf(g) = Cardinality(Units(g))
        /\ SumOf(h) = Cardinality(Units(h))
    BY DEF SumOf, Units
  <2> QED BY <1>1, <2>1, UnitsFiniteIn
<1>3. /\ \A u : u \in Units(f) <=> \E x \in T : \E m \in 1..f[x] : u = <<x, m>>
      /\ \A u : u \in Units(g) <=> \E x \in T : \E m \in 1..g[x] : u = <<x, m>>
      /\ \A u : u \in Units(h) <=> \E x \in T : \E m \in 1..h[x] : u = <<x, m>>
  BY <1>1 DEF Units
<1>4. \A u : u \in B <=> \E x \in T : \E m \in 1..g[x] : u = <<x, f[x] + m>>
  <2>1. ASSUME NEW u, u \in B PROVE \E x \in T : \E m \in 1..g[x] : u = <<x, f[x] + m>>
    <3>1. PICK v \in Units(g) : u = shifted(v)
      BY <2>1
    <3>2. PICK x \in T : \E m \in 1..g[x] : v = <<x, m>>
      BY <1>3
    <3>3. PICK m \in 1..g[x] : v = <<x, m>>
      BY <3>2
    <3>4. u = <<x, f[x] + m>>
      BY <3>1, <3>3
    <3> QED BY <3>4
  <2>2. ASSUME NEW x \in T, NEW m \in 1..g[x] PROVE <<x, f[x] + m>> \in B
    <3>1. <<x, m>> \in Units(g) /\ shifted(<<x, m>>) = <<x, f[x] + m>>
      BY <1>3
    <3> QED BY <3>1
  <2> HIDE DEF B
  <2> QED BY <2>1, <2>2
<1>5. s \in Bijection(Units(g), B)
  <2>1. s \in Surjection(Units(g), B)
    BY DEF Surjection
  <2>2. \A u, v \in Units(g) : s[u] = s[v] => u = v
    <3> SUFFICES ASSUME NEW u \in Units(g), NEW v \in Units(g), shifted(u) = shifted(v)
                 PROVE  u = v
      OBVIOUS
    <3>1. PICK x \in T : \E m \in 1..g[x] : u = <<x, m>>
      BY <1>3
    <3>2. PICK y \in T : \E m \in 1..g[y] : v = <<y, m>>
      BY <1>3
    <3>3. PICK l \in 1..g[x] : u = <<x, l>>
      BY <3>1
    <3>4. PICK m \in 1..g[y] : v = <<y, m>>
      BY <3>2
    <3>5. x = y /\ f[x] + l = f[y] + m
      BY <3>3, <3>4
    <3>6. f[x] \in Nat /\ l \in Int /\ m \in Int
      OBVIOUS
    <3>7. l = m
      BY <3>5, <3>6
    <3> QED BY <3>3, <3>4, <3>5, <3>7
  <2> HIDE DEF s
  <2> QED BY <2>1, <2>2 DEF Bijection, Injection, Surjection, IsInjective
<1> HIDE DEF B, s
<1>6. IsFiniteSet(B) /\ Cardinality(B) = Cardinality(Units(g))
  <2>1. ExistsBijection(Units(g), B)
    BY <1>5 DEF ExistsBijection
  <2> QED BY <1>2, <2>1, FS_Bijection
<1>7. Units(h) = Units(f) \cup B
  <2>1. ASSUME NEW u, u \in Units(h) PROVE u \in Units(f) \cup B
    <3>1. PICK x \in T : \E m \in 1..h[x] : u = <<x, m>>
      BY <1>3, <2>1
    <3>2. PICK m \in 1..h[x] : u = <<x, m>>
      BY <3>1
    <3>3. f[x] \in Nat /\ g[x] \in Nat /\ h[x] = f[x] + g[x]
      BY <1>1
    <3>4. CASE m <= f[x]
      BY <1>3, <3>2, <3>3, <3>4
    <3>5. CASE m > f[x]
      <4>1. m - f[x] \in 1..g[x] /\ m = f[x] + (m - f[x])
        BY <3>3, <3>5
      <4> QED BY <1>4, <3>2, <4>1
    <3> QED BY <3>3, <3>4, <3>5
  <2>2. ASSUME NEW x \in T, NEW m \in 1..f[x] PROVE <<x, m>> \in Units(h)
    <3>1. f[x] \in Nat /\ g[x] \in Nat /\ h[x] = f[x] + g[x]
      BY <1>1
    <3>2. m \in 1..h[x]
      BY <3>1
    <3> QED BY <1>3, <3>2
  <2>3. ASSUME NEW x \in T, NEW m \in 1..g[x] PROVE <<x, f[x] + m>> \in Units(h)
    <3>1. f[x] \in Nat /\ g[x] \in Nat /\ h[x] = f[x] + g[x]
      BY <1>1
    <3>2. f[x] + m \in 1..h[x]
      BY <3>1
    <3> QED BY <1>3, <3>2
  <2> QED BY <1>3, <1>4, <2>1, <2>2, <2>3
<1>8. Units(f) \cap B = {}
  <2> SUFFICES ASSUME NEW u, u \in Units(f), u \in B PROVE FALSE
    OBVIOUS
  <2>1. PICK x \in T : \E m \in 1..f[x] : u = <<x, m>>
    BY <1>3
  <2>2. PICK y \in T : \E m \in 1..g[y] : u = <<y, f[y] + m>>
    BY <1>4
  <2>3. PICK l \in 1..f[x] : u = <<x, l>>
    BY <2>1
  <2>4. PICK m \in 1..g[y] : u = <<y, f[y] + m>>
    BY <2>2
  <2>5. x = y /\ l = f[y] + m /\ l <= f[x] /\ m >= 1 /\ f[x] \in Nat
    BY <2>3, <2>4
  <2>6. l \in Int /\ m \in Int
    OBVIOUS
  <2> QED BY <2>5, <2>6
<1>9. SumOf(h) = SumOf(f) + SumOf(g)
  BY <1>2, <1>6, <1>7, <1>8, DisjointUnion
<1>10. SumOf(f) \in Nat /\ SumOf(g) \in Nat
  BY <1>2, FS_CardinalityType
<1> QED BY <1>9, <1>10 DEF h

(* Entries of zero do not count, and larger entries make no smaller sum.   *)
LEMMA SumIgnoresZeros ==
  ASSUME NEW T, NEW w \in [T -> Nat], NEW S \in SUBSET T,
         \A x \in T \ S : w[x] = 0
  PROVE  SumOf([x \in S |-> w[x]]) = SumOf(w)
<1> DEFINE v == [x \in S |-> w[x]]
<1>1. v \in [S -> Nat] /\ \A x \in S : v[x] = w[x]
  OBVIOUS
<1> HIDE DEF v
<1>2. /\ \A u : u \in Units(v) <=> \E x \in S : \E m \in 1..v[x] : u = <<x, m>>
      /\ \A u : u \in Units(w) <=> \E x \in T : \E m \in 1..w[x] : u = <<x, m>>
      /\ SumOf(v) = Cardinality(Units(v)) /\ SumOf(w) = Cardinality(Units(w))
  BY <1>1 DEF SumOf, Units
<1>3. \A x \in T : \A m \in 1..w[x] : x \in S
  OBVIOUS
<1>4. Units(v) = Units(w)
  BY <1>1, <1>2, <1>3
<1> QED BY <1>2, <1>4 DEF v

LEMMA SumGrows ==
  ASSUME NEW n \in Nat, NEW T \in SUBSET (1..n),
         NEW f \in [T -> Nat], NEW g \in [T -> Nat], \A x \in T : f[x] <= g[x]
  PROVE  SumOf(f) <= SumOf(g)
<1>1. /\ \A u : u \in Units(f) <=> \E x \in T : \E m \in 1..f[x] : u = <<x, m>>
      /\ \A u : u \in Units(g) <=> \E x \in T : \E m \in 1..g[x] : u = <<x, m>>
      /\ SumOf(f) = Cardinality(Units(f)) /\ SumOf(g) = Cardinality(Units(g))
  BY DEF SumOf, Units
<1>2. \A x \in T : \A m \in 1..f[x] : m \in 1..g[x]
  OBVIOUS
<1>3. Units(f) \subseteq Units(g)
  BY <1>1, <1>2
<1>4. IsFiniteSet(Units(g))
  BY UnitsFiniteIn
<1> QED BY <1>1, <1>3, <1>4, FS_Subset

(* A set is the sum of its ones.                                           *)
LEMMA SumOfOnes ==
  ASSUME NEW T, NEW S \in SUBSET T, IsFiniteSet(S)
  PROVE  SumOf([x \in T |-> IF x \in S THEN 1 ELSE 0]) = Cardinality(S)
<1> DEFINE one == [x \in T |-> IF x \in S THEN 1 ELSE 0]
<1>1. one \in [T -> Nat] /\ \A x \in T : one[x] = IF x \in S THEN 1 ELSE 0
  OBVIOUS
<1> HIDE DEF one
<1>2. /\ \A u : u \in Units(one) <=> \E x \in T : \E m \in 1..one[x] : u = <<x, m>>
      /\ SumOf(one) = Cardinality(Units(one))
  BY <1>1 DEF SumOf, Units
<1>3. \A u : u \in Units(one) <=> \E x \in S : u = <<x, 1>>
  BY <1>1, <1>2
<1> DEFINE s == [x \in S |-> <<x, 1>>]
<1>4. s \in Bijection(S, Units(one))
  <2>1. s \in [S -> Units(one)] /\ \A x, y \in S : s[x] = s[y] => x = y
    BY <1>3
  <2>2. \A u \in Units(one) : \E x \in S : s[x] = u
    BY <1>3
  <2> HIDE DEF s
  <2> QED BY <2>1, <2>2 DEF Bijection, Injection, Surjection, IsInjective
<1>5. Cardinality(S) = Cardinality(Units(one))
  <2>1. ExistsBijection(S, Units(one))
    BY <1>4 DEF ExistsBijection
  <2> QED BY <2>1, FS_Bijection
<1> QED BY <1>2, <1>5 DEF one

(* So do sums over places.                                                 *)
LEMMA SumsAdd ==
  ASSUME DigestTypes, NEW w \in [DOMAIN digest.found -> Nat]
  PROVE  SumOf([t \in Sections |-> SumOf([n \in SectionOf(t) |-> w[n]])]) = SumOf(w)
<1> DEFINE P == [t \in Sections |-> Units([n \in SectionOf(t) |-> w[n]])]
           of(t) == [n \in SectionOf(t) |-> w[n]]
<1>1. IsFiniteSet(Units(w))
  <2>1. DOMAIN digest.found = 1..Len(digest.found) /\ Len(digest.found) \in Nat
    BY DEF DigestTypes
  <2> QED BY <2>1, UnitsFinite
<1>2. \A u : u \in Units(w) <=> \E x \in DOMAIN digest.found : \E m \in 1..w[x] : u = <<x, m>>
  BY UnitsAre
<1>3. ASSUME NEW t \in Sections
      PROVE  /\ of(t) \in [SectionOf(t) -> Nat] /\ P[t] = Units(of(t))
             /\ SumOf(of(t)) = Cardinality(P[t])
             /\ \A u : u \in P[t] <=> \E x \in SectionOf(t) : \E m \in 1..w[x] : u = <<x, m>>
  <2>1. of(t) \in [SectionOf(t) -> Nat]
    BY SectionsPart
  <2>2. P[t] = Units(of(t))
    OBVIOUS
  <2>3. \A x \in SectionOf(t) : of(t)[x] = w[x]
    OBVIOUS
  <2> HIDE DEF P, of
  <2>4. \A u : u \in P[t] <=> \E x \in SectionOf(t) : \E m \in 1..of(t)[x] : u = <<x, m>>
    BY <2>1, <2>2, UnitsAre
  <2>5. \A u : u \in P[t] <=> \E x \in SectionOf(t) : \E m \in 1..w[x] : u = <<x, m>>
    BY <2>3, <2>4
  <2> QED BY <2>1, <2>2, <2>5, UnitsAre
<1>4. P \in [Sections -> SUBSET Units(w)]
  <2>1. \A t \in Sections : P[t] \subseteq Units(w)
    <3> SUFFICES ASSUME NEW t \in Sections, NEW u \in P[t] PROVE u \in Units(w)
      OBVIOUS
    <3>1. PICK x \in SectionOf(t) : \E m \in 1..w[x] : u = <<x, m>>
      BY <1>3
    <3>2. x \in DOMAIN digest.found
      BY SectionsPart
    <3> QED BY <1>2, <3>1, <3>2
  <2>2. DOMAIN P = Sections /\ P = [t \in Sections |-> P[t]]
    OBVIOUS
  <2> HIDE DEF P
  <2> QED BY <2>1, <2>2
<1>5. ASSUME NEW t \in Sections, NEW s \in Sections, P[t] \cap P[s] # {}
      PROVE  t = s
  <2>1. PICK u \in P[t] : u \in P[s]
    BY <1>5
  <2>2. PICK x \in SectionOf(t) : \E m \in 1..w[x] : u = <<x, m>>
    BY <1>3
  <2>3. PICK y \in SectionOf(s) : \E m \in 1..w[y] : u = <<y, m>>
    BY <1>3, <2>1
  <2>4. x = y
    BY <2>2, <2>3
  <2>5. SectionOf(t) \cap SectionOf(s) # {}
    BY <2>4
  <2> QED BY <2>5, SectionsPart
<1>6. \A u \in Units(w) : \E t \in Sections : u \in P[t]
  <2> SUFFICES ASSUME NEW u \in Units(w) PROVE \E t \in Sections : u \in P[t]
    OBVIOUS
  <2>1. PICK x \in DOMAIN digest.found : \E m \in 1..w[x] : u = <<x, m>>
    BY <1>2
  <2>2. PICK t \in Sections : x \in SectionOf(t)
    BY SectionsPart
  <2> QED BY <1>3, <2>1, <2>2
<1>7. SumOf([t \in Sections |-> Cardinality(P[t])]) = Cardinality(Units(w))
  <2> HIDE DEF P
  <2> QED BY <1>1, <1>4, <1>5, <1>6, SumOfParts
<1>8. [t \in Sections |-> SumOf(of(t))] = [t \in Sections |-> Cardinality(P[t])]
  <2>1. \A t \in Sections : SumOf(of(t)) = Cardinality(P[t])
    BY <1>3
  <2> HIDE DEF P, of
  <2> QED BY <2>1
<1> QED BY <1>7, <1>8, UnitsAre

(* Several sections may tell of one customer.                              *)
LEMMA CustomersCover ==
  ASSUME DigestTypes
  PROVE  LET customers(S) == {CustomerOf[digest.found[n].id] : n \in S}
         IN Cardinality(customers(DOMAIN digest.found))
              <= SumOf([t \in Sections |-> Cardinality(customers(SectionOf(t)))])
<1> DEFINE D == DOMAIN digest.found
           customers(S) == {CustomerOf[digest.found[n].id] : n \in S}
           sizes == [t \in Sections |-> Cardinality(customers(SectionOf(t)))]
           places == [t \in Sections |-> Cardinality(SectionOf(t))]
           P == [t \in Sections |-> customers(SectionOf(t))]
<1>1. ASSUME NEW S \in SUBSET D
      PROVE  /\ IsFiniteSet(S) /\ Cardinality(S) \in Nat
             /\ IsFiniteSet(customers(S)) /\ Cardinality(customers(S)) \in Nat
             /\ Cardinality(customers(S)) <= Cardinality(S)
  <2> DEFINE f == [n \in S |-> CustomerOf[digest.found[n].id]]
             C == customers(S)
  <2>1. IsFiniteSet(S)
    BY SectionsPart, FS_Subset
  <2>2. f \in Surjection(S, C)
    BY DEF Surjection
  <2> HIDE DEF f, C
  <2>3. IsFiniteSet(C) /\ Cardinality(C) <= Cardinality(S)
    BY <2>1, <2>2, FS_Surjection
  <2> QED BY <2>1, <2>3, FS_CardinalityType DEF C
<1>2. \A t \in Sections : SectionOf(t) \in SUBSET D
  BY SectionsPart
<1>3. /\ sizes \in [Sections -> Nat] /\ places \in [Sections -> Nat]
      /\ \A t \in Sections : sizes[t] <= places[t]
  <2> HIDE DEF customers
  <2> QED BY <1>1, <1>2
<1>4. IsFiniteSet(Units(places))
  <2> DEFINE Q == [t \in Sections |-> SectionOf(t)]
  <2>1. /\ Q \in [Sections -> SUBSET D] /\ IsFiniteSet(D)
        /\ \A t, u \in Sections : Q[t] \cap Q[u] # {} => t = u
        /\ \A n \in D : \E t \in Sections : n \in Q[t]
    BY SectionsPart
  <2>2. places = [t \in Sections |-> Cardinality(Q[t])]
    OBVIOUS
  <2> HIDE DEF Q, places
  <2> QED BY <2>1, <2>2, SumOfParts
<1>5. IsFiniteSet(Units(sizes))
  <2> HIDE DEF sizes, places
  <2>1. \A u : u \in Units(sizes) <=> \E x \in Sections : \E n \in 1..sizes[x] : u = <<x, n>>
    BY <1>3, UnitsAre
  <2>2. \A u : u \in Units(places) <=> \E x \in Sections : \E n \in 1..places[x] : u = <<x, n>>
    BY <1>3, UnitsAre
  <2>3. \A x \in Sections : \A n \in 1..sizes[x] : n \in 1..places[x]
    BY <1>3
  <2>4. Units(sizes) \in SUBSET Units(places)
    BY <2>1, <2>2, <2>3
  <2> QED BY <1>4, <2>4, FS_Subset
<1>6. P \in [Sections -> SUBSET customers(D)] /\ IsFiniteSet(customers(D))
  <2>1. \A t \in Sections : customers(SectionOf(t)) \subseteq customers(D)
    BY <1>2
  <2> QED BY <1>1, <2>1
<1>7. \A c \in customers(D) : \E t \in Sections : c \in P[t]
  <2> SUFFICES ASSUME NEW n \in D
               PROVE  \E t \in Sections : CustomerOf[digest.found[n].id] \in P[t]
    OBVIOUS
  <2>1. PICK t \in Sections : n \in SectionOf(t)
    BY SectionsPart
  <2> QED BY <2>1
<1>8. \A t \in Sections : sizes[t] = Cardinality(P[t])
  OBVIOUS
<1>9. Cardinality(customers(D)) <= SumOf(sizes)
  <2> HIDE DEF customers, P, sizes, D
  <2> QED BY <1>3, <1>5, <1>6, <1>7, <1>8, SumCoversParts
<1> QED BY <1>9

(* The places of one of some statuses.                                     *)
InStatus(S, statuses) == {n \in S : digest.found[n].row.status \in statuses}

LEMMA MetricsAre ==
  ASSUME NEW S
  PROVE  /\ Metrics(S).total = Cardinality(S)
         /\ Metrics(S).completed = Cardinality(InStatus(S, {"completed"}))
         /\ Metrics(S).cancelled = Cardinality(InStatus(S, {"cancelled"}))
         /\ Metrics(S).open = Cardinality(InStatus(S, Open))
         /\ Metrics(S).customers = Cardinality({CustomerOf[digest.found[n].id] : n \in S})
         /\ Metrics(S).proofs = SumOf([n \in S |-> digest.proofs[digest.found[n].id]])
BY DEF Metrics, InStatus

LEMMA StatusesAdd ==
  ASSUME DigestTypes, NEW statuses
  PROVE  SumOf([t \in Sections |-> Cardinality(InStatus(SectionOf(t), statuses))])
           = Cardinality(InStatus(DOMAIN digest.found, statuses))
<1> DEFINE S == InStatus(DOMAIN digest.found, statuses)
<1>1. S \subseteq DOMAIN digest.found
  BY DEF InStatus
<1>2. SumOf([t \in Sections |-> Cardinality(SectionOf(t) \cap S)]) = Cardinality(S)
  <2> HIDE DEF S
  <2> QED BY <1>1, CountsAdd
<1>3. \A t \in Sections : SectionOf(t) \cap S = InStatus(SectionOf(t), statuses)
  BY SectionsPart DEF InStatus
<1>4. [t \in Sections |-> Cardinality(SectionOf(t) \cap S)]
        = [t \in Sections |-> Cardinality(InStatus(SectionOf(t), statuses))]
  <2> HIDE DEF S
  <2> QED BY <1>3
<1> QED BY <1>2, <1>4

LEMMA SectionsFollow == DigestTypes => SectionsAddUp
<1> SUFFICES ASSUME DigestTypes
             PROVE  LET all == Metrics(DOMAIN digest.found)
                        part(f) == SumOf([t \in Sections |-> Metrics(SectionOf(t))[f]])
                    IN /\ \A f \in {"total", "completed", "cancelled", "open", "proofs"} :
                            part(f) = all[f]
                       /\ all.customers <= part("customers")
                       /\ all.completed + all.cancelled + all.open = all.total
  BY DEF SectionsAddUp
<1> DEFINE D == DOMAIN digest.found
           all == Metrics(D)
           part(f) == SumOf([t \in Sections |-> Metrics(SectionOf(t))[f]])
<1>1. part("total") = all.total
  <2>1. [t \in Sections |-> Metrics(SectionOf(t)).total]
          = [t \in Sections |-> Cardinality(SectionOf(t) \cap D)]
    <3>1. \A t \in Sections : Metrics(SectionOf(t)).total = Cardinality(SectionOf(t) \cap D)
      <4>1. \A t \in Sections : SectionOf(t) \cap D = SectionOf(t)
        BY SectionsPart
      <4> QED BY <4>1, MetricsAre
    <3> HIDE DEF D
    <3> QED BY <3>1
  <2>2. SumOf([t \in Sections |-> Cardinality(SectionOf(t) \cap D)]) = Cardinality(D)
    BY CountsAdd
  <2> QED BY <2>1, <2>2, MetricsAre
<1>2. part("completed") = all.completed
  <2>1. [t \in Sections |-> Metrics(SectionOf(t)).completed]
          = [t \in Sections |-> Cardinality(InStatus(SectionOf(t), {"completed"}))]
    BY MetricsAre
  <2> QED BY <2>1, StatusesAdd, MetricsAre
<1>3. part("cancelled") = all.cancelled
  <2>1. [t \in Sections |-> Metrics(SectionOf(t)).cancelled]
          = [t \in Sections |-> Cardinality(InStatus(SectionOf(t), {"cancelled"}))]
    BY MetricsAre
  <2> QED BY <2>1, StatusesAdd, MetricsAre
<1>4. part("open") = all.open
  <2>1. [t \in Sections |-> Metrics(SectionOf(t)).open]
          = [t \in Sections |-> Cardinality(InStatus(SectionOf(t), Open))]
    BY MetricsAre
  <2> QED BY <2>1, StatusesAdd, MetricsAre
<1>5. part("proofs") = all.proofs
  <2> DEFINE w == [n \in D |-> digest.proofs[digest.found[n].id]]
  <2>1. w \in [D -> Nat]
    <3>1. \A n \in D : digest.found[n].id \in Ids
      BY SectionsPart DEF Entries
    <3> QED BY <3>1 DEF DigestTypes
  <2>2. [t \in Sections |-> Metrics(SectionOf(t)).proofs]
          = [t \in Sections |-> SumOf([n \in SectionOf(t) |-> w[n]])]
    <3>1. ASSUME NEW t \in Sections
          PROVE  Metrics(SectionOf(t)).proofs = SumOf([n \in SectionOf(t) |-> w[n]])
      <4>1. [n \in SectionOf(t) |-> w[n]]
              = [n \in SectionOf(t) |-> digest.proofs[digest.found[n].id]]
        BY SectionsPart
      <4> QED BY <4>1, MetricsAre
    <3> HIDE DEF w
    <3> QED BY <3>1
  <2>3. SumOf([t \in Sections |-> SumOf([n \in SectionOf(t) |-> w[n]])]) = SumOf(w)
    <3> HIDE DEF w
    <3> QED BY <2>1, SumsAdd
  <2>4. all.proofs = SumOf(w)
    BY MetricsAre
  <2> QED BY <2>2, <2>3, <2>4
<1>6. all.customers <= part("customers")
  <2>1. [t \in Sections |-> Metrics(SectionOf(t)).customers]
          = [t \in Sections |-> Cardinality({CustomerOf[digest.found[n].id] : n \in SectionOf(t)})]
    BY MetricsAre
  <2> QED BY <2>1, CustomersCover, MetricsAre
<1>7. all.completed + all.cancelled + all.open = all.total
  <2> DEFINE A == InStatus(D, {"completed"})
             B == InStatus(D, {"cancelled"})
             C == InStatus(D, Open)
  <2>1. /\ A \cup B \cup C = D /\ A \cap B = {} /\ (A \cup B) \cap C = {}
        /\ A \subseteq D /\ B \subseteq D /\ C \subseteq D
    BY SectionsPart DEF InStatus, Entries, Rows, Statuses, Open
  <2>2. /\ IsFiniteSet(A) /\ IsFiniteSet(B) /\ IsFiniteSet(C) /\ IsFiniteSet(A \cup B)
        /\ Cardinality(A) \in Nat /\ Cardinality(B) \in Nat /\ Cardinality(C) \in Nat
    BY <2>1, SectionsPart, FS_Subset, FS_CardinalityType
  <2> HIDE DEF A, B, C
  <2>3. Cardinality(A \cup B) = Cardinality(A) + Cardinality(B)
    BY <2>1, <2>2, DisjointUnion
  <2>4. Cardinality((A \cup B) \cup C) = Cardinality(A \cup B) + Cardinality(C)
    <3> DEFINE U == A \cup B
    <3>1. IsFiniteSet(U) /\ U \cap C = {}
      BY <2>1, <2>2
    <3> HIDE DEF U
    <3>2. Cardinality(U \cup C) = Cardinality(U) + Cardinality(C)
      BY <2>2, <3>1, DisjointUnion
    <3> QED BY <3>2 DEF U
  <2>5. Cardinality(A) + Cardinality(B) + Cardinality(C) = Cardinality(D)
    BY <2>1, <2>2, <2>3, <2>4
  <2> QED BY <2>5, MetricsAre DEF A, B, C
<1> QED BY <1>1, <1>2, <1>3, <1>4, <1>5, <1>6, <1>7

LEMMA StoredIsFinite ==
  ASSUME DigestTypes
  PROVE  /\ Stored \subseteq Ids /\ \A i \in Stored : rows[i] \in Rows /\ rows[i].start \in 0..LastDay
         /\ \A S \in SUBSET Ids : IsFiniteSet(S) /\ Cardinality(S) \in Nat
         /\ Ids \subseteq Int
<1>1. Stored \subseteq Ids /\ \A i \in Stored : rows[i] \in Rows
  BY DEF DigestTypes, Stored
<1>2. \A i \in Stored : rows[i].start \in 0..LastDay
  BY <1>1 DEF Rows
<1>3. \A S \in SUBSET Ids : IsFiniteSet(S) /\ Cardinality(S) \in Nat
  BY FS_Subset, FS_CardinalityType, FeedsAssumption
<1> QED BY <1>1, <1>2, <1>3, FeedsAssumption

(* A query ordered by the start lists each of its rows once.               *)
LEMMA ListedOnce ==
  ASSUME DigestTypes, NEW S \in SUBSET Stored, NEW s \in ByStart(S)
  PROVE  LET N == Cardinality(S)
         IN /\ N \in Nat /\ s \in [1..N -> S] /\ Len(s) = N
            /\ \A m, n \in 1..N : s[m] = s[n] => m = n
            /\ \A i \in S : \E n \in 1..N : s[n] = i
            /\ \A m, n \in 1..N : m < n => rows[s[m]].start <= rows[s[n]].start
<1> DEFINE N == Cardinality(S)
<1>1. N \in Nat /\ IsFiniteSet(S)
  BY StoredIsFinite
<1>2. /\ s \in [1..N -> S]
      /\ \A m, n \in 1..N : m < n => s[m] # s[n] /\ rows[s[m]].start <= rows[s[n]].start
  BY DEF ByStart
<1> HIDE DEF N
<1>3. Len(s) = N
  BY <1>1, <1>2
<1>4. \A m, n \in 1..N : s[m] = s[n] => m = n
  BY <1>1, <1>2
<1>5. \A i \in S : \E n \in 1..N : s[n] = i
  <2>1. s \in Injection(1..N, S)
    BY <1>2, <1>4 DEF Injection, IsInjective
  <2>2. Cardinality(1..N) = N
    BY <1>1, FS_Interval
  <2>3. s \in Surjection(1..N, S)
    BY <1>1, <2>1, <2>2, FS_Injection DEF N
  <2> QED BY <2>3 DEF Surjection
<1> QED BY <1>1, <1>2, <1>3, <1>4, <1>5 DEF N

Row(i) == [id |-> i, row |-> rows[i], had |-> proofs[i]]

LEMMA RowsRead ==
  ASSUME DigestTypes, NEW i \in Stored
  PROVE  Row(i) \in Entries /\ Row(i).id = i /\ Row(i).row = rows[i] /\ Row(i).had = proofs[i]
BY StoredIsFinite DEF Row, Entries, DigestTypes

(* A batch is the rows of the list from its offset, up to its size.        *)
Upto(N, from) == IF from + BatchSize <= N THEN from + BatchSize ELSE N

BatchLen(N, from) == IF from < N THEN Upto(N, from) - from ELSE 0

LEMMA BatchIs ==
  ASSUME DigestTypes, NEW S \in SUBSET Stored, NEW s \in ByStart(S), NEW from \in Nat
  PROVE  LET N == Cardinality(S)
             L == BatchLen(N, from)
         IN /\ Batch(s, from) \in Seq(Entries) /\ Len(Batch(s, from)) = L /\ L \in Nat
            /\ \A k \in 1..L : from + k \in 1..N /\ Batch(s, from)[k] = Row(s[from + k])
<1> DEFINE N == Cardinality(S)
           L == BatchLen(N, from)
           part == SubSeq(s, from + 1, Upto(N, from))
<1>1. /\ N \in Nat /\ s \in [1..N -> S] /\ Len(s) = N /\ s \in Seq(S)
      /\ BatchSize \in Nat \ {0}
  <2>1. N \in Nat /\ s \in [1..N -> S] /\ Len(s) = N
    BY ListedOnce
  <2> HIDE DEF N
  <2>2. s \in Seq(S)
    BY <2>1
  <2>3. BatchSize \in Nat \ {0}
    BY DigestsAssumption
  <2> QED BY <2>1, <2>2, <2>3
<1>2. Batch(s, from) = Taken(part)
  <2>1. Min({from + BatchSize, Len(s)}) = Upto(N, from)
    BY <1>1, MinOfTwo DEF Upto
  <2> QED BY <2>1 DEF Batch
<1> HIDE DEF N
<1>3. L \in Nat /\ Upto(N, from) \in Nat /\ \A k \in 1..L : from + k \in 1..N
  BY <1>1 DEF Upto, BatchLen
<1>4. DOMAIN part = 1..L /\ \A k \in 1..L : part[k] = s[from + k]
  <2>1. Len(part) = L /\ part \in Seq(S)
    BY <1>1, <1>3 DEF Upto, BatchLen
  <2>2. \A k \in 1..L : part[k] = s[from + k]
    BY <1>1, <1>3 DEF Upto, BatchLen
  <2> QED BY <2>1, <2>2
<1> HIDE DEF L, part
<1>5. Taken(part) = [k \in 1..L |-> Row(s[from + k])]
  BY <1>4 DEF Taken, Row
<1>6. \A k \in 1..L : Row(s[from + k]) \in Entries
  <2>1. \A k \in 1..L : s[from + k] \in Stored
    BY <1>1, <1>3
  <2> QED BY <2>1, RowsRead
<1>7. Taken(part) \in Seq(Entries) /\ Len(Taken(part)) = L
  BY <1>3, <1>5, <1>6
<1> QED BY <1>2, <1>3, <1>5, <1>7 DEF L, N

LEMMA FiniteUnits ==
  ASSUME NEW D, IsFiniteSet(D), NEW w \in [D -> Nat]
  PROVE  IsFiniteSet(Units(w))
<1>1. PICK b : b \in Bijection(1..Cardinality(D), D)
  BY FS_CardinalityType DEF ExistsBijection
<1> DEFINE n == Cardinality(D)
           v == [k \in 1..n |-> w[b[k]]]
           f == [u \in Units(v) |-> <<b[u[1]], u[2]>>]
<1>2. /\ n \in Nat /\ b \in [1..n -> D]
      /\ \A d \in D : \E k \in 1..n : b[k] = d
  BY <1>1, FS_CardinalityType DEF Bijection, Surjection
<1> HIDE DEF n
<1>3. v \in [1..n -> Nat] /\ \A k \in 1..n : v[k] = w[b[k]]
  BY <1>2
<1> HIDE DEF v
<1>4. /\ \A u : u \in Units(v) <=> \E k \in 1..n : \E m \in 1..v[k] : u = <<k, m>>
      /\ \A u : u \in Units(w) <=> \E d \in D : \E m \in 1..w[d] : u = <<d, m>>
  <2> HIDE DEF f
  <2>1. \A u : u \in Units(v) <=> \E k \in 1..n : \E m \in 1..v[k] : u = <<k, m>>
    <3> DEFINE T == 1..n
    <3>1. v \in [T -> Nat]
      BY <1>3
    <3> HIDE DEF T
    <3>2. \A u : u \in Units(v) <=> \E k \in T : \E m \in 1..v[k] : u = <<k, m>>
      BY <3>1, UnitsAre
    <3> QED BY <3>2 DEF T
  <2>2. \A u : u \in Units(w) <=> \E d \in D : \E m \in 1..w[d] : u = <<d, m>>
    BY UnitsAre
  <2> QED BY <2>1, <2>2
<1>5. \A k \in 1..n : \A m \in 1..v[k] : <<k, m>> \in Units(v) /\ f[<<k, m>>] = <<b[k], m>>
  BY <1>4
<1>6. f \in [Units(v) -> Units(w)]
  <2> SUFFICES ASSUME NEW u \in Units(v) PROVE <<b[u[1]], u[2]>> \in Units(w)
    OBVIOUS
  <2>1. PICK k \in 1..n : \E m \in 1..v[k] : u = <<k, m>>
    BY <1>4
  <2>2. PICK m \in 1..v[k] : u = <<k, m>>
    BY <2>1
  <2>3. b[k] \in D /\ m \in 1..w[b[k]] /\ <<b[u[1]], u[2]>> = <<b[k], m>>
    BY <1>2, <1>3, <2>2
  <2> QED BY <1>4, <2>3
<1> HIDE DEF f
<1>7. \A u \in Units(w) : \E x \in Units(v) : f[x] = u
  <2> SUFFICES ASSUME NEW u \in Units(w) PROVE \E x \in Units(v) : f[x] = u
    OBVIOUS
  <2>1. PICK d \in D : \E m \in 1..w[d] : u = <<d, m>>
    BY <1>4
  <2>2. PICK k \in 1..n : b[k] = d
    BY <1>2
  <2>3. PICK m \in 1..w[d] : u = <<d, m>>
    BY <2>1
  <2>4. m \in 1..v[k] /\ u = <<b[k], m>>
    BY <1>3, <2>2, <2>3
  <2> QED BY <1>5, <2>4
<1>8. f \in Surjection(Units(v), Units(w))
  BY <1>6, <1>7 DEF Surjection
<1> QED BY <1>2, <1>3, <1>8, UnitsFinite, FS_Surjection

(* What the steps of a call change of it.                                  *)
Keeps(fields) == \A f \in DigestFields \ fields : digest'[f] = digest[f]

LEMMA FetchJobsDoes ==
  ASSUME DigestTypes, FetchJobs
  PROVE  /\ DOMAIN digest' = DigestFields
         /\ UNCHANGED <<rows, standing, proofs, shifts>>
         /\ digest.kind = "report" /\ digest.state = "idle"
         /\ \/ digest'.state = "too_large" /\ Keeps({"state"})
            \/ \E s \in ByStart(Ranged) :
                 /\ digest'.state = "paging" /\ digest'.count = Len(s)
                 /\ digest'.found = Batch(s, 0) /\ digest'.stays = Ranged
                 /\ digest'.ties = Tied
                 /\ Keeps({"state", "count", "found", "stays", "ties"})
BY DEF DigestTypes, DigestFields, FetchJobs, Goes, Keeps, feedVars

LEMMA FetchBatchDoes ==
  ASSUME DigestTypes, FetchBatch
  PROVE  /\ DOMAIN digest' = DigestFields
         /\ UNCHANGED <<rows, standing, proofs, shifts>>
         /\ digest.kind = "report" /\ digest.state = "paging"
         /\ Len(digest.found) < digest.count
         /\ Keeps({"state", "found", "ties"})
         /\ \E s \in ByStart(Ranged) :
              LET batch == Batch(s, Len(digest.found))
              IN /\ digest'.found = digest.found \o batch
                 /\ digest'.ties = (digest.ties \/ Tied)
                 /\ digest'.state = IF batch = <<>> THEN "jobs" ELSE "paging"
BY DEF DigestTypes, DigestFields, FetchBatch, Keeps, feedVars

LEMMA StateStepsDo ==
  ASSUME DigestTypes
  PROVE  /\ LastBatch => /\ DOMAIN digest' = DigestFields /\ Keeps({"state"})
                         /\ digest'.state = "jobs" /\ digest.state = "paging"
                         /\ digest.kind = "report"
                         /\ Len(digest.found) >= digest.count
                         /\ UNCHANGED <<rows, standing, proofs, shifts>>
         /\ FetchNames => /\ DOMAIN digest' = DigestFields /\ Keeps({"state", "named"})
                          /\ digest'.named = Named(digest.asked \cup Performers)
                          /\ \/ digest.state = "jobs" /\ digest'.state = "names"
                             \/ digest.state = "proofs" /\ digest'.state = "built"
                          /\ digest.kind = "report"
                          /\ UNCHANGED <<rows, standing, proofs, shifts>>
BY DEF DigestTypes, DigestFields, LastBatch, FetchNames, Goes, Keeps, feedVars

LEMMA FetchProofsDoes ==
  ASSUME DigestTypes, FetchProofs
  PROVE  /\ DOMAIN digest' = DigestFields /\ Keeps({"state", "proofs", "vague"})
         /\ \/ digest.state = "jobs" /\ digest'.state = "proofs"
            \/ digest.state = "names" /\ digest'.state = "built"
         /\ digest.kind = "report"
         /\ digest'.proofs \in [Ids -> Nat]
         /\ ~digest'.vague => \A i \in FoundJobs : digest'.proofs[i] = proofs[i]
         /\ UNCHANGED <<rows, standing, proofs, shifts>>
<1> DEFINE all == ProofsOf(FoundJobs)
           exact == [i \in Ids |-> IF i \in FoundJobs THEN proofs[i] ELSE 0]
           read == IF all < ProofBatch THEN {exact}
                   ELSE {c \in [Ids -> 0..all] :
                           SumOf(c) = all /\ \A i \in Ids : exact[i] = 0 => c[i] = 0}
<1>1. PICK c \in read :
        digest' = [digest EXCEPT !.proofs = c, !.vague = all >= ProofBatch,
                       !.state = IF @ = "jobs" THEN "proofs" ELSE "built"]
  BY DEF FetchProofs
<1>2. /\ digest.kind = "report" /\ digest.state \in {"jobs", "names"}
      /\ UNCHANGED <<rows, standing, proofs, shifts>>
  BY DEF FetchProofs, feedVars
<1>3. all \in Nat /\ ProofBatch \in Nat
  <2> DEFINE w == [i \in FoundJobs |-> proofs[i]]
  <2>1. FoundJobs \subseteq Ids /\ w \in [FoundJobs -> Nat]
    BY DEF FoundJobs, IdsOf, DigestTypes
  <2>2. IsFiniteSet(FoundJobs)
    BY <2>1, StoredIsFinite
  <2>3. all = SumOf(w)
    BY DEF ProofsOf
  <2> HIDE DEF w
  <2>4. SumOf(w) \in Nat
    BY <2>1, <2>2, FiniteUnits, UnitsAre, FS_CardinalityType
  <2> QED BY <2>3, <2>4, DigestsAssumption
<1>4. c \in [Ids -> Nat] /\ (all < ProofBatch => c = exact)
  <2>1. exact \in [Ids -> Nat]
    BY DEF DigestTypes
  <2> HIDE DEF all, exact
  <2>2. c = exact \/ c \in [Ids -> 0..all]
    OBVIOUS
  <2>3. all < ProofBatch => c = exact
    OBVIOUS
  <2> QED BY <1>3, <2>1, <2>2, <2>3
<1>5. digest'.proofs = c /\ digest'.vague = (all >= ProofBatch)
      /\ DOMAIN digest' = DigestFields /\ Keeps({"state", "proofs", "vague"})
      /\ digest'.state = IF digest.state = "jobs" THEN "proofs" ELSE "built"
  <2> HIDE DEF all, read
  <2> QED BY <1>1 DEF DigestTypes, DigestFields, Keeps
<1>6. ~digest'.vague => c = exact
  <2> HIDE DEF all, exact
  <2>1. all >= ProofBatch => digest'.vague
    BY <1>5, Zenon
  <2>2. all >= ProofBatch \/ all < ProofBatch
    BY <1>3
  <2> QED BY <1>4, <2>1, <2>2
<1>7. \A i \in FoundJobs : exact[i] = proofs[i]
  BY DEF FoundJobs, IdsOf
<1> HIDE DEF all, exact, read
<1> QED BY <1>2, <1>4, <1>5, <1>6, <1>7

Own(c) == {i \in Stored : CustomerOf[i] = c}
Starts(c) == {rows[i].start : i \in Own(c)} \cup {0}

LEMMA ReadStatsDoes ==
  ASSUME DigestTypes, ReadStats
  PROVE  /\ DOMAIN digest' = DigestFields /\ Keeps({"state", "count", "cards"})
         /\ UNCHANGED <<rows, standing, proofs, shifts>>
         /\ digest.kind = "card" /\ digest.state = "idle" /\ digest'.state = "listed"
         /\ digest'.count = Cardinality(Stored)
         /\ \E S \in SUBSET Stored :
              /\ Cardinality(S) = Min({Cardinality(Stored), AnswerLimit})
              /\ digest'.cards = [c \in Customers |->
                   LET own == {i \in S : CustomerOf[i] = c}
                   IN [jobs |-> Cardinality(own),
                       last |-> IF own = {} THEN 0 ELSE Max({rows[i].start : i \in own})]]
BY DEF DigestTypes, DigestFields, ReadStats, Keeps, feedVars

LEMMA CardStepsDo ==
  ASSUME DigestTypes
  PROVE  /\ \A c : FindCustomer(c) =>
              /\ DOMAIN digest' = DigestFields /\ Keeps({"state", "customer"})
              /\ UNCHANGED <<rows, standing, proofs, shifts>>
              /\ digest.kind = "card" /\ digest.state = "listed" /\ digest'.customer = c
              /\ digest'.state = IF c = Stranger THEN "not_found" ELSE "found"
         /\ ReadHistory =>
              /\ DOMAIN digest' = DigestFields /\ Keeps({"state", "history"})
              /\ UNCHANGED <<rows, standing, proofs, shifts>>
              /\ digest.kind = "card" /\ digest.state = "found" /\ digest'.state = "shown"
              /\ digest'.history = {[id |-> i, start |-> rows[i].start] :
                                      i \in Own(digest.customer)}
BY DEF DigestTypes, DigestFields, FindCustomer, ReadHistory, Keeps, feedVars, Own

LEMMA ProfileStepsDo ==
  ASSUME DigestTypes
  PROVE  /\ ReadProfileJobs =>
              /\ DOMAIN digest' = DigestFields /\ Keeps({"state", "found"})
              /\ UNCHANGED <<rows, standing, proofs, shifts>>
              /\ digest.kind = "profile" /\ digest.state = "idle" /\ digest'.state = "jobs"
              /\ \E s \in ByStart(Stored) : digest'.found = Taken(s)
         /\ EmbedPeople =>
              /\ DOMAIN digest' = DigestFields /\ Keeps({"state", "named"})
              /\ UNCHANGED <<rows, standing, proofs, shifts>>
              /\ digest.kind = "profile" /\ digest.state = "jobs" /\ digest'.state = "built"
              /\ digest'.named = Named(Performers)
BY DEF DigestTypes, DigestFields, ReadProfileJobs, EmbedPeople, Keeps, feedVars

(* All jobs of a profile are read at once.                                 *)
LEMMA TakenIs ==
  ASSUME DigestTypes, NEW S \in SUBSET Stored, NEW s \in ByStart(S)
  PROVE  /\ Taken(s) \in Seq(Entries)
         /\ \A k \in DOMAIN Taken(s) : \E i \in S : Taken(s)[k] = Row(i)
<1> DEFINE N == Cardinality(S)
<1>1. N \in Nat /\ s \in [1..N -> S]
  BY ListedOnce
<1> HIDE DEF N
<1>2. Taken(s) = [k \in 1..N |-> Row(s[k])]
  BY <1>1 DEF Taken, Row
<1>3. \A k \in 1..N : s[k] \in S /\ Row(s[k]) \in Entries
  BY <1>1, RowsRead
<1> QED BY <1>1, <1>2, <1>3

LEMMA ChangeDoes ==
  ASSUME DigestTypes, JobsChange
  PROVE  /\ DOMAIN digest' = DigestFields /\ Keeps({"stays"})
         /\ digest'.stays = {i \in digest.stays : rows'[i].start = rows[i].start}
         /\ UNCHANGED <<standing, proofs>>
         /\ rows' = rows \/ digest.state = "idle" => shifts' = shifts
         /\ ~(rows' = rows \/ digest.state = "idle") => shifts' = shifts + 1
         /\ \/ rows' = rows
            \/ \E i \in Ids, row \in Rows : rows' = [rows EXCEPT ![i] = row]
         /\ rows' \in [Ids -> Rows \cup {NoRow}]
         /\ Stored \subseteq Stored'
<1>1. /\ WriteStep
      /\ shifts' = IF rows' = rows \/ digest.state = "idle" THEN shifts ELSE shifts + 1
      /\ digest' = [digest EXCEPT !.stays = {i \in @ : rows'[i].start = rows[i].start}]
      /\ UNCHANGED <<standing, proofs>>
  BY DEF JobsChange
<1>2. /\ DOMAIN digest' = DigestFields /\ Keeps({"stays"})
      /\ digest'.stays = {i \in digest.stays : rows'[i].start = rows[i].start}
  BY <1>1 DEF DigestTypes, DigestFields, Keeps
<1>3. \/ rows' = rows
      \/ \E i \in Ids, row \in Rows : rows' = [rows EXCEPT ![i] = row]
  <2>1. CASE Midnight
    BY <2>1 DEF Midnight
  <2>2. CASE \E i \in Ids : Add(i) \/ Edit(i) \/ MoveOn(i)
    BY <2>2, WritesAre DEF DigestTypes, Write
  <2> QED BY <1>1, <2>1, <2>2 DEF WriteStep
<1>4. rows' \in [Ids -> Rows \cup {NoRow}] /\ Stored \subseteq Stored'
  BY <1>3, MarkersAssumption DEF DigestTypes, Stored
<1> QED BY <1>1, <1>2, <1>3, <1>4

LEMMA OthersDo ==
  ASSUME DigestTypes
  PROVE  /\ \A i \in Ids : AddProof(i) =>
              /\ UNCHANGED <<rows, standing, digest, shifts>>
              /\ proofs' \in [Ids -> Nat] /\ \A j \in Ids : proofs[j] <= proofs'[j]
         /\ \A t \in Technicians : Leave(t) =>
              /\ UNCHANGED <<rows, proofs, digest, shifts>>
              /\ standing' \in [Technicians -> {"member", "removed", "disabled"}]
              /\ \A u \in Technicians : standing[u] = "disabled" => standing'[u] = "disabled"
<1>1. ASSUME NEW i \in Ids, AddProof(i)
      PROVE  /\ UNCHANGED <<rows, standing, digest, shifts>>
             /\ proofs' \in [Ids -> Nat] /\ \A j \in Ids : proofs[j] <= proofs'[j]
  <2>1. proofs' = [proofs EXCEPT ![i] = @ + 1] /\ UNCHANGED <<rows, standing, digest, shifts>>
    BY <1>1 DEF AddProof, feedVars
  <2> QED BY <2>1 DEF DigestTypes
<1>2. ASSUME NEW t \in Technicians, Leave(t)
      PROVE  /\ UNCHANGED <<rows, proofs, digest, shifts>>
             /\ standing' \in [Technicians -> {"member", "removed", "disabled"}]
             /\ \A u \in Technicians : standing[u] = "disabled" => standing'[u] = "disabled"
  <2>1. PICK s \in {"removed", "disabled"} : standing' = [standing EXCEPT ![t] = s]
    BY <1>2 DEF Leave
  <2>2. standing[t] = "member" /\ UNCHANGED <<rows, proofs, digest, shifts>>
    BY <1>2 DEF Leave, feedVars
  <2> QED BY <2>1, <2>2 DEF DigestTypes
<1> QED BY <1>1, <1>2

LEMMA TypesKept ==
  ASSUME DigestTypes, DigestNext
  PROVE  DigestTypes'
<1>1. CASE FetchJobs
  <2>1. digest'.state = "too_large" /\ Keeps({"state"}) => DigestTypes'
    BY <1>1, FetchJobsDoes DEF DigestTypes, Keeps, DigestFields
  <2>2. ASSUME NEW s \in ByStart(Ranged), digest'.state = "paging", digest'.count = Len(s),
               digest'.found = Batch(s, 0), digest'.stays = Ranged, digest'.ties = Tied,
               Keeps({"state", "count", "found", "stays", "ties"})
        PROVE  DigestTypes'
    <3>1. Ranged \in SUBSET Stored
      BY DEF Ranged
    <3>2. Len(s) \in Nat
      BY <3>1, ListedOnce
    <3>3. Batch(s, 0) \in Seq(Entries)
      BY <3>1, BatchIs
    <3>4. Ranged \subseteq Ids
      BY <3>1, StoredIsFinite
    <3>5. Tied \in BOOLEAN
      BY DEF Tied
    <3> QED BY <1>1, <2>2, <3>2, <3>3, <3>4, <3>5, FetchJobsDoes
          DEF DigestTypes, Keeps, DigestFields
  <2> QED BY <1>1, <2>1, <2>2, FetchJobsDoes
<1>2. CASE FetchBatch
  <2>1. PICK s \in ByStart(Ranged) :
          /\ digest'.found = digest.found \o Batch(s, Len(digest.found))
          /\ digest'.ties = (digest.ties \/ Tied)
    BY <1>2, FetchBatchDoes
  <2>2. Ranged \in SUBSET Stored
    BY DEF Ranged
  <2>3. digest.found \in Seq(Entries) /\ Len(digest.found) \in Nat
    BY DEF DigestTypes
  <2>4. digest'.found \in Seq(Entries)
    BY <2>1, <2>2, <2>3, BatchIs
  <2>5. digest'.ties \in BOOLEAN
    BY <2>1, Zenon DEF Tied
  <2> QED BY <1>2, <2>4, <2>5, FetchBatchDoes DEF DigestTypes, Keeps, DigestFields
<1>3. CASE LastBatch \/ FetchNames
  BY <1>3, StateStepsDo DEF DigestTypes, Keeps, DigestFields
<1>4. CASE FetchProofs
  BY <1>4, FetchProofsDoes DEF DigestTypes, Keeps, DigestFields
<1>5. CASE ReadStats
  <2>1. Cardinality(Stored) \in Nat
    BY StoredIsFinite
  <2> QED BY <1>5, <2>1, ReadStatsDoes DEF DigestTypes, Keeps, DigestFields
<1>6. ASSUME ReadHistory \/ \E c \in Customers \cup {Stranger} : FindCustomer(c)
      PROVE  DigestTypes'
  BY <1>6, CardStepsDo DEF DigestTypes, Keeps, DigestFields
<1>7. CASE ReadProfileJobs
  BY <1>7, ProfileStepsDo, TakenIs DEF DigestTypes, Keeps, DigestFields
<1>8. CASE EmbedPeople
  BY <1>8, ProfileStepsDo DEF DigestTypes, Keeps, DigestFields
<1>9. CASE JobsChange
  <2>1. digest'.stays \subseteq Ids /\ shifts' \in Nat
    BY <1>9, ChangeDoes DEF DigestTypes
  <2> QED BY <1>9, <2>1, ChangeDoes DEF DigestTypes, Keeps, DigestFields
<1>10. ASSUME NEW i \in Ids, AddProof(i) PROVE DigestTypes'
  BY <1>10, OthersDo DEF DigestTypes
<1>11. ASSUME NEW t \in Technicians, Leave(t) PROVE DigestTypes'
  BY <1>11, OthersDo DEF DigestTypes
<1> QED BY <1>1, <1>2, <1>3, <1>4, <1>5, <1>6, <1>7, <1>8, <1>9, <1>10, <1>11
      DEF DigestNext, DigestStep

(* Proofs are never taken off, so a job has at least those it had when it  *)
(* was read.                                                               *)
ProofsInv ==
  /\ \A n \in DOMAIN digest.found : digest.found[n].had <= proofs[digest.found[n].id]
  /\ digest.kind = "report" /\ digest.state \in {"proofs", "built"} /\ ~digest.vague =>
       \A n \in DOMAIN digest.found : digest.found[n].had <= digest.proofs[digest.found[n].id]

(* Who is not named was disabled when the names were read, and stays so.   *)
NamesInv ==
  digest.state \in {"names", "built"} =>
    \A t \in (Performers \cup digest.asked) \ digest.named : standing[t] = "disabled"

LEMMA FoundTypes ==
  ASSUME DigestTypes
  PROVE  /\ DOMAIN digest.found = 1..Len(digest.found) /\ Len(digest.found) \in Nat
         /\ \A n \in DOMAIN digest.found :
              /\ digest.found[n].id \in Ids /\ digest.found[n].had \in Nat
              /\ digest.found[n].row \in Rows
              /\ proofs[digest.found[n].id] \in Nat
              /\ digest.proofs[digest.found[n].id] \in Nat
         /\ Performers \subseteq Technicians /\ Performers \cup digest.asked \subseteq Technicians
<1>1. digest.found \in Seq(Entries)
  BY DEF DigestTypes
<1>2. DOMAIN digest.found = 1..Len(digest.found) /\ Len(digest.found) \in Nat
  BY <1>1
<1>3. \A n \in DOMAIN digest.found : digest.found[n] \in Entries
  BY <1>1
<1>4. Performers \subseteq Technicians
  BY <1>3 DEF Performers, ToSet, Entries, Rows
<1> QED BY <1>2, <1>3, <1>4 DEF DigestTypes, Entries

LEMMA ProofsKept ==
  ASSUME DigestTypes, ProofsInv, DigestNext
  PROVE  ProofsInv'
<1>1. CASE UNCHANGED <<proofs>> /\ digest'.found = digest.found /\ digest'.kind = digest.kind
           /\ digest'.proofs = digest.proofs /\ digest'.vague = digest.vague
           /\ (digest.kind = "report" /\ digest'.state \in {"proofs", "built"}
                 => digest.state \in {"proofs", "built"})
  BY <1>1 DEF ProofsInv
<1>2. CASE FetchJobs
  <2>1. UNCHANGED proofs /\ digest'.state \in {"too_large", "paging"}
    BY <1>2, FetchJobsDoes
  <2>2. CASE Keeps({"state"})
    <3>1. digest'.found = digest.found
      BY <2>2 DEF Keeps, DigestFields
    <3> QED BY <2>1, <3>1 DEF ProofsInv
  <2>3. ASSUME NEW s \in ByStart(Ranged), digest'.found = Batch(s, 0)
        PROVE  ProofsInv'
    <3>1. Ranged \in SUBSET Stored
      BY DEF Ranged
    <3>2. /\ DOMAIN Batch(s, 0) = 1..Len(Batch(s, 0))
          /\ \A k \in 1..Len(Batch(s, 0)) : \E i \in Stored : Batch(s, 0)[k] = Row(i)
      <4>1. Batch(s, 0) \in Seq(Entries)
        BY <3>1, BatchIs
      <4>2. \A k \in 1..Len(Batch(s, 0)) : \E i \in Stored : Batch(s, 0)[k] = Row(i)
        BY <3>1, BatchIs, ListedOnce
      <4> QED BY <4>1, <4>2
    <3>3. \A k \in DOMAIN Batch(s, 0) : Batch(s, 0)[k].had <= proofs[Batch(s, 0)[k].id]
      <4> SUFFICES ASSUME NEW k \in DOMAIN Batch(s, 0)
                   PROVE  Batch(s, 0)[k].had <= proofs[Batch(s, 0)[k].id]
        OBVIOUS
      <4>1. PICK i \in Stored : Batch(s, 0)[k] = Row(i)
        BY <3>2
      <4>2. Row(i).id = i /\ Row(i).had = proofs[i] /\ proofs[i] \in Nat
        BY RowsRead, StoredIsFinite DEF DigestTypes
      <4> QED BY <4>1, <4>2
    <3> QED BY <2>1, <2>3, <3>3 DEF ProofsInv
  <2> QED BY <1>2, <2>2, <2>3, FetchJobsDoes
<1>3. CASE FetchBatch
  <2>1. UNCHANGED proofs /\ digest'.state \in {"paging", "jobs"}
    BY <1>3, FetchBatchDoes
  <2>2. PICK s \in ByStart(Ranged) :
          digest'.found = digest.found \o Batch(s, Len(digest.found))
    BY <1>3, FetchBatchDoes
  <2> DEFINE old == digest.found
             batch == Batch(s, Len(old))
  <2>3. old \in Seq(Entries) /\ Len(old) \in Nat
    BY DEF DigestTypes
  <2>4. Ranged \in SUBSET Stored
    BY DEF Ranged
  <2>5. /\ batch \in Seq(Entries)
        /\ \A k \in 1..Len(batch) : \E i \in Stored : batch[k] = Row(i)
    <3> DEFINE from == Len(old)
               L == BatchLen(Cardinality(Ranged), from)
    <3>1. from \in Nat
      BY <2>3
    <3> HIDE DEF from
    <3>2. /\ Batch(s, from) \in Seq(Entries) /\ Len(Batch(s, from)) = L
          /\ \A k \in 1..L : /\ from + k \in 1..Cardinality(Ranged)
                              /\ Batch(s, from)[k] = Row(s[from + k])
      BY <2>4, <3>1, BatchIs
    <3>3. /\ batch \in Seq(Entries)
          /\ \A k \in 1..Len(batch) :
               /\ Len(old) + k \in 1..Cardinality(Ranged)
               /\ batch[k] = Row(s[Len(old) + k])
      <4> HIDE DEF L
      <4> QED BY <3>2 DEF from
    <3>4. s \in [1..Cardinality(Ranged) -> Ranged]
      BY <2>4, ListedOnce
    <3> HIDE DEF old, batch
    <3>5. \A k \in 1..Len(batch) : s[Len(old) + k] \in Stored
      BY <2>4, <3>3, <3>4
    <3> QED BY <3>3, <3>5
  <2> HIDE DEF old, batch
  <2>6. \A n \in DOMAIN (old \o batch) :
          \/ n \in DOMAIN old /\ (old \o batch)[n] = old[n]
          \/ \E k \in 1..Len(batch) : (old \o batch)[n] = batch[k]
    <3> SUFFICES ASSUME NEW n \in DOMAIN (old \o batch)
                 PROVE  \/ n \in DOMAIN old /\ (old \o batch)[n] = old[n]
                        \/ \E k \in 1..Len(batch) : (old \o batch)[n] = batch[k]
      OBVIOUS
    <3>1. CASE n <= Len(old)
      BY <2>3, <2>5, <3>1
    <3>2. CASE n > Len(old)
      <4>1. n - Len(old) \in 1..Len(batch) /\ (old \o batch)[n] = batch[n - Len(old)]
        BY <2>3, <2>5, <3>2
      <4> QED BY <4>1
    <3> QED BY <2>3, <2>5, <3>1, <3>2
  <2>7. ASSUME NEW n \in DOMAIN (old \o batch)
        PROVE  (old \o batch)[n].had <= proofs[(old \o batch)[n].id]
    <3>1. CASE n \in DOMAIN old /\ (old \o batch)[n] = old[n]
      BY <3>1 DEF ProofsInv, old
    <3>2. ASSUME NEW k \in 1..Len(batch), (old \o batch)[n] = batch[k]
          PROVE  (old \o batch)[n].had <= proofs[(old \o batch)[n].id]
      <4>1. PICK i \in Stored : batch[k] = Row(i)
        BY <2>5
      <4>2. Row(i).id = i /\ Row(i).had = proofs[i] /\ proofs[i] \in Nat
        BY RowsRead, StoredIsFinite DEF DigestTypes
      <4> QED BY <3>2, <4>1, <4>2
    <3> QED BY <2>6, <3>1, <3>2
  <2>8. digest'.found = old \o batch
    BY <2>2 DEF old, batch
  <2> QED BY <2>1, <2>7, <2>8 DEF ProofsInv
<1>4. CASE LastBatch
  BY <1>1, <1>4, StateStepsDo DEF Keeps, DigestFields
<1>5. CASE FetchNames
  BY <1>1, <1>5, StateStepsDo DEF Keeps, DigestFields
<1>6. CASE FetchProofs
  <2>1. UNCHANGED proofs /\ digest'.found = digest.found
    BY <1>6, FetchProofsDoes DEF Keeps, DigestFields
  <2>2. \A n \in DOMAIN digest.found : digest.found[n].id \in FoundJobs
    BY FoundTypes DEF FoundJobs, IdsOf, ToSet
  <2> QED BY <1>6, <2>1, <2>2, FetchProofsDoes DEF ProofsInv
<1>7. CASE ReadStats
  BY <1>1, <1>7, ReadStatsDoes DEF Keeps, DigestFields
<1>8. ASSUME ReadHistory \/ \E c \in Customers \cup {Stranger} : FindCustomer(c)
      PROVE  ProofsInv'
  BY <1>1, <1>8, CardStepsDo DEF Keeps, DigestFields
<1>9. CASE ReadProfileJobs
  <2>1. PICK s \in ByStart(Stored) : digest'.found = Taken(s)
    BY <1>9, ProfileStepsDo
  <2>2. UNCHANGED proofs /\ digest'.kind # "report"
    BY <1>9, ProfileStepsDo DEF Keeps, DigestFields
  <2>3. \A k \in DOMAIN Taken(s) : \E i \in Stored : Taken(s)[k] = Row(i)
    BY TakenIs
  <2>4. \A k \in DOMAIN Taken(s) : Taken(s)[k].had <= proofs[Taken(s)[k].id]
    <3> SUFFICES ASSUME NEW k \in DOMAIN Taken(s)
                 PROVE  Taken(s)[k].had <= proofs[Taken(s)[k].id]
      OBVIOUS
    <3>1. PICK i \in Stored : Taken(s)[k] = Row(i)
      BY <2>3
    <3>2. Row(i).id = i /\ Row(i).had = proofs[i] /\ proofs[i] \in Nat
      BY RowsRead, StoredIsFinite DEF DigestTypes
    <3> QED BY <3>1, <3>2
  <2> QED BY <2>1, <2>2, <2>4 DEF ProofsInv
<1>10. CASE EmbedPeople
  <2>1. UNCHANGED proofs /\ digest'.kind # "report" /\ digest'.found = digest.found
    BY <1>10, ProfileStepsDo DEF Keeps, DigestFields
  <2> QED BY <2>1 DEF ProofsInv
<1>11. CASE JobsChange
  BY <1>1, <1>11, ChangeDoes DEF Keeps, DigestFields
<1>12. ASSUME NEW i \in Ids, AddProof(i) PROVE ProofsInv'
  <2>1. /\ digest' = digest /\ proofs' \in [Ids -> Nat]
        /\ \A j \in Ids : proofs[j] <= proofs'[j]
    BY <1>12, OthersDo
  <2>2. \A n \in DOMAIN digest.found : digest.found[n].had <= proofs'[digest.found[n].id]
    <3> SUFFICES ASSUME NEW n \in DOMAIN digest.found
                 PROVE  digest.found[n].had <= proofs'[digest.found[n].id]
      OBVIOUS
    <3> DEFINE a == digest.found[n].had
               b == proofs[digest.found[n].id]
               c == proofs'[digest.found[n].id]
    <3>1. a \in Nat /\ b \in Nat /\ c \in Nat /\ a <= b /\ b <= c
      BY <2>1, FoundTypes DEF ProofsInv
    <3> HIDE DEF a, b, c
    <3>2. a <= c
      BY <3>1
    <3> QED BY <3>2 DEF a, c
  <2> QED BY <2>1, <2>2 DEF ProofsInv
<1>13. ASSUME NEW t \in Technicians, Leave(t) PROVE ProofsInv'
  BY <1>1, <1>13, OthersDo
<1> QED BY <1>2, <1>3, <1>4, <1>5, <1>6, <1>7, <1>8, <1>9, <1>10, <1>11, <1>12, <1>13
      DEF DigestNext, DigestStep

LEMMA NamesKept ==
  ASSUME DigestTypes, NamesInv, DigestNext
  PROVE  NamesInv'
<1> DEFINE Same == /\ digest'.found = digest.found /\ digest'.asked = digest.asked
                   /\ digest'.named = digest.named /\ digest'.state = digest.state
                   /\ \A t \in Technicians :
                        standing[t] = "disabled" => standing'[t] = "disabled"
<1>1. Same => NamesInv'
  <2> SUFFICES ASSUME Same, digest'.state \in {"names", "built"},
                      NEW t \in (Performers' \cup digest'.asked) \ digest'.named
               PROVE  standing'[t] = "disabled"
    BY DEF NamesInv
  <2>1. Performers' = Performers
    BY DEF Performers
  <2>2. t \in Technicians
    BY <2>1, FoundTypes
  <2> QED BY <2>1, <2>2 DEF NamesInv
<1>2. ASSUME NEW people, people = Performers \cup digest.asked, UNCHANGED standing,
             digest'.named = Named(people), digest'.found = digest.found,
             digest'.asked = digest.asked
      PROVE  NamesInv'
  <2>1. Performers' = Performers
    BY <1>2 DEF Performers
  <2> QED BY <1>2, <2>1 DEF NamesInv, Named
<1>3. CASE FetchNames
  <2>1. /\ UNCHANGED standing /\ digest'.named = Named(Performers \cup digest.asked)
        /\ digest'.found = digest.found /\ digest'.asked = digest.asked
    <3>1. digest.asked \cup Performers = Performers \cup digest.asked
      OBVIOUS
    <3> QED BY <1>3, <3>1, StateStepsDo DEF Keeps, DigestFields
  <2> QED BY <1>2, <2>1
<1>4. CASE EmbedPeople
  <2>1. /\ UNCHANGED standing /\ digest'.named = Named(Performers)
        /\ digest'.found = digest.found /\ digest'.asked = digest.asked
        /\ digest.asked = {}
    BY <1>4, ProfileStepsDo DEF Keeps, DigestFields, DigestTypes
  <2>2. Performers = Performers \cup digest.asked
    BY <2>1
  <2> QED BY <1>2, <2>1, <2>2
<1>5. CASE FetchProofs
  <2>1. /\ UNCHANGED standing /\ digest'.found = digest.found
        /\ digest'.asked = digest.asked /\ digest'.named = digest.named
        /\ digest'.state \in {"names", "built"} => digest.state \in {"names", "built"}
    BY <1>5, FetchProofsDoes DEF Keeps, DigestFields
  <2>2. Performers' = Performers
    BY <2>1 DEF Performers
  <2> QED BY <2>1, <2>2 DEF NamesInv
<1>6. CASE JobsChange
  BY <1>1, <1>6, ChangeDoes DEF Keeps, DigestFields
<1>7. ASSUME NEW i \in Ids, AddProof(i) PROVE NamesInv'
  BY <1>1, <1>7, OthersDo
<1>8. ASSUME NEW t \in Technicians, Leave(t) PROVE NamesInv'
  BY <1>1, <1>8, OthersDo
<1>9. ASSUME \/ FetchJobs \/ FetchBatch \/ LastBatch \/ ReadStats \/ ReadHistory
             \/ ReadProfileJobs \/ \E c \in Customers \cup {Stranger} : FindCustomer(c)
      PROVE  NamesInv'
  <2>1. digest'.state \notin {"names", "built"}
    BY <1>9, FetchJobsDoes, FetchBatchDoes, StateStepsDo, ReadStatsDoes, CardStepsDo,
       ProfileStepsDo
  <2> QED BY <2>1 DEF NamesInv
<1> QED BY <1>3, <1>4, <1>5, <1>6, <1>7, <1>8, <1>9 DEF DigestNext, DigestStep

(* The jobs of a company only become more, and as long as none changed a   *)
(* card's count and date are those of an answer that held all of them.     *)
CardsInv ==
  /\ digest.kind = "card" /\ digest.state \in {"listed", "found"} =>
       \A c \in Customers :
         /\ digest.cards[c] \in [jobs : Nat, last : Nat]
         /\ digest.cards[c].jobs <= Cardinality(Own(c))
         /\ shifts = 0 => digest.cards[c].last \in Starts(c)
         /\ shifts = 0 /\ digest.count <= AnswerLimit =>
              /\ digest.cards[c].jobs = Cardinality(Own(c))
              /\ \A d \in Starts(c) : d <= digest.cards[c].last
  /\ digest.kind = "card" /\ digest.state = "found" => digest.customer \in Customers
  /\ CardsHold

LEMMA OwnJobs ==
  ASSUME DigestTypes, NEW c
  PROVE  /\ Own(c) \in SUBSET Stored /\ IsFiniteSet(Own(c)) /\ Cardinality(Own(c)) \in Nat
         /\ Starts(c) \subseteq Nat /\ \A d \in Starts(c) : d <= LastDay
         /\ Starts(c) # {} /\ LastDay \in Nat
<1>1. Own(c) \in SUBSET Stored /\ Stored \in SUBSET Ids
  BY StoredIsFinite DEF Own
<1>2. \A d \in Starts(c) : d \in 0..LastDay
  <2>1. 0 \in 0..LastDay
    BY FeedsAssumption
  <2>2. \A i \in Own(c) : rows[i].start \in 0..LastDay
    BY <1>1, StoredIsFinite
  <2> QED BY <2>1, <2>2 DEF Starts
<1>3. Own(c) \in SUBSET Ids
  BY <1>1
<1> QED BY <1>1, <1>2, <1>3, StoredIsFinite, FeedsAssumption DEF Starts

LEMMA StatsAreRead ==
  ASSUME DigestTypes, ReadStats
  PROVE  CardsInv'
<1>1. PICK S \in SUBSET Stored :
        /\ Cardinality(S) = Min({Cardinality(Stored), AnswerLimit})
        /\ digest'.cards = [c \in Customers |->
             LET own == {i \in S : CustomerOf[i] = c}
             IN [jobs |-> Cardinality(own),
                 last |-> IF own = {} THEN 0 ELSE Max({rows[i].start : i \in own})]]
  BY ReadStatsDoes
<1>2. /\ digest'.kind = "card" /\ digest'.state = "listed"
      /\ UNCHANGED <<rows, shifts>> /\ digest'.count = Cardinality(Stored)
  BY ReadStatsDoes DEF Keeps, DigestFields
<1>3. /\ Stored \in SUBSET Ids /\ S \in SUBSET Ids
      /\ IsFiniteSet(Stored) /\ Cardinality(Stored) \in Nat
      /\ IsFiniteSet(S) /\ Cardinality(S) \in Nat /\ AnswerLimit \in Nat
  BY StoredIsFinite, DigestsAssumption
<1>4. Cardinality(Stored) <= AnswerLimit => S = Stored
  <2> SUFFICES ASSUME Cardinality(Stored) <= AnswerLimit PROVE S = Stored
    OBVIOUS
  <2>1. Cardinality(S) = Cardinality(Stored)
    BY <1>1, <1>3, MinOfTwo
  <2> QED BY <1>3, <2>1, FS_Subset
<1>5. ASSUME NEW c \in Customers
      PROVE  /\ digest'.cards[c] \in [jobs : Nat, last : Nat]
             /\ digest'.cards[c].jobs <= Cardinality(Own(c))
             /\ digest'.cards[c].last \in Starts(c)
             /\ Cardinality(Stored) <= AnswerLimit =>
                  /\ digest'.cards[c].jobs = Cardinality(Own(c))
                  /\ \A d \in Starts(c) : d <= digest'.cards[c].last
  <2> DEFINE own == {i \in S : CustomerOf[i] = c}
             dates == {rows[i].start : i \in own}
             last == IF own = {} THEN 0 ELSE Max(dates)
  <2>1. digest'.cards[c].jobs = Cardinality(own) /\ digest'.cards[c].last = last
        /\ digest'.cards[c] = [jobs |-> Cardinality(own), last |-> last]
    BY <1>1
  <2>2. own \in SUBSET Own(c) /\ (Cardinality(Stored) <= AnswerLimit => own = Own(c))
    BY <1>4 DEF Own
  <2>3. IsFiniteSet(own) /\ Cardinality(own) \in Nat /\ Cardinality(own) <= Cardinality(Own(c))
    BY <2>2, OwnJobs, FS_Subset, FS_CardinalityType
  <2>4. dates \subseteq Starts(c) /\ (own # {} => dates # {})
    BY <2>2 DEF Starts
  <2>5. own # {} => Max(dates) \in dates /\ \A d \in dates : d <= Max(dates)
    <3>1. dates \subseteq Nat /\ LastDay \in Nat /\ \A d \in dates : d <= LastDay
      BY <2>4, OwnJobs
    <3> HIDE DEF dates
    <3> QED BY <2>4, <3>1, MaxOf
  <2>6. last \in Starts(c) /\ last \in Nat
    <3>1. last \in Starts(c)
      BY <2>4, <2>5 DEF Starts
    <3> QED BY <3>1, OwnJobs
  <2>7. ASSUME own = Own(c), NEW d \in Starts(c) PROVE d <= last
    <3>1. CASE own = {}
      BY <2>6, <2>7, <3>1 DEF Starts
    <3>2. CASE own # {}
      <4>1. d = 0 \/ d \in dates
        BY <2>7 DEF Starts
      <4>2. last = Max(dates)
        BY <3>2
      <4> QED BY <2>5, <2>6, <3>2, <4>1, <4>2
    <3> QED BY <3>1, <3>2
  <2> HIDE DEF own, dates, last
  <2> QED BY <2>1, <2>2, <2>3, <2>6, <2>7
<1>6. \A c \in Customers : Own(c)' = Own(c) /\ Starts(c)' = Starts(c)
  BY <1>2 DEF Own, Starts, Stored
<1> QED BY <1>2, <1>5, <1>6 DEF CardsInv, CardsHold

LEMMA HistoryIsRead ==
  ASSUME DigestTypes, CardsInv, ReadHistory
  PROVE  CardsInv'
<1> DEFINE c == digest.customer
           card == digest.cards[c]
           history == {[id |-> i, start |-> rows[i].start] : i \in Own(c)}
           dates == {j.start : j \in history} \cup {0}
<1>1. /\ digest'.kind = "card" /\ digest'.state = "shown" /\ digest'.history = history
      /\ digest'.customer = c /\ digest'.cards = digest.cards /\ digest'.count = digest.count
      /\ UNCHANGED <<rows, shifts>> /\ digest.kind = "card" /\ digest.state = "found"
  BY CardStepsDo DEF Keeps, DigestFields
<1>2. /\ c \in Customers /\ card \in [jobs : Nat, last : Nat]
      /\ card.jobs <= Cardinality(Own(c))
      /\ shifts = 0 => card.last \in Starts(c)
      /\ shifts = 0 /\ digest.count <= AnswerLimit =>
           /\ card.jobs = Cardinality(Own(c)) /\ \A d \in Starts(c) : d <= card.last
  BY <1>1 DEF CardsInv
<1>3. Cardinality(history) = Cardinality(Own(c))
  <2> DEFINE f == [i \in Own(c) |-> [id |-> i, start |-> rows[i].start]]
  <2>1. f \in Surjection(Own(c), history)
    BY DEF Surjection
  <2>2. f \in Injection(Own(c), history)
    <3>1. f \in [Own(c) -> history]
      OBVIOUS
    <3>2. \A i \in Own(c) : f[i].id = i
      OBVIOUS
    <3> HIDE DEF f, history
    <3> QED BY <3>1, <3>2 DEF Injection, IsInjective
  <2> HIDE DEF f, history
  <2> QED BY <2>1, <2>2, OwnJobs, FS_Surjection
<1>4. dates = Starts(c)
  <2>1. \A i \in Own(c) : [id |-> i, start |-> rows[i].start].start = rows[i].start
    OBVIOUS
  <2>2. {j.start : j \in history} = {rows[i].start : i \in Own(c)}
    BY <2>1
  <2> QED BY <2>2 DEF Starts
<1> DEFINE last == Max(dates)
<1>5. last \in Starts(c) /\ \A d \in Starts(c) : d <= last
  <2> HIDE DEF dates
  <2> QED BY <1>4, OwnJobs, MaxOf
<1>6. last \in Nat /\ card.last \in Nat
  BY <1>2, <1>5, OwnJobs
<1>7. /\ card.jobs <= Cardinality(history)
      /\ card.last <= last \/ shifts > 0
      /\ digest.count <= AnswerLimit /\ shifts = 0 =>
           card = [jobs |-> Cardinality(history), last |-> last]
  <2> HIDE DEF history, dates, last, card
  <2>1. card.jobs <= Cardinality(history)
    BY <1>2, <1>3
  <2>2. card.last <= last \/ shifts > 0
    <3>1. shifts = 0 \/ shifts > 0
      BY DEF DigestTypes
    <3> QED BY <1>2, <1>5, <3>1
  <2>3. ASSUME digest.count <= AnswerLimit, shifts = 0
        PROVE  card = [jobs |-> Cardinality(history), last |-> last]
    <3>1. card.last = last
      <4>1. card.last <= last /\ last <= card.last
        BY <1>2, <1>5, <2>3
      <4> QED BY <1>6, <4>1
    <3>2. card.jobs = Cardinality(history)
      BY <1>2, <1>3, <2>3
    <3> QED BY <1>2, <3>1, <3>2
  <2> QED BY <2>1, <2>2, <2>3
<1>8. CardsHold'
  <2> HIDE DEF c, card, history
  <2>1. digest'.cards[digest'.customer] = card
    BY <1>1 DEF card
  <2>2. Max({j.start : j \in digest'.history} \cup {0}) = last
    BY <1>1
  <2> QED BY <1>1, <1>7, <2>1, <2>2 DEF CardsHold
<1> QED BY <1>1, <1>8 DEF CardsInv

LEMMA ChangesKeepCards ==
  ASSUME DigestTypes, DigestTypes', CardsInv, JobsChange
  PROVE  CardsInv'
<1>1. /\ digest'.kind = digest.kind /\ digest'.state = digest.state
      /\ digest'.cards = digest.cards /\ digest'.count = digest.count
      /\ digest'.customer = digest.customer /\ digest'.history = digest.history
  BY ChangeDoes DEF Keeps, DigestFields
<1>2. /\ rows' = rows \/ digest.state = "idle" => shifts' = shifts
      /\ ~(rows' = rows \/ digest.state = "idle") => shifts' = shifts + 1
      /\ Stored \subseteq Stored' /\ shifts \in Nat
  BY ChangeDoes DEF DigestTypes
<1>3. shifts' = shifts \/ shifts' > 0
  BY <1>2
<1>4. CardsHold'
  BY <1>1, <1>2, <1>3 DEF CardsInv, CardsHold
<1>5. ASSUME digest.kind = "card", digest.state \in {"listed", "found"}, NEW c \in Customers
      PROVE  /\ Cardinality(Own(c)) <= Cardinality(Own(c))'
             /\ Cardinality(Own(c)) \in Nat /\ Cardinality(Own(c))' \in Nat
             /\ shifts' = 0 => shifts = 0 /\ Own(c)' = Own(c) /\ Starts(c)' = Starts(c)
  <2>1. Own(c) \in SUBSET Own(c)'
    BY <1>2 DEF Own
  <2>2. IsFiniteSet(Own(c)') /\ Cardinality(Own(c)') \in Nat /\ Cardinality(Own(c)) \in Nat
    <3>1. Own(c)' \in SUBSET Ids
      BY DEF Own, Stored
    <3> QED BY <3>1, StoredIsFinite, OwnJobs
  <2>3. Cardinality(Own(c)) <= Cardinality(Own(c)')
    BY <2>1, <2>2, FS_Subset
  <2>4. shifts' = 0 => shifts = 0 /\ rows' = rows
    BY <1>2, <1>5
  <2>5. rows' = rows => Own(c)' = Own(c) /\ Starts(c)' = Starts(c)
    BY DEF Own, Starts, Stored
  <2> QED BY <2>2, <2>3, <2>4, <2>5
<1>6. ASSUME digest'.kind = "card", digest'.state \in {"listed", "found"}, NEW c \in Customers
      PROVE  /\ digest'.cards[c] \in [jobs : Nat, last : Nat]
             /\ digest'.cards[c].jobs <= Cardinality(Own(c))'
             /\ shifts' = 0 => digest'.cards[c].last \in Starts(c)'
             /\ shifts' = 0 /\ digest'.count <= AnswerLimit =>
                  /\ digest'.cards[c].jobs = Cardinality(Own(c))'
                  /\ \A d \in Starts(c)' : d <= digest'.cards[c].last
  <2> DEFINE card == digest.cards[c]
  <2>1. /\ card \in [jobs : Nat, last : Nat] /\ digest'.cards[c] = card
        /\ card.jobs <= Cardinality(Own(c))
        /\ shifts = 0 => card.last \in Starts(c)
        /\ shifts = 0 /\ digest.count <= AnswerLimit =>
             /\ card.jobs = Cardinality(Own(c))
             /\ \A d \in Starts(c) : d <= card.last
    BY <1>1, <1>6 DEF CardsInv
  <2>2. card.jobs \in Nat
    BY <2>1
  <2>3. digest.kind = "card" /\ digest.state \in {"listed", "found"}
    BY <1>1, <1>6
  <2> HIDE DEF card
  <2> QED BY <1>1, <1>5, <2>1, <2>2, <2>3
<1> QED BY <1>1, <1>4, <1>6 DEF CardsInv

LEMMA CardsKept ==
  ASSUME DigestTypes, DigestTypes', CardsInv, DigestNext
  PROVE  CardsInv'
<1>1. CASE digest' = digest /\ UNCHANGED <<rows, shifts>>
  BY <1>1 DEF CardsInv, CardsHold, Own, Starts, Stored
<1>2. CASE digest'.kind # "card"
  BY <1>2 DEF CardsInv, CardsHold
<1>3. ASSUME NEW c \in Customers \cup {Stranger}, FindCustomer(c)
      PROVE  CardsInv'
  <2>1. /\ UNCHANGED <<rows, shifts>> /\ digest.kind = "card" /\ digest.state = "listed"
        /\ digest'.customer = c /\ digest'.state = (IF c = Stranger THEN "not_found" ELSE "found")
        /\ digest'.cards = digest.cards /\ digest'.count = digest.count
    BY <1>3, CardStepsDo DEF Keeps, DigestFields
  <2>2. digest'.state = "found" => digest'.customer \in Customers
    BY <2>1
  <2>3. \A k \in Customers : Own(k)' = Own(k) /\ Starts(k)' = Starts(k)
    BY <2>1 DEF Own, Starts, Stored
  <2>4. CardsHold'
    BY <2>1 DEF CardsHold
  <2> QED BY <2>1, <2>2, <2>3, <2>4 DEF CardsInv
<1>4. ASSUME FetchJobs \/ FetchBatch \/ LastBatch \/ FetchNames \/ FetchProofs
             \/ ReadProfileJobs \/ EmbedPeople
      PROVE  CardsInv'
  <2>1. digest'.kind # "card"
    BY <1>4, FetchJobsDoes, FetchBatchDoes, StateStepsDo, FetchProofsDoes, ProfileStepsDo
       DEF Keeps, DigestFields
  <2> QED BY <1>2, <2>1
<1>5. ASSUME NEW i \in Ids, AddProof(i) PROVE CardsInv'
  BY <1>1, <1>5, OthersDo
<1>6. ASSUME NEW t \in Technicians, Leave(t) PROVE CardsInv'
  BY <1>1, <1>6, OthersDo
<1> QED BY <1>3, <1>4, <1>5, <1>6, StatsAreRead, HistoryIsRead, ChangesKeepCards
      DEF DigestNext, DigestStep

(* The place of a job among those of the range: the number of jobs planned *)
(* before it, the ids deciding among equal starts.                         *)
Earlier(j, i) == rows[j].start < rows[i].start \/ (rows[j].start = rows[i].start /\ j < i)

Ahead(i) == {j \in Ranged : Earlier(j, i)}

Place(i) == Cardinality(Ahead(i))

LEMMA PlacesAre ==
  ASSUME DigestTypes
  PROVE  /\ Ranged \in SUBSET Stored /\ IsFiniteSet(Ranged) /\ Cardinality(Ranged) \in Nat
         /\ \A i \in Ranged : /\ i \in Int /\ rows[i].start \in Int
                              /\ Place(i) \in Nat /\ Place(i) < Cardinality(Ranged)
         /\ \A i, j \in Ranged : Place(i) = Place(j) => i = j
         /\ \A i : IsFiniteSet(Ahead(i)) /\ Place(i) \in Nat
<1>1. /\ Ranged \in SUBSET Stored /\ Ranged \in SUBSET Ids /\ IsFiniteSet(Ranged)
      /\ Cardinality(Ranged) \in Nat
  <2>1. Ranged \in SUBSET Stored
    BY DEF Ranged
  <2>2. Ranged \in SUBSET Ids
    BY <2>1, StoredIsFinite
  <2> QED BY <2>1, <2>2, StoredIsFinite
<1>2. \A i \in Ranged : i \in Int /\ rows[i].start \in Int
  BY <1>1, StoredIsFinite
<1>3. \A i : Ahead(i) \in SUBSET Ranged /\ IsFiniteSet(Ahead(i)) /\ Place(i) \in Nat
             /\ Place(i) <= Cardinality(Ranged)
             /\ (Place(i) = Cardinality(Ranged) => Ahead(i) = Ranged)
  <2> SUFFICES ASSUME NEW i
               PROVE  Ahead(i) \in SUBSET Ranged /\ IsFiniteSet(Ahead(i)) /\ Place(i) \in Nat
                        /\ Place(i) <= Cardinality(Ranged)
                        /\ (Place(i) = Cardinality(Ranged) => Ahead(i) = Ranged)
    OBVIOUS
  <2>1. Ahead(i) \in SUBSET Ranged
    BY DEF Ahead
  <2> QED BY <1>1, <2>1, FS_Subset, FS_CardinalityType DEF Place
<1>4. \A i \in Ranged : i \notin Ahead(i)
  BY <1>2 DEF Ahead, Earlier
<1>5. \A i \in Ranged : Place(i) < Cardinality(Ranged)
  BY <1>1, <1>3, <1>4
<1>6. ASSUME NEW i \in Ranged, NEW j \in Ranged, Earlier(i, j)
      PROVE  Place(i) # Place(j)
  <2>1. Ahead(i) \in SUBSET Ahead(j)
    BY <1>2, <1>6 DEF Ahead, Earlier
  <2>2. i \in Ahead(j) /\ i \notin Ahead(i)
    BY <1>4, <1>6 DEF Ahead
  <2>3. Cardinality(Ahead(j)) = Cardinality(Ahead(i)) => Ahead(j) = Ahead(i)
    BY <1>3, <2>1, FS_Subset
  <2> QED BY <2>2, <2>3 DEF Place
<1>7. \A i, j \in Ranged : i = j \/ Earlier(i, j) \/ Earlier(j, i)
  BY <1>2 DEF Earlier
<1>8. \A i, j \in Ranged : Place(i) = Place(j) => i = j
  BY <1>6, <1>7
<1> QED BY <1>1, <1>2, <1>3, <1>5, <1>8

(* Where no two start at the same time, the query lists each job at its    *)
(* place.                                                                  *)
LEMMA ListedAtPlaces ==
  ASSUME DigestTypes, ~Tied, NEW s \in ByStart(Ranged)
  PROVE  \A n \in 1..Cardinality(Ranged) : Place(s[n]) = n - 1
<1> DEFINE N == Cardinality(Ranged)
<1>1. /\ N \in Nat /\ s \in [1..N -> Ranged]
      /\ \A m, n \in 1..N : s[m] = s[n] => m = n
      /\ \A i \in Ranged : \E n \in 1..N : s[n] = i
      /\ \A m, n \in 1..N : m < n => rows[s[m]].start <= rows[s[n]].start
  BY PlacesAre, ListedOnce
<1>2. \A i \in Ranged : rows[i].start \in Int /\ i \in Int
  BY PlacesAre
<1> HIDE DEF N
<1> SUFFICES ASSUME NEW n \in 1..N PROVE Place(s[n]) = n - 1
  BY DEF N
<1>3. \A m \in 1..N : m < n <=> Earlier(s[m], s[n])
  <2> SUFFICES ASSUME NEW m \in 1..N PROVE m < n <=> Earlier(s[m], s[n])
    OBVIOUS
  <2>1. s[m] \in Ranged /\ s[n] \in Ranged
    BY <1>1
  <2>2. s[m] # s[n] => rows[s[m]].start # rows[s[n]].start
    BY <2>1 DEF Tied
  <2>3. CASE m < n
    <3>1. rows[s[m]].start <= rows[s[n]].start /\ s[m] # s[n]
      BY <1>1, <2>3
    <3> QED BY <1>2, <2>1, <2>2, <2>3, <3>1 DEF Earlier
  <2>4. CASE m = n
    BY <1>2, <2>1, <2>4 DEF Earlier
  <2>5. CASE n < m
    <3>1. rows[s[n]].start <= rows[s[m]].start /\ s[m] # s[n]
      BY <1>1, <2>5
    <3> QED BY <1>2, <2>1, <2>2, <2>5, <3>1 DEF Earlier
  <2> QED BY <1>1, <2>3, <2>4, <2>5
<1> DEFINE f == [m \in 1..n - 1 |-> s[m]]
           A == Ahead(s[n])
<1>4. \A i \in A : \E m \in 1..n - 1 : s[m] = i
  <2> SUFFICES ASSUME NEW i \in A PROVE \E m \in 1..n - 1 : s[m] = i
    OBVIOUS
  <2>1. i \in Ranged /\ Earlier(i, s[n])
    BY DEF Ahead
  <2>2. PICK m \in 1..N : s[m] = i
    BY <1>1, <2>1
  <2>3. m < n
    BY <1>3, <2>1, <2>2
  <2> QED BY <1>1, <2>2, <2>3
<1>5. \A m \in 1..n - 1 : s[m] \in A
  <2> SUFFICES ASSUME NEW m \in 1..n - 1 PROVE s[m] \in A
    OBVIOUS
  <2>1. m \in 1..N /\ m < n
    BY <1>1
  <2> QED BY <1>1, <1>3, <2>1 DEF Ahead
<1>6. f \in [1..n - 1 -> A] /\ \A m \in 1..n - 1 : f[m] = s[m]
  BY <1>5
<1> HIDE DEF f, A
<1>7. f \in Surjection(1..n - 1, A)
  BY <1>4, <1>6 DEF Surjection
<1>8. f \in Injection(1..n - 1, A)
  <2>1. \A x, y \in 1..n - 1 : f[x] = f[y] => x = y
    BY <1>1, <1>6
  <2> QED BY <1>6, <2>1 DEF Injection, IsInjective
<1>9. IsFiniteSet(1..n - 1) /\ Cardinality(1..n - 1) = n - 1
  BY <1>1, FS_Interval
<1>10. Cardinality(A) = n - 1
  BY <1>7, <1>8, <1>9, FS_Surjection
<1> QED BY <1>10 DEF Place, A

Tells(i) == \E n \in DOMAIN digest.found : digest.found[n].id = i

TellsTwice(i) ==
  \E m, n \in DOMAIN digest.found :
    m # n /\ digest.found[m].id = i /\ digest.found[n].id = i

(* While the batches are read: the jobs that will be missed or repeated    *)
(* unless a change moves them again, those on the wrong side of the offset *)
(* and those past the last row that will be read.                          *)
Lost ==
  {i \in digest.stays :
     ~Tells(i) /\ (Place(i) < Len(digest.found) \/ Place(i) >= digest.count)}

Again ==
  {i \in digest.stays :
     TellsTwice(i) \/ (Tells(i) /\ Place(i) >= Len(digest.found))}

Missing == {i \in digest.stays : ~Tells(i)}
Repeated == {i \in digest.stays : TellsTwice(i)}

Unordered == digest.ties /\ digest.count > BatchSize

BatchInv ==
  /\ digest.state = "idle" => digest.found = <<>>
  /\ digest.kind = "report" /\ (digest.state = "paging" \/ Read) =>
       \A n \in DOMAIN digest.found : digest.found[n].row.start <= digest.until
  /\ digest.kind = "report" /\ digest.state = "paging" =>
       /\ digest.stays \subseteq Ranged
       /\ digest.count <= BatchSize => digest.count <= Len(digest.found)
       /\ \/ Unordered
          \/ Cardinality(Lost) <= shifts /\ Cardinality(Again) <= shifts
  /\ digest.kind = "report" /\ Read =>
       \/ Unordered
       \/ Cardinality(Missing) <= shifts /\ Cardinality(Repeated) <= shifts

LEMMA Joined ==
  ASSUME NEW S, NEW u \in Seq(S), NEW v \in Seq(S)
  PROVE  u \o v \in Seq(S) /\ Len(u \o v) = Len(u) + Len(v)
OBVIOUS

(* What a batch adds to what is told.                                      *)
Brings(s, from, L, i) == \E k \in 1..L : s[from + k] = i

LEMMA BatchAdds ==
  ASSUME DigestTypes, NEW S \in SUBSET Stored, NEW s \in ByStart(S),
         digest'.found = digest.found \o Batch(s, Len(digest.found))
  PROVE  LET o == Len(digest.found)
             L == BatchLen(Cardinality(S), o)
         IN /\ o \in Nat /\ L \in Nat /\ Len(digest'.found) = o + L
            /\ L = Len(Batch(s, o))
            /\ \A i : Tells(i)' <=> Tells(i) \/ Brings(s, o, L, i)
            /\ \A i : TellsTwice(i)' => TellsTwice(i) \/ (Tells(i) /\ Brings(s, o, L, i))
            /\ \A n \in DOMAIN digest'.found :
                 \/ n \in DOMAIN digest.found /\ digest'.found[n] = digest.found[n]
                 \/ \E i \in S : digest'.found[n] = Row(i)
<1> DEFINE N == Cardinality(S)
           o == Len(digest.found)
           L == BatchLen(N, o)
           In(i) == Brings(s, o, L, i)
           old == digest.found
           batch == Batch(s, o)
           new == digest'.found
<1>1. old \in Seq(Entries) /\ o \in Nat /\ DOMAIN old = 1..o
  BY DEF DigestTypes
<1>2. /\ N \in Nat /\ s \in [1..N -> S] /\ \A m, n \in 1..N : s[m] = s[n] => m = n
  BY ListedOnce
<1>3. /\ batch \in Seq(Entries) /\ Len(batch) = L /\ L \in Nat
      /\ \A k \in 1..L : o + k \in 1..N /\ batch[k] = Row(s[o + k])
  BY <1>1, BatchIs
<1>4. \A k \in 1..L : batch[k].id = s[o + k] /\ s[o + k] \in S
  <2> HIDE DEF N, o, L, batch
  <2>1. \A k \in 1..L : s[o + k] \in S
    BY <1>2, <1>3
  <2>2. \A k \in 1..L : Row(s[o + k]).id = s[o + k]
    BY DEF Row
  <2> QED BY <1>3, <2>1, <2>2
<1>5. new = old \o batch /\ o = Len(old)
  OBVIOUS
<1> HIDE DEF N, o, L, old, batch, new
<1>6. /\ DOMAIN new = 1..(o + L) /\ Len(new) = o + L
      /\ \A n \in 1..o : new[n] = old[n]
      /\ \A n \in (o + 1)..(o + L) : n - o \in 1..L /\ new[n] = batch[n - o]
      /\ \A k \in 1..L : o + k \in (o + 1)..(o + L) /\ new[o + k] = batch[k]
  <2>1. old \in Seq(Entries) /\ batch \in Seq(Entries)
    BY <1>1, <1>3
  <2>2. Len(old \o batch) = Len(old) + Len(batch) /\ old \o batch \in Seq(Entries)
    BY <2>1, Joined
  <2>3. /\ \A n \in 1..o : new[n] = old[n]
        /\ \A n \in (o + 1)..(o + L) : n - o \in 1..L /\ new[n] = batch[n - o]
        /\ \A k \in 1..L : o + k \in (o + 1)..(o + L) /\ new[o + k] = batch[k]
    BY <1>1, <1>3, <1>5
  <2>4. Len(new) = o + L /\ DOMAIN new = 1..(o + L)
    BY <1>3, <1>5, <2>2
  <2> QED BY <2>3, <2>4
<1>7. /\ \A i : Tells(i) <=> \E n \in 1..o : old[n].id = i
      /\ \A i : Tells(i)' <=> \E n \in 1..(o + L) : new[n].id = i
  BY <1>1, <1>6 DEF Tells, old, new
<1>8. ASSUME NEW i PROVE Tells(i)' <=> Tells(i) \/ In(i)
  <2>1. ASSUME NEW n \in 1..(o + L), new[n].id = i PROVE Tells(i) \/ In(i)
    <3>1. CASE n <= o
      BY <1>1, <1>6, <1>7, <2>1, <3>1
    <3>2. CASE n > o
      <4>1. n \in (o + 1)..(o + L)
        BY <1>1, <1>3, <3>2
      <4>2. n - o \in 1..L /\ batch[n - o].id = i
        BY <1>6, <2>1, <4>1
      <4> QED BY <1>4, <4>2 DEF Brings
    <3> QED BY <1>1, <3>1, <3>2
  <2>2. ASSUME NEW n \in 1..o, old[n].id = i PROVE Tells(i)'
    <3>1. n \in 1..(o + L) /\ new[n] = old[n]
      BY <1>1, <1>3, <1>6
    <3> QED BY <1>7, <2>2, <3>1
  <2>3. ASSUME NEW k \in 1..L, s[o + k] = i PROVE Tells(i)'
    <3>1. o + k \in 1..(o + L) /\ new[o + k].id = i
      BY <1>1, <1>3, <1>4, <1>6, <2>3
    <3> QED BY <1>7, <3>1
  <2> QED BY <1>7, <2>1, <2>2, <2>3 DEF Brings
<1>9. ASSUME NEW i, TellsTwice(i)' PROVE TellsTwice(i) \/ (Tells(i) /\ In(i))
  <2>1. PICK m \in 1..(o + L), n \in 1..(o + L) : m # n /\ new[m].id = i /\ new[n].id = i
    <3>1. PICK m \in DOMAIN new, n \in DOMAIN new : m # n /\ new[m].id = i /\ new[n].id = i
      BY <1>9 DEF TellsTwice, new
    <3> QED BY <1>6, <3>1
  <2>2. ASSUME NEW a \in 1..(o + L), NEW b \in 1..(o + L), a < b,
               new[a].id = i, new[b].id = i
        PROVE  TellsTwice(i) \/ (Tells(i) /\ In(i))
    <3>1. CASE b <= o
      <4>1. a \in 1..o /\ b \in 1..o /\ old[a].id = i /\ old[b].id = i /\ a # b
        BY <1>1, <1>6, <2>2, <3>1
      <4> QED BY <1>1, <4>1 DEF TellsTwice, old
    <3>2. CASE b > o
      <4>1. b \in (o + 1)..(o + L)
        BY <1>1, <1>3, <3>2
      <4>2. b - o \in 1..L /\ batch[b - o].id = i /\ s[o + (b - o)] = i
        <5>1. b - o \in 1..L /\ batch[b - o].id = i
          BY <1>6, <2>2, <4>1
        <5> QED BY <1>4, <5>1
      <4>3. In(i)
        BY <4>2 DEF Brings
      <4>4. CASE a <= o
        <5>1. a \in 1..o
          BY <1>1, <4>4
        <5>2. old[a].id = i
          BY <1>6, <2>2, <5>1
        <5>3. Tells(i)
          BY <1>7, <5>1, <5>2
        <5> QED BY <4>3, <5>3
      <4>5. CASE a > o
        <5>1. a \in (o + 1)..(o + L)
          BY <1>1, <1>3, <4>5
        <5>2. a - o \in 1..L /\ s[o + (a - o)] = i
          <6>1. a - o \in 1..L /\ batch[a - o].id = i
            BY <1>6, <2>2, <5>1
          <6> QED BY <1>4, <6>1
        <5>3. o + (a - o) \in 1..N /\ o + (b - o) \in 1..N
          BY <1>3, <4>2, <5>2
        <5>4. o + (a - o) = o + (b - o)
          BY <1>2, <4>2, <5>2, <5>3
        <5> QED BY <1>1, <2>2, <5>4
      <4> QED BY <1>1, <4>4, <4>5
    <3> QED BY <1>1, <3>1, <3>2
  <2>3. m \in Int /\ n \in Int
    BY <1>1, <1>3
  <2>4. m < n \/ n < m
    BY <2>1, <2>3
  <2> HIDE DEF In
  <2> QED BY <2>1, <2>2, <2>4
<1>10. ASSUME NEW n \in DOMAIN new
       PROVE  \/ n \in DOMAIN old /\ new[n] = old[n]
              \/ \E i \in S : new[n] = Row(i)
  <2>1. CASE n <= o
    BY <1>1, <1>6, <2>1
  <2>2. CASE n > o
    <3>1. n \in (o + 1)..(o + L)
      BY <1>1, <1>3, <1>6, <2>2
    <3> DEFINE k == n - o
    <3>2. k \in 1..L /\ new[n] = batch[k]
      BY <1>6, <3>1
    <3> HIDE DEF k
    <3>3. batch[k] = Row(s[o + k]) /\ s[o + k] \in S
      BY <1>3, <1>4, <3>2
    <3> QED BY <3>2, <3>3
  <2> QED BY <1>1, <1>6, <2>1, <2>2
<1>11. Len(new) = o + L /\ o \in Nat /\ L \in Nat /\ L = Len(batch)
  BY <1>1, <1>3, <1>6
<1> QED BY <1>8, <1>9, <1>10, <1>11 DEF N, o, L, old, batch, new

LEMMA BatchSets ==
  ASSUME DigestTypes
  PROVE  /\ IsFiniteSet(Lost) /\ IsFiniteSet(Again) /\ IsFiniteSet(Missing)
         /\ IsFiniteSet(Repeated)
         /\ Cardinality(Lost) \in Nat /\ Cardinality(Again) \in Nat
         /\ Cardinality(Missing) \in Nat /\ Cardinality(Repeated) \in Nat
         /\ shifts \in Nat /\ BatchSize \in Nat \ {0} /\ digest.count \in Nat
<1>1. Lost \in SUBSET Ids /\ Again \in SUBSET Ids /\ Missing \in SUBSET Ids
      /\ Repeated \in SUBSET Ids
  BY DEF DigestTypes, Lost, Again, Missing, Repeated
<1> QED BY <1>1, StoredIsFinite, DigestsAssumption DEF DigestTypes

(* The first batch tells, of the jobs in the range, those of the first     *)
(* places, or all.                                                         *)
LEMMA FirstBatchKeeps ==
  ASSUME DigestTypes, DigestTypes', BatchInv, FetchJobs
  PROVE  BatchInv'
<1>1. /\ digest.kind = "report" /\ digest.state = "idle" /\ digest.found = <<>>
      /\ UNCHANGED <<rows, proofs, shifts>>
  BY FetchJobsDoes DEF BatchInv
<1>2. CASE digest'.state = "too_large"
  BY <1>2 DEF BatchInv, Read
<1>3. ASSUME NEW s \in ByStart(Ranged), digest'.state = "paging", digest'.count = Len(s),
             digest'.found = Batch(s, 0), digest'.stays = Ranged, digest'.ties = Tied,
             Keeps({"state", "count", "found", "stays", "ties"})
      PROVE  BatchInv'
  <2> DEFINE N == Cardinality(Ranged)
             L == BatchLen(N, 0)
             In(i) == Brings(s, 0, L, i)
  <2>1. /\ Ranged \in SUBSET Stored /\ N \in Nat /\ s \in [1..N -> Ranged] /\ Len(s) = N
        /\ \A i \in Ranged : \E n \in 1..N : s[n] = i
    BY PlacesAre, ListedOnce
  <2>2. digest'.found = digest.found \o Batch(s, 0) /\ Len(digest.found) = 0
    <3>1. Batch(s, 0) \in Seq(Entries)
      BY <2>1, BatchIs
    <3>2. <<>> \o Batch(s, 0) = Batch(s, 0) /\ Len(<<>>) = 0
      BY <3>1
    <3> QED BY <1>1, <1>3, <3>2
  <2>3. \A i : ~Tells(i) /\ ~TellsTwice(i)
    BY <1>1 DEF Tells, TellsTwice
  <2>4. /\ L \in Nat /\ Len(digest'.found) = 0 + L
        /\ \A i : Tells(i)' <=> Tells(i) \/ In(i)
        /\ \A i : TellsTwice(i)' => TellsTwice(i) \/ (Tells(i) /\ In(i))
        /\ \A n \in DOMAIN digest'.found :
             \/ n \in DOMAIN digest.found /\ digest'.found[n] = digest.found[n]
             \/ \E i \in Ranged : digest'.found[n] = Row(i)
    <3>1. digest'.found = digest.found \o Batch(s, Len(digest.found))
      BY <2>2
    <3>2. LET o == Len(digest.found)
              K == BatchLen(Cardinality(Ranged), o)
          IN /\ o \in Nat /\ K \in Nat /\ Len(digest'.found) = o + K
             /\ \A i : Tells(i)' <=> Tells(i) \/ Brings(s, o, K, i)
             /\ \A i : TellsTwice(i)' => TellsTwice(i) \/ (Tells(i) /\ Brings(s, o, K, i))
             /\ \A n \in DOMAIN digest'.found :
                  \/ n \in DOMAIN digest.found /\ digest'.found[n] = digest.found[n]
                  \/ \E i \in Ranged : digest'.found[n] = Row(i)
      BY <2>1, <3>1, BatchAdds
    <3> QED BY <2>2, <3>2
  <2>5. Len(digest'.found) = L /\ digest'.count = N /\ digest'.until = digest.until
        /\ digest'.kind = "report"
    BY <1>1, <1>3, <2>1, <2>4 DEF Keeps, DigestFields
  <2>6. Ranged' = Ranged /\ \A i : Place(i)' = Place(i)
    BY <1>1, <2>5 DEF Ranged, Stored, Place, Ahead, Earlier
  <2>7. N <= BatchSize => L = N
    BY <2>1, BatchSets DEF Upto, BatchLen
  <2>8. ASSUME N <= BatchSize \/ ~Tied, NEW i \in Ranged
        PROVE  In(i) <=> Place(i) < L
    <3>1. Place(i) \in Nat /\ Place(i) < N
      BY PlacesAre
    <3>2. CASE N <= BatchSize
      <4>1. L = N
        BY <2>7, <3>2
      <4>2. PICK n \in 1..N : s[n] = i
        BY <2>1
      <4>3. 0 + n = n
        BY <2>1
      <4> QED BY <3>1, <4>1, <4>2, <4>3 DEF Brings
    <3>3. CASE ~Tied
      <4>1. \A n \in 1..N : Place(s[n]) = n - 1
        BY <3>3, ListedAtPlaces
      <4>2. PICK n \in 1..N : s[n] = i
        BY <2>1
      <4>3. Place(i) = n - 1 /\ 0 + n = n
        BY <2>1, <4>1, <4>2
      <4>4. L <= N
        BY <2>1, BatchSets DEF Upto, BatchLen
      <4>5. ASSUME NEW k \in 1..L, s[0 + k] = i PROVE Place(i) < L
        <5>1. k \in 1..N /\ 0 + k = k
          BY <2>1, <2>4, <4>4
        <5>2. Place(i) = k - 1
          BY <4>1, <4>5, <5>1
        <5> QED BY <2>4, <5>2
      <4>6. Place(i) < L => n \in 1..L
        BY <2>1, <2>4, <4>3
      <4> QED BY <4>2, <4>3, <4>5, <4>6 DEF Brings
    <3> QED BY <2>8, <3>2, <3>3
  <2>9. ASSUME N <= BatchSize \/ ~Tied
        PROVE  Lost' = {} /\ Again' = {}
    <3>1. \A i \in Ranged : /\ Tells(i)' <=> Place(i) < L
                            /\ Place(i)' = Place(i) /\ Place(i) \in Nat /\ Place(i) < N
                            /\ ~TellsTwice(i)'
      BY <2>3, <2>4, <2>6, <2>8, <2>9, PlacesAre
    <3> HIDE DEF N, L, In
    <3>2. Lost' = {}
      BY <1>3, <2>1, <2>4, <2>5, <3>1 DEF Lost
    <3>3. Again' = {}
      BY <1>3, <2>1, <2>4, <2>5, <3>1 DEF Again
    <3> QED BY <3>2, <3>3
  <2>10. Unordered' \/ (Lost' = {} /\ Again' = {})
    <3>1. N <= BatchSize \/ N > BatchSize
      BY <2>1, BatchSets
    <3>2. Tied => digest'.ties
      BY <1>3, Zenon
    <3> HIDE DEF N, L, In
    <3> QED BY <2>5, <2>9, <3>1, <3>2 DEF Unordered
  <2>11. \A n \in DOMAIN digest'.found : digest'.found[n].row.start <= digest'.until
    <3>1. ASSUME NEW n \in DOMAIN digest'.found
          PROVE  digest'.found[n].row.start <= digest'.until
      <4>1. PICK i \in Ranged : digest'.found[n] = Row(i)
        BY <1>1, <2>4
      <4>2. Row(i).row = rows[i] /\ rows[i].start <= digest.until
        BY DEF Row, Ranged
      <4> QED BY <2>5, <4>1, <4>2
    <3> QED BY <3>1
  <2>12. digest'.count <= BatchSize => digest'.count <= Len(digest'.found)
    <3> HIDE DEF L, N
    <3> QED BY <2>1, <2>5, <2>7
  <2>13. shifts' \in Nat /\ Cardinality({}) = 0
    BY <1>1, BatchSets, FS_EmptySet
  <2>14. digest'.stays \subseteq Ranged'
    BY <1>3, <2>6
  <2>15. ~Read' /\ digest'.state = "paging"
    BY <1>3 DEF Read
  <2>16. Unordered' \/ (Cardinality(Lost') <= shifts' /\ Cardinality(Again') <= shifts')
    <3>1. 0 <= shifts'
      BY <2>13
    <3> QED BY <2>10, <2>13, <3>1
  <2> QED BY <2>11, <2>12, <2>14, <2>15, <2>16 DEF BatchInv
<1> QED BY <1>2, <1>3, FetchJobsDoes

(* A later batch tells the jobs at the places from the offset on.          *)
LEMMA BringsPlaces ==
  ASSUME DigestTypes, ~Tied, NEW s \in ByStart(Ranged), NEW o \in Nat, NEW i \in Ranged
  PROVE  LET L == BatchLen(Cardinality(Ranged), o)
         IN Brings(s, o, L, i) <=> o <= Place(i) /\ Place(i) < o + L
<1> DEFINE N == Cardinality(Ranged)
           L == BatchLen(N, o)
<1>1. /\ Ranged \in SUBSET Stored /\ N \in Nat /\ s \in [1..N -> Ranged]
      /\ \A j \in Ranged : \E n \in 1..N : s[n] = j
  BY PlacesAre, ListedOnce
<1>2. \A n \in 1..N : Place(s[n]) = n - 1
  BY ListedAtPlaces
<1>3. L \in Nat /\ \A k \in 1..L : o + k \in 1..N
  BY <1>1, BatchIs
<1> HIDE DEF N, L
<1>4. ASSUME NEW k \in 1..L, s[o + k] = i PROVE o <= Place(i) /\ Place(i) < o + L
  <2>1. o + k \in 1..N
    BY <1>3
  <2>2. Place(i) = (o + k) - 1
    BY <1>2, <1>4, <2>1
  <2> QED BY <1>3, <2>2
<1>5. ASSUME o <= Place(i), Place(i) < o + L PROVE \E k \in 1..L : s[o + k] = i
  <2>1. PICK n \in 1..N : s[n] = i
    BY <1>1
  <2>2. Place(i) = n - 1 /\ n \in Int
    BY <1>1, <1>2, <2>1
  <2>3. n - o \in 1..L /\ o + (n - o) = n
    BY <1>3, <1>5, <2>2
  <2>4. s[o + (n - o)] = i
    BY <2>1, <2>3
  <2> QED BY <2>3, <2>4
<1>6. Brings(s, o, L, i) <=> o <= Place(i) /\ Place(i) < o + L
  BY <1>4, <1>5 DEF Brings
<1> QED BY <1>6 DEF L, N

LEMMA FewerKeep ==
  ASSUME NEW T, IsFiniteSet(T), NEW S \in SUBSET T, NEW n \in Int, Cardinality(T) <= n
  PROVE  Cardinality(S) <= n
<1>1. Cardinality(S) <= Cardinality(T) /\ Cardinality(S) \in Nat /\ Cardinality(T) \in Nat
  BY FS_Subset, FS_CardinalityType
<1> QED BY <1>1

(* The next batch adds nothing to what is lost or told again.              *)
LEMMA NextBatchKeeps ==
  ASSUME DigestTypes, DigestTypes', BatchInv, FetchBatch
  PROVE  BatchInv'
<1>1. PICK s \in ByStart(Ranged) :
        LET batch == Batch(s, Len(digest.found))
        IN /\ digest'.found = digest.found \o batch
           /\ digest'.ties = (digest.ties \/ Tied)
           /\ digest'.state = IF batch = <<>> THEN "jobs" ELSE "paging"
  BY FetchBatchDoes
<1>2. /\ UNCHANGED <<rows, proofs, shifts>>
      /\ digest.kind = "report" /\ digest.state = "paging" /\ digest'.kind = "report"
      /\ digest'.until = digest.until /\ digest'.count = digest.count
      /\ digest'.stays = digest.stays
      /\ Len(digest.found) < digest.count
  BY FetchBatchDoes DEF Keeps, DigestFields
<1> DEFINE o == Len(digest.found)
           N == Cardinality(Ranged)
           L == BatchLen(N, o)
           In(i) == Brings(s, o, L, i)
<1>3. /\ digest.stays \subseteq Ranged
      /\ digest.count <= BatchSize => digest.count <= o
      /\ \/ Unordered
         \/ Cardinality(Lost) <= shifts /\ Cardinality(Again) <= shifts
      /\ \A n \in DOMAIN digest.found : digest.found[n].row.start <= digest.until
  BY <1>2 DEF BatchInv
<1>4. Ranged \in SUBSET Stored /\ N \in Nat
  BY PlacesAre
<1>5. /\ o \in Nat /\ L \in Nat /\ Len(digest'.found) = o + L
      /\ \A i : Tells(i)' <=> Tells(i) \/ In(i)
      /\ \A i : TellsTwice(i)' => TellsTwice(i) \/ (Tells(i) /\ In(i))
      /\ \A n \in DOMAIN digest'.found :
           \/ n \in DOMAIN digest.found /\ digest'.found[n] = digest.found[n]
           \/ \E i \in Ranged : digest'.found[n] = Row(i)
  <2>1. digest'.found = digest.found \o Batch(s, o)
    BY <1>1
  <2> QED BY <1>4, <2>1, BatchAdds
<1>6. /\ digest'.state = IF L = 0 THEN "jobs" ELSE "paging"
      /\ L = 0 => N <= o
  <2>1. Batch(s, o) \in Seq(Entries) /\ Len(Batch(s, o)) = L
    BY <1>4, <1>5, BatchIs
  <2>2. Batch(s, o) = <<>> <=> L = 0
    <3> HIDE DEF L
    <3> QED BY <2>1
  <2>3. L = 0 => N <= o
    BY <1>4, <1>5, BatchSets DEF Upto, BatchLen
  <2>4. digest'.state = IF Batch(s, o) = <<>> THEN "jobs" ELSE "paging"
    BY <1>1
  <2> QED BY <2>2, <2>3, <2>4
<1>7. ~Tied => \A i \in Ranged : /\ In(i) <=> o <= Place(i) /\ Place(i) < o + L
  BY <1>5, BringsPlaces
<1>8. /\ \A i \in Ranged : Place(i) \in Nat /\ Place(i) < N
      /\ digest.count \in Nat /\ shifts \in Nat /\ BatchSize \in Nat
      /\ IsFiniteSet(Lost) /\ IsFiniteSet(Again)
  BY PlacesAre, BatchSets
<1>9. Ranged' = Ranged /\ \A i : Place(i)' = Place(i)
  BY <1>2 DEF Ranged, Stored, Place, Ahead, Earlier
<1>10. Unordered' \/ (~Tied /\ ~Unordered)
  <2>1. Tied \/ digest.ties => digest'.ties
    BY <1>1, Zenon
  <2>2. digest.count > BatchSize
    BY <1>2, <1>3, <1>5, <1>8
  <2> QED BY <1>2, <2>1, <2>2 DEF Unordered
<1> HIDE DEF o, N, L, In
<1>11. \A n \in DOMAIN digest'.found : digest'.found[n].row.start <= digest'.until
  <2> SUFFICES ASSUME NEW n \in DOMAIN digest'.found
               PROVE  digest'.found[n].row.start <= digest'.until
    OBVIOUS
  <2>1. CASE n \in DOMAIN digest.found /\ digest'.found[n] = digest.found[n]
    BY <1>2, <1>3, <2>1
  <2>2. ASSUME NEW i \in Ranged, digest'.found[n] = Row(i)
        PROVE  digest'.found[n].row.start <= digest'.until
    <3>1. Row(i).row = rows[i] /\ rows[i].start <= digest.until
      BY DEF Row, Ranged
    <3> QED BY <1>2, <2>2, <3>1
  <2> QED BY <1>5, <2>1, <2>2
<1>12. CASE L # 0
  <2>1. digest'.state = "paging" /\ ~Read'
    BY <1>6, <1>12 DEF Read
  <2>2. digest'.stays \subseteq Ranged'
    BY <1>2, <1>3, <1>9
  <2>3. digest'.count <= BatchSize => digest'.count <= Len(digest'.found)
    BY <1>2, <1>3, <1>5, <1>8
  <2>4. ASSUME ~Tied PROVE Lost' \subseteq Lost /\ Again' \subseteq Again
    <3>1. ASSUME NEW i \in Lost' PROVE i \in Lost
      <4>1. /\ i \in digest.stays /\ i \in Ranged /\ ~Tells(i)'
            /\ Place(i) < o + L \/ Place(i) >= digest.count
        BY <1>2, <1>3, <1>5, <1>9, <3>1 DEF Lost
      <4>2. ~Tells(i) /\ ~In(i)
        BY <1>5, <4>1
      <4>3. Place(i) < o \/ Place(i) >= o + L
        BY <1>5, <1>7, <1>8, <2>4, <4>1, <4>2
      <4>4. Place(i) < o \/ Place(i) >= digest.count
        BY <1>5, <1>8, <4>1, <4>3
      <4> QED BY <4>1, <4>2, <4>4 DEF Lost, o
    <3>2. ASSUME NEW i \in Again' PROVE i \in Again
      <4>1. /\ i \in digest.stays /\ i \in Ranged
            /\ TellsTwice(i)' \/ (Tells(i)' /\ Place(i) >= o + L)
        BY <1>2, <1>3, <1>5, <1>9, <3>2 DEF Again
      <4>2. TellsTwice(i) \/ (Tells(i) /\ Place(i) >= o)
        <5>1. In(i) <=> o <= Place(i) /\ Place(i) < o + L
          BY <1>7, <2>4, <4>1
        <5> QED BY <1>5, <1>8, <4>1, <5>1
      <4> QED BY <4>1, <4>2 DEF Again, o
    <3> QED BY <3>1, <3>2
  <2>5. Unordered' \/ (Cardinality(Lost') <= shifts' /\ Cardinality(Again') <= shifts')
    <3> SUFFICES ASSUME ~Unordered'
                 PROVE  Cardinality(Lost') <= shifts' /\ Cardinality(Again') <= shifts'
      OBVIOUS
    <3>1. Lost' \subseteq Lost /\ Again' \subseteq Again
      BY <1>10, <2>4
    <3>2. Cardinality(Lost) <= shifts /\ Cardinality(Again) <= shifts
      BY <1>3, <1>10
    <3> QED BY <1>2, <1>8, <3>1, <3>2, FewerKeep
  <2> QED BY <1>11, <2>1, <2>2, <2>3, <2>5 DEF BatchInv
<1>13. CASE L = 0
  <2>1. digest'.state = "jobs"
    BY <1>6, <1>13
  <2>2. ASSUME ~Tied PROVE Missing' \subseteq Lost /\ Repeated' \subseteq Again
    <3>1. ASSUME NEW i \in Missing' PROVE i \in Lost
      <4>1. i \in digest.stays /\ i \in Ranged /\ ~Tells(i)
        BY <1>2, <1>3, <1>5, <3>1 DEF Missing
      <4>2. Place(i) < o
        BY <1>4, <1>5, <1>6, <1>8, <1>13, <4>1
      <4> QED BY <4>1, <4>2 DEF Lost, o
    <3>2. ASSUME NEW i \in Repeated' PROVE i \in Again
      <4>1. i \in digest.stays /\ i \in Ranged /\ TellsTwice(i)'
        BY <1>2, <1>3, <3>2 DEF Repeated
      <4>2. ~In(i)
        BY <1>5, <1>7, <1>8, <1>13, <2>2, <4>1
      <4> QED BY <1>5, <4>1, <4>2 DEF Again
    <3> QED BY <3>1, <3>2
  <2>3. Unordered' \/ (Cardinality(Missing') <= shifts' /\ Cardinality(Repeated') <= shifts')
    <3> SUFFICES ASSUME ~Unordered'
                 PROVE  Cardinality(Missing') <= shifts' /\ Cardinality(Repeated') <= shifts'
      OBVIOUS
    <3>1. Missing' \subseteq Lost /\ Repeated' \subseteq Again
      BY <1>10, <2>2
    <3>2. Cardinality(Lost) <= shifts /\ Cardinality(Again) <= shifts
      BY <1>3, <1>10
    <3> QED BY <1>2, <1>8, <3>1, <3>2, FewerKeep
  <2> QED BY <1>11, <2>1, <2>3 DEF BatchInv
<1> QED BY <1>12, <1>13

(* The last batch read, what is missing had been lost.                     *)
LEMMA LastBatchKeeps ==
  ASSUME DigestTypes, DigestTypes', BatchInv, LastBatch
  PROVE  BatchInv'
<1>1. /\ UNCHANGED <<rows, proofs, shifts>> /\ Keeps({"state"})
      /\ digest.kind = "report" /\ digest.state = "paging" /\ digest'.state = "jobs"
      /\ Len(digest.found) >= digest.count
  BY StateStepsDo
<1>2. /\ digest'.kind = "report" /\ digest'.until = digest.until /\ digest'.ties = digest.ties
      /\ digest'.count = digest.count /\ digest'.stays = digest.stays
      /\ digest'.found = digest.found
  BY <1>1 DEF Keeps, DigestFields
<1>3. /\ digest.stays \subseteq Ranged
      /\ \/ Unordered
         \/ Cardinality(Lost) <= shifts /\ Cardinality(Again) <= shifts
      /\ \A n \in DOMAIN digest.found : digest.found[n].row.start <= digest.until
  BY <1>1 DEF BatchInv
<1>4. Unordered' <=> Unordered
  BY <1>2 DEF Unordered
<1>5. Missing' \subseteq Lost
  <2> SUFFICES ASSUME NEW i \in Missing' PROVE i \in Lost
    OBVIOUS
  <2>1. i \in digest.stays /\ i \in Ranged /\ ~Tells(i)
    BY <1>2, <1>3 DEF Missing, Tells
  <2>2. Place(i) \in Nat /\ Len(digest.found) \in Nat /\ digest.count \in Nat
    BY <2>1, PlacesAre, FoundTypes, BatchSets
  <2>3. Place(i) < Len(digest.found) \/ Place(i) >= digest.count
    BY <1>1, <2>2
  <2> QED BY <2>1, <2>3 DEF Lost
<1>6. Repeated' \subseteq Again
  BY <1>2 DEF Repeated, Again, TellsTwice
<1>7. IsFiniteSet(Lost) /\ IsFiniteSet(Again) /\ shifts \in Nat
  BY BatchSets
<1>8. Unordered' \/ (Cardinality(Missing') <= shifts' /\ Cardinality(Repeated') <= shifts')
  BY <1>1, <1>3, <1>4, <1>5, <1>6, <1>7, FewerKeep
<1> QED BY <1>1, <1>2, <1>3, <1>8 DEF BatchInv

LEMMA OneMoreKeeps ==
  ASSUME NEW T, IsFiniteSet(T), NEW X, \A x, y \in X : x = y,
         NEW S \in SUBSET (T \cup X), NEW n \in Int, Cardinality(T) <= n
  PROVE  Cardinality(S) <= n + 1
<1>1. Cardinality(T) \in Nat
  BY FS_CardinalityType
<1>2. CASE X = {}
  <2>1. S \in SUBSET T
    BY <1>2
  <2>2. Cardinality(S) <= n
    BY <2>1, FewerKeep
  <2>3. Cardinality(S) \in Nat
    BY <2>1, FS_Subset, FS_CardinalityType
  <2> QED BY <2>2, <2>3
<1>3. ASSUME NEW x \in X PROVE Cardinality(S) <= n + 1
  <2>1. S \in SUBSET (T \cup {x})
    OBVIOUS
  <2>2. /\ IsFiniteSet(T \cup {x})
        /\ Cardinality(T \cup {x}) = Cardinality(T) \/ Cardinality(T \cup {x}) = Cardinality(T) + 1
    BY FS_AddElement
  <2>3. Cardinality(T \cup {x}) <= n + 1
    BY <1>1, <2>2
  <2> QED BY <2>1, <2>2, <2>3, FewerKeep
<1> QED BY <1>2, <1>3

(* One job moved shifts the places of those that stay by one, all of them  *)
(* the same way.                                                           *)
ShiftedUp == \A i \in digest'.stays : Place(i)' = Place(i) \/ Place(i)' = Place(i) + 1
ShiftedDown == \A i \in digest'.stays : Place(i)' = Place(i) \/ Place(i)' = Place(i) - 1

LEMMA PlacesShift ==
  ASSUME DigestTypes, DigestTypes', JobsChange, digest.stays \subseteq Ranged
  PROVE  /\ digest'.stays \subseteq digest.stays /\ digest'.stays \subseteq Ranged'
         /\ ShiftedUp \/ ShiftedDown
         /\ rows' = rows => \A i \in digest'.stays : Place(i)' = Place(i)
<1>1. /\ digest'.stays = {i \in digest.stays : rows'[i].start = rows[i].start}
      /\ Stored \subseteq Stored' /\ digest'.until = digest.until
      /\ \/ rows' = rows
         \/ \E j \in Ids, row \in Rows : rows' = [rows EXCEPT ![j] = row]
  BY ChangeDoes DEF Keeps, DigestFields
<1>2. digest'.stays \subseteq digest.stays /\ digest'.stays \subseteq Ranged'
  BY <1>1 DEF Ranged
<1>3. ASSUME Ranged' = Ranged, \A i \in Ranged : rows'[i].start = rows[i].start
      PROVE  \A i \in digest'.stays : Place(i)' = Place(i)
  <2> SUFFICES ASSUME NEW i \in digest'.stays PROVE Place(i)' = Place(i)
    OBVIOUS
  <2>1. i \in Ranged
    BY <1>2
  <2>2. Ahead(i)' = Ahead(i)
    BY <1>3, <2>1 DEF Ahead, Earlier
  <2> QED BY <2>2 DEF Place
<1>4. CASE rows' = rows
  <2>1. Ranged' = Ranged
    BY <1>1, <1>4 DEF Ranged, Stored
  <2>2. \A i \in digest'.stays : Place(i)' = Place(i)
    BY <1>3, <1>4, <2>1
  <2> QED BY <1>2, <2>2 DEF ShiftedUp
<1>5. ASSUME NEW j \in Ids, NEW row \in Rows, rows' = [rows EXCEPT ![j] = row], rows' # rows
      PROVE  ShiftedUp \/ ShiftedDown
  <2>1. /\ rows'[j] = row /\ \A i \in Ids \ {j} : rows'[i] = rows[i]
        /\ rows \in [Ids -> Rows \cup {NoRow}]
    BY <1>5 DEF DigestTypes
  <2>2. row # NoRow /\ row.start \in 0..LastDay
    BY MarkersAssumption DEF Rows
  <2>3. CASE j \in Stored /\ row.start = rows[j].start
    <3>1. \A i \in Stored : rows'[i].start = rows[i].start
      BY <2>1, <2>3, StoredIsFinite
    <3>2. Stored' = Stored
      BY <2>1, <2>2, <2>3 DEF Stored
    <3>3. Ranged' = Ranged
      BY <1>1, <3>1, <3>2 DEF Ranged
    <3>4. \A i \in digest'.stays : Place(i)' = Place(i)
      BY <1>3, <3>1, <3>3 DEF Ranged
    <3> QED BY <3>4 DEF ShiftedUp
  <2>4. CASE j \notin Stored \/ row.start # rows[j].start
    <3>1. j \notin digest'.stays
      BY <1>1, <2>1, <2>4 DEF Ranged
    <3>2. \A i \in Ids \ {j} : (i \in Ranged' <=> i \in Ranged) /\ rows'[i] = rows[i]
      BY <1>1, <2>1 DEF Ranged, Stored
    <3>3. ASSUME NEW i \in digest'.stays
          PROVE  /\ i \in Ranged /\ i \in Ranged' /\ i # j /\ i \in Ids
                 /\ i \in Int /\ rows[i].start \in Int /\ rows'[i] = rows[i]
                 /\ \A x : x # j => (x \in Ahead(i)' <=> x \in Ahead(i))
                 /\ j \in Ahead(i) <=> j \in Ranged /\ Earlier(j, i)
                 /\ j \in Ahead(i)' <=> j \in Ranged' /\ Earlier(j, i)'
      <4>1. i \in Ranged /\ i \in Ranged' /\ i # j /\ i \in Ids
        BY <1>2, <3>1 DEF Ranged, Stored
      <4>2. i \in Int /\ rows[i].start \in Int /\ rows'[i] = rows[i]
        BY <2>1, <4>1, PlacesAre
      <4>3. ASSUME NEW x, x # j PROVE x \in Ahead(i)' <=> x \in Ahead(i)
        <5>1. x \in Ranged' <=> x \in Ranged
          BY <1>1, <3>2, <4>3 DEF Ranged, Stored
        <5>2. x \in Ranged => (Earlier(x, i)' <=> Earlier(x, i))
          <6>1. x \in Ranged => rows'[x] = rows[x]
            BY <3>2, <4>3 DEF Ranged, Stored
          <6> QED BY <4>2, <6>1 DEF Earlier
        <5> QED BY <5>1, <5>2 DEF Ahead
      <4>4. j \in Ahead(i) <=> j \in Ranged /\ Earlier(j, i)
        BY DEF Ahead
      <4>5. j \in Ahead(i)' <=> j \in Ranged' /\ Earlier(j, i)'
        BY DEF Ahead
      <4> QED BY <4>1, <4>2, <4>3, <4>4, <4>5
    <3>4. ASSUME NEW i \in digest'.stays
          PROVE  /\ (j \in Ahead(i) <=> j \in Ahead(i)') => Place(i)' = Place(i)
                 /\ j \notin Ahead(i) /\ j \in Ahead(i)' => Place(i)' = Place(i) + 1
                 /\ j \in Ahead(i) /\ j \notin Ahead(i)' => Place(i)' = Place(i) - 1
      <4>1. IsFiniteSet(Ahead(i)) /\ Cardinality(Ahead(i)) \in Nat
            /\ IsFiniteSet(Ahead(i)') /\ Cardinality(Ahead(i)') \in Nat
        <5>1. IsFiniteSet(Ahead(i)) /\ Cardinality(Ahead(i)) \in Nat
          BY PlacesAre DEF Place
        <5>2. Ahead(i)' \in SUBSET Stored' /\ Stored' \in SUBSET Ids
          BY DEF Ahead, Ranged, Stored
        <5>3. Ahead(i)' \in SUBSET Ids
          BY <5>2
        <5> QED BY <5>1, <5>3, StoredIsFinite
      <4>2. ASSUME j \in Ahead(i) <=> j \in Ahead(i)' PROVE Place(i)' = Place(i)
        <5>1. \A x : x # j => (x \in Ahead(i)' <=> x \in Ahead(i))
          BY <3>3
        <5>2. \A x : x \in Ahead(i)' <=> x \in Ahead(i)
          BY <4>2, <5>1, Zenon
        <5>3. Ahead(i)' = Ahead(i)
          BY <5>2
        <5> QED BY <5>3 DEF Place
      <4>3. ASSUME j \notin Ahead(i), j \in Ahead(i)' PROVE Place(i)' = Place(i) + 1
        <5>1. Ahead(i)' = Ahead(i) \cup {j}
          BY <3>3, <4>3
        <5>2. Cardinality(Ahead(i) \cup {j}) = Cardinality(Ahead(i)) + 1
          BY <4>1, <4>3, FS_AddElement
        <5> QED BY <5>1, <5>2 DEF Place
      <4>4. ASSUME j \in Ahead(i), j \notin Ahead(i)' PROVE Place(i)' = Place(i) - 1
        <5>1. Ahead(i) = Ahead(i)' \cup {j}
          BY <3>3, <4>4
        <5>2. Cardinality(Ahead(i)' \cup {j}) = Cardinality(Ahead(i)') + 1
          BY <4>1, <4>4, FS_AddElement
        <5>3. Cardinality(Ahead(i)') = Cardinality(Ahead(i)) - 1
          BY <4>1, <5>1, <5>2
        <5> QED BY <5>3 DEF Place
      <4> QED BY <4>2, <4>3, <4>4
    <3>5. ASSUME NEW i \in digest'.stays, j \notin Ahead(i), j \in Ahead(i)',
                 NEW k \in digest'.stays, j \in Ahead(k), j \notin Ahead(k)'
          PROVE  FALSE
      <4>1. /\ j \in Ranged /\ Earlier(j, k) /\ ~Earlier(j, i)
            /\ j \in Ranged' /\ Earlier(j, i)' /\ ~Earlier(j, k)'
        BY <3>3, <3>5
      <4>2. /\ j \in Int /\ i \in Int /\ k \in Int /\ i # j /\ k # j
            /\ rows[j].start \in Int /\ rows'[j].start \in Int
            /\ rows[i].start \in Int /\ rows[k].start \in Int
            /\ rows'[i].start = rows[i].start /\ rows'[k].start = rows[k].start
        BY <2>1, <2>2, <3>3, <4>1, PlacesAre
      <4> DEFINE old == rows[j].start
                 new == rows'[j].start
                 a == rows[i].start
                 b == rows[k].start
      <4>3. /\ old < b \/ (old = b /\ j < k)
            /\ ~(old < a \/ (old = a /\ j < i))
            /\ new < a \/ (new = a /\ j < i)
            /\ ~(new < b \/ (new = b /\ j < k))
        BY <4>1, <4>2 DEF Earlier
      <4>4. old \in Int /\ new \in Int /\ a \in Int /\ b \in Int
        BY <4>2
      <4> HIDE DEF old, new, a, b
      <4> QED BY <4>2, <4>3, <4>4
    <3>6. \/ \A i \in digest'.stays : ~(j \notin Ahead(i) /\ j \in Ahead(i)')
          \/ \A i \in digest'.stays : ~(j \in Ahead(i) /\ j \notin Ahead(i)')
      BY <3>5
    <3> QED BY <3>4, <3>6 DEF ShiftedUp, ShiftedDown
  <2> QED BY <2>3, <2>4
<1>6. CASE rows' # rows
  BY <1>1, <1>2, <1>5, <1>6
<1> QED BY <1>4, <1>6

(* A change made between two batches loses at most one more job and brings *)
(* at most one back: the one it pushes over the offset or off the end.     *)
LEMMA LostAndAgainGrow ==
  ASSUME DigestTypes, DigestTypes', JobsChange, digest.stays \subseteq Ranged
  PROVE  /\ \E X \in SUBSET Ids : (\A x, y \in X : x = y) /\ Lost' \subseteq Lost \cup X
         /\ \E X \in SUBSET Ids : (\A x, y \in X : x = y) /\ Again' \subseteq Again \cup X
         /\ rows' = rows => Lost' \subseteq Lost /\ Again' \subseteq Again
<1> DEFINE o == Len(digest.found)
           count == digest.count
           Placed(p) == {i \in digest'.stays : Place(i) = p}
<1>1. /\ digest'.found = digest.found /\ digest'.count = digest.count
      /\ \A i : Tells(i)' <=> Tells(i)
      /\ \A i : TellsTwice(i)' <=> TellsTwice(i)
  BY ChangeDoes DEF Keeps, DigestFields, Tells, TellsTwice
<1>2. /\ digest'.stays \subseteq digest.stays /\ (ShiftedUp \/ ShiftedDown)
      /\ rows' = rows => \A i \in digest'.stays : Place(i)' = Place(i)
  BY PlacesShift
<1>3. /\ o \in Nat /\ count \in Nat /\ \A i \in digest'.stays : i \in Ranged /\ Place(i) \in Nat
  <2>1. o \in Nat /\ count \in Nat
    BY FoundTypes, BatchSets
  <2>2. \A i \in digest'.stays : i \in Ranged
    BY <1>2
  <2>3. \A i \in Ranged : Place(i) \in Nat
    BY PlacesAre
  <2> QED BY <2>1, <2>2, <2>3
<1>4. ASSUME NEW p PROVE Placed(p) \in SUBSET Ids /\ \A x, y \in Placed(p) : x = y
  <2>1. Placed(p) \in SUBSET Ranged
    BY <1>3
  <2>2. \A x, y \in Placed(p) : x = y
    BY <2>1, PlacesAre
  <2> QED BY <2>1, <2>2 DEF Ranged, Stored
<1>5. /\ \A i : i \in Lost' <=> /\ i \in digest'.stays /\ ~Tells(i)
                                /\ Place(i)' < o \/ Place(i)' >= count
      /\ \A i : i \in Again' <=> /\ i \in digest'.stays
                                 /\ TellsTwice(i) \/ (Tells(i) /\ Place(i)' >= o)
  BY <1>1 DEF Lost, Again
<1>6. \A i \in digest'.stays :
        /\ i \in Lost <=> ~Tells(i) /\ (Place(i) < o \/ Place(i) >= count)
        /\ i \in Again <=> TellsTwice(i) \/ (Tells(i) /\ Place(i) >= o)
  <2>1. \A i \in digest'.stays : i \in digest.stays
    BY <1>2
  <2> QED BY <2>1 DEF Lost, Again
<1>7. \A p : \A i : i \in Placed(p) <=> i \in digest'.stays /\ Place(i) = p
  OBVIOUS
<1> HIDE DEF o, count, Placed
<1> DEFINE Grow ==
       /\ \E X \in SUBSET Ids : (\A x, y \in X : x = y) /\ Lost' \subseteq Lost \cup X
       /\ \E X \in SUBSET Ids : (\A x, y \in X : x = y) /\ Again' \subseteq Again \cup X
<1>8. ASSUME ShiftedUp PROVE Grow
  <2>1. \A i \in digest'.stays : Place(i)' = Place(i) \/ Place(i)' = Place(i) + 1
    BY <1>8 DEF ShiftedUp
  <2>2. Lost' \subseteq Lost \cup Placed(count - 1)
    <3> SUFFICES ASSUME NEW i \in Lost', i \notin Lost PROVE i \in Placed(count - 1)
      OBVIOUS
    <3>1. i \in digest'.stays /\ ~Tells(i) /\ (Place(i)' < o \/ Place(i)' >= count)
      BY <1>5
    <3>2. ~(Place(i) < o \/ Place(i) >= count) /\ Place(i) \in Nat
      BY <1>3, <1>6, <3>1
    <3>3. Place(i) = count - 1
      BY <1>3, <2>1, <3>1, <3>2
    <3> QED BY <1>7, <3>1, <3>3
  <2>3. Again' \subseteq Again \cup Placed(o - 1)
    <3> SUFFICES ASSUME NEW i \in Again', i \notin Again PROVE i \in Placed(o - 1)
      OBVIOUS
    <3>1. i \in digest'.stays /\ (TellsTwice(i) \/ (Tells(i) /\ Place(i)' >= o))
      BY <1>5
    <3>2. ~TellsTwice(i) /\ Place(i)' >= o /\ ~(Place(i) >= o) /\ Place(i) \in Nat
      BY <1>3, <1>6, <3>1
    <3>3. Place(i) = o - 1
      BY <1>3, <2>1, <3>1, <3>2
    <3> QED BY <1>7, <3>1, <3>3
  <2> QED BY <1>4, <2>2, <2>3
<1>9. ASSUME ShiftedDown PROVE Grow
  <2>1. \A i \in digest'.stays : Place(i)' = Place(i) \/ Place(i)' = Place(i) - 1
    BY <1>9 DEF ShiftedDown
  <2>2. Lost' \subseteq Lost \cup Placed(o)
    <3> SUFFICES ASSUME NEW i \in Lost', i \notin Lost PROVE i \in Placed(o)
      OBVIOUS
    <3>1. i \in digest'.stays /\ ~Tells(i) /\ (Place(i)' < o \/ Place(i)' >= count)
      BY <1>5
    <3>2. ~(Place(i) < o \/ Place(i) >= count) /\ Place(i) \in Nat
      BY <1>3, <1>6, <3>1
    <3>3. Place(i) = o
      BY <1>3, <2>1, <3>1, <3>2
    <3> QED BY <1>7, <3>1, <3>3
  <2>3. Again' \subseteq Again \cup Placed(o)
    <3> SUFFICES ASSUME NEW i \in Again' PROVE i \in Again
      OBVIOUS
    <3>1. i \in digest'.stays /\ (TellsTwice(i) \/ (Tells(i) /\ Place(i)' >= o))
      BY <1>5
    <3>2. Place(i) \in Nat /\ (Place(i)' >= o => Place(i) >= o)
      BY <1>3, <2>1, <3>1
    <3> QED BY <1>6, <3>1, <3>2
  <2> QED BY <1>4, <2>2, <2>3
<1>10. ASSUME rows' = rows PROVE Lost' \subseteq Lost /\ Again' \subseteq Again
  <2>1. \A i \in digest'.stays : Place(i)' = Place(i)
    BY <1>2, <1>10
  <2> QED BY <1>5, <1>6, <2>1
<1>11. Grow
  BY <1>2, <1>8, <1>9
<1> QED BY <1>10, <1>11

LEMMA ChangesKeepBatches ==
  ASSUME DigestTypes, DigestTypes', BatchInv, JobsChange
  PROVE  BatchInv'
<1>1. /\ Keeps({"stays"})
      /\ digest'.stays = {i \in digest.stays : rows'[i].start = rows[i].start}
      /\ rows' = rows \/ digest.state = "idle" => shifts' = shifts
      /\ ~(rows' = rows \/ digest.state = "idle") => shifts' = shifts + 1
  BY ChangeDoes
<1>2. /\ digest'.kind = digest.kind /\ digest'.state = digest.state
      /\ digest'.until = digest.until /\ digest'.ties = digest.ties
      /\ digest'.count = digest.count /\ digest'.found = digest.found
  BY <1>1 DEF Keeps, DigestFields
<1>3. (Unordered' <=> Unordered) /\ (Read' <=> Read)
  BY <1>2 DEF Unordered, Read
<1>4. /\ shifts \in Nat /\ IsFiniteSet(Lost) /\ IsFiniteSet(Again)
      /\ IsFiniteSet(Missing) /\ IsFiniteSet(Repeated)
  BY BatchSets
<1>5. ASSUME digest.kind = "report", digest.state = "paging"
      PROVE  /\ digest'.stays \subseteq Ranged'
             /\ \/ Unordered'
                \/ Cardinality(Lost') <= shifts' /\ Cardinality(Again') <= shifts'
  <2>1. /\ digest.stays \subseteq Ranged
        /\ Unordered \/ (Cardinality(Lost) <= shifts /\ Cardinality(Again) <= shifts)
    BY <1>5 DEF BatchInv
  <2>2. digest'.stays \subseteq Ranged'
    BY <2>1, PlacesShift
  <2>3. CASE Unordered
    BY <1>3, <2>2, <2>3
  <2>4. CASE ~Unordered /\ rows' = rows
    <3>1. Lost' \subseteq Lost /\ Again' \subseteq Again
      BY <2>1, <2>4, LostAndAgainGrow
    <3>2. shifts' = shifts /\ Cardinality(Lost) <= shifts /\ Cardinality(Again) <= shifts
      BY <1>1, <2>1, <2>4
    <3>3. Cardinality(Lost') <= shifts /\ Cardinality(Again') <= shifts
      BY <1>4, <3>1, <3>2, FewerKeep
    <3> QED BY <2>2, <3>2, <3>3
  <2>5. CASE ~Unordered /\ rows' # rows
    <3>1. PICK X \in SUBSET Ids : (\A x, y \in X : x = y) /\ Lost' \subseteq Lost \cup X
      BY <2>1, LostAndAgainGrow
    <3>2. PICK Y \in SUBSET Ids : (\A x, y \in Y : x = y) /\ Again' \subseteq Again \cup Y
      BY <2>1, LostAndAgainGrow
    <3>3. shifts' = shifts + 1 /\ Cardinality(Lost) <= shifts /\ Cardinality(Again) <= shifts
      BY <1>1, <1>5, <2>1, <2>5
    <3>4. Cardinality(Lost') <= shifts + 1
      BY <1>4, <3>1, <3>3, OneMoreKeeps
    <3>5. Cardinality(Again') <= shifts + 1
      BY <1>4, <3>2, <3>3, OneMoreKeeps
    <3> QED BY <2>2, <3>3, <3>4, <3>5
  <2> QED BY <2>3, <2>4, <2>5
<1>6. ASSUME digest.kind = "report", Read, ~Unordered
      PROVE  Cardinality(Missing') <= shifts' /\ Cardinality(Repeated') <= shifts'
  <2>1. Cardinality(Missing) <= shifts /\ Cardinality(Repeated) <= shifts
    BY <1>6 DEF BatchInv
  <2>2. Missing' \subseteq Missing /\ Repeated' \subseteq Repeated
    BY <1>1, <1>2 DEF Missing, Repeated, Tells, TellsTwice
  <2>3. Cardinality(Missing') <= shifts /\ Cardinality(Repeated') <= shifts
    BY <1>4, <2>1, <2>2, FewerKeep
  <2>4. shifts' = shifts \/ shifts' = shifts + 1
    BY <1>1
  <2>5. Cardinality(Missing') \in Int /\ Cardinality(Repeated') \in Int
    <3>1. IsFiniteSet(Missing') /\ IsFiniteSet(Repeated')
      BY <1>4, <2>2, FS_Subset
    <3> QED BY <3>1, FS_CardinalityType
  <2> QED BY <1>4, <2>3, <2>4, <2>5
<1> QED BY <1>2, <1>3, <1>5, <1>6 DEF BatchInv

(* What happens outside the reading of the jobs leaves it all as it was.   *)
LEMMA OtherStepsKeepBatches ==
  ASSUME DigestTypes, BatchInv, UNCHANGED <<rows, shifts>>,
         digest'.kind = digest.kind, digest'.found = digest.found,
         digest'.until = digest.until, digest'.count = digest.count,
         digest'.stays = digest.stays, digest'.ties = digest.ties,
         digest'.state = "idle" => digest.state = "idle",
         digest.kind = "report" =>
           /\ digest'.state = "paging" => digest.state = "paging"
           /\ Read' => Read
  PROVE  BatchInv'
<1>1. /\ Ranged' = Ranged /\ \A i : Place(i)' = Place(i) /\ Tells(i)' = Tells(i)
                                   /\ TellsTwice(i)' = TellsTwice(i)
      /\ Unordered' = Unordered
  BY DEF Ranged, Stored, Place, Ahead, Earlier, Tells, TellsTwice, Unordered
<1>2. Lost' = Lost /\ Again' = Again /\ Missing' = Missing /\ Repeated' = Repeated
  BY <1>1 DEF Lost, Again, Missing, Repeated
<1> QED BY <1>1, <1>2 DEF BatchInv

LEMMA BatchesKept ==
  ASSUME DigestTypes, DigestTypes', BatchInv, DigestNext
  PROVE  BatchInv'
<1>1. CASE FetchJobs
  BY <1>1, FirstBatchKeeps
<1>2. CASE FetchBatch
  BY <1>2, NextBatchKeeps
<1>3. CASE LastBatch
  BY <1>3, LastBatchKeeps
<1>4. CASE JobsChange
  BY <1>4, ChangesKeepBatches
<1>5. CASE FetchNames
  <2>1. /\ UNCHANGED <<rows, shifts>> /\ Keeps({"state", "named"})
        /\ digest.state \in {"jobs", "proofs"} /\ digest'.state \in {"names", "built"}
    BY <1>5, StateStepsDo
  <2> QED BY <2>1, OtherStepsKeepBatches DEF Keeps, DigestFields, Read
<1>6. CASE FetchProofs
  <2>1. /\ UNCHANGED <<rows, shifts>> /\ Keeps({"state", "proofs", "vague"})
        /\ digest.state \in {"jobs", "names"} /\ digest'.state \in {"proofs", "built"}
    BY <1>6, FetchProofsDoes
  <2> QED BY <2>1, OtherStepsKeepBatches DEF Keeps, DigestFields, Read
<1>7. ASSUME \/ ReadStats \/ ReadHistory \/ ReadProfileJobs \/ EmbedPeople
             \/ \E c \in Customers \cup {Stranger} : FindCustomer(c)
      PROVE  BatchInv'
  <2>1. digest'.kind # "report" /\ digest'.state # "idle"
    BY <1>7, ReadStatsDoes, CardStepsDo, ProfileStepsDo DEF Keeps, DigestFields
  <2> QED BY <2>1 DEF BatchInv
<1>8. ASSUME NEW i \in Ids, AddProof(i) PROVE BatchInv'
  BY <1>8, OthersDo, OtherStepsKeepBatches DEF Read
<1>9. ASSUME NEW t \in Technicians, Leave(t) PROVE BatchInv'
  BY <1>9, OthersDo, OtherStepsKeepBatches DEF Read
<1> QED BY <1>1, <1>2, <1>3, <1>4, <1>5, <1>6, <1>7, <1>8, <1>9 DEF DigestNext, DigestStep

LEMMA ToldIs ==
  ASSUME DigestTypes, NEW i
  PROVE  (Told(i) = 0 => ~Tells(i)) /\ (Told(i) > 1 => TellsTwice(i))
<1> DEFINE D == DOMAIN digest.found
           S == {n \in D : digest.found[n].id = i}
<1>1. IsFiniteSet(D)
  BY FoundTypes, FS_Interval
<1>2. IsFiniteSet(S) /\ Told(i) = Cardinality(S) /\ Cardinality(S) \in Nat
  BY <1>1, FS_Subset, FS_CardinalityType DEF Told
<1>3. /\ Tells(i) => S # {}
      /\ \A m, n \in S : m = n \/ TellsTwice(i)
  BY DEF Tells, TellsTwice
<1> HIDE DEF D, S
<1>4. Told(i) = 0 => S = {}
  BY <1>2, FS_EmptySet
<1>5. ASSUME ~TellsTwice(i) PROVE Cardinality(S) <= 1
  <2>1. CASE S = {}
    BY <2>1, FS_EmptySet
  <2>2. ASSUME NEW n \in S PROVE Cardinality(S) <= 1
    <3>1. S = {n}
      BY <1>3, <1>5
    <3>2. Cardinality({n}) = 1
      BY FS_Singleton
    <3> QED BY <3>1, <3>2
  <2> QED BY <2>1, <2>2
<1> QED BY <1>2, <1>3, <1>4, <1>5

LEMMA ReadsOnceFollows == DigestTypes /\ BatchInv => ReportReadsOnce
<1> SUFFICES ASSUME DigestTypes, BatchInv, digest.kind = "report", Read
             PROVE  LET missed == {i \in digest.stays : Told(i) = 0}
                        repeated == {i \in digest.stays : Told(i) > 1}
                    IN /\ \/ digest.ties /\ digest.count > BatchSize
                          \/ Cardinality(missed) <= shifts /\ Cardinality(repeated) <= shifts
                       /\ \A f \in ToSet(digest.found) : f.row.start <= digest.until
  BY DEF ReportReadsOnce
<1> DEFINE missed == {i \in digest.stays : Told(i) = 0}
           repeated == {i \in digest.stays : Told(i) > 1}
<1>1. missed \in SUBSET Missing /\ repeated \in SUBSET Repeated
  BY ToldIs DEF Missing, Repeated
<1>2. \/ Unordered
      \/ Cardinality(Missing) <= shifts /\ Cardinality(Repeated) <= shifts
  BY DEF BatchInv
<1>3. shifts \in Nat /\ IsFiniteSet(Missing) /\ IsFiniteSet(Repeated)
  BY BatchSets
<1> HIDE DEF missed, repeated
<1>4. \/ digest.ties /\ digest.count > BatchSize
      \/ Cardinality(missed) <= shifts /\ Cardinality(repeated) <= shifts
  BY <1>1, <1>2, <1>3, FewerKeep DEF Unordered
<1>5. \A f \in ToSet(digest.found) : f.row.start <= digest.until
  BY DEF BatchInv, ToSet
<1> QED BY <1>4, <1>5 DEF missed, repeated

LEMMA NoProofFollows == DigestTypes /\ ProofsInv => NoProofFlagHolds
<1> SUFFICES ASSUME DigestTypes, ProofsInv, digest.kind = "report", digest.state = "built",
                    ~digest.vague, NEW f \in ToSet(digest.found), Flag(f) = "no_proof"
             PROVE  f.had = 0
  BY DEF NoProofFlagHolds
<1>1. PICK n \in DOMAIN digest.found : f = digest.found[n]
  BY DEF ToSet
<1>2. f.had \in Nat /\ digest.proofs[f.id] \in Nat /\ f.row.status \in Statuses
  BY <1>1, FoundTypes DEF Rows
<1>3. f.had <= digest.proofs[f.id]
  BY <1>1 DEF ProofsInv
<1>4. digest.proofs[f.id] = 0
  BY <1>2 DEF Flag, Open, Statuses
<1> QED BY <1>2, <1>3, <1>4

LEMMA DigestsFollow ==
  DigestTypes /\ ProofsInv /\ NamesInv /\ CardsInv /\ BatchInv => DigestsHold
<1> SUFFICES ASSUME DigestTypes, ProofsInv, NamesInv, CardsInv, BatchInv PROVE DigestsHold
  OBVIOUS
<1>1. NamelessOnlyDisabled
  BY DEF NamesInv, NamelessOnlyDisabled
<1> QED BY <1>1, ReadsOnceFollows, SectionsFollow, NoProofFollows DEF DigestsHold, CardsInv

LEMMA DigestStart ==
  ASSUME QueriesInit
  PROVE  DigestTypes /\ ProofsInv /\ NamesInv /\ CardsInv /\ BatchInv
<1>1. PICK asked \in SUBSET Technicians, until \in Int :
        digest \in {NoDigest("report", asked, until), NoDigest("card", {}, until),
                    NoDigest("profile", {}, until)}
  BY DEF QueriesInit
<1>2. PICK kind \in {"report", "card", "profile"}, who \in SUBSET Technicians :
        /\ digest = NoDigest(kind, who, until)
        /\ kind = "report" \/ who = {}
  BY <1>1
<1>3. /\ DOMAIN digest = DigestFields
      /\ digest.kind = kind /\ digest.state = "idle" /\ digest.asked = who
      /\ digest.until = until /\ digest.count = 0 /\ digest.found = <<>>
      /\ digest.stays = {} /\ digest.ties = FALSE /\ digest.named = {}
      /\ digest.proofs = [i \in Ids |-> 0] /\ digest.vague = FALSE
      /\ digest.cards = [c \in Customers |-> [jobs |-> 0, last |-> 0]]
      /\ digest.customer = Stranger /\ digest.history = {}
  BY <1>2 DEF NoDigest, DigestFields
<1>4. /\ rows \in [Ids -> Rows \cup {NoRow}]
      /\ standing \in [Technicians -> {"member", "removed", "disabled"}]
      /\ proofs \in [Ids -> Nat] /\ shifts = 0
  <2>1. 0..MaxProofs \subseteq Nat
    OBVIOUS
  <2> QED BY <2>1 DEF QueriesInit, FeedsInit
<1>5. <<>> \in Seq(Entries)
  OBVIOUS
<1>6. DigestTypes
  <2>1. /\ digest.until \in Int /\ digest.count \in Nat
        /\ digest.found \in Seq(Entries)
    BY <1>3, <1>5
  <2>4. digest.ties \in BOOLEAN
    BY <1>3, Zenon
  <2>2. digest.proofs \in [Ids -> Nat] /\ digest.stays \subseteq Ids
    BY <1>3
  <2>3. /\ digest.kind \in {"report", "card", "profile"} /\ digest.asked \subseteq Technicians
        /\ digest.kind = "profile" => digest.asked = {}
        /\ digest.state \in {"idle", "listed", "found", "not_found", "shown"}
    BY <1>2, <1>3
  <2> QED BY <1>3, <1>4, <2>1, <2>2, <2>3, <2>4 DEF DigestTypes
<1>7. ProofsInv
  BY <1>3 DEF ProofsInv
<1>8. NamesInv /\ CardsInv /\ BatchInv
  BY <1>3 DEF NamesInv, CardsInv, CardsHold, BatchInv, Read
<1> QED BY <1>6, <1>7, <1>8

DigestInv == DigestTypes /\ ProofsInv /\ NamesInv /\ CardsInv /\ BatchInv

LEMMA DigestSame ==
  ASSUME DigestInv, UNCHANGED <<rows, digestVars>>
  PROVE  DigestInv'
<1>1. UNCHANGED <<rows, standing, proofs, digest, shifts>>
  BY DEF digestVars
<1>2. DigestTypes'
  BY <1>1 DEF DigestInv, DigestTypes
<1>3. ProofsInv' /\ NamesInv'
  BY <1>1 DEF DigestInv, ProofsInv, NamesInv, Performers
<1>4. CardsInv'
  <2>1. \A c : Own(c)' = Own(c) /\ Starts(c)' = Starts(c)
    BY <1>1 DEF Own, Starts, Stored
  <2>2. CardsHold' = CardsHold
    BY <1>1 DEF CardsHold
  <2> QED BY <1>1, <2>1, <2>2 DEF DigestInv, CardsInv
<1>5. BatchInv'
  BY <1>1, OtherStepsKeepBatches DEF DigestInv, Read
<1> QED BY <1>2, <1>3, <1>4, <1>5 DEF DigestInv

LEMMA DigestKeeps == DigestInv /\ [QueriesNext]_<<feedVars, digestVars>> => DigestInv'
<1> SUFFICES ASSUME DigestInv, [QueriesNext]_<<feedVars, digestVars>> PROVE DigestInv'
  OBVIOUS
<1>1. CASE DigestNext
  <2>1. DigestTypes'
    BY <1>1, TypesKept DEF DigestInv
  <2> QED BY <1>1, <2>1, ProofsKept, NamesKept, CardsKept, BatchesKept DEF DigestInv
<1>2. CASE (PageStep \/ ProfileStep \/ DetailStep) /\ UNCHANGED digestVars
  <2>1. UNCHANGED rows
    BY <1>2 DEF PageStep, FirstPage, NextPage, Misdirect, ProfileStep, AskProfile, Count,
      DetailStep, FetchJob, FetchLog
  <2> QED BY <1>2, <2>1, DigestSame
<1>3. CASE UNCHANGED <<feedVars, digestVars>>
  BY <1>3, DigestSame DEF feedVars
<1> QED BY <1>1, <1>2, <1>3 DEF QueriesNext

(* Reading digests is no step of the lists, and a change of jobs is one.   *)
LEMMA QueriesAreFeeds ==
  ASSUME [QueriesNext]_<<feedVars, digestVars>> PROVE [FeedsNext]_feedVars
<1>1. CASE DigestStep
  BY <1>1 DEF DigestStep, FetchJobs, FetchBatch, LastBatch, FetchNames, FetchProofs, ReadStats,
    ReadHistory, FindCustomer, ReadProfileJobs, EmbedPeople
<1>2. CASE JobsChange
  BY <1>2 DEF JobsChange, FeedsNext
<1>3. CASE (\E i \in Ids : AddProof(i)) \/ \E t \in Technicians : Leave(t)
  BY <1>3 DEF AddProof, Leave
<1>4. CASE PageStep \/ ProfileStep \/ DetailStep
  BY <1>4 DEF FeedsNext
<1> QED BY <1>1, <1>2, <1>3, <1>4 DEF QueriesNext, DigestNext

(* The report tells every job that stays in its range once, but for one    *)
(* per change made while it is read and for the order of equal starts; its *)
(* sections add up to its overall line; a job it calls done without proof  *)
(* had none; who goes unnamed is disabled; and a customer's card agrees    *)
(* with the history opened next: whatever jobs are added, moved and moved  *)
(* on, whatever proofs are attached and whoever leaves between the reads.  *)
THEOREM QueriesAreConsistent == QueriesSpec => []QueriesFitTogether
<1>1. QueriesInit => DigestInv /\ ProfileInv /\ DetailInv
  BY DigestStart, ProfileStart, DetailStart DEF DigestInv, QueriesInit
<1>2. DigestInv /\ ProfileInv /\ DetailInv /\ [QueriesNext]_<<feedVars, digestVars>>
        => DigestInv' /\ ProfileInv' /\ DetailInv'
  BY DigestKeeps, QueriesAreFeeds, ProfileSteps, DetailKeeps
<1>3. DigestInv /\ ProfileInv /\ DetailInv => QueriesFitTogether
  <2>1. DetailInv => DetailLogCovers
    BY DEF DetailInv, DetailLogCovers
  <2> QED BY <2>1, CountsFollow, DigestsFollow
        DEF DigestInv, QueriesFitTogether, ReadsFitTogether
<1> QED BY <1>1, <1>2, <1>3, PTL DEF QueriesSpec

-----------------------------------------------------------------------------
(***************************************************************************)
(* What the screens show of one employee's days.                           *)
(***************************************************************************)
Fixes == [status : Fixed \cup {None}, in : Instant, out : Instant]

ViewsInv == days \in Seq(RowOf(Fixes)) /\ closed \subseteq Places

LEMMA RowsAre ==
  ASSUME ViewsInv
  PROVE  /\ Today \in Nat
         /\ \A i \in 1..Today : days[i] \in RowOf(Fixes)
BY DEF ViewsInv, Today

LEMMA FixesAre == NoFix \in Fixes /\ Corrections \subseteq Fixes
<1>1. NoFix \in Fixes
  BY DEF NoFix, Fixes, Instant
<1>2. \A s \in Fixed : [NoFix EXCEPT !.status = s] \in Fixes
  BY <1>1 DEF Fixes
<1>3. Start \in Instant /\ End \in Instant
  BY HoursAssumption DEF Instant
<1>4. [NoFix EXCEPT !.in = Start] \in Fixes /\ [NoFix EXCEPT !.in = Start, !.out = End] \in Fixes
  BY <1>1, <1>3 DEF Fixes
<1> QED BY <1>1, <1>2, <1>4 DEF Corrections

LEMMA ViewsStart == ViewsInit => ViewsInv
BY DEF ViewsInit, ViewsInv

LEMMA ViewsStep == ViewsInv /\ [ViewsNext]_viewVars => ViewsInv'
<1> SUFFICES ASSUME ViewsInv, [ViewsNext]_viewVars PROVE ViewsInv'
  OBVIOUS
<1> USE DEF ViewsInv
<1>1. CASE DayPasses
  <2>1. PICK row \in DayRows : days' = Append(days, row) /\ closed' = closed
    BY <1>1 DEF DayPasses
  <2>2. row \in RowOf({NoFix})
    BY RowsAssumption
  <2>3. row \in RowOf(Fixes)
    BY <2>2, FixesAre DEF RowOf
  <2> QED BY <2>1, <2>3
<1>2. ASSUME NEW i \in 1..Today, NEW fix \in Corrections \cup {NoFix},
             days' = [days EXCEPT ![i].fix = fix], closed' = closed
      PROVE  ViewsInv'
  <2>1. fix \in Fixes
    BY FixesAre
  <2>2. days[i] \in RowOf(Fixes)
    BY RowsAre
  <2>3. [days[i] EXCEPT !.fix = fix] \in RowOf(Fixes)
    BY <2>1, <2>2 DEF RowOf
  <2>4. days' = [days EXCEPT ![i] = [days[i] EXCEPT !.fix = fix]]
    BY <1>2
  <2>5. days' \in Seq(RowOf(Fixes))
    BY <2>3, <2>4 DEF Today
  <2> QED BY <1>2, <2>5
<1>3. CASE Today > 0 /\ EndTracking
  <2>1. closed' = closed /\ days' = [days EXCEPT ![Today].enrolled = "no"] /\ Today \in 1..Today
    BY <1>3, RowsAre DEF EndTracking
  <2>2. days[Today] \in RowOf(Fixes)
    BY <2>1, RowsAre
  <2>3. [days[Today] EXCEPT !.enrolled = "no"] \in RowOf(Fixes)
    BY <2>2 DEF RowOf
  <2>4. days' = [days EXCEPT ![Today] = [days[Today] EXCEPT !.enrolled = "no"]]
    BY <2>1
  <2>5. days' \in Seq(RowOf(Fixes))
    BY <2>1, <2>3, <2>4 DEF Today
  <2> QED BY <2>1, <2>5
<1>4. ASSUME NEW place \in Places, ArchivePlace(place) PROVE ViewsInv'
  BY <1>4 DEF ArchivePlace
<1>5. CASE UNCHANGED viewVars
  BY <1>5 DEF viewVars
<1> QED BY <1>1, <1>2, <1>3, <1>4, <1>5 DEF ViewsNext, CorrectDay, RemoveCorrection

-----------------------------------------------------------------------------
(* A row and its cell.                                                     *)
LEMMA InstantsAre ==
  ASSUME NEW row \in RowOf(Fixes)
  PROVE  /\ Instants(row) \in [{"in", "out"} -> Instant]
         /\ CheckedIn(row) => Instants(row)["in"] \in Int
         /\ CheckedOut(row) => Instants(row)["out"] \in Int
         /\ row.fix.status \in Fixed \cup {None}
         /\ row.gps.in \in Instant /\ row.gps.out \in Instant
         /\ row.off \in OffKinds \cup {None} /\ row.ruled \in BOOLEAN /\ row.place \in Places
         /\ row.leave.state = "approved" => row.leave.part \in LeaveParts
<1>1. row.fix \in Fixes /\ row.gps \in [in : Instant, out : Instant]
  BY DEF RowOf
<1>2. row.fix["in"] \in Instant /\ row.fix["out"] \in Instant
      /\ row.gps["in"] \in Instant /\ row.gps["out"] \in Instant
      /\ row.fix.status \in Fixed \cup {None}
  BY <1>1 DEF Fixes
<1>3. Instants(row) \in [{"in", "out"} -> Instant]
  BY <1>2 DEF Instants
<1>4. row.leave.state = "approved" => row.leave.part \in LeaveParts
  BY DEF RowOf, NoLeave
<1>5. row.off \in OffKinds \cup {None} /\ row.ruled \in BOOLEAN /\ row.place \in Places
  BY DEF RowOf
<1>6. CheckedIn(row) => Instants(row)["in"] \in Int
  BY <1>3 DEF CheckedIn, Instant
<1>7. CheckedOut(row) => Instants(row)["out"] \in Int
  BY <1>3 DEF CheckedOut, Instant
<1> QED BY <1>2, <1>3, <1>4, <1>5, <1>6, <1>7

(* The statuses the ladder gives a day that no correction fixed.           *)
LEMMA LadderIs ==
  ASSUME NEW row \in RowOf(Fixes), NEW past \in BOOLEAN
  PROVE  LET status == StatusOf(row, past) IN
         /\ row.fix.status # None => status = row.fix.status /\ status \in Fixed
         /\ row.fix.status = None /\ ~TrackedOn(row) => status = "not_tracked"
         /\ row.fix.status = None /\ TrackedOn(row) =>
              /\ row.off # None =>
                   status = IF CheckedIn(row) THEN "worked_on_holiday" ELSE row.off
              /\ row.off = None =>
                   status \in {"leave", "half_day_leave", "present", "half_day", "absent",
                               "checkout_missing", "in_progress", "not_checked_in_yet"}
         /\ status = "half_day_leave" =>
              /\ row.leave.state = "approved"
              /\ past \/ CheckedOut(row) \/ ~CheckedIn(row)
         /\ status = "leave" => row.leave.state = "approved" /\ ~CheckedIn(row)
         /\ row.fix.status = None /\ CheckedIn(row) /\ ~CheckedOut(row) /\ TrackedOn(row) =>
              status \in IF past THEN {"worked_on_holiday", "half_day_leave", "checkout_missing"}
                         ELSE {"worked_on_holiday", "in_progress"}
         /\ status = "checkout_missing" => past /\ CheckedIn(row) /\ ~CheckedOut(row)
         /\ status \in {"in_progress", "present", "half_day"} /\ row.fix.status = None =>
              CheckedIn(row)
         /\ status = "not_checked_in_yet" => ~CheckedIn(row)
         /\ status = "absent" /\ row.fix.status = None /\ ~past => CheckedOut(row)
<1> DEFINE status == StatusOf(row, past)
<1> USE InstantsAre, RowsAssumption DEF OffKinds, Fixed
<1>1. Grade(row) \in {"present", "half_day", "absent"}
  BY DEF Grade
<1>2. CheckedOut(row) => CheckedIn(row)
  BY DEF CheckedOut
<1>3. row.fix.status # None => status = row.fix.status /\ status \in Fixed
  BY DEF StatusOf
<1>4. ASSUME row.fix.status = None, ~TrackedOn(row) PROVE status = "not_tracked"
  BY <1>4 DEF StatusOf
<1>5. ASSUME row.fix.status = None, TrackedOn(row), row.off # None
      PROVE  status = IF CheckedIn(row) THEN "worked_on_holiday" ELSE row.off
  BY <1>5 DEF StatusOf
<1>6. ASSUME row.fix.status = None, TrackedOn(row), row.off = None
      PROVE  \/ status = "leave" /\ row.leave.state = "approved" /\ ~CheckedIn(row)
             \/ status = "half_day_leave" /\ row.leave.state = "approved"
                  /\ (past \/ CheckedOut(row) \/ ~CheckedIn(row))
             \/ CheckedOut(row) /\ status = Grade(row)
             \/ past /\ ~CheckedOut(row) /\ CheckedIn(row) /\ status = "checkout_missing"
             \/ past /\ ~CheckedIn(row) /\ status = "absent"
             \/ ~past /\ ~CheckedOut(row) /\ CheckedIn(row) /\ status = "in_progress"
             \/ ~past /\ ~CheckedIn(row) /\ status = "not_checked_in_yet"
  BY <1>6, <1>2 DEF StatusOf
<1> HIDE DEF status
<1> QED BY <1>1, <1>2, <1>3, <1>4, <1>5, <1>6 DEF status

(* What the cell adds: credits in half days, minutes, and the open mark.   *)
LEMMA CellIs ==
  ASSUME NEW row \in RowOf(Fixes), NEW past \in BOOLEAN
  PROVE  LET cell == CellOf(row, past) IN
         /\ cell.status = StatusOf(row, past)
         /\ cell.worked \in 0..2 /\ cell.leave \in 0..2 /\ cell.offWork \in 0..2
         /\ cell.worked > 0 => cell.status \in Fixed \cup {"half_day_leave"}
         /\ cell.leave > 0 <=> cell.status \in {"leave", "half_day_leave"}
         /\ cell.status = "absent" => cell.worked = 0
         /\ cell.worked + cell.leave <= IF cell.status \in OffKinds THEN 0 ELSE 2
         /\ cell.status \in {"not_tracked"} => cell.worked + cell.leave + cell.offWork = 0
         /\ cell.open = LeftOpen(row, cell.status, past)
<1> DEFINE status == StatusOf(row, past)
           half == row.ruled /\ CheckedOut(row) /\ WorkedMinutes(row) >= HalfDay
           cell == CellOf(row, past)
<1>1. \A g : Worth(g) \in 0..2 /\ Worth("absent") = 0
  BY DEF Worth
<1>2. /\ cell.status = status
      /\ cell.worked = CASE status \in Fixed -> Worth(status)
                         [] status = "half_day_leave" /\ half -> 1
                         [] OTHER -> 0
      /\ cell.leave = CASE status = "leave" -> 2 [] status = "half_day_leave" -> 1 [] OTHER -> 0
      /\ cell.offWork = IF status = "worked_on_holiday" /\ CheckedOut(row)
                        THEN Worth(Grade(row)) ELSE 0
      /\ cell.open = LeftOpen(row, status, past)
  BY DEF CellOf
<1> HIDE DEF status, half, cell
<1>3. /\ cell.worked \in 0..2 /\ cell.leave \in 0..2 /\ cell.offWork \in 0..2
      /\ cell.worked > 0 => cell.status \in Fixed \cup {"half_day_leave"}
      /\ cell.leave > 0 <=> cell.status \in {"leave", "half_day_leave"}
      /\ cell.status = "absent" => cell.worked = 0
  BY <1>1, <1>2 DEF Fixed
<1>4. cell.worked + cell.leave <= IF cell.status \in OffKinds THEN 0 ELSE 2
  BY <1>1, <1>2 DEF Fixed, OffKinds
<1>5. cell.status \in {"not_tracked"} => cell.worked + cell.leave + cell.offWork = 0
  BY <1>2 DEF Fixed
<1> QED BY <1>2, <1>3, <1>4, <1>5 DEF status, cell

LEMMA CellsAre ==
  ASSUME ViewsInv, NEW i \in 1..Today
  PROVE  /\ days[i] \in RowOf(Fixes) /\ (i < Today) \in BOOLEAN
         /\ Cell(i) = CellOf(days[i], i < Today)
         /\ Cell(i).status = StatusOf(days[i], i < Today)
         /\ Cell(i).worked \in 0..2 /\ Cell(i).leave \in 0..2 /\ Cell(i).offWork \in 0..2
<1> DEFINE past == i < Today
<1>1. days[i] \in RowOf(Fixes) /\ past \in BOOLEAN
  BY RowsAre
<1>2. Cell(i) = CellOf(days[i], past)
  BY DEF Cell
<1> HIDE DEF past
<1>3. /\ CellOf(days[i], past).status = StatusOf(days[i], past)
      /\ CellOf(days[i], past).worked \in 0..2 /\ CellOf(days[i], past).leave \in 0..2
      /\ CellOf(days[i], past).offWork \in 0..2
  BY <1>1, CellIs
<1> QED BY <1>1, <1>2, <1>3 DEF past

LEMMA OpenMarks ==
  ASSUME NEW row \in RowOf(Fixes), NEW past \in BOOLEAN
  PROVE  CellOf(row, past).open <=>
           /\ past /\ row.fix.status = None /\ row.enrolled # "no"
           /\ CheckedIn(row) /\ ~CheckedOut(row)
<1> DEFINE status == StatusOf(row, past)
<1>1. CellOf(row, past).open = LeftOpen(row, status, past)
  BY CellIs
<1>2. CheckedIn(row) => (TrackedOn(row) <=> row.enrolled # "no")
  BY DEF TrackedOn
<1>3. status \in {"worked_on_holiday", "half_day_leave", "checkout_missing"}
        => row.fix.status = None /\ TrackedOn(row)
  BY LadderIs, InstantsAre DEF Fixed
<1>4. past /\ row.fix.status = None /\ TrackedOn(row) /\ CheckedIn(row) /\ ~CheckedOut(row)
        => status \in {"worked_on_holiday", "half_day_leave", "checkout_missing"}
  BY LadderIs
<1> HIDE DEF status
<1> QED BY <1>1, <1>2, <1>3, <1>4 DEF LeftOpen

LEMMA StripFollows == ViewsInv => StripFollowsMarks
<1> SUFFICES ASSUME ViewsInv PROVE StripFollowsMarks
  OBVIOUS
<1> DEFINE open == {i \in 1..Today : Cell(i).open}
<1>1. ASSUME NEW i \in 1..Today
      PROVE  Cell(i).open <=>
               /\ i < Today /\ days[i].fix.status = None /\ days[i].enrolled # "no"
               /\ CheckedIn(days[i]) /\ ~CheckedOut(days[i])
  BY CellsAre, OpenMarks
<1>2. \A i \in open : InCount(i)
  BY <1>1 DEF InCount, TrackedOn
<1>3. CheckoutMissing(1..Today) = Cardinality(open)
  <2>1. {i \in TrackedIn(1..Today) : Cell(i).open} = open
    BY <1>2 DEF TrackedIn
  <2> QED BY <2>1 DEF CheckoutMissing
<1>4. OpenStrip = {i \in open : days[i].place \notin closed}
  <2>1. Today \in Nat
    BY RowsAre
  <2>2. \A i : i \in 1..(Today - 1) <=> i \in 1..Today /\ i < Today
    BY <2>1
  <2> QED BY <1>1, <2>2 DEF OpenStrip
<1> QED BY <1>3, <1>4 DEF StripFollowsMarks

LEMMA BucketIs ==
  ASSUME NEW row \in RowOf(Fixes), TrackedOn(row)
  PROVE  LET status == StatusOf(row, FALSE) IN
         /\ Bucket(row) \in {"checkedIn", "onLeave", "shortDay", "notCheckedIn"}
         /\ Bucket(row) = "checkedIn" <=> status \in Presence
         /\ Bucket(row) = "onLeave" <=> status \in {"leave", "half_day_leave"}
         /\ Bucket(row) = "shortDay" => status = "absent" /\ CheckedOut(row)
         /\ CheckedIn(row) /\ Bucket(row) = "notCheckedIn" => row.fix.status = "absent"
<1> DEFINE status == StatusOf(row, FALSE)
<1>1. /\ Bucket(row) \in {"checkedIn", "onLeave", "shortDay", "notCheckedIn"}
      /\ Bucket(row) = "checkedIn" <=> status \in Presence
      /\ Bucket(row) = "onLeave" <=> status \in {"leave", "half_day_leave"}
      /\ Bucket(row) = "shortDay" => status = "absent" /\ CheckedOut(row)
      /\ Bucket(row) = "notCheckedIn" =>
           /\ status \notin Presence \cup {"leave", "half_day_leave"}
           /\ status = "absent" => row.fix.status # None \/ ~CheckedOut(row)
  BY DEF Bucket, Presence
<1>2. ASSUME CheckedIn(row), Bucket(row) = "notCheckedIn" PROVE row.fix.status = "absent"
  <2>1. CASE row.fix.status # None
    BY <1>1, <1>2, <2>1, LadderIs DEF Presence, Fixed
  <2>2. CASE row.fix.status = None /\ row.off # None
    BY <1>1, <1>2, <2>2, LadderIs DEF Presence
  <2>3. CASE row.fix.status = None /\ row.off = None
    BY <1>1, <1>2, <2>3, LadderIs DEF Presence
  <2> QED BY <2>1, <2>2, <2>3
<1> QED BY <1>1, <1>2

LEMMA TodayIs ==
  ASSUME ViewsInv, Today > 0, InCount(Today)
  PROVE  /\ days[Today] \in RowOf(Fixes) /\ TrackedOn(days[Today])
         /\ Cell(Today) = CellOf(days[Today], FALSE)
         /\ Cell(Today).status = StatusOf(days[Today], FALSE)
<1>1. Today \in 1..Today /\ ~(Today < Today)
  BY RowsAre
<1>2. (Today < Today) = FALSE
  BY <1>1
<1> QED BY <1>1, <1>2, CellsAre DEF InCount

LEMMA TileFollows == ViewsInv => TileFollowsCell
<1> SUFFICES ASSUME ViewsInv, Today > 0, InCount(Today)
             PROVE  LET row == days[Today] IN
                    /\ CheckedIn(row) /\ Bucket(row) = "notCheckedIn" => row.fix.status = "absent"
                    /\ Bucket(row) = "shortDay" => Cell(Today).worked = 0 /\ CheckedOut(row)
                    /\ Bucket(row) = "onLeave" <=> Cell(Today).leave > 0
  BY DEF TileFollowsCell
<1> DEFINE row == days[Today]
<1>1. row \in RowOf(Fixes) /\ TrackedOn(row) /\ Cell(Today) = CellOf(row, FALSE)
  BY TodayIs
<1> HIDE DEF row
<1> QED BY <1>1, BucketIs, CellIs DEF row

LEMMA LineFollows == ViewsInv => LineFollowsCell
<1> SUFFICES ASSUME ViewsInv, Today > 0, InCount(Today)
             PROVE  LET row == days[Today]
                        line == Pulse(row)
                    IN /\ line.status = "onLeave" <=> line.leave # None
                       /\ line.late > 0 => line.late = Cell(Today).late /\ line.status = "late"
                       /\ \A f \in {"in", "out"} :
                            line[f] # Instants(row)[f] => row.gps[f] # None /\ row.fix[f] # None
                       /\ line.status \in {"late", "checkedIn"} /\ line.in = None =>
                            row.fix.status # None
  BY DEF LineFollowsCell
<1> DEFINE row == days[Today]
           line == Pulse(row)
           shown(f) == IF row.gps[f] # None THEN row.gps[f] ELSE row.fix[f]
           late == Bucket(row) = "checkedIn" /\ Cell(Today).late > 0
<1>1. row \in RowOf(Fixes) /\ TrackedOn(row) /\ Cell(Today) = CellOf(row, FALSE)
  BY TodayIs
<1>2. /\ line.status = IF late THEN "late" ELSE Bucket(row)
      /\ line.in = shown("in") /\ line.out = shown("out")
      /\ line.late = IF late THEN Cell(Today).late ELSE 0
      /\ line.leave = IF Bucket(row) = "onLeave" /\ row.leave.state = "approved"
                      THEN row.leave.part ELSE None
  BY <1>1 DEF Pulse
<1>3. \A f \in {"in", "out"} : Instants(row)[f] = IF row.fix[f] # None THEN row.fix[f] ELSE row.gps[f]
  BY DEF Instants
<1>4. line["in"] = shown("in") /\ line["out"] = shown("out")
  BY <1>2
<1> HIDE DEF row, line
<1>5. line.status = "onLeave" <=> line.leave # None
  <2>1. Bucket(row) = "onLeave" => row.leave.state = "approved"
    BY <1>1, BucketIs, LadderIs
  <2>2. row.leave.state = "approved" => row.leave.part \in LeaveParts
    BY <1>1, InstantsAre
  <2>3. row.leave.state = "approved" => row.leave.part # None
    BY <2>2, RowsAssumption
  <2>4. late => Bucket(row) # "onLeave"
    OBVIOUS
  <2> QED BY <1>2, <2>1, <2>3, <2>4
<1>6. line.late > 0 => line.late = Cell(Today).late /\ line.status = "late"
  BY <1>2
<1>7. \A f \in {"in", "out"} :
        line[f] # Instants(row)[f] => row.gps[f] # None /\ row.fix[f] # None
  BY <1>3, <1>4
<1>8. ASSUME line.status \in {"late", "checkedIn"}, line.in = None
      PROVE  row.fix.status # None
  <2>1. Bucket(row) = "checkedIn"
    BY <1>1, <1>2, <1>8, BucketIs
  <2>2. StatusOf(row, FALSE) \in Presence
    BY <1>1, <2>1, BucketIs
  <2>3. Instants(row)["in"] = None
    BY <1>2, <1>3, <1>8
  <2>4. ~CheckedIn(row)
    BY <2>3 DEF CheckedIn
  <2>5. row.fix.status # None \/ CheckedIn(row)
    BY <1>1, <2>2, LadderIs, InstantsAre DEF Presence, OffKinds
  <2> QED BY <2>4, <2>5
<1> QED BY <1>5, <1>6, <1>7, <1>8 DEF row, line

LEMMA PickerFollows == ViewsInv => PickerAddsUp
<1> SUFFICES ASSUME ViewsInv, Today > 0, NEW f \in {"tracked", "checkedIn"}
             PROVE  SumOf([place \in Places \ closed |-> OfficeLines[place][f]]) = Tiles({})[f]
  BY DEF PickerAddsUp
<1> DEFINE row == days[Today]
           T == Places \ closed
           w == [place \in T |-> OfficeLines[place][f]]
           all == Tiles({})[f]
<1>1. /\ all \in {0, 1}
      /\ all = 1 => row.place \notin closed
      /\ \A place \in T : Tiles({place})[f] = IF place = row.place THEN all ELSE 0
  BY DEF Tiles, Candidate
<1>2. \A place \in T : w[place] = IF place = row.place THEN all ELSE 0
  BY <1>1 DEF OfficeLines
<1>3. row.place \in Places
  BY RowsAre, InstantsAre
<1>4. w \in [T -> Nat]
  BY <1>1, <1>2
<1> HIDE DEF row, w, all
<1>5. SumOf(w) = all
  <2>1. /\ \A u : u \in Units(w) <=> \E x \in T : \E m \in 1..w[x] : u = <<x, m>>
        /\ SumOf(w) = Cardinality(Units(w))
    BY <1>4 DEF SumOf, Units
  <2>2. CASE all = 0
    <3>1. Units(w) = {}
      BY <1>2, <2>1, <2>2
    <3> QED BY <2>1, <2>2, <3>1, FS_EmptySet
  <2>3. CASE all = 1
    <3>1. row.place \in T
      BY <1>1, <1>3, <2>3 
    <3>2. \A u : u \in Units(w) <=> u = <<row.place, 1>>
      BY <1>2, <2>1, <2>3, <3>1
    <3>3. Units(w) = {<<row.place, 1>>}
      BY <3>2
    <3> QED BY <2>1, <2>3, <3>3, FS_Singleton
  <2> QED BY <1>1, <2>2, <2>3
<1> QED BY <1>5 DEF w, all

LEMMA LatenessHolds == ViewsInv => LatenessToldHolds
<1> SUFFICES ASSUME ViewsInv, Today > 0, InCount(Today),
                    days[Today].gps.in # None, days[Today].fix = NoFix
             PROVE  LET row == days[Today]
                        cell == Cell(Today)
                        told(minutes, flagged, half) ==
                          \/ minutes = flagged
                          \/ row.off # None /\ flagged = 0
                          \/ row.leave.part = half /\ minutes < flagged
                    IN /\ told(ToldLate(row), cell.late, "first_half")
                       /\ told(ToldEarly(row), cell.early, "second_half")
                       /\ told(ScreenLate(row), cell.late, None)
                       /\ told(ScreenEarly(row), cell.early, None)
  BY DEF LatenessToldHolds
<1> DEFINE row == days[Today]
           cell == Cell(Today)
           status == StatusOf(row, FALSE)
<1>1. row \in RowOf(Fixes) /\ TrackedOn(row) /\ cell = CellOf(row, FALSE)
  BY TodayIs
<1>2. Instants(row)["in"] = row.gps.in /\ Instants(row)["out"] = row.gps.out
  BY DEF Instants, NoFix
<1>3. CheckedIn(row) /\ (CheckedOut(row) <=> row.gps.out # None)
  BY <1>2 DEF CheckedIn, CheckedOut
<1>4. /\ cell.late = IF Flagged(row, status) THEN Later(row.gps.in, Start + Cutoff) ELSE 0
      /\ cell.early = IF Flagged(row, status) /\ CheckedOut(row)
                      THEN Later(End, row.gps.out) ELSE 0
  <2>1. /\ cell.late = IF Flagged(row, status)
                       THEN Later(Instants(row).in, Start + Cutoff) ELSE 0
        /\ cell.early = IF Flagged(row, status) /\ CheckedOut(row)
                        THEN Later(End, Instants(row).out) ELSE 0
    <3> HIDE DEF cell
    <3> QED BY <1>1 DEF CellOf
  <2>2. Instants(row).in = row.gps.in /\ Instants(row).out = row.gps.out
    BY <1>2
  <2> HIDE DEF cell, status, row
  <2> QED BY <2>1, <2>2
<1>5. row.gps.in \in Int /\ (row.gps.out # None => row.gps.out \in Int)
  BY <1>1, <1>2, <1>3, InstantsAre
<1>6. row.fix.status = None
  BY DEF NoFix
<1>7. row.off = None => status \notin {"not_tracked", "worked_on_holiday"}
  BY <1>1, <1>6, LadderIs
<1>8. row.off # None => status = "worked_on_holiday"
  BY <1>1, <1>3, <1>6, LadderIs
<1>9. /\ Start \in Nat /\ End \in Nat /\ Cutoff \in Nat
      /\ Midpoint \in Int /\ Start <= Midpoint /\ Midpoint <= End
  BY HoursAssumption DEF Midpoint
<1> HIDE DEF row, cell, status
<1>10. CASE row.off # None
  BY <1>4, <1>8, <1>10 DEF Flagged, row, cell
<1>11. CASE row.off = None /\ ~row.ruled
  BY <1>4, <1>11 DEF Flagged, ToldLate, ToldEarly, ScreenLate, ScreenEarly, row, cell
<1>12. CASE row.off = None /\ row.ruled
  <2>1. /\ cell.late = Later(row.gps.in, Start + Cutoff)
        /\ cell.early = IF row.gps.out # None THEN Later(End, row.gps.out) ELSE 0
    BY <1>3, <1>4, <1>7, <1>12 DEF Flagged
  <2>2. ScreenLate(row) = cell.late /\ ScreenEarly(row) = cell.early
    BY <1>12, <2>1 DEF ScreenLate, ScreenEarly
  <2>3. ToldLate(row) = cell.late \/ (row.leave.part = "first_half" /\ ToldLate(row) < cell.late)
    BY <1>5, <1>9, <1>12, <2>1 DEF ToldLate, ExpectedStart, Later
  <2>4. ToldEarly(row) = cell.early \/ (row.leave.part = "second_half" /\ ToldEarly(row) < cell.early)
    BY <1>5, <1>9, <1>12, <2>1 DEF ToldEarly, ExpectedEnd, Later
  <2> QED BY <2>2, <2>3, <2>4 DEF row, cell
<1> QED BY <1>10, <1>11, <1>12

-----------------------------------------------------------------------------
(* The sums over counted days.                                             *)
LEMMA LeastOf ==
  ASSUME NEW S, S \subseteq Nat, S # {}
  PROVE  \E x \in S : \A y \in S : x <= y
<1>1. IsWellFoundedOn(OpToRel(<, Nat), Nat)
  BY NatLessThanWellFounded
<1>2. PICK x \in S : \A y \in S : <<y, x>> \notin OpToRel(<, Nat)
  BY <1>1, WFMin
<1>3. \A y \in S : ~(y < x)
  BY <1>2 DEF OpToRel
<1> QED BY <1>3

LEMMA GreatestOf ==
  ASSUME NEW b \in Nat, NEW S, S \subseteq 0..b, S # {}
  PROVE  \E x \in S : \A y \in S : y <= x
<1> DEFINE T == {b - x : x \in S}
<1>1. T \subseteq Nat /\ T # {}
  <2>1. \A x \in S : b - x \in Nat
    OBVIOUS
  <2>2. PICK x \in S : TRUE
    OBVIOUS
  <2>3. b - x \in T
    BY <2>2
  <2> QED BY <2>1, <2>3
<1>2. PICK t \in T : \A u \in T : t <= u
  <2> HIDE DEF T
  <2> QED BY <1>1, LeastOf
<1>3. PICK x \in S : t = b - x
  OBVIOUS
<1>4. \A y \in S : b - x <= b - y
  BY <1>2, <1>3
<1>5. \A y \in S : y <= x
  BY <1>4
<1> QED BY <1>5

LEMMA CreditsAre ==
  ASSUME ViewsInv, NEW S, S \subseteq 1..Today, NEW credit \in {"worked", "leave", "offWork"}
  PROVE  /\ TrackedIn(S) \subseteq 1..Today
         /\ [i \in TrackedIn(S) |-> Cell(i)[credit]] \in [TrackedIn(S) -> Nat]
         /\ SumIn(S, credit) = SumOf([i \in TrackedIn(S) |-> Cell(i)[credit]])
         /\ SumIn(S, credit) \in Nat
<1> DEFINE T == TrackedIn(S)
           f == [i \in T |-> Cell(i)[credit]]
<1>1. T \subseteq 1..Today
  BY DEF TrackedIn
<1>2. \A i \in 1..Today : Cell(i)[credit] \in Nat
  <2> SUFFICES ASSUME NEW i \in 1..Today PROVE Cell(i)[credit] \in Nat
    OBVIOUS
  <2> QED BY CellsAre
<1>3. f \in [T -> Nat]
  BY <1>1, <1>2
<1>4. SumIn(S, credit) = SumOf(f)
  BY DEF SumIn
<1> HIDE DEF T, f
<1>5. SumOf(f) \in Nat
  BY <1>1, <1>3, RowsAre, SumAdds
<1> QED BY <1>1, <1>3, <1>4, <1>5 DEF T, f

(* What a day still lacks of the days expected, once its leave is taken.   *)
Room(i) == (IF Cell(i).status \in OffKinds THEN 0 ELSE 2) - Cell(i).leave

LEMMA RoomIs ==
  ASSUME ViewsInv, NEW i \in 1..Today
  PROVE  Room(i) \in Nat /\ Cell(i).worked <= Room(i)
<1> DEFINE cell == Cell(i)
<1>1. cell.worked \in 0..2 /\ cell.leave \in 0..2
  BY CellsAre
<1>2. cell.worked + cell.leave <= IF cell.status \in OffKinds THEN 0 ELSE 2
  <2>1. days[i] \in RowOf(Fixes) /\ (i < Today) \in BOOLEAN /\ cell = CellOf(days[i], i < Today)
    BY CellsAre
  <2> HIDE DEF cell
  <2> QED BY <2>1, CellIs
<1>3. Room(i) = (IF cell.status \in OffKinds THEN 0 ELSE 2) - cell.leave
  BY DEF Room
<1> HIDE DEF cell
<1> QED BY <1>1, <1>2, <1>3 DEF cell

LEMMA ExpectedIs ==
  ASSUME ViewsInv, NEW S, S \subseteq 1..Today
  PROVE  Expected(S) = SumOf([i \in TrackedIn(S) |-> Room(i)])
<1> DEFINE T == TrackedIn(S)
           C == Due(S)
           one == [i \in T |-> IF i \in C THEN 1 ELSE 0]
           two == [i \in T |-> one[i] + one[i]]
           room == [i \in T |-> Room(i)]
           leave == [i \in T |-> Cell(i).leave]
           both == [i \in T |-> room[i] + leave[i]]
<1>1. Today \in Nat /\ T \in SUBSET (1..Today) /\ C \in SUBSET T /\ IsFiniteSet(C)
  <2>1. Today \in Nat /\ T \subseteq 1..Today /\ C \subseteq T
    BY RowsAre DEF TrackedIn, Due
  <2>2. IsFiniteSet(1..Today)
    BY <2>1, FS_Interval
  <2> HIDE DEF T, C
  <2> QED BY <2>1, <2>2, FS_Subset
<1>2. one \in [T -> Nat] /\ \A i \in T : one[i] = IF i \in C THEN 1 ELSE 0
  OBVIOUS
<1>3. /\ leave \in [T -> Nat] /\ \A i \in T : leave[i] = Cell(i).leave
      /\ LeaveTaken(S) = SumOf(leave)
  BY CreditsAre DEF LeaveTaken
<1>4. room \in [T -> Nat] /\ \A i \in T : room[i] = Room(i)
  <2>1. \A i \in T : Room(i) \in Nat
    BY <1>1, RoomIs
  <2> HIDE DEF T
  <2> QED BY <2>1
<1>5. \A i \in T : i \in C <=> Cell(i).status \notin OffKinds
  BY DEF Due
<1>6. SumOf(one) = Cardinality(C) /\ Cardinality(C) \in Nat
  <2> HIDE DEF T, C
  <2> QED BY <1>1, SumOfOnes, FS_CardinalityType
<1>7. \A i \in T : one[i] + one[i] = room[i] + leave[i]
  <2> SUFFICES ASSUME NEW i \in T PROVE one[i] + one[i] = room[i] + leave[i]
    OBVIOUS
  <2>1. Cell(i).leave \in Nat
    BY <1>3
  <2> HIDE DEF one, room, leave, T, C
  <2> QED BY <1>2, <1>3, <1>4, <1>5, <2>1 DEF Room
<1> HIDE DEF one, room, leave, T, C
<1>8. two = both
  BY <1>7
<1> HIDE DEF two, both
<1>9. SumOf(two) = SumOf(one) + SumOf(one)
  BY <1>1, <1>2, SumAdds DEF two
<1>10. /\ SumOf(both) = SumOf(room) + SumOf(leave)
       /\ SumOf(room) \in Nat /\ SumOf(leave) \in Nat
  BY <1>1, <1>3, <1>4, SumAdds DEF both
<1>11. 2 * Cardinality(C) = SumOf(room) + SumOf(leave)
  BY <1>6, <1>8, <1>9, <1>10
<1>12. Expected(S) = Later(2 * Cardinality(C), SumOf(leave))
  BY <1>3 DEF Expected, C
<1>13. Expected(S) = SumOf(room)
  BY <1>10, <1>11, <1>12 DEF Later
<1> QED BY <1>13 DEF room, T

(* Parts that share no day and leave no counted one out add up.            *)
LEMMA PartsAddUp ==
  ASSUME ViewsInv, NEW J, NEW part \in [J -> SUBSET (1..Today)],
         \A j, k \in J : part[j] \cap part[k] # {} => j = k,
         \A i \in TrackedIn(1..Today) : \E j \in J : i \in part[j]
  PROVE  /\ SumOf([j \in J |-> DaysWorked(part[j])]) = DaysWorked(1..Today)
         /\ SumOf([j \in J |-> Expected(part[j])]) = Expected(1..Today)
<1> DEFINE D == TrackedIn(1..Today)
           Q == [j \in J |-> TrackedIn(part[j])]
<1>1. Today \in Nat /\ D \in SUBSET (1..Today)
  BY RowsAre DEF TrackedIn
<1>2. \A S, i : i \in TrackedIn(S) <=> i \in S /\ InCount(i)
  BY DEF TrackedIn
<1>3. Q \in [J -> SUBSET D] /\ \A j \in J : Q[j] = TrackedIn(part[j])
  BY <1>2
<1>4. Splits(J, Q, D)
  <2>1. \A j \in J : \A i : i \in Q[j] <=> i \in part[j] /\ InCount(i)
    BY <1>2, <1>3
  <2> HIDE DEF Q
  <2>2. \A j, k \in J : Q[j] \cap Q[k] # {} => j = k
    BY <2>1
  <2>3. \A i \in D : \E j \in J : i \in Q[j]
    BY <1>2, <2>1
  <2> QED BY <1>3, <2>2, <2>3 DEF Splits
<1> HIDE DEF D, Q
<1>5. ASSUME NEW w, NEW s, SumsOf(s, J, Q, D, w)
      PROVE  SumOf(s) = SumOf(w)
  <2>1. w \in [D -> Nat]
    BY <1>5 DEF SumsOf
  <2>2. IsFiniteSet(Units(w))
    BY <1>1, <2>1, UnitsFiniteIn
  <2> QED BY <1>4, <1>5, <2>2, PartsSum
<1>6. SumOf([j \in J |-> DaysWorked(part[j])]) = DaysWorked(1..Today)
  <2> DEFINE w == [i \in D |-> Cell(i).worked]
             s == [j \in J |-> DaysWorked(part[j])]
  <2>1. w \in [D -> Nat] /\ DaysWorked(1..Today) = SumOf(w)
    BY CreditsAre DEF DaysWorked, D
  <2>2. ASSUME NEW j \in J PROVE s[j] = SumOf([i \in Q[j] |-> w[i]])
    <3>1. part[j] \subseteq 1..Today /\ Q[j] = TrackedIn(part[j]) /\ Q[j] \subseteq D
      BY <1>3
    <3>2. DaysWorked(part[j]) = SumOf([i \in Q[j] |-> Cell(i).worked])
      BY <3>1, CreditsAre DEF DaysWorked
    <3>3. [i \in Q[j] |-> Cell(i).worked] = [i \in Q[j] |-> w[i]]
      BY <3>1
    <3> QED BY <3>2, <3>3
  <2>3. s = [j \in J |-> s[j]]
    OBVIOUS
  <2> HIDE DEF w, s
  <2>4. SumsOf(s, J, Q, D, w)
    BY <2>1, <2>2, <2>3 DEF SumsOf
  <2>5. SumOf(s) = SumOf(w)
    BY <1>5, <2>4
  <2> QED BY <2>1, <2>5 DEF s
<1>7. SumOf([j \in J |-> Expected(part[j])]) = Expected(1..Today)
  <2> DEFINE w == [i \in D |-> Room(i)]
             s == [j \in J |-> Expected(part[j])]
  <2>1. w \in [D -> Nat] /\ Expected(1..Today) = SumOf(w)
    <3>1. \A i \in D : Room(i) \in Nat
      BY <1>1, RoomIs
    <3>2. Expected(1..Today) = SumOf(w)
      BY ExpectedIs DEF D
    <3> QED BY <3>1, <3>2
  <2>2. ASSUME NEW j \in J PROVE s[j] = SumOf([i \in Q[j] |-> w[i]])
    <3>1. part[j] \subseteq 1..Today /\ Q[j] = TrackedIn(part[j]) /\ Q[j] \subseteq D
      BY <1>3
    <3>2. Expected(part[j]) = SumOf([i \in Q[j] |-> Room(i)])
      BY <3>1, ExpectedIs
    <3>3. [i \in Q[j] |-> Room(i)] = [i \in Q[j] |-> w[i]]
      BY <3>1
    <3> QED BY <3>2, <3>3
  <2>3. s = [j \in J |-> s[j]]
    OBVIOUS
  <2> HIDE DEF w, s
  <2>4. SumsOf(s, J, Q, D, w)
    BY <2>1, <2>2, <2>3 DEF SumsOf
  <2>5. SumOf(s) = SumOf(w)
    BY <1>5, <2>4
  <2> QED BY <2>1, <2>5 DEF s
<1> QED BY <1>6, <1>7

(* Days to the next Sunday count down.                                     *)
LEMMA RemainderIs ==
  ASSUME NEW b \in Nat \ {0}, NEW q \in Int, NEW p \in Int,
         NEW r \in 0..(b - 1), NEW s \in 0..(b - 1), b * q + r = b * p + s
  PROVE  r = s
<1>1. ASSUME NEW x \in Int, NEW y \in Int, x < y PROVE b * y - b * x >= b
  <2>1. PICK d \in Nat : y = x + 1 + d
    <3>1. y - x - 1 \in Nat /\ y = x + 1 + (y - x - 1)
      BY <1>1
    <3> QED BY <3>1
  <2>2. b * y = b * x + b + b * d
    BY <2>1
  <2>3. b * d >= 0 /\ b * x \in Int /\ b * d \in Int
    OBVIOUS
  <2> QED BY <2>2, <2>3
<1>2. b * q \in Int /\ b * p \in Int
  OBVIOUS
<1>3. q = p
  <2>1. CASE q < p
    BY <1>1, <1>2, <2>1
  <2>2. CASE p < q
    BY <1>1, <1>2, <2>2
  <2> QED BY <2>1, <2>2
<1> QED BY <1>2, <1>3

LEMMA NextRemainder ==
  ASSUME NEW a \in Nat, NEW b \in Nat \ {0}
  PROVE  /\ a % b \in 0..(b - 1)
         /\ (a + 1) % b = IF a % b = b - 1 THEN 0 ELSE (a % b) + 1
<1> DEFINE q == a \div b
           r == a % b
           p == (a + 1) \div b
           s == (a + 1) % b
<1>1. r \in 0..(b - 1) /\ s \in 0..(b - 1)
  OBVIOUS
<1>2. a = b * q + r /\ q \in Int
  OBVIOUS
<1>3. a + 1 = b * p + s /\ p \in Int
  OBVIOUS
<1> HIDE DEF q, r, p, s
<1>4. CASE r = b - 1
  <2>1. b * (q + 1) = b * q + b
    BY <1>2
  <2>2. b * (q + 1) + 0 = b * p + s
    BY <1>2, <1>3, <1>4, <2>1
  <2>3. 0 \in 0..(b - 1) /\ q + 1 \in Int
    BY <1>2
  <2> QED BY <1>1, <1>3, <1>4, <2>2, <2>3, RemainderIs DEF r, s
<1>5. CASE r # b - 1
  <2>1. r + 1 \in 0..(b - 1)
    BY <1>1, <1>5
  <2>2. b * q + (r + 1) = b * p + s
    BY <1>1, <1>2, <1>3
  <2>3. r + 1 = s
    BY <1>1, <1>2, <1>3, <2>1, <2>2, RemainderIs
  <2> QED BY <1>1, <1>5, <2>3 DEF r, s
<1> QED BY <1>4, <1>5

LEMMA SundayIs ==
  ASSUME NEW i \in Nat \ {0}
  PROVE  /\ DaysToSunday(i) \in 0..(WeekLength - 1)
         /\ DaysToSunday(i) # 0 => DaysToSunday(i + 1) = DaysToSunday(i) - 1
<1>1. WeekLength \in Nat \ {0}
  BY HoursAssumption
<1>2. i - 1 \in Nat /\ (i - 1) + 1 = i /\ (i + 1) - 1 = i
  OBVIOUS
<1> DEFINE r == (i - 1) % WeekLength
           q == i % WeekLength
<1>3. r \in 0..(WeekLength - 1) /\ q = IF r = WeekLength - 1 THEN 0 ELSE r + 1
  BY <1>1, <1>2, NextRemainder
<1>4. DaysToSunday(i) = (WeekLength - 1) - r /\ DaysToSunday(i + 1) = (WeekLength - 1) - q
  BY <1>2 DEF DaysToSunday
<1> HIDE DEF r, q
<1> QED BY <1>1, <1>3, <1>4

LEMMA Countdown ==
  ASSUME NEW i \in Nat \ {0}, NEW k \in 0..DaysToSunday(i)
  PROVE  DaysToSunday(i + k) = DaysToSunday(i) - k
<1> DEFINE far == DaysToSunday(i)
           S == {m \in 0..far : DaysToSunday(i + m) # far - m}
<1>1. far \in Nat
  <2>1. far \in 0..(WeekLength - 1)
    BY SundayIs
  <2> QED BY <2>1
<1>2. CASE S = {}
  BY <1>2
<1>3. CASE S # {}
  <2>1. S \subseteq Nat
    BY <1>1
  <2>2. PICK m \in S : \A n \in S : m <= n
    <3> HIDE DEF S
    <3> QED BY <1>3, <2>1, LeastOf
  <2>3. m \in 0..far /\ DaysToSunday(i + m) # far - m
    OBVIOUS
  <2>4. m # 0
    <3> SUFFICES ASSUME m = 0 PROVE FALSE
      OBVIOUS
    <3>1. i + m = i /\ far - m = far
      BY <1>1
    <3>2. DaysToSunday(i + m) = far
      BY <3>1
    <3> HIDE DEF S, far
    <3> QED BY <2>3, <3>1, <3>2
  <2>5. m - 1 \in 0..far /\ m - 1 \notin S
    BY <1>1, <2>2, <2>3, <2>4
  <2>6. DaysToSunday(i + (m - 1)) = far - (m - 1)
    BY <2>5
  <2> HIDE DEF S, far
  <2>7. far - (m - 1) # 0 /\ i + (m - 1) \in Nat \ {0} /\ (i + (m - 1)) + 1 = i + m
    BY <1>1, <2>3, <2>4
  <2>8. DaysToSunday(i + m) = (far - (m - 1)) - 1
    BY <2>6, <2>7, SundayIs
  <2> QED BY <1>1, <2>3, <2>8
<1> QED BY <1>2, <1>3

WeekStarts == {j \in 1..Today : j = 1 \/ DaysToSunday(j - 1) = 0}

LEMMA OneWeek ==
  ASSUME ViewsInv, NEW d \in 1..Today
  PROVE  /\ \E i \in WeekStarts : d \in WeekFrom(i)
         /\ \A i, j \in WeekStarts : d \in WeekFrom(i) /\ d \in WeekFrom(j) => i = j
<1>1. Today \in Nat /\ d \in Nat
  BY RowsAre
<1>2. ASSUME NEW i \in WeekStarts
      PROVE  /\ i \in Nat \ {0} /\ i <= Today /\ DaysToSunday(i) \in Nat
             /\ i # 1 => DaysToSunday(i - 1) = 0
             /\ d \in WeekFrom(i) <=> i <= d /\ d <= i + DaysToSunday(i)
  <2>1. i \in Nat \ {0} /\ i <= Today /\ (i # 1 => DaysToSunday(i - 1) = 0)
    BY <1>1 DEF WeekStarts
  <2>2. DaysToSunday(i) \in 0..(WeekLength - 1)
    BY <2>1, SundayIs
  <2>3. d \in WeekFrom(i) <=> i <= d /\ d <= i + DaysToSunday(i)
    BY <1>1, <2>1 DEF WeekFrom
  <2> QED BY <2>1, <2>2, <2>3
<1>3. ASSUME NEW i \in WeekStarts, NEW j \in WeekStarts, i < j, d \in WeekFrom(i), d \in WeekFrom(j)
      PROVE  FALSE
  <2> DEFINE k == (j - 1) - i
  <2>1. i \in Nat \ {0} /\ j \in Nat \ {0} /\ DaysToSunday(i) \in Nat
        /\ j <= d /\ d <= i + DaysToSunday(i)
    BY <1>2, <1>3
  <2>2. k \in 0..DaysToSunday(i) /\ i + k = j - 1 /\ DaysToSunday(i) - k # 0 /\ j # 1
    BY <1>1, <1>3, <2>1
  <2>3. DaysToSunday(j - 1) = DaysToSunday(i) - k
    <3> HIDE DEF k
    <3>1. DaysToSunday(i + k) = DaysToSunday(i) - k
      BY <2>1, <2>2, Countdown
    <3> QED BY <2>2, <3>1
  <2> QED BY <1>2, <2>2, <2>3
<1>4. \A i, j \in WeekStarts : d \in WeekFrom(i) /\ d \in WeekFrom(j) => i = j
  <2> SUFFICES ASSUME NEW i \in WeekStarts, NEW j \in WeekStarts,
                      d \in WeekFrom(i), d \in WeekFrom(j)
               PROVE  i = j
    OBVIOUS
  <2>1. ~(i < j) /\ ~(j < i)
    BY <1>3
  <2>2. i \in Nat /\ j \in Nat
    BY <1>2
  <2> QED BY <2>1, <2>2
<1>5. \E i \in WeekStarts : d \in WeekFrom(i)
  <2> DEFINE S == {i \in WeekStarts : i <= d}
  <2>1. S \subseteq 0..d
    BY <1>1, <1>2
  <2>2. 1 \in S
    BY <1>1 DEF WeekStarts
  <2>3. PICK i \in S : \A j \in S : j <= i
    <3> HIDE DEF S
    <3> QED BY <1>1, <2>1, <2>2, GreatestOf
  <2>4. i \in WeekStarts /\ i <= d
    OBVIOUS
  <2> DEFINE far == DaysToSunday(i)
             m == i + far + 1
  <2>5. i \in Nat \ {0} /\ far \in Nat
    BY <1>2, <2>4
  <2>6. ASSUME d > i + far PROVE FALSE
    <3>1. m \in 1..Today /\ m - 1 = i + far /\ m <= d /\ m > i
      BY <1>1, <2>5, <2>6
    <3>2. far \in 0..far /\ far - far = 0
      BY <2>5
    <3>3. DaysToSunday(i + far) = 0
      <4>1. DaysToSunday(i + far) = DaysToSunday(i) - far
        BY <2>5, <3>2, Countdown
      <4> QED BY <3>2, <4>1
    <3>4. m \in WeekStarts
      <4>1. DaysToSunday(m - 1) = 0
        BY <3>1, <3>3
      <4> HIDE DEF m
      <4> QED BY <3>1, <4>1 DEF WeekStarts
    <3>5. m \in S
      BY <3>1, <3>4
    <3> HIDE DEF S, m
    <3>6. m <= i
      BY <2>3, <3>5
    <3> QED BY <2>5, <3>1, <3>6 DEF m
  <2>7. d <= i + far
    BY <1>1, <2>5, <2>6
  <2> QED BY <1>2, <2>4, <2>7
<1> QED BY <1>4, <1>5

LEMMA WeeksAddUp ==
  ASSUME ViewsInv
  PROVE  /\ SumOf([week \in Weeks |-> DaysWorked(week)]) = DaysWorked(1..Today)
         /\ SumOf([week \in Weeks |-> Expected(week)]) = Expected(1..Today)
<1> DEFINE part == [week \in Weeks |-> week]
<1>1. Weeks = {WeekFrom(i) : i \in WeekStarts}
  BY DEF Weeks, WeekStarts
<1>2. \A week \in Weeks : week \subseteq 1..Today
  <2>1. \A i \in WeekStarts : WeekFrom(i) \subseteq 1..Today
    BY RowsAre DEF WeekFrom, WeekStarts
  <2> QED BY <1>1, <2>1
<1>3. \A week \in Weeks : part[week] = week
  OBVIOUS
<1>4. part \in [Weeks -> SUBSET (1..Today)]
  BY <1>2
<1> HIDE DEF part
<1>5. \A u, v \in Weeks : part[u] \cap part[v] # {} => u = v
  <2> SUFFICES ASSUME NEW u \in Weeks, NEW v \in Weeks, NEW d \in u \cap v PROVE u = v
    BY <1>3
  <2>1. d \in 1..Today
    BY <1>2
  <2>2. PICK i \in WeekStarts : u = WeekFrom(i)
    BY <1>1
  <2>3. PICK j \in WeekStarts : v = WeekFrom(j)
    BY <1>1
  <2>4. i = j
    BY <2>1, <2>2, <2>3, OneWeek
  <2> QED BY <2>2, <2>3, <2>4
<1>6. \A d \in TrackedIn(1..Today) : \E week \in Weeks : d \in part[week]
  <2> SUFFICES ASSUME NEW d \in TrackedIn(1..Today) PROVE \E week \in Weeks : d \in part[week]
    OBVIOUS
  <2>1. d \in 1..Today
    BY DEF TrackedIn
  <2>2. PICK i \in WeekStarts : d \in WeekFrom(i)
    BY <2>1, OneWeek
  <2>3. WeekFrom(i) \in Weeks
    BY <1>1
  <2> QED BY <1>3, <2>2, <2>3
<1>7. /\ SumOf([week \in Weeks |-> DaysWorked(part[week])]) = DaysWorked(1..Today)
      /\ SumOf([week \in Weeks |-> Expected(part[week])]) = Expected(1..Today)
  BY <1>4, <1>5, <1>6, PartsAddUp
<1>8. /\ [week \in Weeks |-> DaysWorked(part[week])] = [week \in Weeks |-> DaysWorked(week)]
      /\ [week \in Weeks |-> Expected(part[week])] = [week \in Weeks |-> Expected(week)]
  BY <1>3
<1> QED BY <1>7, <1>8

LEMMA OfficesAddUp ==
  ASSUME ViewsInv
  PROVE  /\ SumOf([place \in OfficeRows |-> DaysWorked(At(place))]) = DaysWorked(1..Today)
         /\ SumOf([place \in OfficeRows |-> Expected(At(place))]) = Expected(1..Today)
<1> DEFINE part == [place \in OfficeRows |-> At(place)]
<1>1. \A place \in OfficeRows : part[place] = At(place)
  OBVIOUS
<1>2. part \in [OfficeRows -> SUBSET (1..Today)]
  BY DEF At
<1> HIDE DEF part
<1>3. \A u, v \in OfficeRows : part[u] \cap part[v] # {} => u = v
  BY <1>1 DEF At
<1>4. \A d \in TrackedIn(1..Today) : \E place \in OfficeRows : d \in part[place]
  <2> SUFFICES ASSUME NEW d \in TrackedIn(1..Today)
               PROVE  \E place \in OfficeRows : d \in part[place]
    OBVIOUS
  <2>1. d \in 1..Today /\ InCount(d)
    BY DEF TrackedIn
  <2>2. days[d].place \in Places /\ d \in At(days[d].place)
    <3>1. days[d] \in RowOf(Fixes)
      BY <2>1, RowsAre
    <3>2. days[d].place \in Places
      BY <3>1, InstantsAre
    <3> QED BY <2>1, <3>2 DEF At
  <2>3. days[d].place \in OfficeRows
    BY <2>1, <2>2 DEF OfficeRows
  <2> QED BY <1>1, <2>2, <2>3
<1>5. /\ SumOf([place \in OfficeRows |-> DaysWorked(part[place])]) = DaysWorked(1..Today)
      /\ SumOf([place \in OfficeRows |-> Expected(part[place])]) = Expected(1..Today)
  BY <1>2, <1>3, <1>4, PartsAddUp
<1>6. /\ [place \in OfficeRows |-> DaysWorked(part[place])] = [place \in OfficeRows |-> DaysWorked(At(place))]
      /\ [place \in OfficeRows |-> Expected(part[place])] = [place \in OfficeRows |-> Expected(At(place))]
  BY <1>1
<1> QED BY <1>5, <1>6

LEMMA SumsFollow == ViewsInv => SumsFollowCells
<1> SUFFICES ASSUME ViewsInv PROVE SumsFollowCells
  OBVIOUS
<1> DEFINE all == 1..Today
           T == TrackedIn(all)
           worth(i) == Cell(i).worked + Cell(i).leave + Cell(i).offWork
           credit == [i \in all |-> LET cell == Cell(i) IN cell.worked + cell.leave + cell.offWork]
           missing == {i \in all : credit[i] > 0 /\ ~InCount(i)}
           W == [i \in T |-> Cell(i).worked]
           L == [i \in T |-> Cell(i).leave]
           H == [i \in T |-> Cell(i).offWork]
           room == [i \in T |-> Room(i)]
<1>1. Today \in Nat /\ T \in SUBSET (1..Today)
  BY RowsAre DEF TrackedIn
<1>2. /\ W \in [T -> Nat] /\ L \in [T -> Nat] /\ H \in [T -> Nat]
      /\ DaysWorked(all) = SumOf(W) /\ LeaveTaken(all) = SumOf(L)
      /\ WorkedOnHoliday(all) = SumOf(H)
  BY CreditsAre DEF DaysWorked, LeaveTaken, WorkedOnHoliday
<1>3. DaysWorked(all) <= Expected(all)
  <2>1. /\ room \in [T -> Nat] /\ \A i \in T : W[i] <= room[i]
    <3>1. \A i \in T : Room(i) \in Nat /\ Cell(i).worked <= Room(i)
      BY <1>1, RoomIs
    <3> HIDE DEF T
    <3> QED BY <3>1
  <2>2. Expected(all) = SumOf(room)
    BY ExpectedIs
  <2> HIDE DEF T, W, room
  <2>3. SumOf(W) <= SumOf(room)
    BY <1>1, <1>2, <2>1, SumGrows
  <2> QED BY <1>2, <2>2, <2>3
<1>4. ASSUME NEW i \in all PROVE credit[i] = worth(i) /\ worth(i) \in Nat
  BY CellsAre
<1>5. DaysWorked(all) + LeaveTaken(all) + WorkedOnHoliday(all)
        = SumOf([i \in all \ missing |-> credit[i]])
  <2> DEFINE K == all \ missing
             kept == [i \in K |-> credit[i]]
             WL == [i \in T |-> W[i] + L[i]]
             WLH == [i \in T |-> WL[i] + H[i]]
  <2>1. \A i : i \in T <=> i \in all /\ InCount(i)
    BY DEF TrackedIn
  <2>2. T \in SUBSET K
    BY <2>1
  <2>3. /\ kept \in [K -> Nat] /\ \A i \in K : kept[i] = credit[i]
        /\ \A i \in K \ T : kept[i] = 0
    <3>1. \A i \in all : credit[i] \in Nat
      BY <1>4
    <3> HIDE DEF credit
    <3> QED BY <2>1, <3>1
  <2>4. \A i \in T : W[i] = Cell(i).worked /\ L[i] = Cell(i).leave /\ H[i] = Cell(i).offWork
    OBVIOUS
  <2>5. \A i \in T : kept[i] = (W[i] + L[i]) + H[i]
    <3> SUFFICES ASSUME NEW i \in T PROVE kept[i] = (W[i] + L[i]) + H[i]
      OBVIOUS
    <3>1. kept[i] = worth(i)
      BY <1>4, <2>1, <2>2, <2>3
    <3> QED BY <2>4, <3>1
  <2> HIDE DEF T, W, L, H, K, kept, credit, missing
  <2>6. SumOf([i \in T |-> kept[i]]) = SumOf(kept)
    BY <2>2, <2>3, SumIgnoresZeros
  <2>7. WL \in [T -> Nat] /\ \A i \in T : WL[i] = W[i] + L[i]
    BY <1>2
  <2> HIDE DEF WL
  <2>8. SumOf(WL) = SumOf(W) + SumOf(L) /\ SumOf(W) \in Nat /\ SumOf(L) \in Nat
    BY <1>1, <1>2, SumAdds DEF WL
  <2>9. [i \in T |-> kept[i]] = WLH
    BY <2>5, <2>7
  <2>10. SumOf(WLH) = SumOf(WL) + SumOf(H) /\ SumOf(H) \in Nat
    <3> HIDE DEF WLH
    <3> QED BY <1>1, <1>2, <2>7, SumAdds DEF WLH
  <2>11. SumOf(W) + SumOf(L) + SumOf(H) = SumOf(kept)
    BY <2>6, <2>8, <2>9, <2>10
  <2> QED BY <1>2, <2>11 DEF kept, K
<1>6. ASSUME NEW i \in missing PROVE days[i].fix.status # None
  <2>1. i \in all /\ worth(i) > 0 /\ ~TrackedOn(days[i])
    BY <1>4 DEF InCount
  <2> DEFINE past == i < Today
  <2>2. /\ days[i] \in RowOf(Fixes) /\ past \in BOOLEAN /\ Cell(i) = CellOf(days[i], past)
        /\ Cell(i).status = StatusOf(days[i], past)
    BY <2>1, CellsAre
  <2> HIDE DEF past
  <2>3. days[i].fix.status = None => Cell(i).status = "not_tracked"
    BY <2>1, <2>2, LadderIs
  <2>4. Cell(i).status = "not_tracked" => worth(i) = 0
    BY <2>2, CellIs
  <2> QED BY <2>1, <2>3, <2>4
<1>7. /\ SumOf([week \in Weeks |-> DaysWorked(week)]) = DaysWorked(all)
      /\ SumOf([week \in Weeks |-> Expected(week)]) = Expected(all)
      /\ SumOf([place \in OfficeRows |-> DaysWorked(At(place))]) = DaysWorked(all)
      /\ SumOf([place \in OfficeRows |-> Expected(At(place))]) = Expected(all)
  BY WeeksAddUp, OfficesAddUp
<1>8. SumsFollowCells <=>
        /\ SumOf([week \in Weeks |-> DaysWorked(week)]) = DaysWorked(all)
        /\ SumOf([week \in Weeks |-> Expected(week)]) = Expected(all)
        /\ SumOf([place \in OfficeRows |-> DaysWorked(At(place))]) = DaysWorked(all)
        /\ SumOf([place \in OfficeRows |-> Expected(At(place))]) = Expected(all)
        /\ DaysWorked(all) <= Expected(all)
        /\ DaysWorked(all) + LeaveTaken(all) + WorkedOnHoliday(all)
             = SumOf([i \in all \ missing |-> credit[i]])
        /\ \A i \in missing : days[i].fix.status # None
  BY DEF SumsFollowCells
<1> HIDE DEF all, missing, credit
<1> QED BY <1>3, <1>5, <1>6, <1>7, <1>8

(* The register.                                                           *)
LEMMA RegisterFollows == ViewsInv => RegisterFollowsLine
<1> SUFFICES ASSUME ViewsInv, NEW i \in 1..Today,
                    ~InCount(i) \/ (EnrolledFrom # None /\ i < EnrolledFrom)
             PROVE  Register({})[i] \in {"not_tracked", days[i].fix.status}
  BY DEF RegisterFollowsLine
<1> DEFINE T == TrackedIn(1..Today)
           first == CHOOSE j \in T : \A k \in T : j <= k
<1>1. Today \in Nat /\ T \subseteq 1..Today
  BY RowsAre DEF TrackedIn
<1>2. ~InCount(i)
  <2>1. CASE EnrolledFrom # None /\ i < EnrolledFrom
    <3>1. T # {} /\ EnrolledFrom = first
      BY <2>1 DEF EnrolledFrom
    <3>2. \E j \in T : \A k \in T : j <= k
      <4>1. T \subseteq Nat
        BY <1>1
      <4> HIDE DEF T
      <4> QED BY <3>1, <4>1, LeastOf
    <3>3. \A k \in T : first <= k
      BY <3>2
    <3>4. first \in T
      BY <3>2
    <3> HIDE DEF first, T
    <3>5. i \notin T
      BY <1>1, <2>1, <3>1, <3>3, <3>4
    <3> QED BY <3>5 DEF T, TrackedIn
  <2> QED BY <2>1
<1>3. Register({})[i] = Cell(i).status
  BY DEF Register
<1> DEFINE past == i < Today
<1>4. days[i] \in RowOf(Fixes) /\ past \in BOOLEAN /\ Cell(i).status = StatusOf(days[i], past)
  BY CellsAre
<1> HIDE DEF past
<1>5. Cell(i).status = days[i].fix.status \/ Cell(i).status = "not_tracked"
  BY <1>2, <1>4, LadderIs DEF InCount
<1> QED BY <1>3, <1>5

(* The streaks: the run under way after day n of the days K, A of them     *)
(* absent, and the runs another day has ended by then.                     *)
RunTo(K, A, n) == {a \in A : a <= n /\ \A k \in K : a < k /\ k <= n => k \in A}

Long(runs) == {run \in runs : Cardinality(run) >= Streak}

Ended(K, A, n) == {RunTo(K, A, k - 1) : k \in {j \in K \ A : j <= n}}

ToldTo(K, A, n) == [run |-> RunTo(K, A, n), found |-> Long(Ended(K, A, n))]

LEMMA RunSteps ==
  ASSUME NEW K, K \subseteq Nat, NEW A, A \subseteq K, NEW n \in Nat \ {0}
  PROVE  /\ n \notin K => ToldTo(K, A, n) = ToldTo(K, A, n - 1)
         /\ n \in A => /\ RunTo(K, A, n) = RunTo(K, A, n - 1) \cup {n}
                       /\ Ended(K, A, n) = Ended(K, A, n - 1)
         /\ n \in K \ A => /\ RunTo(K, A, n) = {}
                           /\ Ended(K, A, n) = Ended(K, A, n - 1) \cup {RunTo(K, A, n - 1)}
<1>1. /\ n - 1 \in Nat
      /\ \A k \in K : k <= n <=> k <= n - 1 \/ k = n
      /\ \A k \in K : k \in Nat
  OBVIOUS
<1> DEFINE others(m) == {j \in K \ A : j <= m}
           ended(m) == {RunTo(K, A, k - 1) : k \in others(m)}
<1>2. Ended(K, A, n) = ended(n) /\ Ended(K, A, n - 1) = ended(n - 1)
  BY DEF Ended
<1>3. /\ n \notin K \ A => others(n) = others(n - 1)
      /\ n \in K \ A => others(n) = others(n - 1) \cup {n}
  BY <1>1
<1> HIDE DEF others
<1>4. /\ n \notin K \ A => Ended(K, A, n) = Ended(K, A, n - 1)
      /\ n \in K \ A => Ended(K, A, n) = Ended(K, A, n - 1) \cup {RunTo(K, A, n - 1)}
  BY <1>2, <1>3
<1>5. \A a, m : a \in RunTo(K, A, m) <=>
        a \in A /\ a <= m /\ \A k \in K : a < k /\ k <= m => k \in A
  BY DEF RunTo
<1>6. CASE n \notin K
  <2>1. \A k \in K : k <= n <=> k <= n - 1
    BY <1>1, <1>6
  <2>2. \A a : a \in RunTo(K, A, n) <=> a \in RunTo(K, A, n - 1)
    BY <1>5, <2>1
  <2>3. RunTo(K, A, n) = RunTo(K, A, n - 1)
    BY <2>2
  <2> QED BY <1>4, <1>6, <2>3 DEF ToldTo
<1>7. CASE n \in A
  <2>1. \A a : a \in RunTo(K, A, n) <=> a \in RunTo(K, A, n - 1) \cup {n}
    <3>1. \A k \in K : n < k /\ k <= n => k \in A
      BY <1>1
    <3>2. n \in RunTo(K, A, n)
      BY <1>1, <1>5, <1>7, <3>1
    <3>3. \A a : a # n => (a \in RunTo(K, A, n) <=> a \in RunTo(K, A, n - 1))
      BY <1>1, <1>5, <1>7
    <3> QED BY <3>2, <3>3
  <2>2. RunTo(K, A, n) = RunTo(K, A, n - 1) \cup {n}
    BY <2>1
  <2> QED BY <1>4, <1>7, <2>2
<1>8. CASE n \in K \ A
  <2>1. \A a : a \notin RunTo(K, A, n)
    <3> SUFFICES ASSUME NEW a, a \in RunTo(K, A, n) PROVE FALSE
      OBVIOUS
    <3>1. a \in A /\ a <= n /\ (a < n /\ n <= n => n \in A)
      BY <1>5, <1>8
    <3>2. a \in Nat /\ a # n
      BY <1>8, <3>1
    <3> QED BY <1>8, <3>1, <3>2
  <2>2. RunTo(K, A, n) = {}
    BY <2>1
  <2> QED BY <1>4, <1>8, <2>2
<1> QED BY <1>6, <1>7, <1>8

LEMMA ScannedIs ==
  ASSUME ViewsInv, NEW offices
  PROVE  LET K == InScope(offices)
         IN  Scanned(offices) = ToldTo(K, AbsentOf(K), Today)
<1> DEFINE K == InScope(offices)
           A == AbsentOf(K)
           F(f) == [n \in 0..Today |->
                      IF n = 0 THEN NoRun
                      ELSE IF n \in K THEN Scan(f[n - 1], n) ELSE f[n - 1]]
           upTo == CHOOSE f : f = F(f)
           g == [n \in 0..Today |-> ToldTo(K, A, n)]
<1>1. Scanned(offices) = upTo[Today]
  BY DEF Scanned
<1>2. Today \in Nat /\ K \subseteq 1..Today /\ K \subseteq Nat /\ A \subseteq K
      /\ \A i \in K : i \in A <=> Cell(i).status = "absent"
  BY RowsAre DEF InScope, TrackedIn, AbsentOf
<1>3. ToldTo(K, A, 0) = NoRun
  <2> HIDE DEF K, A
  <2>1. \A k \in K : ~(k <= 0)
    BY <1>2
  <2>2. RunTo(K, A, 0) = {} /\ Ended(K, A, 0) = {}
    BY <1>2, <2>1 DEF RunTo, Ended
  <2> QED BY <2>2 DEF ToldTo, NoRun, Long
<1>4. ASSUME NEW n \in 1..Today
      PROVE  ToldTo(K, A, n) = IF n \in K THEN Scan(ToldTo(K, A, n - 1), n) ELSE ToldTo(K, A, n - 1)
  <2> DEFINE before == ToldTo(K, A, n - 1)
  <2>1. n \in Nat \ {0}
    BY <1>2
  <2>2. /\ before.run = RunTo(K, A, n - 1) /\ before.found = Long(Ended(K, A, n - 1))
        /\ \A run : [before EXCEPT !.run = run]
                      = [run |-> run, found |-> Long(Ended(K, A, n - 1))]
    BY DEF ToldTo
  <2> HIDE DEF K, A, before
  <2>6. /\ n \notin K => ToldTo(K, A, n) = ToldTo(K, A, n - 1)
        /\ n \in A => /\ RunTo(K, A, n) = RunTo(K, A, n - 1) \cup {n}
                      /\ Ended(K, A, n) = Ended(K, A, n - 1)
        /\ n \in K \ A => /\ RunTo(K, A, n) = {}
                          /\ Ended(K, A, n) = Ended(K, A, n - 1) \cup {RunTo(K, A, n - 1)}
    BY <1>2, <2>1, RunSteps
  <2>3. CASE n \notin K
    BY <2>3, <2>6
  <2>4. CASE n \in A
    <3>1. n \in K /\ Scan(before, n) = [before EXCEPT !.run = before.run \cup {n}]
      BY <1>2, <2>4 DEF Scan
    <3>2. Scan(before, n) = [run |-> RunTo(K, A, n - 1) \cup {n},
                             found |-> Long(Ended(K, A, n - 1))]
      BY <2>2, <3>1
    <3>3. Scan(before, n) = ToldTo(K, A, n)
      BY <2>4, <2>6, <3>2 DEF ToldTo
    <3> QED BY <3>1, <3>3 DEF before
  <2>5. CASE n \in K \ A
    <3>1. Scan(before, n) = Flush(before)
      BY <1>2, <2>5 DEF Scan
    <3>2. Flush(before).run = {}
      BY DEF Flush
    <3>3. Scan(before, n) = [run |-> {}, found |-> Long(Ended(K, A, n - 1) \cup {RunTo(K, A, n - 1)})]
      BY <2>2, <3>1 DEF Flush, Long
    <3>4. Scan(before, n) = ToldTo(K, A, n)
      BY <2>5, <2>6, <3>3 DEF ToldTo
    <3> QED BY <2>5, <3>4 DEF before
  <2> QED BY <1>2, <2>3, <2>4, <2>5
<1> HIDE DEF K, A
<1>5. g = F(g)
  <2>1. \A n \in 0..Today :
          g[n] = IF n = 0 THEN NoRun ELSE IF n \in K THEN Scan(g[n - 1], n) ELSE g[n - 1]
    <3> SUFFICES ASSUME NEW n \in 0..Today
                 PROVE  g[n] = IF n = 0 THEN NoRun
                               ELSE IF n \in K THEN Scan(g[n - 1], n) ELSE g[n - 1]
      OBVIOUS
    <3>1. CASE n = 0
      BY <1>2, <1>3, <3>1
    <3>2. CASE n # 0
      <4>1. n \in 1..Today /\ n - 1 \in 0..Today
        BY <1>2, <3>2
      <4>2. g[n] = ToldTo(K, A, n) /\ g[n - 1] = ToldTo(K, A, n - 1)
        BY <4>1
      <4> QED BY <1>4, <3>2, <4>1, <4>2
    <3> QED BY <3>1, <3>2
  <2>2. g = [n \in 0..Today |-> g[n]]
    OBVIOUS
  <2> HIDE DEF g
  <2> QED BY <2>1, <2>2
<1> HIDE DEF g
<1>6. upTo = F(upTo)
  <2> HIDE DEF F
  <2> QED BY <1>5
<1> HIDE DEF upTo
<1>7. \A n \in 0..Today : upTo[n] = g[n]
  <2> DEFINE S == {n \in 0..Today : upTo[n] # g[n]}
  <2>1. CASE S = {}
    BY <2>1
  <2>2. CASE S # {}
    <3>1. S \subseteq Nat
      BY <1>2
    <3>2. PICK n \in S : \A m \in S : n <= m
      <4> HIDE DEF S
      <4> QED BY <2>2, <3>1, LeastOf
    <3>3. n \in 0..Today /\ upTo[n] # g[n]
      OBVIOUS
    <3>4. upTo[n] = IF n = 0 THEN NoRun
                    ELSE IF n \in K THEN Scan(upTo[n - 1], n) ELSE upTo[n - 1]
      BY <1>6, <3>3
    <3>5. g[n] = IF n = 0 THEN NoRun
                 ELSE IF n \in K THEN Scan(g[n - 1], n) ELSE g[n - 1]
      BY <1>5, <3>3
    <3>6. n # 0
      BY <3>3, <3>4, <3>5
    <3>7. n - 1 \in 0..Today /\ ~(n <= n - 1)
      BY <1>2, <3>3, <3>6
    <3>8. upTo[n - 1] = g[n - 1]
      <4>1. n - 1 \notin S
        <5> HIDE DEF S
        <5> QED BY <3>2, <3>7
      <4> QED BY <3>7, <4>1
    <3> QED BY <3>3, <3>4, <3>5, <3>8
  <2> QED BY <2>1, <2>2
<1>8. Today \in 0..Today /\ g[Today] = ToldTo(K, A, Today)
  BY <1>2 DEF g
<1> QED BY <1>1, <1>7, <1>8 DEF K, A

(* The runs so told are the maximal runs: what lies between two absent     *)
(* days and holds no other kept day.                                       *)
(* Absent days A of the kept days K, up to day b.                          *)
KeptUpTo(K, A, b) == b \in Nat /\ K \subseteq 1..b /\ A \subseteq K

LEMMA EndsAre ==
  ASSUME NEW b, NEW K, NEW A, KeptUpTo(K, A, b), NEW R
  PROVE  R \in Ended(K, A, b) \cup {RunTo(K, A, b)} <=>
           \E m \in 0..b : R = RunTo(K, A, m) /\ (m = b \/ m + 1 \in K \ A)
<1> b \in Nat /\ K \subseteq 1..b /\ A \subseteq K
  BY DEF KeptUpTo
<1>1. ASSUME NEW m \in 0..b, R = RunTo(K, A, m), m = b \/ m + 1 \in K \ A
      PROVE  R \in Ended(K, A, b) \cup {RunTo(K, A, b)}
  <2>1. CASE m = b
    BY <1>1, <2>1
  <2>2. CASE m + 1 \in K \ A
    <3>1. m + 1 \in {j \in K \ A : j <= b} /\ (m + 1) - 1 = m
      BY <2>2
    <3> QED BY <1>1, <3>1 DEF Ended
  <2> QED BY <1>1, <2>1, <2>2
<1>2. ASSUME R \in Ended(K, A, b)
      PROVE  \E m \in 0..b : R = RunTo(K, A, m) /\ (m = b \/ m + 1 \in K \ A)
  <2>1. PICK k \in K \ A : R = RunTo(K, A, k - 1)
    BY <1>2 DEF Ended
  <2>2. k - 1 \in 0..b /\ (k - 1) + 1 = k
    OBVIOUS
  <2> QED BY <2>1, <2>2
<1>3. b \in 0..b
  OBVIOUS
<1> QED BY <1>1, <1>2, <1>3

LEMMA RunIsBlock ==
  ASSUME NEW b, NEW K, NEW A, KeptUpTo(K, A, b),
         NEW m \in 0..b, RunTo(K, A, m) # {}
  PROVE  RunTo(K, A, m) \in RunsOf(K, A)
<1> b \in Nat /\ K \subseteq 1..b /\ A \subseteq K
  BY DEF KeptUpTo
<1> DEFINE R == RunTo(K, A, m)
<1>1. \A a : a \in R <=> a \in A /\ a <= m /\ \A k \in K : a < k /\ k <= m => k \in A
  BY DEF RunTo
<1>2. \A k \in K : k \in Nat
  OBVIOUS
<1> HIDE DEF R
<1>9. m \in Nat
  OBVIOUS
<1>3. R \subseteq 0..m
  <2> SUFFICES ASSUME NEW a \in R PROVE a \in 0..m
    OBVIOUS
  <2>1. a \in K /\ a <= m
    BY <1>1
  <2> QED BY <1>2, <1>9, <2>1
<1>4. PICK i \in R : \A a \in R : i <= a
  <2>1. R \subseteq Nat /\ R # {}
    BY <1>3 DEF R
  <2> QED BY <2>1, LeastOf
<1>5. PICK j \in R : \A a \in R : a <= j
  <2>1. R # {}
    BY DEF R
  <2> QED BY <1>3, <1>9, <2>1, GreatestOf
<1>6. i \in A /\ j \in A /\ i \in Nat /\ j \in Nat /\ j <= m
  BY <1>1, <1>2
<1>7. \A k : k \in R <=> k \in Between(K, i, j)
  <2>1. \A k \in R : k \in Between(K, i, j)
    BY <1>1, <1>4, <1>5 DEF Between
  <2>2. ASSUME NEW k \in Between(K, i, j) PROVE k \in R
    <3>1. k \in K /\ i <= k /\ k <= j /\ k \in Nat
      BY <1>2 DEF Between
    <3>2. \A l \in K : i < l /\ l <= m => l \in A
      BY <1>1
    <3>3. k \in A
      <4>1. CASE k = i
        BY <1>6, <4>1
      <4>2. CASE k # i
        BY <1>6, <3>1, <3>2, <4>2
      <4> QED BY <4>1, <4>2
    <3>4. \A l \in K : k < l /\ l <= m => l \in A
      BY <1>2, <1>6, <3>1, <3>2
    <3>5. k <= m
      BY <1>6, <3>1
    <3> QED BY <1>1, <3>3, <3>4, <3>5
  <2> QED BY <2>1, <2>2
<1>8. R = Between(K, i, j) /\ R # {} /\ R \subseteq A
  BY <1>1, <1>7 DEF R
<1> QED BY <1>6, <1>8 DEF RunsOf, R

(* A run of absent days lies in the run that is told after its end.        *)
LEMMA RunIsTold ==
  ASSUME NEW b, NEW K, NEW A, KeptUpTo(K, A, b), NEW O \in RunsOf(K, A)
  PROVE  \E m \in 0..b : O \subseteq RunTo(K, A, m) /\ (m = b \/ m + 1 \in K \ A)
<1> b \in Nat /\ K \subseteq 1..b /\ A \subseteq K
  BY DEF KeptUpTo
<1>1. PICK i \in A, j \in A : O = Between(K, i, j)
  BY DEF RunsOf
<1>2. O \subseteq A /\ O # {}
  BY DEF RunsOf
<1>3. \A k \in K : k \in Nat /\ k <= b
  OBVIOUS
<1>4. i \in Nat /\ j \in Nat /\ j <= b
  BY <1>3
<1>5. \A k : k \in O <=> k \in K /\ i <= k /\ k <= j
  BY <1>1 DEF Between
<1>6. ASSUME NEW m \in Nat, j <= m, \A k \in K : j < k /\ k <= m => k \in A
      PROVE  O \subseteq RunTo(K, A, m)
  <2> SUFFICES ASSUME NEW a \in O PROVE a \in RunTo(K, A, m)
    OBVIOUS
  <2>1. a \in A /\ a \in Nat /\ i <= a /\ a <= j
    BY <1>2, <1>3, <1>5
  <2>2. ASSUME NEW k \in K, a < k, k <= m PROVE k \in A
    <3>1. CASE k <= j
      <4>1. k \in O
        BY <1>3, <1>4, <1>5, <2>1, <2>2, <3>1
      <4> QED BY <1>2, <4>1
    <3>2. CASE k > j
      BY <1>6, <2>2, <3>2
    <3> QED BY <1>3, <1>4, <3>1, <3>2
  <2>3. a <= m
    BY <1>4, <1>6, <2>1
  <2> QED BY <2>1, <2>2, <2>3 DEF RunTo
<1> DEFINE S == {k \in K \ A : j < k}
<1>7. CASE S = {}
  <2>1. \A k \in K : j < k /\ k <= b => k \in A
    BY <1>7
  <2> QED BY <1>4, <1>6, <2>1
<1>8. CASE S # {}
  <2>1. S \subseteq Nat
    BY <1>3
  <2>2. PICK k \in S : \A l \in S : k <= l
    <3> HIDE DEF S
    <3> QED BY <1>8, <2>1, LeastOf
  <2>3. k \in K \ A /\ j < k /\ k \in Nat /\ k <= b
    BY <1>3
  <2> DEFINE m == k - 1
  <2>4. m \in 0..b /\ m \in Nat /\ j <= m /\ m + 1 = k
    BY <1>4, <2>3
  <2>5. ASSUME NEW l \in K, j < l, l <= m PROVE l \in A
    <3>1. l \notin S
      <4>1. ~(k <= l)
        BY <1>3, <2>3, <2>5
      <4> HIDE DEF S
      <4> QED BY <2>2, <4>1
    <3> QED BY <2>5, <3>1
  <2> HIDE DEF m
  <2>6. O \subseteq RunTo(K, A, m)
    BY <1>6, <2>4, <2>5
  <2> QED BY <2>3, <2>4, <2>6
<1> QED BY <1>7, <1>8

LEMMA ToldIsMaximal ==
  ASSUME NEW b, NEW K, NEW A, KeptUpTo(K, A, b),
         NEW m \in 0..b, m = b \/ m + 1 \in K \ A,
         NEW O \in RunsOf(K, A), RunTo(K, A, m) # {}, RunTo(K, A, m) \subseteq O
  PROVE  O \subseteq RunTo(K, A, m)
<1> b \in Nat /\ K \subseteq 1..b /\ A \subseteq K
  BY DEF KeptUpTo
<1> DEFINE R == RunTo(K, A, m)
<1>1. \A a : a \in R <=> a \in A /\ a <= m /\ \A k \in K : a < k /\ k <= m => k \in A
  BY DEF RunTo
<1> HIDE DEF R
<1>2. PICK i \in A, j \in A : O = Between(K, i, j)
  BY DEF RunsOf
<1>3. O \subseteq A
  BY DEF RunsOf
<1>4. \A k \in K : k \in Nat /\ k <= b
  OBVIOUS
<1>5. \A k : k \in O <=> k \in K /\ i <= k /\ k <= j
  BY <1>2 DEF Between
<1>6. PICK r \in R : r \in O
  BY DEF R
<1>7. i \in Nat /\ j \in Nat /\ j <= b /\ r \in Nat /\ r <= m /\ r \in A /\ i <= r /\ r <= j
  BY <1>1, <1>4, <1>5, <1>6
<1>8. j <= m
  <2>1. CASE m = b
    BY <1>7, <2>1
  <2>2. CASE m + 1 \in K \ A
    <3>1. ASSUME m + 1 <= j PROVE FALSE
      <4>1. m + 1 \in O
        BY <1>5, <1>7, <2>2, <3>1
      <4> QED BY <1>3, <2>2, <4>1
    <3> QED BY <1>7, <3>1
  <2> QED BY <2>1, <2>2
<1>9. ASSUME NEW o \in O PROVE o \in R
  <2>1. o \in A /\ o \in Nat /\ i <= o /\ o <= j
    BY <1>3, <1>4, <1>5
  <2>2. ASSUME NEW k \in K, o < k, k <= m PROVE k \in A
    <3>1. CASE k > r
      BY <1>1, <2>2, <3>1
    <3>2. CASE k <= r
      <4>1. k \in O
        BY <1>4, <1>5, <1>7, <2>1, <2>2, <3>2
      <4> QED BY <1>3, <4>1
    <3> QED BY <1>4, <1>7, <3>1, <3>2
  <2>3. o <= m
    BY <1>7, <1>8, <2>1
  <2> QED BY <1>1, <2>1, <2>2, <2>3
<1> QED BY <1>9 DEF R

LEMMA ToldAreMaximal ==
  ASSUME NEW b, NEW K, NEW A, KeptUpTo(K, A, b), NEW R, R # {}
  PROVE  R \in Maximal(RunsOf(K, A)) <=> R \in Ended(K, A, b) \cup {RunTo(K, A, b)}
<1>1. ASSUME R \in Maximal(RunsOf(K, A))
      PROVE  R \in Ended(K, A, b) \cup {RunTo(K, A, b)}
  <2>1. R \in RunsOf(K, A) /\ \A other \in RunsOf(K, A) : R \subseteq other => other = R
    BY <1>1 DEF Maximal
  <2>2. PICK m \in 0..b : R \subseteq RunTo(K, A, m) /\ (m = b \/ m + 1 \in K \ A)
    BY <2>1, RunIsTold
  <2>3. RunTo(K, A, m) \in RunsOf(K, A)
    <3>1. RunTo(K, A, m) # {}
      BY <2>2
    <3> QED BY <3>1, RunIsBlock
  <2>4. R = RunTo(K, A, m)
    BY <2>1, <2>2, <2>3
  <2> QED BY <2>2, <2>4, EndsAre
<1>2. ASSUME R \in Ended(K, A, b) \cup {RunTo(K, A, b)}
      PROVE  R \in Maximal(RunsOf(K, A))
  <2>1. PICK m \in 0..b : R = RunTo(K, A, m) /\ (m = b \/ m + 1 \in K \ A)
    BY <1>2, EndsAre
  <2>2. R \in RunsOf(K, A)
    BY <2>1, RunIsBlock
  <2>3. ASSUME NEW other \in RunsOf(K, A), R \subseteq other PROVE other = R
    <3>1. other \subseteq RunTo(K, A, m)
      BY <2>1, <2>3, ToldIsMaximal
    <3> QED BY <2>1, <2>3, <3>1
  <2> QED BY <2>2, <2>3 DEF Maximal
<1> QED BY <1>1, <1>2

LEMMA StreaksFollow == ViewsInv => StreaksExact
<1> SUFFICES ASSUME ViewsInv, NEW offices \in SUBSET Places
             PROVE  LET kept == InScope(offices)
                        runs == RunsOf(kept, AbsentOf(kept))
                    IN AbsentStreaks(offices) = {run \in Maximal(runs) : Cardinality(run) >= Streak}
  BY DEF StreaksExact
<1> DEFINE K == InScope(offices)
           A == AbsentOf(K)
           told == Ended(K, A, Today) \cup {RunTo(K, A, Today)}
<1>1. KeptUpTo(K, A, Today)
  BY RowsAre DEF InScope, TrackedIn, AbsentOf, KeptUpTo
<1>2. Scanned(offices) = ToldTo(K, A, Today)
  BY ScannedIs
<1>3. AbsentStreaks(offices) = Long(told)
  BY <1>2 DEF AbsentStreaks, Flush, ToldTo, Long
<1> HIDE DEF K, A
<1>4. ASSUME NEW run
      PROVE  run \in Long(told) <=> run \in Maximal(RunsOf(K, A)) /\ Cardinality(run) >= Streak
  <2>1. CASE run = {}
    <3>1. Cardinality({}) = 0 /\ Streak \in Nat \ {0}
      BY FS_EmptySet, HoursAssumption
    <3>2. ~(Cardinality(run) >= Streak)
      BY <2>1, <3>1
    <3> QED BY <3>2 DEF Long
  <2>2. CASE run # {}
    <3>1. run \in told <=> run \in Maximal(RunsOf(K, A))
      BY <1>1, <2>2, ToldAreMaximal
    <3> HIDE DEF told
    <3> QED BY <3>1 DEF Long
  <2> QED BY <2>1, <2>2
<1>5. AbsentStreaks(offices) = {run \in Maximal(RunsOf(K, A)) : Cardinality(run) >= Streak}
  <2> HIDE DEF told
  <2> QED BY <1>3, <1>4
<1> QED BY <1>5 DEF K, A

LEMMA ViewsFollow == ViewsInv => ViewsFollowCells
BY StripFollows, TileFollows, LineFollows, PickerFollows, LatenessHolds, SumsFollow,
   RegisterFollows, StreaksFollow DEF ViewsFollowCells

(* The day's screens, the month and the report tell the same days as the   *)
(* calendar's cells, whatever the rows, the corrections and the offices:   *)
(* ViewsInv says that every day's rows are rows of the day, corrected by   *)
(* one of the owner's corrections or by none.                              *)
THEOREM ViewsAreTheCells == ViewsSpec => []ViewsFollowCells
<1>1. ViewsSpec => []ViewsInv
  BY ViewsStart, ViewsStep, PTL DEF ViewsSpec
<1> QED BY <1>1, ViewsFollow, PTL
=============================================================================
