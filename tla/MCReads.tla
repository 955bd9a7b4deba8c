------------------------------- MODULE MCReads -------------------------------
(* One company's reads under way while its rows change: a paged list, the    *)
(* profile's counts, a job's detail, or the sync of a technician's device;   *)
(* and what the screens show of a day with any rows and of a stretch of days. *)
EXTENDS JobDigests, DeltaSync, DayViews, TLC

CONSTANTS admin, t1, t2, j1, j2, w1, w2, o1, o2, k1, k2, stranger

VARIABLE scene

Row(c, d, s, t) == [created |-> c, start |-> d, status |-> s, technician |-> t]

(* Row ids disagree with the order of creation; two share a key, which is    *)
(* not the first moment of its millisecond.                                  *)
Created == <<2, 1, 1>>

Tables ==
  CASE scene = "pages" ->
         {[i \in Ids |-> IF i \in absent THEN NoRow ELSE Row(Created[i], f[i], s, t1)] :
            absent \in {{}, {1}}, f \in [Ids -> 0..1], s \in {"scheduled", "completed"}}
    [] scene = "counts" ->
         {[i \in Ids |-> IF i = 3 THEN NoRow ELSE Row(0, f[i], g[i], t1)] :
            f \in {<<0, 0>>, <<0, 1>>, <<1, 1>>},
            g \in [{1, 2} -> {"scheduled", "in_progress", "completed"}]}
    [] scene = "detail" ->
         {[i \in Ids |-> IF i = 1 THEN Row(0, 0, "scheduled", t) ELSE NoRow] : t \in {t1, t2}}
    [] scene \in {"report", "card"} ->
         {[i \in Ids |-> IF i = 3 /\ absent THEN NoRow ELSE Row(0, f[i], s, t1)] :
            absent \in BOOLEAN, f \in [Ids -> 0..IF scene = "card" THEN 1 ELSE 2],
            s \in {"scheduled", "in_progress"}}
    [] scene = "people" ->
         {[i \in Ids |-> IF i = 1 THEN Row(0, 0, "scheduled", t1) ELSE NoRow]}
    [] OTHER -> {[i \in Ids |-> NoRow]}

MCCustomerOf == [i \in Ids |-> IF i = 2 THEN k2 ELSE k1]

(* Most calls of one company: a report of all technicians or of one.       *)
Digests ==
  CASE scene = "report" -> {NoDigest("report", {}, 2), NoDigest("report", {t2}, 1)}
    [] scene = "card" -> {NoDigest("card", {}, 1)}
    [] OTHER -> {NoDigest("profile", {}, 1)}

(* The rows of a day: every mix for one day, a few kinds for a stretch.    *)
Halves == {"full_day", "first_half", "second_half"}
Leaves == {NoLeave} \cup {[state |-> s, part |-> p] : s \in {"pending", "approved"}, p \in Halves}
Punches == {NoTimes} \cup {[in |-> m, out |-> o] : m \in {1, 3}, o \in {4, 5, None}}

DayOf(e, r, o, l, g, p) ==
  [enrolled |-> e, ruled |-> r, off |-> o, leave |-> l, gps |-> g, fix |-> NoFix, place |-> p]

OneDay ==
  {DayOf(e, r, o, l, g, o1) :
     e \in {"yes", "late"}, r \in BOOLEAN, o \in {None, "weekly_off", "holiday"},
     l \in Leaves, g \in Punches}

AbsentDay == DayOf("yes", TRUE, None, NoLeave, NoTimes, o1)

FewKinds ==
  {AbsentDay, [AbsentDay EXCEPT !.enrolled = "no"],
   [AbsentDay EXCEPT !.off = "weekly_off", !.place = o2],
   [AbsentDay EXCEPT !.gps = [in |-> 3, out |-> 4], !.place = o2]}

MCDayRows == OneDay \cup FewKinds

(* The day just passed, if one did.                                        *)
NewDay == {days'[i] : i \in (Today + 1)..Len(days')}

(* What may change at a digest's stages, to keep the instance small.       *)
FewChanges ==
  /\ rows' # rows => digest.state \in {"paging", "listed", "jobs"}
  /\ \A i \in Ids :
       rows'[i] # rows[i] =>
         /\ rows'[i].created = 0
         /\ i \in Stored \/ rows'[i].technician = t2
         /\ scene = "card" => rows'[i].start <= 1
  /\ today' # today => digest.state = "built" /\ today' = 1
  /\ standing' # standing => scene = "people" \/ digest.state = "proofs"
  /\ proofs' # proofs => scene = "report" /\ digest.state = "idle"

Init ==
  /\ scene \in {"pages", "counts", "detail", "report", "card", "people",
                "sync", "day", "stretch"}
  /\ rows \in Tables
  /\ today = 0 /\ changes = 0 /\ steady = {} /\ moved = 0
  /\ \E l \in IF scene = "pages" THEN Lists ELSE {ProfileJobs},
        w \in IF scene = "pages" THEN {admin, t1} ELSE {admin} :
       reader = [NoReader EXCEPT !.list = l, !.who = w]
  /\ \E w \in IF scene = "counts" THEN {admin, t1} ELSE {admin} : profile = NoProfile(w)
  /\ log = [i \in Ids |-> 0]
  /\ \E w \in IF scene = "detail" THEN {admin, t1} ELSE {admin} : detail = NoDetail(w)
  /\ standing = [t \in Technicians |-> "member"]
  /\ proofs = [i \in Ids |-> 0]
  /\ digest \in Digests
  /\ shifts = 0
  /\ SyncInit
  /\ ViewsInit
  /\ scene # "sync" => \A j \in Jobs : job[j].owner = Device

Next ==
  /\ UNCHANGED scene
  /\ \/ /\ \/ scene = "pages" /\ PageStep
           \/ scene = "counts" /\ ProfileStep
           \/ scene = "detail" /\ DetailStep
           \/ scene \in {"pages", "counts", "detail"} /\ WriteStep
        /\ UNCHANGED <<digestVars, syncVars, viewVars>>
        /\ scene = "counts" => \A i \in Ids : rows'[i] # NoRow => rows'[i].created = 0
     \/ /\ scene \in {"report", "card", "people"}
        /\ UNCHANGED <<syncVars, viewVars>>
        /\ DigestNext
        /\ FewChanges
     \/ scene = "sync" /\ SyncNext /\ UNCHANGED <<feedVars, digestVars, viewVars>>
     \/ /\ scene = "day"                  \* the day after an absent one
        /\ UNCHANGED <<feedVars, digestVars, syncVars>>
        /\ ViewsNext
        /\ Len(days') <= 2 /\ acts' <= 1
        /\ Today = 1 => NewDay \subseteq {AbsentDay}
     \/ /\ scene = "stretch"
        /\ UNCHANGED <<feedVars, digestVars, syncVars>>
        /\ ViewsNext
        /\ NewDay \subseteq FewKinds
        /\ acts' = 2 => closed' # {} \/ days'[Len(days')].enrolled = "no"

Spec == Init /\ [][Next]_<<scene, feedVars, digestVars, syncVars, viewVars>>

Symmetry == Permutations(Jobs) \cup Permutations(Writers)
==============================================================================
