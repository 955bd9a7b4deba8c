------------------------- MODULE PhotoModeration -------------------------
(* Reports of a job's photos and what the platform's reviewers do with     *)
(* them: src/src/jobs/attachment-reports.service.ts and                    *)
(* src/src/admin/admin-reports.service.ts.  A report and a resolution are  *)
(* each several statements that commit one by one, so another caller, or a *)
(* failure, may come between any two of them.  The photos are those of one *)
(* job, and one device, its technician's, holds what the job feed gave it. *)
EXTENDS Naturals

CONSTANTS
    JobPhotos,    \* the job's photos
    Viewers,      \* the people of the company
    Crew,         \* those of them whose role is employee
    Technician,   \* the employee the job is assigned to
    Staff,        \* the platform's reviewers
    MaxStamp      \* bound: how often the job may be stamped

ASSUME PhotoAssumption ==
    Crew \subseteq Viewers /\ Technician \in Crew /\ MaxStamp \in Nat

VARIABLES
    hidden,       \* the photos with hidden_at set
    report,       \* report[p][u]: the one report of photo p by person u
    stamp,        \* jobs.updated_at
    device,       \* the technician's device: its cursor and the photos it holds
    filing,       \* filing[u]: the photo u's report call found unhidden, or "none"
    resolving,    \* resolving[s]: the resolution s is in the middle of
    failed,       \* history: photos a hide gave up on
    dismissedOver,\* history: photos a report of which was dismissed over a hide
    late          \* history: reports stored when the photo was already hidden

photoVars == <<hidden, report, stamp, device, filing, resolving,
               failed, dismissedOver, late>>

NoReview == [stage |-> "idle"]
Stages == {"hide", "touch", "others", "claim"}
Resolution == [stage : Stages, action : {"hide", "dismiss"},
               photo : JobPhotos, by : Viewers]

(* A person is told of a job photo only when job detail would show it. *)
MayOpen(u) == u \in Crew => u = Technician

Hiding(p) == \E s \in Staff : /\ resolving[s] # NoReview
                              /\ resolving[s].action = "hide"
                              /\ resolving[s].photo = p

PhotoInit ==
    /\ hidden = {}
    /\ report = [p \in JobPhotos |-> [u \in Viewers |-> "none"]]
    /\ stamp = 1
    /\ device = [cursor |-> 0, photos |-> {}]
    /\ filing = [u \in Viewers |-> "none"]
    /\ resolving = [s \in Staff |-> NoReview]
    /\ failed = {} /\ dismissedOver = {} /\ late = {}

---------------------------------------------------------------------------
(* Reporting.  The photo is looked up first, and stored after. *)
FindPhoto(u, p) ==
    /\ filing[u] = "none"
    /\ MayOpen(u)
    /\ p \notin hidden
    /\ filing' = [filing EXCEPT ![u] = p]
    /\ UNCHANGED <<hidden, report, stamp, device, resolving,
                   failed, dismissedOver, late>>

(* A person who reported the photo before gets that report back. *)
StoreReport(u) ==
    /\ filing[u] # "none"
    /\ LET p == filing[u] IN
        IF report[p][u] = "none"
        THEN /\ report' = [report EXCEPT ![p][u] = "open"]
             /\ late' = IF p \in hidden THEN late \cup {<<p, u>>} ELSE late
        ELSE UNCHANGED <<report, late>>
    /\ filing' = [filing EXCEPT ![u] = "none"]
    /\ UNCHANGED <<hidden, stamp, device, resolving, failed, dismissedOver>>

---------------------------------------------------------------------------
(* Resolving.  Only an open report is taken up; a dismissal goes straight  *)
(* to the claim.                                                           *)
ReadReport(s, p, u, action) ==
    /\ resolving[s] = NoReview
    /\ report[p][u] = "open"
    /\ resolving' = [resolving EXCEPT ![s] =
          [stage |-> IF action = "hide" THEN "hide" ELSE "claim",
           action |-> action, photo |-> p, by |-> u]]
    /\ UNCHANGED <<hidden, report, stamp, device, filing,
                   failed, dismissedOver, late>>

MovesOn(s, stage) == resolving' = [resolving EXCEPT ![s].stage = stage]

HidePhoto(s) ==
    /\ resolving[s].stage = "hide"
    /\ hidden' = hidden \cup {resolving[s].photo}
    /\ MovesOn(s, "touch")
    /\ UNCHANGED <<report, stamp, device, filing, failed, dismissedOver, late>>

(* Mutant: the job keeps its old stamp. *)
TouchJobUnstamped(s) ==
    /\ resolving[s].stage = "touch"
    /\ MovesOn(s, "others")
    /\ UNCHANGED <<hidden, report, stamp, device, filing,
                   failed, dismissedOver, late>>

TouchJob(s) ==
    /\ resolving[s].stage = "touch"
    /\ stamp < MaxStamp
    /\ stamp' = stamp + 1
    /\ MovesOn(s, "others")
    /\ UNCHANGED <<hidden, report, device, filing, failed, dismissedOver, late>>

SettleOthers(s) ==
    /\ resolving[s].stage = "others"
    /\ report' = [report EXCEPT ![resolving[s].photo] =
          [u \in Viewers |->
             IF @[u] = "open" /\ u # resolving[s].by THEN "hidden" ELSE @[u]]]
    /\ MovesOn(s, "claim")
    /\ UNCHANGED <<hidden, stamp, device, filing, failed, dismissedOver, late>>

(* The claim settles the report if it is still open; otherwise the caller  *)
(* is told that it was resolved, and what the call did stays.              *)
ClaimReport(s) ==
    /\ resolving[s].stage = "claim"
    /\ LET c == resolving[s] IN
        IF report[c.photo][c.by] # "open"
        THEN UNCHANGED <<report, dismissedOver>>
        ELSE /\ report' = [report EXCEPT ![c.photo][c.by] =
                    IF c.action = "hide" THEN "hidden" ELSE "dismissed"]
             /\ dismissedOver' =
                  IF c.action = "dismiss" /\ (c.photo \in hidden \/ Hiding(c.photo))
                  THEN dismissedOver \cup {c.photo} ELSE dismissedOver
    /\ resolving' = [resolving EXCEPT ![s] = NoReview]
    /\ UNCHANGED <<hidden, stamp, device, filing, failed, late>>

(* A statement fails, or the process dies: what was committed stays. *)
GiveUp(s) ==
    /\ resolving[s] # NoReview
    /\ failed' = IF resolving[s].action = "hide"
                 THEN failed \cup {resolving[s].photo} ELSE failed
    /\ resolving' = [resolving EXCEPT ![s] = NoReview]
    /\ UNCHANGED <<hidden, report, stamp, device, filing, dismissedOver, late>>

---------------------------------------------------------------------------
(* The job feed: a job stamped after the cursor comes with the photos that *)
(* are not hidden, and the device replaces what it held.                   *)
SyncPhotos ==
    /\ stamp > device.cursor
    /\ device' = [cursor |-> stamp, photos |-> JobPhotos \ hidden]
    /\ UNCHANGED <<hidden, report, stamp, filing, resolving,
                   failed, dismissedOver, late>>

PhotoNext ==
    \/ \E u \in Viewers : StoreReport(u) \/ \E p \in JobPhotos : FindPhoto(u, p)
    \/ \E s \in Staff :
         \/ HidePhoto(s) \/ TouchJob(s) \/ SettleOthers(s)
         \/ ClaimReport(s) \/ GiveUp(s)
         \/ \E p \in JobPhotos, u \in Viewers, a \in {"hide", "dismiss"} :
              ReadReport(s, p, u, a)
    \/ SyncPhotos

PhotoSpec == PhotoInit /\ [][PhotoNext]_photoVars

---------------------------------------------------------------------------
PhotoTypeOK ==
    /\ hidden \subseteq JobPhotos /\ failed \subseteq JobPhotos
    /\ dismissedOver \subseteq JobPhotos /\ late \subseteq JobPhotos \X Viewers
    /\ report \in [JobPhotos -> [Viewers -> {"none", "open", "hidden", "dismissed"}]]
    /\ stamp \in 1..MaxStamp
    /\ device \in [cursor : 0..MaxStamp, photos : SUBSET JobPhotos]
    /\ filing \in [Viewers -> JobPhotos \cup {"none"}]
    /\ resolving \in [Staff -> Resolution \cup {NoReview}]

OpenOn(p) == \E u \in Viewers : report[p][u] = "open"

(* The device holds a hidden photo and no feed will take it away. *)
Stuck(p) == p \in hidden \cap device.photos /\ device.cursor = stamp

(* A hidden photo leaves the device once the hide that hid it stamped the  *)
(* job, or a report stays open for a reviewer to retry it, unless another  *)
(* reviewer dismissed the report in the meantime (admin-reports.service.ts,*)
(* "a retry after a partial failure finishes the job").                    *)
HiddenLeavesDevice ==
    \A p \in JobPhotos : Stuck(p) =>
        \/ \E s \in Staff : /\ resolving[s].stage = "touch"
                            /\ resolving[s].photo = p
        \/ p \in failed /\ (OpenOn(p) \/ p \in dismissedOver)

(* Once every hide of a photo has ended well, the queue holds no report of *)
(* it but those stored by a call that found the photo before it was hidden.*)
HiddenLeavesQueue ==
    \A p \in hidden \ failed : ~Hiding(p) =>
        \A u \in Viewers : report[p][u] = "open" => <<p, u>> \in late

(* A photo is hidden only on a report: one of its reports says so or is    *)
(* still open, unless a dismissal ran into the hide; and a report never    *)
(* says "hidden" of a photo that shows.                                    *)
HiddenOnReport ==
    \A p \in JobPhotos :
        /\ p \in hidden /\ ~Hiding(p) =>
             \/ \E u \in Viewers : report[p][u] \in {"open", "hidden"}
             \/ p \in dismissedOver
        /\ (\E u \in Viewers : report[p][u] = "hidden") => p \in hidden

(* Every hidden photo is off the device, out of the queue and accounted    *)
(* for by a report, but for the races and failures named above.            *)
HidesAccounted == HiddenLeavesDevice /\ HiddenLeavesQueue /\ HiddenOnReport
=============================================================================
