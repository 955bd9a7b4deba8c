-------------------------------- MODULE MCJobs --------------------------------
(* One job: either the calls of two admins and three possible technicians    *)
(* race, or one technician's photos are uploaded.  The template's first step *)
(* leaves the job scheduled; the seeded template has six steps of these      *)
(* three kinds.                                                              *)
EXTENDS JobAttachments, TLC

CONSTANTS a1, a2, e1, e2, p1, p2, x1, x2

VARIABLE scene

MCTemplate == <<[sets |-> "keep", photo |-> FALSE],
                [sets |-> "in_progress", photo |-> TRUE],
                [sets |-> "completed", photo |-> FALSE]>>

MCInit ==
  /\ scene \in {"calls", "uploads"}
  /\ NothingStored
  /\ staging = [u \in Uploads |-> IF scene = "calls" THEN "gone" ELSE "none"]
  /\ scene = "uploads" => technician = e1

(* Nobody cancels or reassigns the job whose photos are examined.            *)
MCNext ==
  /\ scene' = scene
  /\ Next
  /\ scene = "uploads" => UNCHANGED <<upd, cancelLog>>
  /\ scene = "calls" => UNCHANGED uploadVars

MCSpec == MCInit /\ [][MCNext]_<<scene, vars>> /\ Fairness
===============================================================================
