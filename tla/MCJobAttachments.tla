-------------------------- MODULE MCJobAttachments ---------------------------
EXTENDS JobAttachments, TLC

(* The photo step follows the step that starts the job.                    *)
MCTemplate == <<[sets |-> "in_progress", photo |-> FALSE],
                [sets |-> "completed", photo |-> TRUE]>>

(* The requests of one kind were left to expire and their rows cleaned up, *)
(* so that photos and signatures are examined one after the other.         *)
MCInit ==
  /\ NothingStored
  /\ \E expired \in {Photos, Signatures} :
       staging = [u \in Uploads |-> IF u \in expired THEN "gone" ELSE "none"]

(* Signatures and the job's row do not touch each other: it rests meanwhile. *)
MCNext ==
  /\ Next
  /\ (\E s \in Signatures : staging[s] # "gone") => UNCHANGED jobVars

MCSpec == MCInit /\ [][MCNext]_vars

Symmetry == Permutations(Sessions) \cup Permutations(Photos)
              \cup Permutations(Signatures)

=============================================================================
