---------------------------- MODULE JobLifecycle ----------------------------
(***************************************************************************)
(* What a job promises its company: it walks the steps of the workflow it  *)
(* was stamped with one at a time, each step leaving the status alone or   *)
(* setting it; only a scheduled job is cancelled or given to somebody      *)
(* else; nothing happens to a completed or cancelled one.                  *)
(***************************************************************************)
EXTENDS Naturals, Sequences

CONSTANTS Template,    \* the steps' effect on the status, in order
          Technicians

VARIABLES status, step, technician

job == <<status, step, technician>>

Open == {"scheduled", "in_progress"}

Fresh == status = "scheduled" /\ step = 0 /\ technician \in Technicians

Walk ==
  /\ status \in Open
  /\ step < Len(Template)
  /\ step' = step + 1
  /\ status' = IF Template[step'].sets = "keep" THEN status
               ELSE Template[step'].sets
  /\ UNCHANGED technician

CallOff ==
  /\ status = "scheduled"
  /\ status' = "cancelled"
  /\ UNCHANGED <<step, technician>>

HandOver ==
  /\ status = "scheduled"
  /\ technician' \in Technicians
  /\ UNCHANGED <<status, step>>

Lifecycle == Fresh /\ [][Walk \/ CallOff \/ HandOver]_job

=============================================================================
