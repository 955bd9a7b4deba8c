------------------------------ MODULE MCCalendar ------------------------------
(***************************************************************************)
(* Six scenes of the owner's calendar: one member's place in the offices, *)
(* the pins and addresses of offices being created and edited, the weekly  *)
(* offs, the setup wizard, the readers of a day's facts, and the attempts  *)
(* of a working day.                                                       *)
(***************************************************************************)
EXTENDS DayContext, CheckInAttempts, TLC

CONSTANT ReaderEdits      \* bound: the owner's calls of the readers' scene

VARIABLE scene

MCStartHour == [o \in Offices |-> 0]

vars == <<scene, clock, periods, edits, officeVars, weeklyVars, contextVars,
          attemptVars>>

MCInit ==
  /\ scene \in {"members", "pins", "weekly", "setup", "readers", "attempts"}
  /\ WeeklyInit
  /\ AttemptsInit
  /\ OfficesInit
  /\ ContextInit
  /\ scene # "setup" => settings = "completed"
  /\ scene # "pins" => \A o \in Offices : pin[o] = CHOOSE x \in Pins : TRUE
  /\ scene = "readers" => joined /\ \A o \in Offices : known[o] = 1
  /\ scene \notin {"members", "setup", "readers"} => periods = <<{}, {}>> /\ joined
  /\ scene \notin {"members", "pins", "setup", "readers"} => known = [o \in Offices |-> 0]

MCNext ==
  \/ /\ scene = "members"
     /\ UNCHANGED <<scene, pin, address, weeklyVars, contextVars, attemptVars>>
     /\ OfficesNext
     /\ edits' < MaxEdits          \* one edit fewer here
     /\ \A call \in pending' : call[1] = "rules"
  \/ /\ scene = "pins"
     /\ UNCHANGED <<scene, periods, memberVars, weeklyVars, contextVars, attemptVars>>
     /\ OfficesNext
     /\ edits' < MaxEdits
  \/ /\ scene = "weekly"
     /\ WeeklyNext
     /\ UNCHANGED <<scene, officeVars, contextVars, attemptVars>>
  \/ /\ scene = "setup"
     /\ UNCHANGED <<scene, pin, address, weeklyVars, reading, attemptVars>>
     /\ ContextNext
     /\ edits' <= ReaderEdits
     /\ pending' = {}
  \/ /\ scene = "readers"
     /\ UNCHANGED <<scene, pin, address, memberVars, settings, wizard, attemptVars>>
     /\ ContextNext
     /\ edits' < ReaderEdits
     /\ \A call \in pending' : call[1] = "rules"
  \/ /\ scene = "attempts"
     /\ AttemptsNext
     /\ UNCHANGED <<scene, clock, periods, edits, officeVars, weeklyVars, contextVars>>

MCSpec == MCInit /\ [][MCNext]_vars

Symmetry == Permutations(Keys) \cup Permutations(Employees)

=============================================================================
