--------------------------- MODULE MCAttendanceDays ---------------------------
EXTENDS LeaveReads, TLC

(* One office opens as the day begins, the other an hour later.            *)
CONSTANTS early, late

MCStartHour == [o \in Offices |-> IF o = early THEN 0 ELSE 1]

(* Who is tracked from the start works at the later office; the owner's    *)
(* edit may be to place somebody at either.                                *)
MCInit == Init /\ \A a \in assignments : a.office = late

MCSpec == MCInit /\ [][Next]_vars

Symmetry == Permutations(Requests)

=============================================================================
