---------------------------- MODULE MCCustomerBook ----------------------------
(* One company's customers: two import requests with one key, or two job     *)
(* creations, beside the owner's edits.                                      *)
EXTENDS CustomerImport, JobCreation, TLC

CONSTANTS p1, p2, x, r1, r2, k1, c1, c2

Row(p, city, faulty) == [phone |-> p, city |-> city, faulty |-> faulty]

Plain == <<Row(p1, None, {}), Row(p2, x, {})>>

MCSheets == {Plain,
             <<Row(p1, x, {}), Row(None, None, {}), Row(p1, None, {"name"})>>}

(* Whether sheets are imported or jobs created beside the owner's edits.     *)
VARIABLE scene

Init ==
  /\ scene \in {"imports", "jobs"}
  /\ book \in [Phones -> {NoCustomer, [via |-> "manual", city |-> None]}]
  /\ NothingImported
  /\ scene = "jobs" => \A r \in Runs : sheet[r] = Plain
  /\ NoJobs
  /\ scene = "imports" => \A c \in Calls : wants[c] = [phone |-> p1, new |-> FALSE, own |-> FALSE]

Next ==
  /\ UNCHANGED scene
  /\ \/ OwnerEdits /\ UNCHANGED <<importVars, creationVars>>
     \/ scene = "imports" /\ ImportNext /\ UNCHANGED creationVars
     \/ scene = "jobs" /\ CreationNext /\ UNCHANGED importVars

Spec == Init /\ [][Next]_<<scene, book, importVars, creationVars>>

Symmetry == Permutations(Runs) \cup Permutations(Calls)
===============================================================================
