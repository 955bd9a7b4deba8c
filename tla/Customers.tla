------------------------------ MODULE Customers -------------------------------
(***************************************************************************)
(* The customers of one company.  The unique index on (tenant, country     *)
(* code, phone number) allows one row per phone, a row's phone never       *)
(* changes and nothing in the server deletes a row, so a phone stands for  *)
(* the row's id.  Of the columns an edit can fill and clear, `city` is     *)
(* kept; created_via never changes.                                        *)
(***************************************************************************)
EXTENDS Naturals, Sequences, FiniteSets

CONSTANTS Phones,
          Cities,
          None,        \* SQL NULL
          NoCustomer   \* no row

Origins == {"manual", "job_creation", "bulk_import"}

CustomerRows == [via : Origins, city : Cities \cup {None}]

ASSUME CustomerAssumption ==
  /\ IsFiniteSet(Phones)
  /\ None \notin Phones
  /\ None \notin Cities
  /\ NoCustomer \notin CustomerRows

VARIABLE book  \* the customers table

Known(p) == book[p] # NoCustomer

CustomersType == book \in [Phones -> CustomerRows \cup {NoCustomer}]

(* An INSERT that the unique index accepts.                                *)
Insert(p, via, city) ==
  /\ ~Known(p)
  /\ book' = [book EXCEPT ![p] = [via |-> via, city |-> city]]

(* createCustomer: the index refuses a second row for the phone (409).     *)
CreateCustomer(p, city) == Insert(p, "manual", city)

(* updateCustomer: one guarded UPDATE; a null or an empty text clears the  *)
(* column, a missing customer is a 404.                                    *)
UpdateCustomer(p, city) ==
  /\ Known(p)
  /\ book' = [book EXCEPT ![p].city = city]

OwnerEdits ==
  \E p \in Phones, city \in Cities \cup {None} :
    CreateCustomer(p, city) \/ UpdateCustomer(p, city)

=============================================================================
