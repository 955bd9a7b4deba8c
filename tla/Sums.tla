--------------------------------- MODULE Sums ---------------------------------
(* Sums over finite sets, for the modules that count and add up.             *)
EXTENDS Naturals, FiniteSets

(* The sum of a function: its units, counted.                                *)
SumOf(f) == Cardinality(UNION {{x} \X (1..f[x]) : x \in DOMAIN f})
===============================================================================
