---------------------------- MODULE MCReportQueue ----------------------------
(* Instances of ReportQueue for TLC.                                       *)
EXTENDS ReportQueue, TLC

CONSTANTS t1

(* One company, so that the cap is contended.                              *)
OneTenant == [r \in Reports |-> t1]

QueueSymmetry == Permutations(Reports) \cup Permutations(Workers)
=============================================================================
