--------------------------- MODULE MCSuiteJournal ---------------------------
(* SuiteJournal on a small instance. *)
EXTENDS SuiteJournal, TLC

CONSTANTS p1, p2, v1, v2, in1, in2

MCSymmetry == Permutations({p1, p2}) \cup Permutations({v1, v2}) \cup Permutations({in1, in2})
=============================================================================
