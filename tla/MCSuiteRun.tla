---------------------------- MODULE MCSuiteRun ----------------------------
(* SuiteRun on a small instance. *)
EXTENDS SuiteRun
=============================================================================
