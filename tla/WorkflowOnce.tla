---------------------------- MODULE WorkflowOnce ----------------------------
(***************************************************************************)
(* What a suite checkpoint promises about the target system, with no       *)
(* journal, lock or process in sight: the selected flows 1..N are the      *)
(* stages of one business workflow, a stage is started at most once, in    *)
(* the selected order, and only after the stage before it has passed.      *)
(* docs/getting-started/suite-runs.md, "Pause and resume a business        *)
(* workflow".                                                              *)
(***************************************************************************)
EXTENDS Naturals, Sequences

CONSTANT N             \* how many flows the suite selects

VARIABLES ran,         \* the stages started so far, in order
          passed       \* the stages whose operation passed

wvars == <<ran, passed>>

WInit == /\ ran = <<>>
         /\ passed = {}

\* A stage starts: the next one in order, when the previous one has passed.
WStart == /\ Len(ran) < N
          /\ Len(ran) > 0 => Len(ran) \in passed
          /\ ran' = Append(ran, Len(ran) + 1)
          /\ UNCHANGED passed

\* The stage that is under way passes.
WPass == /\ Len(ran) > 0
         /\ passed' = passed \cup {Len(ran)}
         /\ UNCHANGED ran

WNext == WStart \/ WPass

WSpec == WInit /\ [][WNext]_wvars
=============================================================================
