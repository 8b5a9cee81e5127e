---------------------------- MODULE MCAssessments ----------------------------
(***************************************************************************)
(* Instances of Assessments for TLC.                                       *)
(***************************************************************************)
EXTENDS Assessments, TLC

CONSTANTS s1, s2

\* To another mode, another closing time, and out of the way.
Changes ==
  {"executionMode" :> "LIVE", "closesAt" :> "future", "status" :> "CANCELLED"}
==============================================================================
