---------------------------- MODULE MCAttemptClock ----------------------------
(***************************************************************************)
(* Instances of AttemptClock for TLC.  The clock stops at MaxTime.         *)
(***************************************************************************)
EXTENDS AttemptClock
==============================================================================
