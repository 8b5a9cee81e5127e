-------------------------- MODULE MCGradingPipeline --------------------------
(***************************************************************************)
(* Instances of GradingPipeline for TLC.                                   *)
(***************************************************************************)
EXTENDS GradingPipeline

CONSTANTS s1, w1, w2, r1, r2

\* Every fault but an outage that outlasts a callback token.
ShortOutages == Faults \ {"longOutage"}
==============================================================================
