--------------------------- MODULE MCDraftRecovery ---------------------------
(***************************************************************************)
(* Instances of DraftRecovery for TLC; its constants are numbers, given in *)
(* the configurations.                                                     *)
(***************************************************************************)
EXTENDS DraftRecovery
==============================================================================
