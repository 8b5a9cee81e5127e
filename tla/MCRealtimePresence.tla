-------------------------- MODULE MCRealtimePresence --------------------------
(***************************************************************************)
(* Instances of RealtimePresence for TLC.                                  *)
(***************************************************************************)
EXTENDS RealtimePresence

CONSTANTS s1, s2

Openings(lobby, work) == [lobby |-> lobby, attempt |-> work]

\* One tab waits in the lobby, another works on the attempt and comes back.
LobbyAndWork ==
  [s \in Sockets |-> IF s = s1 THEN Openings(1, 0) ELSE Openings(0, 2)]
==============================================================================
