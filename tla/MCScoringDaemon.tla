-------------------------- MODULE MCScoringDaemon --------------------------
(* A small daemon for TLC.                                                   *)
EXTENDS ScoringDaemon
=============================================================================
