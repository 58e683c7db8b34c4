-------------------------- MODULE MCDaemonElection --------------------------
(* Two launchers, one of another version, and three daemon processes, of   *)
(* which any number may have been killed before.                           *)
EXTENDS DaemonElection, TLC
=============================================================================
