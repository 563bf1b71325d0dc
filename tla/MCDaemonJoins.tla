---------------------------- MODULE MCDaemonJoins ----------------------------
(***************************************************************************)
(* DaemonJoins for TLC, with the requests and totals of MCDaemon.          *)
(***************************************************************************)
EXTENDS DaemonJoins, MCDaemon

=============================================================================
