---------------------------- MODULE MCSupervisor ----------------------------
(***************************************************************************)
(* Supervisor for TLC: all its constants are numbers.                      *)
(***************************************************************************)
EXTENDS Supervisor
=============================================================================
