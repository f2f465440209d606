------------------------------ MODULE MCEdges ------------------------------
(***************************************************************************)
(* The edges of the daemon in one run: either a worker and its bridge run, *)
(* or the gateway serves requests, or one plan, text or history is read.   *)
(***************************************************************************)
EXTENDS MCBridge, MCIntake

\* A worker that has been stopped; nothing can happen to it.
NoWorker ==
  /\ kind = "agent" /\ held = FALSE
  /\ reply = [r \in Requests |-> "new"]
  /\ bridge = "done" /\ counter = 0 /\ pending = {} /\ routes = {}
  /\ child = "ended" /\ hand = Nobody
  /\ cmdq = <<>> /\ stdin = <<>> /\ stdout = <<>> /\ reports = <<>>
  /\ status = "Stopped" /\ crashes = 0

NoIntake ==
  /\ GInit /\ entry = NoEntry
  /\ input = [kind |-> "none"] /\ output = Unknown

EdgesInit == (Init /\ NoIntake) \/ (MCInit /\ NoWorker)

EdgesNext ==
  \/ input.kind = "none" /\ Next /\ UNCHANGED <<gvars, ivars>>
  \/ MCNext /\ UNCHANGED vars

EdgesSpec == EdgesInit /\ [][EdgesNext]_<<vars, gvars, ivars>> /\ Fairness
=============================================================================
