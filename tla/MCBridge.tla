------------------------------ MODULE MCBridge ------------------------------
(***************************************************************************)
(* The uses of a worker for model-checking WorkerBridge.                   *)
(***************************************************************************)
EXTENDS WorkerBridge

AllKinds == {"agent", "job", "participant", "capsule"}
JobOnly == {"job"}
=============================================================================
