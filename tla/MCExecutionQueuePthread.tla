---------------------- MODULE MCExecutionQueuePthread ----------------------
(* Instances of ExecutionQueuePthread for TLC. *)
EXTENDS ExecutionQueuePthread, TLC
=============================================================================
