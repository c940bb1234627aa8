-------------------------- MODULE MCPrecomputeWorker --------------------------
(* A queue of two and one restart: jobs of each priority meet in the queue. *)
EXTENDS WorkerHistory
================================================================================
