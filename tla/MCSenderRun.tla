------------------------------ MODULE MCSenderRun ------------------------------
(* Instances of a sender run for TLC. *)
EXTENDS SenderRun, TLC

Interchangeable ==
  Permutations(TraceWorker) \cup Permutations(MetricsWorker) \cup Permutations(LogsWorker)
================================================================================
