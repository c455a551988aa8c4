----------------------------- MODULE MCTraceJourney -----------------------------
(* Instances of a trace's journey for TLC. *)
EXTENDS TraceJourney

Interchangeable == Permutations(Worker)
================================================================================
