------------------------------ MODULE MCSendTraces ------------------------------
(* Inputs of sendTraces for TLC, with a message limit of 3 spans. *)
EXTENDS SendTraces

\* All late; one and two immediate spans; a large trace of two scopes, with a late span.
MCTemplate == {[scopes |-> <<0>>, late |-> TRUE],
               [scopes |-> <<1>>, late |-> FALSE],
               [scopes |-> <<1, 1>>, late |-> TRUE],
               [scopes |-> <<5, 1>>, late |-> TRUE]}
================================================================================
