---------------------------- MODULE ServiceTopology ----------------------------
(* The service graph of the generated traces: BuildTopology and the choices made *)
(* in it (internal/generator/traces/topology.go).  Services are numbered in the  *)
(* order of their names; what a service's operations are called is left out.     *)
EXTENDS Naturals

CONSTANTS
  NumServices,
  Fanout        \* how many downstream services BuildTopology may draw: 1..3

ASSUME ServicesAssumption ==
  /\ NumServices \in Nat \ {0}
  /\ Fanout \subseteq Nat \ {0} /\ \E most \in Fanout : \A n \in Fanout : n <= most

Service == 1..NumServices

\* Mutant: the services drawn are counted around the end of the list.
Topologies_Around ==
  {[s \in Service |-> {t \in Service : \E i \in 1..n[s] : t = 1 + ((s + i - 1) % NumServices)}] :
     n \in [Service -> Fanout]}

\* Each service calls the next few of the list; the last one calls nobody.
Topologies ==
  {[s \in Service |-> {t \in Service : s < t /\ t <= s + n[s]}] : n \in [Service -> Fanout]}

\* services.ingress: every service is an entry point, or a single named one.  A name that
\* is no service (0 here) leaves no ingress at all.
Ingress(single, name) == IF single THEN {name} \cap Service ELSE Service

\* Where a trace may start: with no ingress, at the first service.
RootServices(single, name) ==
  IF Ingress(single, name) = {} THEN {1} ELSE Ingress(single, name)

\* A child span runs in its parent's service or in one downstream of it.
ChildServices(calls, s) == {s} \cup calls[s]
================================================================================
