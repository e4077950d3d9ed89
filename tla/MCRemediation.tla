---------------------------- MODULE MCRemediation ----------------------------
(* Small instances of Remediation for TLC. *)
EXTENDS Remediation, TLC

CONSTANTS planA, planB, planR, i1, h1, h2, k1

\* One R1 plan and one R2 plan of the same incident and host.
MixedRisk == planA :> "R1" @@ planR :> "R2"
MixedIncident == planA :> i1 @@ planR :> i1
MixedHost == planA :> h1 @@ planR :> h1
MixedComponent == planA :> k1 @@ planR :> k1

\* Two R1 plans of one incident, on two hosts or on one.
PairRisk == planA :> "R1" @@ planB :> "R1"
PairIncident == planA :> i1 @@ planB :> i1
PairHost == planA :> h1 @@ planB :> h2
SameHost == planA :> h1 @@ planB :> h1
PairComponent == planA :> k1 @@ planB :> k1

\* Operators reach the breaker of everything and the one of a host; the one of
\* a component is tripped by failed repairs alone.
ReachedScopes == {GlobalScope} \cup {HostScope(h) : h \in Hosts}

\* One action per host and window.
TightConfig == [hostBudget |-> 1, componentBudget |-> 5, humanOnly |-> {"prod"}]
=============================================================================
