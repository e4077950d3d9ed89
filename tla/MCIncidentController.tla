------------------------ MODULE MCIncidentController ------------------------
(* Small instances of IncidentController for TLC. *)
EXTENDS IncidentController, TLC

CONSTANTS e1, e2, h1, b1, b2

\* Two alert identities on one host, or one of them without a host.
SameHost == e1 :> h1 @@ e2 :> h1
OneHostless == e1 :> h1 @@ e2 :> NoHost
=============================================================================
