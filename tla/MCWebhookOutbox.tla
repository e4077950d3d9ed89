--------------------------- MODULE MCWebhookOutbox ---------------------------
(* Small instances of WebhookOutbox for TLC. *)
EXTENDS WebhookOutbox, TLC

CONSTANTS p1, p2, s1, s2

\* Processes and snapshot ids are only compared with each other.
ProcessSymmetry == Permutations({p1, p2}) \cup Permutations({s1, s2})
=============================================================================
