---------------------------- MODULE PlanLifecycle ----------------------------
(***************************************************************************)
(* What the remediation store promises about every plan, R1 or R2: one     *)
(* decision, taken while the plan is open; at most one permit to touch the *)
(* host, granted only after an approval; at most one effect per permit;    *)
(* one recorded outcome.                                                   *)
(*                                                                         *)
(* A permit is what MarkExecuting hands to the process that won the        *)
(* APPROVED -> EXECUTING transition.  It can be lost (the process dies)    *)
(* but never handed out twice.                                             *)
(***************************************************************************)
EXTENDS Naturals

CONSTANTS Plans, Results

VARIABLES state,    \* the plan's lifecycle state
          permit,   \* the plans whose one permit is outstanding
          effects   \* how often each plan's action reached its host

lifecycleVars == <<state, permit, effects>>

LifecycleStates ==
  {"NONE", "PROPOSED", "APPROVED", "REJECTED", "EXPIRED", "EXECUTING"} \cup Results

Init ==
  /\ state = [p \in Plans |-> "NONE"]
  /\ permit = {}
  /\ effects = [p \in Plans |-> 0]

Move(p, from, to) ==
  /\ state[p] = from
  /\ state' = [state EXCEPT ![p] = to]

Propose(p) == Move(p, "NONE", "PROPOSED") /\ UNCHANGED <<permit, effects>>

Decide(p) ==
  /\ Move(p, "PROPOSED", "APPROVED") \/ Move(p, "PROPOSED", "REJECTED")
  /\ UNCHANGED <<permit, effects>>

Expire(p) ==
  /\ Move(p, "PROPOSED", "EXPIRED") \/ Move(p, "APPROVED", "EXPIRED")
  /\ UNCHANGED <<permit, effects>>

Start(p) ==
  /\ Move(p, "APPROVED", "EXECUTING")
  /\ permit' = permit \cup {p}
  /\ UNCHANGED effects

\* The permit is spent: the host is touched, once.
Effect(p) ==
  /\ p \in permit
  /\ permit' = permit \ {p}
  /\ effects' = [effects EXCEPT ![p] = @ + 1]
  /\ UNCHANGED state

LosePermit(p) ==
  /\ p \in permit
  /\ permit' = permit \ {p}
  /\ UNCHANGED <<state, effects>>

Conclude(p) ==
  /\ \E r \in Results : Move(p, "EXECUTING", r)
  /\ UNCHANGED <<permit, effects>>

Next ==
  \E p \in Plans :
    \/ Propose(p) \/ Decide(p) \/ Expire(p) \/ Start(p)
    \/ Effect(p) \/ LosePermit(p) \/ Conclude(p)

Spec == Init /\ [][Next]_lifecycleVars
=============================================================================
