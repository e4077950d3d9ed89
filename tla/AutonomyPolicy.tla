--------------------------- MODULE AutonomyPolicy ---------------------------
(***************************************************************************)
(* The pure decision core of autonomous (R1) remediation,                  *)
(* internal/policy/policy.go.  EvaluatePolicy walks an ordered list of     *)
(* guards and answers with the decision of the first guard that fires;     *)
(* only when none fires is the action allowed without a human.             *)
(*                                                                         *)
(* Windows of time are abstracted to the facts the guards test: cooling    *)
(* says that the last approved action on the target lies inside the        *)
(* cooldown; the two counters are already restricted to their windows.     *)
(***************************************************************************)
EXTENDS Naturals, Integers, Sequences

Modes == {"disabled", "shadow", "enforced"}
Environments == {"sandbox", "staging", "prod"}
Decisions == {"deny", "require_human", "allow_auto"}

\* A budget that is absent or not positive falls back to its default.
Bounded(n, default) == IF n <= 0 THEN default ELSE n

\* ConfigDefaults: the fields EvaluatePolicy reads, plus the posture of each
\* environment.
PolicyConfig == [hostBudget: Int, componentBudget: Int,
                 humanOnly: SUBSET Environments]

DefaultConfig == [hostBudget |-> 2, componentBudget |-> 5,
                  humanOnly |-> {"prod"}]

\* PolicyInput together with the mode and the component's autonomy opt-in
\* (the set of environments for which its contract says "allowed").
PolicyInput ==
  [mode: Modes, risk: {"R1", "R2"}, environment: Environments \cup {"unknown"},
   optIn: SUBSET Environments,
   globalKill: BOOLEAN, componentKill: BOOLEAN, maintenance: BOOLEAN,
   globalBreaker: BOOLEAN, componentBreaker: BOOLEAN, hostBreaker: BOOLEAN,
   cooling: BOOLEAN, hostActions: Nat, componentActions: Nat,
   priorAutonomous: Nat, firing: BOOLEAN, rejected: BOOLEAN,
   fresh: BOOLEAN, auditWritable: BOOLEAN, infraHealthy: BOOLEAN]

Human(fires) == [fires |-> fires, decision |-> "require_human"]
Deny(fires) == [fires |-> fires, decision |-> "deny"]

\* The guards in the order the code tests them.
Guards(cfg, in) ==
  << Human(in.mode = "disabled"),
     Deny(in.risk # "R1"),
     Human(in.environment \notin Environments),
     Human(in.environment \in cfg.humanOnly),
     Human(in.environment \notin in.optIn),
     Deny(in.globalKill),
     Deny(in.componentKill),
     Human(in.maintenance),
     Deny(in.globalBreaker),
     Deny(in.componentBreaker),
     Deny(in.hostBreaker),
     Human(in.cooling),
     Deny(in.hostActions >= Bounded(cfg.hostBudget, 2)),
     Deny(in.componentActions >= Bounded(cfg.componentBudget, 5)),
     Human(in.priorAutonomous > 0),
     Deny(~in.firing),
     Human(in.rejected),
     Deny(~in.fresh),
     Deny(~in.auditWritable),
     Deny(~in.infraHealthy) >>

EvaluatePolicy(cfg, in) ==
  LET guards == Guards(cfg, in)
      firing == {i \in 1..Len(guards) : guards[i].fires}
  IN  IF firing = {} THEN "allow_auto"
      ELSE guards[CHOOSE i \in firing : \A j \in firing : i <= j].decision
=============================================================================
