----------------------------- MODULE Remediation -----------------------------
(***************************************************************************)
(* Remediation plans of the agent controller: proposal, decision, expiry,  *)
(* execution, recovery of orphaned executions and the policy-gated         *)
(* autonomous path (internal/agentcontroller, the remediation commands of  *)
(* cmd/pilot-agent-controller).                                            *)
(*                                                                         *)
(* Every command is a process of its own on one SQLite file; each step     *)
(* below is one statement or one transaction, so commands interleave       *)
(* between their reads and their conditional updates.  A command may die   *)
(* at any step.  R1 and R2 (reapply) plans live in separate tables with    *)
(* the same lifecycle; RiskOf says which family a plan belongs to.         *)
(*                                                                         *)
(* Definitions named Buggy... are mutated forms of the definition that     *)
(* follows them.  No specification uses them: they show which slip of the  *)
(* code each property would catch.                                         *)
(***************************************************************************)
EXTENDS Naturals, FiniteSets, Sequences, AutonomyPolicy

CONSTANTS
  Procs,          \* concurrently running CLI processes
  Plans,          \* plan ids
  Incidents, Hosts, Components,
  RiskOf,         \* [Plans -> {"R1", "R2"}]: the plan's table family
  IncidentOf, HostOf, ComponentOf,
  Managed,        \* incidents whose subject is a managed host
  Config,         \* the policy configuration
  NoPlan,
  \* Bounds on the environment of one instance.
  OperatorModes,  \* the modes operators switch to
  OperatorScopes, \* the breakers operators trip and reset
  Resolvable,     \* the incidents whose alert resolves
  MaxAge          \* how many policy windows an approval outlives

ASSUME RemediationAssumption ==
  /\ IsFiniteSet(Plans)
  /\ NoPlan \notin Plans
  /\ RiskOf \in [Plans -> {"R1", "R2"}]
  /\ IncidentOf \in [Plans -> Incidents]
  /\ HostOf \in [Plans -> Hosts]
  /\ ComponentOf \in [Plans -> Components]
  /\ Managed \subseteq Incidents
  /\ Config \in PolicyConfig
  /\ OperatorModes \subseteq Modes
  /\ Resolvable \subseteq Incidents
  /\ MaxAge \in Nat

VARIABLES
  \* --- the controller's database
  planState,   \* remediation_plans.state / reapply_plans.state
  approvals,   \* approval rows of each plan, in insertion order
  run,         \* remediation_runs / reapply_runs: the one row of each plan
  breaker,     \* circuit_breakers: scopes that are OPEN
  mode,        \* autonomy_state.mode
  resolved,    \* incidents in a terminal status
  \* --- time
  expired,     \* plans whose expires_at has passed
  age,         \* how many of the policy windows each approval has outlived
  \* --- the processes
  pc, cmd,
  \* --- history, read by properties only
  applied,     \* how often each plan's action was sent to its host
  unattended   \* plans an autonomous process took into execution

dbVars == <<planState, approvals, run, breaker, mode, resolved>>
timeVars == <<expired, age>>
historyVars == <<applied, unattended>>
vars == <<dbVars, timeVars, pc, cmd, historyVars>>

-----------------------------------------------------------------------------
(* Rows and local memory *)

\* The outcomes of an execution.  The code has several unsuccessful ones; they
\* differ in wording only, every branch asks whether the plan is verified.
Results == {"APPLIED_VERIFIED", "EXECUTION_FAILED"}

PlanStates ==
  {"NONE", "PROPOSED", "APPROVED", "REJECTED", "EXPIRED", "EXECUTING"} \cup Results

Approval == [decision: {"approved", "rejected"}, actor: {"human", "policy"}]

\* Breaker scopes: "global", "component:<id>" and "host:<name>".
GlobalScope == <<"global", "">>
ComponentScope(c) == <<"component", c>>
HostScope(h) == <<"host", h>>
Scopes == {GlobalScope} \cup {ComponentScope(c) : c \in Components}
                        \cup {HostScope(h) : h \in Hosts}

\* Ages: an approval outlives the cooldown, then the component window, then
\* the host window (30m, 1h, 6h by default).
CooldownAge == 1
ComponentAge == 2
HostAge == 3

\* What GatherPolicyInput has collected before it reads the breakers.
NoFacts == [firing |-> FALSE, fresh |-> FALSE, cooling |-> FALSE,
            host |-> 0, component |-> 0, prior |-> 0, rejected |-> FALSE]
Facts == [firing: BOOLEAN, fresh: BOOLEAN, cooling: BOOLEAN,
          host: Nat, component: Nat, prior: Nat, rejected: BOOLEAN]

\* A command's local variables: its plan, whether it is auto-execute, the
\* deadline as its first clock reading saw it, the state it read, the decision
\* it is about to write, the plans it still has to recover, the mode, the
\* policy facts and the outcome.
Idle == [plan |-> NoPlan, auto |-> FALSE, late |-> FALSE, seen |-> "NONE",
         decision |-> "approved", todo |-> {}, mode |-> "disabled",
         facts |-> NoFacts, result |-> "EXECUTION_FAILED"]
Commands == [plan: Plans \cup {NoPlan}, auto: BOOLEAN, late: BOOLEAN,
             seen: PlanStates, decision: {"approved", "rejected"},
             todo: SUBSET Plans, mode: Modes, facts: Facts, result: Results]

Steps == {"idle", "decide", "expire", "recover", "evaluate", "gather",
          "breakers", "approve", "check", "mark", "apply", "finish",
          "tripComponent", "tripHost"}

PlansOK ==
  /\ planState \in [Plans -> PlanStates]
  /\ run \in [Plans -> Results \cup {"none"}]
  /\ applied \in [Plans -> Nat]

ApprovalsOK == approvals \in [Plans -> Seq(Approval)]

PolicyOK ==
  /\ breaker \subseteq Scopes
  /\ mode \in Modes
  /\ resolved \subseteq Incidents
  /\ expired \subseteq Plans
  /\ unattended \subseteq Plans

AgesOK == age \in [Plans -> 0..HostAge]

ProcsOK ==
  /\ pc \in [Procs -> Steps]
  /\ cmd \in [Procs -> Commands]

TypeOK == PlansOK /\ ApprovalsOK /\ PolicyOK /\ AgesOK /\ ProcsOK

Init ==
  /\ planState = [p \in Plans |-> "NONE"]
  /\ approvals = [p \in Plans |-> << >>]
  /\ run = [p \in Plans |-> "none"]
  /\ breaker = {}
  /\ mode = "disabled"
  /\ resolved = {}
  /\ expired = {}
  /\ age = [p \in Plans |-> 0]
  /\ pc = [c \in Procs |-> "idle"]
  /\ cmd = [c \in Procs |-> Idle]
  /\ applied = [p \in Plans |-> 0]
  /\ unattended = {}

-----------------------------------------------------------------------------
(* Queries of the policy, policy_gather.go *)

Family(risk) == {p \in Plans : RiskOf[p] = risk}

HasApproval(p, decision, actors) ==
  \E i \in DOMAIN approvals[p] :
    /\ approvals[p][i].decision = decision
    /\ approvals[p][i].actor \in actors

Approved(p) == HasApproval(p, "approved", {"human", "policy"})
PolicyApproved(p) == HasApproval(p, "approved", {"policy"})

\* Plans of the R1 family with the same host, component and action.  The
\* action id is folded into the component.
SameTarget(p) ==
  {q \in Family("R1") : HostOf[q] = HostOf[p] /\ ComponentOf[q] = ComponentOf[p]}

\* LastActionAt lies inside the cooldown.
Cooling(p) == \E q \in SameTarget(p) : Approved(q) /\ age[q] < CooldownAge

\* Counts the policy's own approvals only.
BuggyCountForHost(h) ==
  Cardinality({q \in Family("R1") : HostOf[q] = h /\ PolicyApproved(q) /\ age[q] < HostAge})

CountApprovedActionsForHost(h) ==
  Cardinality({q \in Family("R1") : HostOf[q] = h /\ Approved(q) /\ age[q] < HostAge})

CountApprovedActionsForComponent(c) ==
  Cardinality({q \in Family("R1") :
                 ComponentOf[q] = c /\ Approved(q) /\ age[q] < ComponentAge})

CountPolicyRunsForIncident(i) ==
  Cardinality({q \in Family("R1") :
                 IncidentOf[q] = i /\ run[q] # "none" /\ PolicyApproved(q)})

\* Looks at the plan instead of its target.
BuggyHasHumanRejection(p) == HasApproval(p, "rejected", {"human"})

HasHumanRejection(p) ==
  \E q \in SameTarget(p) : HasApproval(q, "rejected", {"human"})

-----------------------------------------------------------------------------
(* Operations on the plan tables *)

\* Starting, continuing and ending a command.
Begin(c, step, memory) ==
  /\ pc[c] = "idle"
  /\ pc' = [pc EXCEPT ![c] = step]
  /\ cmd' = [cmd EXCEPT ![c] = memory]

Goto(c, step) == pc' = [pc EXCEPT ![c] = step] /\ UNCHANGED cmd

Exit(c) ==
  /\ pc' = [pc EXCEPT ![c] = "idle"]
  /\ cmd' = [cmd EXCEPT ![c] = Idle]

\* requireManagedIncidentSubject: the one gate in front of both plan tables.
ManagedSubject(p) == IncidentOf[p] \in Managed

\* remediation propose, reapply-propose: CreatePlan / CreateReapplyPlan.
CreatePlan(p) ==
  /\ ManagedSubject(p)
  /\ planState[p] = "NONE"
  /\ planState' = [planState EXCEPT ![p] = "PROPOSED"]
  /\ UNCHANGED <<approvals, run, breaker, mode, resolved, timeVars, pc, cmd, historyVars>>

\* The state a command's GetPlan returns, and the check that follows it: an
\* open plan past its deadline goes to the expiring UPDATE, a plan in the
\* wanted state goes on, anything else ends the command.
Overdue(p, late) == planState[p] \in {"PROPOSED", "APPROVED"} /\ late

\* remediation approve / reject (and their reapply twins), first half of
\* recordApprovalDecision: read the plan, test its deadline, its state and the
\* hash the operator passed (a stale hash is an error that changes nothing).
DecideStart(c, p, decision) ==
  /\ LET late == p \in expired
         memory == [Idle EXCEPT !.plan = p, !.decision = decision,
                                !.late = late, !.seen = planState[p]]
     IN  \/ Overdue(p, late) /\ Begin(c, "expire", memory)
         \/ /\ ~Overdue(p, late)
            /\ planState[p] = "PROPOSED"
            /\ Begin(c, "decide", memory)
  /\ UNCHANGED <<dbVars, timeVars, historyVars>>

\* The UPDATE is not conditional on PROPOSED ...
BuggyRecordDecision(c) ==
  /\ pc[c] = "decide"
  /\ LET p == cmd[c].plan
     IN  /\ planState' = [planState EXCEPT ![p] =
              IF cmd[c].decision = "approved" THEN "APPROVED" ELSE "REJECTED"]
         /\ approvals' = [approvals EXCEPT ![p] =
              Append(@, [decision |-> cmd[c].decision, actor |-> "human"])]
  /\ Exit(c)
  /\ UNCHANGED <<run, breaker, mode, resolved, expired, age, historyVars>>

\* ... or writes the decision where the state belongs.
BuggyDecisionAsState(c) ==
  /\ pc[c] = "decide"
  /\ planState' = [planState EXCEPT ![cmd[c].plan] = cmd[c].decision]
  /\ Exit(c)
  /\ UNCHANGED <<approvals, age, run, breaker, mode, resolved, expired, historyVars>>

\* Second half of recordApprovalDecision: insert the approval and move the plan
\* in one transaction; when the plan is no longer PROPOSED it is rolled back.
RecordDecision(c) ==
  /\ pc[c] = "decide"
  /\ LET p == cmd[c].plan
         row == [decision |-> cmd[c].decision,
                 actor |-> IF cmd[c].auto THEN "policy" ELSE "human"]
     IN  \/ /\ planState[p] = "PROPOSED"
            /\ planState' = [planState EXCEPT ![p] =
                 IF cmd[c].decision = "approved" THEN "APPROVED" ELSE "REJECTED"]
            /\ approvals' = [approvals EXCEPT ![p] = Append(@, row)]
            /\ age' = [age EXCEPT ![p] = 0]
            /\ IF cmd[c].auto THEN Goto(c, "check") ELSE Exit(c)
         \/ /\ planState[p] # "PROPOSED"
            /\ Exit(c)
            /\ UNCHANGED <<planState, approvals, age>>
  /\ UNCHANGED <<run, breaker, mode, resolved, expired, historyVars>>

\* The UPDATE ignores the state that was read.
BuggyExpire(c) ==
  /\ pc[c] = "expire"
  /\ planState' = [planState EXCEPT ![cmd[c].plan] = "EXPIRED"]
  /\ Exit(c)
  /\ UNCHANGED <<approvals, run, breaker, mode, resolved, timeVars, historyVars>>

\* expireIfPastDeadline's UPDATE, conditional on the state that was read.  The
\* command then finds its plan EXPIRED and ends.
ExpireIfPastDeadline(c) ==
  /\ pc[c] = "expire"
  /\ LET p == cmd[c].plan
     IN  planState' = IF planState[p] = cmd[c].seen
                      THEN [planState EXCEPT ![p] = "EXPIRED"] ELSE planState
  /\ Exit(c)
  /\ UNCHANGED <<approvals, run, breaker, mode, resolved, timeVars, historyVars>>

\* First half of MarkExecuting: read, test the deadline against a fresh clock
\* and require APPROVED.
MarkExecutingRead(c) ==
  /\ pc[c] = "check"
  /\ LET p == cmd[c].plan
     IN  \/ /\ Overdue(p, p \in expired)
            /\ pc' = [pc EXCEPT ![c] = "expire"]
            /\ cmd' = [cmd EXCEPT ![c].seen = planState[p]]
         \/ /\ ~Overdue(p, p \in expired)
            /\ IF planState[p] = "APPROVED" THEN Goto(c, "mark") ELSE Exit(c)
  /\ UNCHANGED <<dbVars, timeVars, historyVars>>

\* The UPDATE trusts the state that was read.
BuggyMarkExecuting(c) ==
  /\ pc[c] = "mark"
  /\ planState' = [planState EXCEPT ![cmd[c].plan] = "EXECUTING"]
  /\ Goto(c, "apply")
  /\ UNCHANGED <<approvals, run, breaker, mode, resolved, timeVars, historyVars>>

\* Second half: the UPDATE conditional on APPROVED.  Zero rows changed is an
\* error, so only the process that moved the plan goes on to apply it.
MarkExecuting(c) ==
  /\ pc[c] = "mark"
  /\ LET p == cmd[c].plan
     IN  \/ /\ planState[p] = "APPROVED"
            /\ planState' = [planState EXCEPT ![p] = "EXECUTING"]
            /\ unattended' = IF cmd[c].auto THEN unattended \cup {p} ELSE unattended
            /\ Goto(c, "apply")
         \/ /\ planState[p] # "APPROVED"
            /\ Exit(c)
            /\ UNCHANGED <<planState, unattended>>
  /\ UNCHANGED <<approvals, run, breaker, mode, resolved, timeVars, applied>>

\* client.Apply / ReapplyApply: the action runs on the host and answers, or the
\* call fails.
Apply(c) ==
  /\ pc[c] = "apply"
  /\ applied' = [applied EXCEPT ![cmd[c].plan] = @ + 1]
  /\ \E r \in Results : cmd' = [cmd EXCEPT ![c].result = r]
  /\ pc' = [pc EXCEPT ![c] = "finish"]
  /\ UNCHANGED <<dbVars, timeVars, unattended>>

\* No unique index on plan_id.
BuggyFinishRunOK(p) == TRUE

\* FinishRun on plan p: the unique index refuses a second row, and with it the
\* whole transaction.
FinishRunOK(p) == run[p] = "none"

FinishRun(p, r) ==
  /\ run' = [run EXCEPT ![p] = r]
  /\ planState' = IF planState[p] = "EXECUTING"
                  THEN [planState EXCEPT ![p] = r] ELSE planState

\* The tail of execute, reapply-execute and auto-execute: record the outcome;
\* an autonomous run that is not verified goes on to trip its breakers.
Finish(c) ==
  /\ pc[c] = "finish"
  /\ LET p == cmd[c].plan
         r == cmd[c].result
     IN  \/ /\ FinishRunOK(p)
            /\ FinishRun(p, r)
            /\ IF cmd[c].auto /\ r # "APPLIED_VERIFIED"
               THEN Goto(c, "tripComponent") ELSE Exit(c)
         \/ /\ ~FinishRunOK(p)
            /\ Exit(c)
            /\ UNCHANGED <<run, planState>>
  /\ UNCHANGED <<approvals, breaker, mode, resolved, timeVars, historyVars>>

TripComponent(c) ==
  /\ pc[c] = "tripComponent"
  /\ breaker' = breaker \cup {ComponentScope(ComponentOf[cmd[c].plan])}
  /\ Goto(c, "tripHost")
  /\ UNCHANGED <<planState, approvals, run, mode, resolved, timeVars, historyVars>>

TripHost(c) ==
  /\ pc[c] = "tripHost"
  /\ breaker' = breaker \cup {HostScope(HostOf[cmd[c].plan])}
  /\ Exit(c)
  /\ UNCHANGED <<planState, approvals, run, mode, resolved, timeVars, historyVars>>

-----------------------------------------------------------------------------
(* Commands that execute *)

ExecutingPlans(risk) == {p \in Family(risk) : planState[p] = "EXECUTING"}

\* remediation execute (R1) goes straight to MarkExecuting; reapply-execute (R2)
\* first lists the EXECUTING plans of its family to recover them.
ExecuteStart(c, p) ==
  /\ LET memory == [Idle EXCEPT !.plan = p]
     IN  \/ RiskOf[p] = "R1" /\ Begin(c, "check", memory)
         \/ RiskOf[p] = "R2" /\ Begin(c, "recover",
                                      [memory EXCEPT !.todo = ExecutingPlans("R2")])
  /\ UNCHANGED <<dbVars, timeVars, historyVars>>

\* remediation auto-execute: read the clock once, list the EXECUTING R1 plans.
AutoExecuteStart(c, p) ==
  /\ RiskOf[p] = "R1"
  /\ Begin(c, "recover", [Idle EXCEPT !.plan = p, !.auto = TRUE,
                                      !.late = p \in expired,
                                      !.todo = ExecutingPlans("R1")])
  /\ UNCHANGED <<dbVars, timeVars, historyVars>>

\* An orphan is put back in line instead of being closed.
BuggyRecover(c) ==
  /\ pc[c] = "recover"
  /\ \E p \in cmd[c].todo :
       /\ planState' = [planState EXCEPT ![p] = "APPROVED"]
       /\ cmd' = [cmd EXCEPT ![c].todo = @ \ {p}]
  /\ UNCHANGED <<pc, approvals, run, breaker, mode, resolved, timeVars, historyVars>>

\* RecoverOrphanedExecutingPlans: one FinishRun transaction per listed plan; a
\* refused one aborts the whole command.
RecoverOrphanedPlan(c) ==
  /\ pc[c] = "recover"
  /\ \E p \in cmd[c].todo :
       \/ /\ FinishRunOK(p)
          /\ FinishRun(p, "EXECUTION_FAILED")
          /\ cmd' = [cmd EXCEPT ![c].todo = @ \ {p}]
          /\ UNCHANGED pc
       \/ /\ ~FinishRunOK(p)
          /\ Exit(c)
          /\ UNCHANGED <<run, planState>>
  /\ UNCHANGED <<approvals, breaker, mode, resolved, timeVars, historyVars>>

RecoverDone(c) ==
  /\ pc[c] = "recover"
  /\ cmd[c].todo = {}
  /\ Goto(c, IF cmd[c].auto THEN "evaluate" ELSE "check")
  /\ UNCHANGED <<dbVars, timeVars, historyVars>>

\* GetPlan must say PROPOSED; then AutonomyMode is read.
ReadModeStart(c) ==
  /\ pc[c] = "evaluate"
  /\ IF planState[cmd[c].plan] = "PROPOSED"
     THEN /\ pc' = [pc EXCEPT ![c] = "gather"]
          /\ cmd' = [cmd EXCEPT ![c].mode = mode]
     ELSE Exit(c)
  /\ UNCHANGED <<dbVars, timeVars, historyVars>>

\* GatherPolicyInput up to the breakers: the incident, a fresh plan from the
\* repair service (which may fail or disagree), and the history of approvals.
GatherPolicyInput(c) ==
  /\ pc[c] = "gather"
  /\ LET p == cmd[c].plan
     IN  \E fresh \in BOOLEAN :
           cmd' = [cmd EXCEPT ![c].facts =
             [firing |-> IncidentOf[p] \notin resolved,
              fresh |-> fresh,
              cooling |-> Cooling(p),
              host |-> CountApprovedActionsForHost(HostOf[p]),
              component |-> CountApprovedActionsForComponent(ComponentOf[p]),
              prior |-> CountPolicyRunsForIncident(IncidentOf[p]),
              rejected |-> HasHumanRejection(p)]]
  /\ pc' = [pc EXCEPT ![c] = "breakers"]
  /\ UNCHANGED <<dbVars, timeVars, historyVars>>

PolicyInputOf(c, env) ==
  LET p == cmd[c].plan
      f == cmd[c].facts
  IN  [mode |-> cmd[c].mode, risk |-> RiskOf[p], environment |-> env,
       optIn |-> IF f.fresh THEN {env} ELSE {},
       globalKill |-> GlobalScope \in breaker, componentKill |-> FALSE,
       maintenance |-> FALSE,
       globalBreaker |-> GlobalScope \in breaker,
       componentBreaker |-> ComponentScope(ComponentOf[p]) \in breaker,
       hostBreaker |-> HostScope(HostOf[p]) \in breaker,
       cooling |-> f.cooling, hostActions |-> f.host,
       componentActions |-> f.component, priorAutonomous |-> f.prior,
       firing |-> f.firing, rejected |-> f.rejected, fresh |-> f.fresh,
       auditWritable |-> TRUE, infraHealthy |-> f.fresh]

\* Read the three breakers, evaluate, record the decision; go on only in
\* enforced mode with allow_auto.
EvaluateAndRecord(c) ==
  /\ pc[c] = "breakers"
  /\ \E env \in Environments :
       IF /\ cmd[c].mode = "enforced"
          /\ EvaluatePolicy(Config, PolicyInputOf(c, env)) = "allow_auto"
       THEN /\ pc' = [pc EXCEPT ![c] = "approve"]
            /\ cmd' = [cmd EXCEPT ![c].facts = NoFacts]
       ELSE Exit(c)
  /\ UNCHANGED <<dbVars, timeVars, historyVars>>

\* The policy's own Approve: the same read as a human's, but against the clock
\* reading taken when the command began.
AutoApproveRead(c) ==
  /\ pc[c] = "approve"
  /\ LET p == cmd[c].plan
     IN  \/ /\ Overdue(p, cmd[c].late)
            /\ pc' = [pc EXCEPT ![c] = "expire"]
            /\ cmd' = [cmd EXCEPT ![c].seen = planState[p]]
         \/ /\ ~Overdue(p, cmd[c].late)
            /\ IF planState[p] = "PROPOSED" THEN Goto(c, "decide") ELSE Exit(c)
  /\ UNCHANGED <<dbVars, timeVars, historyVars>>

-----------------------------------------------------------------------------
(* Operators, incidents, time and crashes *)

SetAutonomyMode(m) ==
  /\ m \in OperatorModes \ {mode}
  /\ mode' = m
  /\ UNCHANGED <<planState, approvals, run, breaker, resolved, timeVars, pc, cmd, historyVars>>

\* autonomy kill <scope>: TripBreaker.
Kill(s) ==
  /\ s \in OperatorScopes \ breaker
  /\ breaker' = breaker \cup {s}
  /\ UNCHANGED <<planState, approvals, run, mode, resolved, timeVars, pc, cmd, historyVars>>

ResetBreaker(s) ==
  /\ s \in OperatorScopes \cap breaker
  /\ breaker' = breaker \ {s}
  /\ UNCHANGED <<planState, approvals, run, mode, resolved, timeVars, pc, cmd, historyVars>>

IncidentResolves(i) ==
  /\ i \in Resolvable \ resolved
  /\ resolved' = resolved \cup {i}
  /\ UNCHANGED <<planState, approvals, run, breaker, mode, timeVars, pc, cmd, historyVars>>

DeadlinePasses(p) ==
  /\ planState[p] # "NONE"
  /\ p \notin expired
  /\ expired' = expired \cup {p}
  /\ UNCHANGED <<dbVars, age, pc, cmd, historyVars>>

WindowPasses(p) ==
  /\ approvals[p] # << >>
  /\ age[p] < HostAge /\ age[p] < MaxAge
  /\ age' = [age EXCEPT ![p] = @ + 1]
  /\ UNCHANGED <<dbVars, expired, pc, cmd, historyVars>>

\* A process dies between two of its steps; a repair that had started may or
\* may not have reached the host (before or after Apply).
Crash(c) ==
  /\ pc[c] # "idle"
  /\ Exit(c)
  /\ UNCHANGED <<dbVars, timeVars, historyVars>>

Start(c) ==
  \E p \in Plans :
    \/ \E d \in {"approved", "rejected"} : DecideStart(c, p, d)
    \/ ExecuteStart(c, p)
    \/ AutoExecuteStart(c, p)

Continue(c) ==
  \/ RecordDecision(c) \/ ExpireIfPastDeadline(c)
  \/ MarkExecutingRead(c) \/ MarkExecuting(c) \/ Apply(c) \/ Finish(c)
  \/ TripComponent(c) \/ TripHost(c)
  \/ RecoverOrphanedPlan(c) \/ RecoverDone(c)
  \/ ReadModeStart(c) \/ GatherPolicyInput(c) \/ EvaluateAndRecord(c)
  \/ AutoApproveRead(c)

Environment ==
  \/ \E p \in Plans : CreatePlan(p) \/ DeadlinePasses(p) \/ WindowPasses(p)
  \/ \E m \in Modes : SetAutonomyMode(m)
  \/ \E s \in Scopes : Kill(s) \/ ResetBreaker(s)
  \/ \E i \in Incidents : IncidentResolves(i)

Next == Environment \/ \E c \in Procs : Start(c) \/ Continue(c) \/ Crash(c)

Spec == Init /\ [][Next]_vars

-----------------------------------------------------------------------------
(* Properties *)

Applying(p) == \E c \in Procs : pc[c] = "apply" /\ cmd[c].plan = p

\* A plan's action reaches its host at most once, whatever commands run on the
\* plan concurrently, crash, or recover it as an orphan (MarkExecuting's
\* conditional UPDATE is the only entry into execution).
ApplyAtMostOnce == \A p \in Plans : applied[p] <= 1

\* Nothing is applied, or about to be, without exactly one recorded decision
\* and that decision being an approval: a rejected, expired or undecided plan
\* never reaches its host (recordApprovalDecision, MarkExecuting).
AppliedOnlyIfApproved ==
  \A p \in Plans :
    applied[p] > 0 \/ Applying(p) =>
      Len(approvals[p]) = 1 /\ approvals[p][1].decision = "approved"

\* The run row and the plan row agree: a plan is in an outcome state exactly
\* when its one run row says so, also when recovery and the live process both
\* try to record an outcome (FinishRun's transaction and its unique index).
RunMatchesState ==
  \A p \in Plans :
    IF planState[p] \in Results THEN run[p] = planState[p] ELSE run[p] = "none"

(* The inductive invariant behind the three: *)

Started == {"EXECUTING"} \cup Results

\* Approval rows are written with the state they lead to.
DecisionMatchesState ==
  \A p \in Plans :
    /\ planState[p] \in {"NONE", "PROPOSED"} => approvals[p] = << >>
    /\ planState[p] \in {"APPROVED"} \cup Started =>
         Len(approvals[p]) = 1 /\ approvals[p][1].decision = "approved"

\* The permit to apply exists only after MarkExecuting, for one process, and
\* is used up by the one application.
SinglePermit ==
  /\ \A p \in Plans :
       /\ planState[p] \notin Started => applied[p] = 0
       /\ applied[p] > 0 => applied[p] = 1
  /\ \A c \in Procs : pc[c] = "apply" => applied[cmd[c].plan] = 0
  /\ \A c, d \in Procs :
       pc[c] = "apply" /\ pc[d] = "apply" /\ cmd[c].plan = cmd[d].plan => c = d

\* What a command remembers between its steps is still true of the database
\* in the way its next step needs.
CommandsSane ==
  \A c \in Procs :
    /\ pc[c] # "idle" => cmd[c].plan \in Plans
    /\ pc[c] = "expire" => cmd[c].seen \in {"PROPOSED", "APPROVED"}
    /\ pc[c] \in {"apply", "finish"} => planState[cmd[c].plan] \in Started
    /\ \A p \in cmd[c].todo : planState[p] \in Started

\* Together they are preserved by every step.
ExecutionInv ==
  TypeOK /\ DecisionMatchesState /\ SinglePermit /\ CommandsSane /\ RunMatchesState

Permits == {p \in Plans : Applying(p)}
Lifecycle == INSTANCE PlanLifecycle WITH
  state <- planState, permit <- Permits, effects <- applied

\* The store and its processes implement the lifecycle that PlanLifecycle
\* promises for every plan, whatever the interleaving: a permit is held between
\* MarkExecuting and Apply, and may be lost with its process.
ImplementsLifecycle == Lifecycle!Spec

\* An incident is repaired autonomously at most once ("max auto R1 per incident
\* episode: 1 [...] any prior autonomous attempt, successful or not, already
\* consumed this episode's one auto-repair budget", CountPolicyRunsForIncident).
AutoOncePerIncident ==
  \A p, q \in unattended : p # q => IncidentOf[p] # IncidentOf[q]

NewPolicyApproval(p) == ~PolicyApproved(p) /\ PolicyApproved(p)'

\* The repairs of a host that count against its budget, and the plans for the
\* same repair as p, stated apart from the queries that the policy uses.
RecentActions(h) ==
  {q \in Plans : /\ RiskOf[q] = "R1" /\ HostOf[q] = h /\ age[q] < HostAge
                 /\ \E i \in DOMAIN approvals[q] : approvals[q][i].decision = "approved"}
SameRepair(p, q) ==
  RiskOf[q] = "R1" /\ HostOf[q] = HostOf[p] /\ ComponentOf[q] = ComponentOf[p]

\* A policy approval never takes its host past the host budget (guards 8/9 of
\* EvaluatePolicy).
PolicyApprovalWithinBudget ==
  [][\A p \in Plans : NewPolicyApproval(p) =>
       Cardinality(RecentActions(HostOf[p])') <= Bounded(Config.hostBudget, 2)]_vars

\* Policy never approves a repair that a human has rejected, under whatever plan
\* id (guard 13).
NoPolicyApprovalAfterRejection ==
  [][\A p, q \in Plans : NewPolicyApproval(p) /\ SameRepair(p, q) =>
       \A i \in DOMAIN approvals[q] :
         approvals[q][i] # [decision |-> "rejected", actor |-> "human"]]_vars

Live(p) == \E c \in Procs : pc[c] \in {"apply", "finish"} /\ cmd[c].plan = p

\* Recovery never closes a plan that a live process is applying ("anything
\* still EXECUTING at startup was definitely orphaned, never a live concurrent
\* execution", RecoverOrphanedExecutingPlans).
RecoveryOnlyClosesOrphans ==
  [][\A c \in Procs : RecoverOrphanedPlan(c) =>
       \A p \in Plans : run[p] # run'[p] => ~Live(p)]_vars
=============================================================================
