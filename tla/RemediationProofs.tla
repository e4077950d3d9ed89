-------------------------- MODULE RemediationProofs --------------------------
(***************************************************************************)
(* Remediation for any set of processes, any finite set of plans and any   *)
(* policy configuration: typing, the inductive invariant ExecutionInv and  *)
(* what follows from it.                                                   *)
(***************************************************************************)
EXTENDS Remediation, FiniteSetTheorems, SequenceTheorems, TLAPS

USE RemediationAssumption

\* Counting a set of plans gives a natural number.
LEMMA PlanCount ==
  ASSUME NEW S \in SUBSET Plans
  PROVE  Cardinality(S) \in Nat
BY FS_Subset, FS_CardinalityType

LEMMA IdleType == Idle \in Commands
BY DEF Idle, Commands, PlanStates, Results, Modes, NoFacts, Facts

\* Exit and Goto leave the process table well-typed.
LEMMA ExitType ==
  ASSUME ProcsOK, NEW c \in Procs, Exit(c)
  PROVE  ProcsOK'
BY IdleType DEF ProcsOK, Exit, Steps

LEMMA GotoType ==
  ASSUME ProcsOK, NEW c \in Procs, NEW s \in Steps, Goto(c, s)
  PROVE  ProcsOK'
BY DEF ProcsOK, Goto

\* What GatherPolicyInput counts is a natural number.
LEMMA FactsType ==
  ASSUME NEW p \in Plans
  PROVE  /\ CountApprovedActionsForHost(HostOf[p]) \in Nat
         /\ CountApprovedActionsForComponent(ComponentOf[p]) \in Nat
         /\ CountPolicyRunsForIncident(IncidentOf[p]) \in Nat
<1>1. CountApprovedActionsForHost(HostOf[p]) \in Nat
  BY PlanCount DEF CountApprovedActionsForHost, Family
<1>2. CountApprovedActionsForComponent(ComponentOf[p]) \in Nat
  BY PlanCount DEF CountApprovedActionsForComponent, Family
<1>3. CountPolicyRunsForIncident(IncidentOf[p]) \in Nat
  BY PlanCount DEF CountPolicyRunsForIncident, Family
<1>4. QED
  BY <1>1, <1>2, <1>3

\* The variables an action leaves alone keep their types.
LEMMA UnchangedType ==
  /\ PlansOK /\ UNCHANGED <<planState, run, applied>> => PlansOK'
  /\ ApprovalsOK /\ UNCHANGED approvals => ApprovalsOK'
  /\ PolicyOK /\ UNCHANGED <<breaker, mode, resolved, expired, unattended>> => PolicyOK'
  /\ AgesOK /\ UNCHANGED age => AgesOK'
  /\ ProcsOK /\ UNCHANGED <<pc, cmd>> => ProcsOK'
BY DEF PlansOK, ApprovalsOK, PolicyOK, AgesOK, ProcsOK

LEMMA StartType ==
  ASSUME TypeOK, NEW c \in Procs, Start(c)
  PROVE  TypeOK'
<1>0. PlansOK /\ ProcsOK
  BY DEF TypeOK
<1>1. PICK p \in Plans :
        \/ \E d \in {"approved", "rejected"} : DecideStart(c, p, d)
        \/ ExecuteStart(c, p)
        \/ AutoExecuteStart(c, p)
  BY DEF Start
<1>2. UNCHANGED <<dbVars, timeVars, historyVars>>
  BY <1>1 DEF DecideStart, ExecuteStart, AutoExecuteStart
<1>3. \A t \in SUBSET Plans, d \in {"approved", "rejected"}, l, u \in BOOLEAN, s \in PlanStates :
        /\ [Idle EXCEPT !.plan = p, !.decision = d, !.late = l, !.seen = s] \in Commands
        /\ [Idle EXCEPT !.plan = p] \in Commands
        /\ [[Idle EXCEPT !.plan = p] EXCEPT !.todo = t] \in Commands
        /\ [Idle EXCEPT !.plan = p, !.auto = TRUE, !.late = l, !.todo = t] \in Commands
  BY IdleType DEF Commands
<1>4. planState[p] \in PlanStates /\ (p \in expired) \in BOOLEAN
      /\ ExecutingPlans("R1") \in SUBSET Plans /\ ExecutingPlans("R2") \in SUBSET Plans
  BY <1>0 DEF PlansOK, ExecutingPlans, Family
<1>5. ASSUME NEW step \in Steps, NEW memory \in Commands, Begin(c, step, memory)
      PROVE  ProcsOK'
  BY <1>0, <1>5 DEF ProcsOK, Begin
<1>6. ProcsOK'
  <2>1. ASSUME NEW d \in {"approved", "rejected"}, DecideStart(c, p, d)
        PROVE  ProcsOK'
    BY <2>1, <1>3, <1>4, <1>5 DEF DecideStart, Steps
  <2>2. ASSUME ExecuteStart(c, p)
        PROVE  ProcsOK'
    BY <2>2, <1>3, <1>4, <1>5 DEF ExecuteStart, Steps
  <2>3. ASSUME AutoExecuteStart(c, p)
        PROVE  ProcsOK'
    BY <2>3, <1>3, <1>4, <1>5 DEF AutoExecuteStart, Steps
  <2>4. QED
    BY <1>1, <2>1, <2>2, <2>3
<1>7. QED
  BY <1>2, <1>6, UnchangedType DEF TypeOK, dbVars, timeVars, historyVars

LEMMA EnvironmentType ==
  ASSUME TypeOK, Environment
  PROVE  TypeOK'
<1> USE DEF dbVars, timeVars, historyVars
<1>1. ASSUME NEW p \in Plans, CreatePlan(p)
      PROVE  TypeOK'
  <2>1. PlansOK'
    BY <1>1 DEF CreatePlan, TypeOK, PlansOK, PlanStates
  <2>2. QED
    BY <1>1, <2>1, UnchangedType DEF CreatePlan, TypeOK
<1>2. ASSUME NEW p \in Plans, DeadlinePasses(p)
      PROVE  TypeOK'
  <2>1. PolicyOK'
    BY <1>2 DEF DeadlinePasses, TypeOK, PolicyOK
  <2>2. QED
    BY <1>2, <2>1, UnchangedType DEF DeadlinePasses, TypeOK
<1>3. ASSUME NEW p \in Plans, WindowPasses(p)
      PROVE  TypeOK'
  <2>1. AgesOK'
    BY <1>3 DEF WindowPasses, TypeOK, AgesOK, HostAge
  <2>2. QED
    BY <1>3, <2>1, UnchangedType DEF WindowPasses, TypeOK
<1>4. ASSUME NEW m \in Modes, SetAutonomyMode(m)
      PROVE  TypeOK'
  <2>1. PolicyOK'
    BY <1>4 DEF SetAutonomyMode, TypeOK, PolicyOK
  <2>2. QED
    BY <1>4, <2>1, UnchangedType DEF SetAutonomyMode, TypeOK
<1>5. ASSUME NEW s \in Scopes, Kill(s) \/ ResetBreaker(s)
      PROVE  TypeOK'
  <2>1. PolicyOK'
    BY <1>5 DEF Kill, ResetBreaker, TypeOK, PolicyOK
  <2>2. QED
    BY <1>5, <2>1, UnchangedType DEF Kill, ResetBreaker, TypeOK
<1>6. ASSUME NEW i \in Incidents, IncidentResolves(i)
      PROVE  TypeOK'
  <2>1. PolicyOK'
    BY <1>6 DEF IncidentResolves, TypeOK, PolicyOK
  <2>2. QED
    BY <1>6, <2>1, UnchangedType DEF IncidentResolves, TypeOK
<1>7. QED
  BY <1>1, <1>2, <1>3, <1>4, <1>5, <1>6 DEF Environment

\* A command between its first and its last step has a plan.
HasPlan(c) == pc[c] # "idle" => cmd[c].plan \in Plans

LEMMA ContinueType ==
  ASSUME TypeOK, NEW c \in Procs, HasPlan(c), Continue(c)
  PROVE  TypeOK'
<1> USE DEF dbVars, timeVars, historyVars
<1>0. PlansOK /\ ApprovalsOK /\ PolicyOK /\ AgesOK /\ ProcsOK
  BY DEF TypeOK
<1>m. cmd[c] \in Commands
  BY <1>0 DEF ProcsOK
<1>u. \A s \in Steps, memory \in Commands :
        pc' = [pc EXCEPT ![c] = s] /\ cmd' = [cmd EXCEPT ![c] = memory] => ProcsOK'
  BY <1>0 DEF ProcsOK
<1>1. CASE RecordDecision(c)
  <2>1. cmd[c].plan \in Plans /\ cmd[c].decision \in {"approved", "rejected"}
    BY <1>1, <1>m DEF RecordDecision, HasPlan, Commands
  <2>2. ProcsOK'
    BY <1>0, <1>1, ExitType, GotoType DEF RecordDecision, Steps
  <2>3. PlansOK'
    BY <1>0, <1>1, <2>1 DEF RecordDecision, PlansOK, PlanStates
  <2>4. AgesOK'
    BY <1>0, <1>1, <2>1 DEF RecordDecision, AgesOK, HostAge
  <2>5. ApprovalsOK'
    <3>1. PICK row \in Approval :
            approvals' = [approvals EXCEPT ![cmd[c].plan] = Append(@, row)]
            \/ UNCHANGED approvals
      BY <1>1, <2>1 DEF RecordDecision, Approval
    <3>2. Append(approvals[cmd[c].plan], row) \in Seq(Approval)
      BY <1>0, <2>1, AppendProperties DEF ApprovalsOK
    <3>3. QED
      BY <1>0, <2>1, <3>1, <3>2 DEF ApprovalsOK
  <2>6. QED
    BY <1>0, <1>1, <2>2, <2>3, <2>4, <2>5, UnchangedType DEF RecordDecision, TypeOK
<1>2. CASE ExpireIfPastDeadline(c)
  <2>1. PlansOK' /\ ProcsOK'
    BY <1>0, <1>2, ExitType DEF ExpireIfPastDeadline, PlansOK, PlanStates
  <2>2. QED
    BY <1>0, <1>2, <2>1, UnchangedType DEF ExpireIfPastDeadline, TypeOK
<1>3. CASE MarkExecutingRead(c) \/ AutoApproveRead(c)
  <2>1. planState[cmd[c].plan] \in PlanStates
    BY <1>0, <1>3 DEF MarkExecutingRead, AutoApproveRead, HasPlan, PlansOK
  <2>2. [cmd[c] EXCEPT !.seen = planState[cmd[c].plan]] \in Commands
    BY <1>m, <2>1 DEF Commands
  <2>3. ProcsOK'
    BY <1>0, <1>3, <1>u, <2>2, ExitType, GotoType DEF MarkExecutingRead, AutoApproveRead, Steps
  <2>4. QED
    BY <1>0, <1>3, <2>3, UnchangedType DEF MarkExecutingRead, AutoApproveRead, TypeOK
<1>4. CASE MarkExecuting(c)
  <2>1. PlansOK' /\ ProcsOK'
    BY <1>0, <1>4, ExitType, GotoType DEF MarkExecuting, PlansOK, PlanStates, Steps
  <2>2. PolicyOK'
    BY <1>0, <1>4 DEF MarkExecuting, PolicyOK, HasPlan
  <2>3. QED
    BY <1>0, <1>4, <2>1, <2>2, UnchangedType DEF MarkExecuting, TypeOK
<1>5. CASE Apply(c)
  <2>1. PlansOK'
    BY <1>0, <1>5 DEF Apply, HasPlan, PlansOK
  <2>2. \A r \in Results : [cmd[c] EXCEPT !.result = r] \in Commands
    BY <1>m DEF Commands
  <2>3. ProcsOK'
    BY <1>5, <1>u, <2>2 DEF Apply, Steps
  <2>4. QED
    BY <1>0, <1>5, <2>1, <2>3, UnchangedType DEF Apply, TypeOK
<1>6. CASE Finish(c)
  <2>1. cmd[c].result \in Results
    BY <1>m DEF Commands
  <2>2. PlansOK'
    BY <1>0, <1>6, <2>1 DEF Finish, FinishRun, PlansOK, PlanStates
  <2>3. ProcsOK'
    BY <1>0, <1>6, ExitType, GotoType DEF Finish, Steps
  <2>4. QED
    BY <1>0, <1>6, <2>2, <2>3, UnchangedType DEF Finish, TypeOK
<1>7. CASE TripComponent(c)
  <2>1. PolicyOK' /\ ProcsOK'
    BY <1>0, <1>7, GotoType DEF TripComponent, PolicyOK, Scopes, Steps, HasPlan
  <2>2. QED
    BY <1>0, <1>7, <2>1, UnchangedType DEF TripComponent, TypeOK
<1>8. CASE TripHost(c)
  <2>1. PolicyOK' /\ ProcsOK'
    BY <1>0, <1>8, ExitType DEF TripHost, PolicyOK, Scopes, HasPlan
  <2>2. QED
    BY <1>0, <1>8, <2>1, UnchangedType DEF TripHost, TypeOK
<1>9. CASE RecoverOrphanedPlan(c)
  <2>1. \A p \in cmd[c].todo :
          p \in Plans /\ [cmd[c] EXCEPT !.todo = @ \ {p}] \in Commands
    BY <1>m DEF Commands
  <2>2. PlansOK'
    BY <1>0, <1>9, <2>1 DEF RecoverOrphanedPlan, FinishRun, PlansOK, PlanStates, Results
  <2>3. ProcsOK'
    BY <1>0, <1>9, <2>1, ExitType DEF RecoverOrphanedPlan, ProcsOK
  <2>4. QED
    BY <1>0, <1>9, <2>2, <2>3, UnchangedType DEF RecoverOrphanedPlan, TypeOK
<1>10. CASE RecoverDone(c)
  <2>1. ProcsOK'
    BY <1>0, <1>10, GotoType DEF RecoverDone, Steps
  <2>2. QED
    BY <1>0, <1>10, <2>1, UnchangedType DEF RecoverDone, TypeOK
<1>11. CASE ReadModeStart(c)
  <2>1. [cmd[c] EXCEPT !.mode = mode] \in Commands
    BY <1>0, <1>m DEF Commands, PolicyOK
  <2>2. ProcsOK'
    BY <1>0, <1>11, <1>u, <2>1, ExitType DEF ReadModeStart, Steps
  <2>3. QED
    BY <1>0, <1>11, <2>2, UnchangedType DEF ReadModeStart, TypeOK
<1>12. CASE GatherPolicyInput(c)
  <2>1. cmd[c].plan \in Plans
    BY <1>12 DEF GatherPolicyInput, HasPlan
  <2>2. PICK f \in Facts : cmd' = [cmd EXCEPT ![c].facts = f]
    BY <1>12, <2>1, FactsType DEF GatherPolicyInput, Facts, Cooling, HasHumanRejection
  <2>3. [cmd[c] EXCEPT !.facts = f] \in Commands
    BY <1>m DEF Commands
  <2>4. ProcsOK'
    BY <1>12, <1>u, <2>2, <2>3 DEF GatherPolicyInput, Steps
  <2>5. QED
    BY <1>0, <1>12, <2>4, UnchangedType DEF GatherPolicyInput, TypeOK
<1>13. CASE EvaluateAndRecord(c)
  <2>1. [cmd[c] EXCEPT !.facts = NoFacts] \in Commands
    BY <1>m DEF Commands, NoFacts, Facts
  <2>2. ProcsOK'
    BY <1>0, <1>13, <1>u, <2>1, ExitType DEF EvaluateAndRecord, Steps
  <2>3. QED
    BY <1>0, <1>13, <2>2, UnchangedType DEF EvaluateAndRecord, TypeOK
<1>14. QED
  BY <1>1, <1>2, <1>3, <1>4, <1>5, <1>6, <1>7, <1>8, <1>9, <1>10, <1>11, <1>12, <1>13
  DEF Continue

-----------------------------------------------------------------------------
(* The inductive invariant *)

\* A step that only changes what process c remembers, without giving it a
\* permit, preserves the invariant when the new memory is sane.
LEMMA LocalStep ==
  ASSUME ExecutionInv, NEW c \in Procs, NEW s \in Steps \ {"apply", "finish"},
         NEW m \in Commands,
         pc' = [pc EXCEPT ![c] = s], cmd' = [cmd EXCEPT ![c] = m],
         UNCHANGED <<planState, approvals, run, applied>>,
         s # "idle" => m.plan \in Plans,
         s = "expire" => m.seen \in {"PROPOSED", "APPROVED"},
         \A p \in m.todo : planState[p] \in Started
  PROVE  DecisionMatchesState' /\ SinglePermit' /\ CommandsSane' /\ RunMatchesState'
<1>0. ProcsOK
  BY DEF ExecutionInv, TypeOK
<1>1. DecisionMatchesState'
  BY DEF ExecutionInv, DecisionMatchesState
<1>2. RunMatchesState'
  BY DEF ExecutionInv, RunMatchesState
<1>3. SinglePermit'
  BY <1>0 DEF ExecutionInv, SinglePermit, ProcsOK
<1>4. CommandsSane'
  BY <1>0 DEF ExecutionInv, CommandsSane, ProcsOK
<1>5. QED
  BY <1>1, <1>2, <1>3, <1>4

LEMMA IdleIsSane == Idle \in Commands /\ Idle.todo = {}
BY IdleType DEF Idle

LEMMA StartInv ==
  ASSUME ExecutionInv, NEW c \in Procs, Start(c)
  PROVE  DecisionMatchesState' /\ SinglePermit' /\ CommandsSane' /\ RunMatchesState'
<1>0. PlansOK /\ ProcsOK
  BY DEF ExecutionInv, TypeOK
<1>1. PICK p \in Plans :
        \/ \E d \in {"approved", "rejected"} : DecideStart(c, p, d)
        \/ ExecuteStart(c, p)
        \/ AutoExecuteStart(c, p)
  BY DEF Start
<1>2. UNCHANGED <<planState, approvals, run, applied>>
  BY <1>1 DEF DecideStart, ExecuteStart, AutoExecuteStart, dbVars, historyVars
<1>4. planState[p] \in PlanStates /\ (p \in expired) \in BOOLEAN
  BY <1>0 DEF PlansOK
<1>5. \A risk \in {"R1", "R2"} :
        /\ ExecutingPlans(risk) \in SUBSET Plans
        /\ \A q \in ExecutingPlans(risk) : planState[q] \in Started
  BY DEF ExecutingPlans, Family, Started
<1>6. ASSUME NEW d \in {"approved", "rejected"}, DecideStart(c, p, d)
      PROVE  \E s \in {"expire", "decide"}, m \in Commands :
               /\ Begin(c, s, m)
               /\ m.plan = p /\ m.todo = {}
               /\ s = "expire" => m.seen \in {"PROPOSED", "APPROVED"}
  <2> DEFINE m == [Idle EXCEPT !.plan = p, !.decision = d,
                               !.late = p \in expired, !.seen = planState[p]]
  <2>1. m \in Commands /\ m.plan = p /\ m.seen = planState[p] /\ m.todo = {}
    BY IdleIsSane, <1>4 DEF Commands
  <2>2. \/ Overdue(p, p \in expired) /\ Begin(c, "expire", m)
        \/ Begin(c, "decide", m)
    BY <1>6 DEF DecideStart
  <2>3. Overdue(p, p \in expired) => planState[p] \in {"PROPOSED", "APPROVED"}
    BY DEF Overdue
  <2>4. QED
    BY <2>1, <2>2, <2>3
<1>7. ASSUME ExecuteStart(c, p) \/ AutoExecuteStart(c, p)
      PROVE  \E s \in {"check", "recover"}, m \in Commands :
               /\ Begin(c, s, m)
               /\ m.plan = p
               /\ \A q \in m.todo : planState[q] \in Started
  <2> DEFINE Good(s, m) == /\ Begin(c, s, m)
                           /\ m \in Commands /\ m.plan = p
                           /\ \A q \in m.todo : planState[q] \in Started
  <2>1. CASE ExecuteStart(c, p)
    <3> DEFINE m1 == [Idle EXCEPT !.plan = p]
               m2 == [[Idle EXCEPT !.plan = p] EXCEPT !.todo = ExecutingPlans("R2")]
    <3>1. m1 \in Commands /\ m1.plan = p /\ m1.todo = {}
      BY IdleIsSane, <1>4, <1>5 DEF Commands
    <3>2. m2 \in Commands /\ m2.plan = p /\ m2.todo = ExecutingPlans("R2")
      BY IdleIsSane, <1>4, <1>5 DEF Commands
    <3>3. Begin(c, "check", m1) \/ Begin(c, "recover", m2)
      BY <2>1 DEF ExecuteStart
    <3> HIDE DEF m1, m2
    <3>4. Good("check", m1) \/ Good("recover", m2)
      BY <1>5, <3>1, <3>2, <3>3
    <3>5. QED
      BY <3>1, <3>2, <3>4
  <2>2. CASE AutoExecuteStart(c, p)
    <3> DEFINE m3 == [Idle EXCEPT !.plan = p, !.auto = TRUE, !.late = p \in expired,
                                  !.todo = ExecutingPlans("R1")]
    <3>1. m3 \in Commands /\ m3.plan = p /\ m3.todo = ExecutingPlans("R1")
      BY IdleIsSane, <1>4, <1>5 DEF Commands
    <3>2. Begin(c, "recover", m3)
      BY <2>2 DEF AutoExecuteStart
    <3> HIDE DEF m3
    <3>3. QED
      BY <1>5, <3>1, <3>2
  <2>3. QED
    BY <1>7, <2>1, <2>2
<1>8. QED
  BY <1>1, <1>2, <1>6, <1>7, LocalStep DEF Begin, Steps

LEMMA ExitInv ==
  ASSUME ExecutionInv, NEW c \in Procs, Exit(c),
         UNCHANGED <<planState, approvals, run, applied>>
  PROVE  DecisionMatchesState' /\ SinglePermit' /\ CommandsSane' /\ RunMatchesState'
BY IdleIsSane, LocalStep DEF Exit, Steps

LEMMA GotoInv ==
  ASSUME ExecutionInv, NEW c \in Procs, NEW s \in Steps \ {"apply", "finish", "expire"},
         Goto(c, s), pc[c] # "idle",
         UNCHANGED <<planState, approvals, run, applied>>
  PROVE  DecisionMatchesState' /\ SinglePermit' /\ CommandsSane' /\ RunMatchesState'
<1>0. cmd \in [Procs -> Commands]
  BY DEF ExecutionInv, TypeOK, ProcsOK
<1>1. cmd[c] \in Commands /\ cmd' = [cmd EXCEPT ![c] = cmd[c]]
  BY <1>0 DEF Goto
<1>2. cmd[c].plan \in Plans /\ \A p \in cmd[c].todo : planState[p] \in Started
  BY DEF ExecutionInv, CommandsSane
<1>3. QED
  BY <1>1, <1>2, LocalStep DEF Goto

\* The steps of auto-execute that only read.
LEMMA ReadingInv ==
  ASSUME ExecutionInv, NEW c \in Procs,
         \/ MarkExecutingRead(c) \/ AutoApproveRead(c) \/ RecoverDone(c)
         \/ ReadModeStart(c) \/ GatherPolicyInput(c) \/ EvaluateAndRecord(c)
  PROVE  DecisionMatchesState' /\ SinglePermit' /\ CommandsSane' /\ RunMatchesState'
<1> DEFINE Goal == DecisionMatchesState' /\ SinglePermit' /\ CommandsSane' /\ RunMatchesState'
<1>0. PlansOK /\ PolicyOK /\ ProcsOK /\ cmd[c] \in Commands
  BY DEF ExecutionInv, TypeOK, ProcsOK
<1>1. pc[c] # "idle" /\ UNCHANGED <<planState, approvals, run, applied>>
  <2>1. pc[c] # "idle"
    BY DEF MarkExecutingRead, AutoApproveRead, RecoverDone, ReadModeStart, GatherPolicyInput,
           EvaluateAndRecord
  <2>2. UNCHANGED <<dbVars, timeVars, historyVars>>
    BY DEF MarkExecutingRead, AutoApproveRead, RecoverDone, ReadModeStart, GatherPolicyInput,
           EvaluateAndRecord
  <2>3. QED
    BY <2>1, <2>2 DEF dbVars, historyVars
<1>2. cmd[c].plan \in Plans /\ \A p \in cmd[c].todo : planState[p] \in Started
  BY <1>1 DEF ExecutionInv, CommandsSane
<1>3. CASE MarkExecutingRead(c) \/ AutoApproveRead(c)
  <2> DEFINE m == [cmd[c] EXCEPT !.seen = planState[cmd[c].plan]]
  <2>1. m \in Commands /\ m.plan = cmd[c].plan /\ m.todo = cmd[c].todo
        /\ m.seen = planState[cmd[c].plan]
    BY <1>0, <1>2 DEF Commands, PlansOK
  <2>2. \/ /\ planState[cmd[c].plan] \in {"PROPOSED", "APPROVED"}
           /\ pc' = [pc EXCEPT ![c] = "expire"] /\ cmd' = [cmd EXCEPT ![c] = m]
        \/ Goto(c, "mark") \/ Goto(c, "decide") \/ Exit(c)
    BY <1>3 DEF MarkExecutingRead, AutoApproveRead, Overdue
  <2>3. QED
    BY <1>1, <1>2, <2>1, <2>2, LocalStep, ExitInv, GotoInv DEF Steps
<1>4. CASE RecoverDone(c)
  BY <1>1, <1>4, GotoInv DEF RecoverDone, Steps
<1>5. CASE ReadModeStart(c)
  <2> DEFINE m == [cmd[c] EXCEPT !.mode = mode]
  <2>1. m \in Commands /\ m.plan = cmd[c].plan /\ m.todo = cmd[c].todo
    BY <1>0 DEF Commands, PolicyOK
  <2>2. \/ pc' = [pc EXCEPT ![c] = "gather"] /\ cmd' = [cmd EXCEPT ![c] = m]
        \/ Exit(c)
    BY <1>5 DEF ReadModeStart
  <2>3. QED
    BY <1>1, <1>2, <2>1, <2>2, LocalStep, ExitInv DEF Steps
<1>6. CASE GatherPolicyInput(c)
  <2>1. PICK f \in Facts : cmd' = [cmd EXCEPT ![c].facts = f]
    BY <1>2, <1>6, FactsType DEF GatherPolicyInput, Facts, Cooling, HasHumanRejection
  <2> DEFINE m == [cmd[c] EXCEPT !.facts = f]
  <2>2. m \in Commands /\ m.plan = cmd[c].plan /\ m.todo = cmd[c].todo
    BY <1>0 DEF Commands
  <2>3. QED
    BY <1>1, <1>2, <1>6, <2>1, <2>2, LocalStep DEF GatherPolicyInput, Steps
<1>7. CASE EvaluateAndRecord(c)
  <2> DEFINE m == [cmd[c] EXCEPT !.facts = NoFacts]
  <2>1. m \in Commands /\ m.plan = cmd[c].plan /\ m.todo = cmd[c].todo
    BY <1>0 DEF Commands, NoFacts, Facts
  <2>2. \/ pc' = [pc EXCEPT ![c] = "approve"] /\ cmd' = [cmd EXCEPT ![c] = m]
        \/ Exit(c)
    BY <1>7 DEF EvaluateAndRecord
  <2>3. QED
    BY <1>1, <1>2, <2>1, <2>2, LocalStep, ExitInv DEF Steps
<1>8. QED
  BY <1>3, <1>4, <1>5, <1>6, <1>7

-----------------------------------------------------------------------------
(* Steps that write the plan tables *)

\* No step takes a started plan back, so a process that neither gains nor uses
\* a permit keeps permits unique and everybody's memory true.
LEMMA QuietStep ==
  ASSUME ExecutionInv, NEW c \in Procs, NEW s \in Steps \ {"apply", "finish"},
         NEW m \in Commands,
         pc' = [pc EXCEPT ![c] = s], cmd' = [cmd EXCEPT ![c] = m],
         UNCHANGED applied,
         \A q \in Plans : planState[q] \in Started => planState'[q] \in Started,
         s # "idle" => m.plan \in Plans,
         s # "expire",
         \A p \in m.todo : p \in Plans /\ planState'[p] \in Started
  PROVE  SinglePermit' /\ CommandsSane'
<1>0. ProcsOK
  BY DEF ExecutionInv, TypeOK
<1>1. SinglePermit'
  BY <1>0 DEF ExecutionInv, SinglePermit, ProcsOK
<1>2. CommandsSane'
  <2> SUFFICES ASSUME NEW d \in Procs
               PROVE  /\ pc'[d] # "idle" => cmd'[d].plan \in Plans
                      /\ pc'[d] = "expire" => cmd'[d].seen \in {"PROPOSED", "APPROVED"}
                      /\ pc'[d] \in {"apply", "finish"} => planState'[cmd'[d].plan] \in Started
                      /\ \A p \in cmd'[d].todo : planState'[p] \in Started
    BY DEF CommandsSane
  <2>1. CASE d = c
    BY <1>0, <2>1 DEF ProcsOK
  <2>2. CASE d # c
    <3>1. pc'[d] = pc[d] /\ cmd'[d] = cmd[d] /\ cmd[d].todo \subseteq Plans
      BY <1>0, <2>2 DEF ProcsOK, Commands
    <3>2. QED
      BY <3>1 DEF ExecutionInv, CommandsSane
  <2>3. QED
    BY <2>1, <2>2
<1>3. QED
  BY <1>1, <1>2

LEMMA QuietExit ==
  ASSUME ExecutionInv, NEW c \in Procs, Exit(c), UNCHANGED applied,
         \A q \in Plans : planState[q] \in Started => planState'[q] \in Started
  PROVE  SinglePermit' /\ CommandsSane'
BY IdleIsSane, QuietStep DEF Exit, Steps

LEMMA QuietGoto ==
  ASSUME ExecutionInv, NEW c \in Procs, NEW s \in Steps \ {"apply", "finish", "expire"},
         Goto(c, s), pc[c] # "idle", UNCHANGED applied,
         \A q \in Plans : planState[q] \in Started => planState'[q] \in Started
  PROVE  SinglePermit' /\ CommandsSane'
<1>0. cmd \in [Procs -> Commands]
  BY DEF ExecutionInv, TypeOK, ProcsOK
<1>1. cmd[c] \in Commands /\ cmd' = [cmd EXCEPT ![c] = cmd[c]] /\ cmd[c].todo \subseteq Plans
  BY <1>0 DEF Goto, Commands
<1>2. cmd[c].plan \in Plans /\ \A p \in cmd[c].todo : planState[p] \in Started
  BY DEF ExecutionInv, CommandsSane
<1>3. QED
  BY <1>1, <1>2, QuietStep DEF Goto

\* A decision is recorded on an open plan, together with its one row.
LEMMA RecordDecisionInv ==
  ASSUME ExecutionInv, NEW c \in Procs, RecordDecision(c)
  PROVE  DecisionMatchesState' /\ SinglePermit' /\ CommandsSane' /\ RunMatchesState'
<1> DEFINE p == cmd[c].plan
<1>0. PlansOK /\ ApprovalsOK /\ ProcsOK /\ cmd[c] \in Commands
  BY DEF ExecutionInv, TypeOK, ProcsOK
<1>1. p \in Plans /\ pc[c] # "idle" /\ UNCHANGED <<run, applied>>
  BY DEF RecordDecision, ExecutionInv, CommandsSane, historyVars
<1>2. CASE planState[p] # "PROPOSED"
  BY <1>1, <1>2, ExitInv DEF RecordDecision
<1>3. CASE planState[p] = "PROPOSED"
  <2>1. PICK row \in Approval :
          /\ row.decision = cmd[c].decision
          /\ planState' = [planState EXCEPT ![p] =
               IF row.decision = "approved" THEN "APPROVED" ELSE "REJECTED"]
          /\ approvals' = [approvals EXCEPT ![p] = Append(@, row)]
    BY <1>0, <1>3 DEF RecordDecision, Approval, Commands
  <2>2. approvals[p] = << >>
    BY <1>1, <1>3 DEF ExecutionInv, DecisionMatchesState
  <2>3. approvals'[p] = <<row>>
    BY <1>0, <1>1, <2>1, <2>2 DEF ApprovalsOK
  <2>4. Len(approvals'[p]) = 1 /\ approvals'[p][1] = row
    BY <2>3
  <2>5. \A q \in Plans \ {p} : planState'[q] = planState[q] /\ approvals'[q] = approvals[q]
    BY <1>0, <2>1 DEF PlansOK, ApprovalsOK
  <2>6. planState'[p] = IF row.decision = "approved" THEN "APPROVED" ELSE "REJECTED"
    BY <1>0, <1>1, <2>1 DEF PlansOK
  <2>7. DecisionMatchesState'
    BY <2>4, <2>5, <2>6 DEF ExecutionInv, DecisionMatchesState, Started, Results
  <2>8. RunMatchesState'
    BY <1>1, <1>3, <2>5, <2>6 DEF ExecutionInv, RunMatchesState, Results
  <2>9. \A q \in Plans : planState[q] \in Started => planState'[q] \in Started
    BY <1>3, <2>5, <2>6 DEF Started, Results
  <2>10. Exit(c) \/ Goto(c, "check")
    BY <1>3 DEF RecordDecision
  <2>11. SinglePermit' /\ CommandsSane'
    BY <1>1, <2>9, <2>10, QuietExit, QuietGoto DEF Steps
  <2>12. QED
    BY <2>7, <2>8, <2>11
<1>4. QED
  BY <1>2, <1>3

\* Only an open plan expires.
LEMMA ExpireInv ==
  ASSUME ExecutionInv, NEW c \in Procs, ExpireIfPastDeadline(c)
  PROVE  DecisionMatchesState' /\ SinglePermit' /\ CommandsSane' /\ RunMatchesState'
<1> DEFINE p == cmd[c].plan
<1>0. PlansOK
  BY DEF ExecutionInv, TypeOK
<1>1. p \in Plans /\ cmd[c].seen \in {"PROPOSED", "APPROVED"}
  BY DEF ExpireIfPastDeadline, ExecutionInv, CommandsSane
<1>2. UNCHANGED <<approvals, run, applied>> /\ Exit(c)
  BY DEF ExpireIfPastDeadline, historyVars
<1>3. \A q \in Plans :
        \/ planState'[q] = planState[q]
        \/ planState[q] \in {"PROPOSED", "APPROVED"} /\ planState'[q] = "EXPIRED"
  BY <1>0, <1>1 DEF ExpireIfPastDeadline, PlansOK
<1>4. DecisionMatchesState'
  BY <1>2, <1>3 DEF ExecutionInv, DecisionMatchesState, Started, Results
<1>5. RunMatchesState'
  BY <1>2, <1>3 DEF ExecutionInv, RunMatchesState, Results
<1>6. \A q \in Plans : planState[q] \in Started => planState'[q] \in Started
  BY <1>3 DEF Started, Results
<1>7. QED
  BY <1>2, <1>4, <1>5, <1>6, QuietExit

\* The conditional UPDATE hands the permit to one process, for a plan that
\* nobody has applied.
LEMMA MarkExecutingInv ==
  ASSUME ExecutionInv, NEW c \in Procs, MarkExecuting(c)
  PROVE  DecisionMatchesState' /\ SinglePermit' /\ CommandsSane' /\ RunMatchesState'
<1> DEFINE p == cmd[c].plan
<1>0. PlansOK /\ ProcsOK
  BY DEF ExecutionInv, TypeOK
<1>1. p \in Plans /\ pc[c] = "mark" /\ UNCHANGED <<approvals, run, applied>>
  BY DEF MarkExecuting, ExecutionInv, CommandsSane
<1>2. CASE planState[p] # "APPROVED"
  BY <1>1, <1>2, ExitInv DEF MarkExecuting
<1>3. CASE planState[p] = "APPROVED"
  <2>1. planState' = [planState EXCEPT ![p] = "EXECUTING"] /\ Goto(c, "apply")
    BY <1>3 DEF MarkExecuting
  <2>2. /\ planState'[p] = "EXECUTING"
        /\ \A q \in Plans \ {p} : planState'[q] = planState[q]
    BY <1>0, <1>1, <2>1 DEF PlansOK
  <2>3. /\ pc'[c] = "apply" /\ UNCHANGED cmd
        /\ \A d \in Procs \ {c} : pc'[d] = pc[d]
    BY <1>0, <2>1 DEF ProcsOK, Goto
  <2>4. DecisionMatchesState'
    BY <1>1, <1>3, <2>2 DEF ExecutionInv, DecisionMatchesState, Started, Results
  <2>5. RunMatchesState'
    BY <1>1, <1>3, <2>2 DEF ExecutionInv, RunMatchesState, Results
  <2>6. applied[p] = 0 /\ \A d \in Procs : pc[d] = "apply" => cmd[d].plan # p
    BY <1>1, <1>3 DEF ExecutionInv, SinglePermit, CommandsSane, Started, Results
  <2>7. SinglePermit'
    BY <1>1, <2>2, <2>3, <2>6 DEF ExecutionInv, SinglePermit, Started
  <2>8. CommandsSane'
    <3>1. \A q \in Plans : planState[q] \in Started => planState'[q] \in Started
      BY <2>2 DEF Started
    <3>2. \A d \in Procs : cmd[d].todo \subseteq Plans
      BY <1>0 DEF ProcsOK, Commands
    <3>3. planState'[p] \in Started
      BY <2>2 DEF Started
    <3>4. QED
      BY <1>1, <2>3, <3>1, <3>2, <3>3 DEF ExecutionInv, CommandsSane
  <2>9. QED
    BY <2>4, <2>5, <2>7, <2>8
<1>4. QED
  BY <1>2, <1>3

\* Applying spends the permit.
LEMMA ApplyInv ==
  ASSUME ExecutionInv, NEW c \in Procs, Apply(c)
  PROVE  DecisionMatchesState' /\ SinglePermit' /\ CommandsSane' /\ RunMatchesState'
<1> DEFINE p == cmd[c].plan
<1>0. PlansOK /\ ProcsOK
  BY DEF ExecutionInv, TypeOK
<1>1. p \in Plans /\ pc[c] = "apply" /\ UNCHANGED <<planState, approvals, run>>
  BY DEF Apply, ExecutionInv, CommandsSane, dbVars
<1>2. applied[p] = 0 /\ planState[p] \in Started
  BY <1>1 DEF ExecutionInv, SinglePermit, CommandsSane
<1>3. applied'[p] = 1 /\ \A q \in Plans \ {p} : applied'[q] = applied[q]
  BY <1>0, <1>1, <1>2 DEF Apply, PlansOK
<1>4. /\ pc'[c] = "finish"
      /\ \A d \in Procs \ {c} : pc'[d] = pc[d] /\ cmd'[d] = cmd[d]
  BY <1>0 DEF Apply, ProcsOK
<1>5. cmd'[c].plan = p /\ cmd'[c].todo = cmd[c].todo
  BY <1>0 DEF Apply, ProcsOK, Commands
<1>6. \A d \in Procs \ {c} : pc[d] = "apply" => cmd[d].plan # p
  BY <1>1 DEF ExecutionInv, SinglePermit
<1>7. SinglePermit'
  <2>1. \A q \in Plans : /\ planState'[q] \notin Started => applied'[q] = 0
                         /\ applied'[q] > 0 => applied'[q] = 1
    BY <1>1, <1>2, <1>3 DEF ExecutionInv, SinglePermit
  <2>2. \A d \in Procs : pc'[d] = "apply" =>
          d # c /\ pc[d] = "apply" /\ cmd'[d] = cmd[d] /\ cmd[d].plan \in Plans \ {p}
    BY <1>4, <1>6 DEF ExecutionInv, CommandsSane
  <2>3. \A d \in Procs : pc'[d] = "apply" => applied'[cmd'[d].plan] = 0
    BY <1>3, <2>2 DEF ExecutionInv, SinglePermit
  <2>4. \A d, e \in Procs :
          pc'[d] = "apply" /\ pc'[e] = "apply" /\ cmd'[d].plan = cmd'[e].plan => d = e
    BY <2>2 DEF ExecutionInv, SinglePermit
  <2>5. QED
    BY <2>1, <2>3, <2>4 DEF SinglePermit
<1>8. CommandsSane'
  BY <1>1, <1>2, <1>4, <1>5 DEF ExecutionInv, CommandsSane
<1>9. DecisionMatchesState' /\ RunMatchesState'
  BY <1>1 DEF ExecutionInv, DecisionMatchesState, RunMatchesState
<1>10. QED
  BY <1>7, <1>8, <1>9

\* FinishRun on a started plan keeps run row and plan row together: without a
\* run row a started plan is EXECUTING.
LEMMA FinishRunInv ==
  ASSUME ExecutionInv, NEW p \in Plans, NEW r \in Results,
         planState[p] \in Started, FinishRunOK(p), FinishRun(p, r), UNCHANGED approvals
  PROVE  /\ DecisionMatchesState' /\ RunMatchesState'
         /\ \A q \in Plans : planState[q] \in Started => planState'[q] \in Started
<1>0. PlansOK
  BY DEF ExecutionInv, TypeOK
<1>1. planState[p] = "EXECUTING"
  BY DEF ExecutionInv, RunMatchesState, FinishRunOK, Started, Results
<1>2. /\ planState'[p] = r /\ run'[p] = r
      /\ \A q \in Plans \ {p} : planState'[q] = planState[q] /\ run'[q] = run[q]
  BY <1>0, <1>1 DEF FinishRun, PlansOK
<1>3. DecisionMatchesState'
  BY <1>1, <1>2 DEF ExecutionInv, DecisionMatchesState, Started, Results
<1>4. RunMatchesState'
  BY <1>2 DEF ExecutionInv, RunMatchesState
<1>5. QED
  BY <1>2, <1>3, <1>4 DEF Started

LEMMA FinishInv ==
  ASSUME ExecutionInv, NEW c \in Procs, Finish(c)
  PROVE  DecisionMatchesState' /\ SinglePermit' /\ CommandsSane' /\ RunMatchesState'
<1> DEFINE p == cmd[c].plan
<1>0. ProcsOK /\ cmd[c].result \in Results
  BY DEF ExecutionInv, TypeOK, ProcsOK, Commands
<1>1. p \in Plans /\ pc[c] # "idle" /\ planState[p] \in Started
  BY DEF Finish, ExecutionInv, CommandsSane
<1>2. UNCHANGED <<approvals, applied>>
  BY DEF Finish, historyVars
<1>3. CASE FinishRunOK(p)
  <2>1. FinishRun(p, cmd[c].result) /\ (Goto(c, "tripComponent") \/ Exit(c))
    BY <1>3 DEF Finish
  <2>2. /\ DecisionMatchesState' /\ RunMatchesState'
        /\ \A q \in Plans : planState[q] \in Started => planState'[q] \in Started
    BY <1>0, <1>1, <1>2, <1>3, <2>1, FinishRunInv
  <2>3. QED
    BY <1>1, <1>2, <2>1, <2>2, QuietExit, QuietGoto DEF Steps
<1>4. CASE ~FinishRunOK(p)
  BY <1>2, <1>4, ExitInv DEF Finish
<1>5. QED
  BY <1>3, <1>4

\* Recovery records an outcome for plans it has read as EXECUTING; they may
\* have been finished since, but they are still started.
LEMMA RecoverInv ==
  ASSUME ExecutionInv, NEW c \in Procs, RecoverOrphanedPlan(c)
  PROVE  DecisionMatchesState' /\ SinglePermit' /\ CommandsSane' /\ RunMatchesState'
<1>0. ProcsOK /\ cmd[c] \in Commands
  BY DEF ExecutionInv, TypeOK, ProcsOK
<1>1. pc[c] = "recover" /\ UNCHANGED <<approvals, applied>>
  BY DEF RecoverOrphanedPlan, historyVars
<1>2. PICK p \in cmd[c].todo :
        \/ /\ FinishRunOK(p) /\ FinishRun(p, "EXECUTION_FAILED")
           /\ cmd' = [cmd EXCEPT ![c].todo = @ \ {p}] /\ UNCHANGED pc
        \/ Exit(c) /\ UNCHANGED <<run, planState>>
  BY DEF RecoverOrphanedPlan
<1>3. /\ p \in Plans /\ planState[p] \in Started
      /\ cmd[c].plan \in Plans /\ cmd[c].todo \subseteq Plans
      /\ \A q \in cmd[c].todo : planState[q] \in Started
  BY <1>0, <1>1, <1>2 DEF ExecutionInv, CommandsSane, Commands
<1>4. CASE Exit(c) /\ UNCHANGED <<run, planState>>
  BY <1>1, <1>4, ExitInv
<1>5. CASE /\ FinishRunOK(p) /\ FinishRun(p, "EXECUTION_FAILED")
           /\ cmd' = [cmd EXCEPT ![c].todo = @ \ {p}] /\ UNCHANGED pc
  <2>1. /\ DecisionMatchesState' /\ RunMatchesState'
        /\ \A q \in Plans : planState[q] \in Started => planState'[q] \in Started
    BY <1>1, <1>3, <1>5, FinishRunInv DEF Results
  <2> DEFINE m == [cmd[c] EXCEPT !.todo = @ \ {p}]
  <2>2. m \in Commands /\ m.plan = cmd[c].plan /\ m.todo = cmd[c].todo \ {p}
    BY <1>0 DEF Commands
  <2>3. pc' = [pc EXCEPT ![c] = "recover"] /\ cmd' = [cmd EXCEPT ![c] = m]
    BY <1>0, <1>1, <1>5 DEF ProcsOK
  <2>4. m.plan \in Plans /\ \A q \in m.todo : q \in Plans /\ planState'[q] \in Started
    BY <1>3, <2>1, <2>2
  <2> HIDE DEF m
  <2>5. SinglePermit' /\ CommandsSane'
    BY <1>1, <2>1, <2>2, <2>3, <2>4, QuietStep DEF Steps
  <2>6. QED
    BY <2>1, <2>5
<1>6. QED
  BY <1>2, <1>4, <1>5

-----------------------------------------------------------------------------
(* The environment and the theorems *)

LEMMA EnvironmentInv ==
  ASSUME ExecutionInv, Environment
  PROVE  DecisionMatchesState' /\ SinglePermit' /\ CommandsSane' /\ RunMatchesState'
<1>1. ASSUME NEW p \in Plans, CreatePlan(p)
      PROVE  DecisionMatchesState' /\ SinglePermit' /\ CommandsSane' /\ RunMatchesState'
  <2>0. PlansOK /\ ProcsOK /\ \A c \in Procs : cmd[c].todo \subseteq Plans
    BY DEF ExecutionInv, TypeOK, ProcsOK, Commands
  <2>1. UNCHANGED <<approvals, run, applied, pc, cmd>>
    BY <1>1 DEF CreatePlan, historyVars
  <2>2. /\ planState[p] = "NONE" /\ planState'[p] = "PROPOSED"
        /\ \A q \in Plans \ {p} : planState'[q] = planState[q]
    BY <1>1, <2>0 DEF CreatePlan, PlansOK
  <2>3. DecisionMatchesState'
    BY <2>1, <2>2 DEF ExecutionInv, DecisionMatchesState, Started, Results
  <2>4. RunMatchesState'
    BY <2>1, <2>2 DEF ExecutionInv, RunMatchesState, Results
  <2>5. \A q \in Plans : planState[q] \in Started <=> planState'[q] \in Started
    BY <2>2 DEF Started, Results
  <2>6. SinglePermit'
    BY <2>1, <2>5 DEF ExecutionInv, SinglePermit
  <2>7. CommandsSane'
    BY <2>0, <2>1, <2>5 DEF ExecutionInv, CommandsSane
  <2>8. QED
    BY <2>3, <2>4, <2>6, <2>7
<1>2. ASSUME UNCHANGED <<planState, approvals, run, applied, pc, cmd>>
      PROVE  DecisionMatchesState' /\ SinglePermit' /\ CommandsSane' /\ RunMatchesState'
  BY <1>2 DEF ExecutionInv, DecisionMatchesState, SinglePermit, CommandsSane, RunMatchesState
<1>3. CASE \E p \in Plans : DeadlinePasses(p) \/ WindowPasses(p)
  BY <1>2, <1>3 DEF DeadlinePasses, WindowPasses, dbVars, historyVars
<1>4. CASE \/ \E m \in Modes : SetAutonomyMode(m)
           \/ \E i \in Incidents : IncidentResolves(i)
           \/ \E s \in Scopes : Kill(s) \/ ResetBreaker(s)
  BY <1>2, <1>4 DEF SetAutonomyMode, IncidentResolves, Kill, ResetBreaker, historyVars
<1>5. QED
  BY <1>1, <1>3, <1>4 DEF Environment

\* Every step of every command preserves the invariant.
LEMMA Inductive == ExecutionInv /\ [Next]_vars => ExecutionInv'
<1> SUFFICES ASSUME ExecutionInv, [Next]_vars
             PROVE  TypeOK' /\ DecisionMatchesState' /\ SinglePermit'
                    /\ CommandsSane' /\ RunMatchesState'
  BY DEF ExecutionInv
<1>0. TypeOK /\ ProcsOK
  BY DEF ExecutionInv, TypeOK
<1>1. CASE Environment
  BY <1>0, <1>1, EnvironmentType, EnvironmentInv
<1>2. ASSUME NEW c \in Procs, Start(c)
      PROVE  TypeOK' /\ DecisionMatchesState' /\ SinglePermit'
             /\ CommandsSane' /\ RunMatchesState'
  BY <1>0, <1>2, StartType, StartInv
<1>3. ASSUME NEW c \in Procs, Continue(c)
      PROVE  TypeOK' /\ DecisionMatchesState' /\ SinglePermit'
             /\ CommandsSane' /\ RunMatchesState'
  <2>1. HasPlan(c)
    BY DEF ExecutionInv, CommandsSane, HasPlan
  <2>2. TypeOK'
    BY <1>0, <1>3, <2>1, ContinueType
  <2>3. CASE TripComponent(c)
    <3>1. pc[c] # "idle" /\ UNCHANGED <<planState, approvals, run, applied>>
          /\ Goto(c, "tripHost")
      BY <2>3 DEF TripComponent, historyVars
    <3>2. QED
      BY <2>2, <3>1, GotoInv DEF Steps
  <2>4. CASE TripHost(c)
    <3>1. UNCHANGED <<planState, approvals, run, applied>> /\ Exit(c)
      BY <2>4 DEF TripHost, historyVars
    <3>2. QED
      BY <2>2, <3>1, ExitInv
  <2>5. QED
    BY <1>3, <2>2, <2>3, <2>4, RecordDecisionInv, ExpireInv, MarkExecutingInv, ApplyInv,
       FinishInv, RecoverInv, ReadingInv DEF Continue
<1>4. ASSUME NEW c \in Procs, Crash(c)
      PROVE  TypeOK' /\ DecisionMatchesState' /\ SinglePermit'
             /\ CommandsSane' /\ RunMatchesState'
  <2>1. UNCHANGED <<planState, approvals, run, breaker, mode, resolved, expired, age,
                    applied, unattended>> /\ Exit(c)
    BY <1>4 DEF Crash, dbVars, timeVars, historyVars
  <2>2. TypeOK'
    BY <1>0, <2>1, ExitType, UnchangedType DEF TypeOK
  <2>3. QED
    BY <2>1, <2>2, ExitInv
<1>5. CASE UNCHANGED vars
  <2>1. UNCHANGED <<planState, approvals, run, breaker, mode, resolved, expired, age,
                    pc, cmd, applied, unattended>>
    BY <1>5 DEF vars, dbVars, timeVars, historyVars
  <2>2. TypeOK'
    BY <1>0, <2>1, UnchangedType DEF TypeOK
  <2>3. QED
    BY <2>1, <2>2
    DEF ExecutionInv, DecisionMatchesState, SinglePermit, CommandsSane, RunMatchesState
<1>6. QED
  BY <1>1, <1>2, <1>3, <1>4, <1>5 DEF Next

LEMMA Initially == Init => ExecutionInv
<1> SUFFICES ASSUME Init PROVE ExecutionInv
  OBVIOUS
<1>1. PlansOK /\ ApprovalsOK
  BY DEF Init, PlansOK, PlanStates, ApprovalsOK
<1>2. PolicyOK /\ AgesOK
  BY DEF Init, PolicyOK, Modes, AgesOK, HostAge
<1>3. ProcsOK
  BY IdleType DEF Init, ProcsOK, Steps
<1>4. DecisionMatchesState /\ RunMatchesState
  BY DEF Init, DecisionMatchesState, RunMatchesState, Started, Results
<1>5. SinglePermit /\ CommandsSane
  BY IdleIsSane DEF Init, SinglePermit, CommandsSane
<1>6. QED
  BY <1>1, <1>2, <1>3, <1>4, <1>5 DEF ExecutionInv, TypeOK

\* The invariant holds throughout, for any number of processes and plans:
\* what every command of cmd/pilot-agent-controller does, in any interleaving
\* and with crashes between any two statements, keeps the tables consistent.
THEOREM Invariance == Spec => []ExecutionInv
<1>1. Init => ExecutionInv
  BY Initially
<1>2. ExecutionInv /\ [Next]_vars => ExecutionInv'
  BY Inductive
<1>3. QED
  BY <1>1, <1>2, PTL DEF Spec

\* Every table row and every command's memory keeps its type.
THEOREM TypeCorrect == Spec => []TypeOK
<1>1. ExecutionInv => TypeOK
  BY DEF ExecutionInv
<1>2. QED
  BY <1>1, Invariance, PTL

\* A plan's action reaches its host at most once: MarkExecuting's conditional
\* UPDATE hands out one permit per plan.
THEOREM AppliesOnce == Spec => []ApplyAtMostOnce
<1>1. ExecutionInv => ApplyAtMostOnce
  <2> SUFFICES ASSUME ExecutionInv, NEW p \in Plans PROVE applied[p] <= 1
    BY DEF ApplyAtMostOnce
  <2>1. applied[p] \in Nat
    BY DEF ExecutionInv, TypeOK, PlansOK
  <2>2. applied[p] > 0 => applied[p] = 1
    BY DEF ExecutionInv, SinglePermit
  <2>3. QED
    BY <2>1, <2>2
<1>2. QED
  BY <1>1, Invariance, PTL

\* Nothing is applied without exactly one decision, an approval
\* (recordApprovalDecision, MarkExecuting).
THEOREM AppliesApproved == Spec => []AppliedOnlyIfApproved
<1>1. ExecutionInv => AppliedOnlyIfApproved
  <2> SUFFICES ASSUME ExecutionInv, NEW p \in Plans, applied[p] > 0 \/ Applying(p)
               PROVE  Len(approvals[p]) = 1 /\ approvals[p][1].decision = "approved"
    BY DEF AppliedOnlyIfApproved
  <2>1. applied[p] > 0 => planState[p] \in Started
    BY DEF ExecutionInv, SinglePermit
  <2>2. Applying(p) => planState[p] \in Started
    BY DEF ExecutionInv, CommandsSane, Applying
  <2>3. QED
    BY <2>1, <2>2 DEF ExecutionInv, DecisionMatchesState
<1>2. QED
  BY <1>1, Invariance, PTL

\* The run row and the plan row agree (FinishRun's transaction).
THEOREM OutcomesAgree == Spec => []RunMatchesState
<1>1. ExecutionInv => RunMatchesState
  BY DEF ExecutionInv
<1>2. QED
  BY <1>1, Invariance, PTL

-----------------------------------------------------------------------------
(* Remediation implements PlanLifecycle *)

\* A process that neither holds nor gains a permit leaves the permits alone.
LEMMA SamePermits ==
  ASSUME ProcsOK, NEW c \in Procs, pc[c] # "apply",
         NEW s \in Steps \ {"apply"}, pc' = [pc EXCEPT ![c] = s],
         \A d \in Procs \ {c} : cmd'[d] = cmd[d]
  PROVE  Permits' = Permits
<1>1. \A d \in Procs : (pc'[d] = "apply" <=> pc[d] = "apply")
                       /\ (pc[d] = "apply" => cmd'[d] = cmd[d])
  BY DEF ProcsOK
<1>2. \A p \in Plans : Applying(p)' <=> Applying(p)
  BY <1>1 DEF Applying
<1>3. QED
  BY <1>2 DEF Permits

LEMMA SamePermitsGoto ==
  ASSUME ProcsOK, NEW c \in Procs, pc[c] # "apply", NEW s \in Steps \ {"apply"},
         Goto(c, s) \/ Exit(c)
  PROVE  Permits' = Permits
<1>1. \A d \in Procs \ {c} : cmd'[d] = cmd[d]
  BY DEF Goto, Exit, ProcsOK
<1>2. pc' = [pc EXCEPT ![c] = s] \/ pc' = [pc EXCEPT ![c] = "idle"]
  BY DEF Goto, Exit
<1>3. QED
  BY <1>1, <1>2, SamePermits DEF Steps

\* FinishRun on a started plan is Conclude.
LEMMA FinishRunRefines ==
  ASSUME ExecutionInv, NEW p \in Plans, NEW r \in Results,
         planState[p] \in Started, FinishRunOK(p), FinishRun(p, r),
         Permits' = Permits, applied' = applied
  PROVE  Lifecycle!Conclude(p)
<1>1. planState[p] = "EXECUTING"
  BY DEF ExecutionInv, RunMatchesState, FinishRunOK, Started, Results
<1>2. QED
  BY <1>1 DEF FinishRun, Lifecycle!Conclude, Lifecycle!Move

LEMMA StartRefines ==
  ASSUME ExecutionInv, NEW c \in Procs, Start(c)
  PROVE  UNCHANGED Lifecycle!lifecycleVars
<1>1. PICK p \in Plans :
        \/ \E d \in {"approved", "rejected"} : DecideStart(c, p, d)
        \/ ExecuteStart(c, p)
        \/ AutoExecuteStart(c, p)
  BY DEF Start
<1>2. UNCHANGED <<dbVars, timeVars, historyVars>>
  BY <1>1 DEF DecideStart, ExecuteStart, AutoExecuteStart
<1>3. \E s \in {"expire", "decide", "check", "recover"} : \E m : Begin(c, s, m)
  BY <1>1 DEF DecideStart, ExecuteStart, AutoExecuteStart
<1>4. Permits' = Permits
  <2>1. PICK s \in {"expire", "decide", "check", "recover"} : \E m : Begin(c, s, m)
    BY <1>3
  <2>2. ProcsOK
    BY DEF ExecutionInv, TypeOK
  <2>3. /\ pc[c] # "apply" /\ pc' = [pc EXCEPT ![c] = s]
        /\ \A d \in Procs \ {c} : cmd'[d] = cmd[d]
    BY <2>1, <2>2 DEF Begin, ProcsOK
  <2>4. QED
    BY <2>2, <2>3, SamePermits DEF Steps
<1>5. QED
  BY <1>2, <1>4 DEF Lifecycle!lifecycleVars, dbVars, historyVars

\* The steps of a command that do not touch the plan tables.
LEMMA ReadingRefines ==
  ASSUME ExecutionInv, NEW c \in Procs,
         \/ MarkExecutingRead(c) \/ AutoApproveRead(c) \/ RecoverDone(c)
         \/ ReadModeStart(c) \/ GatherPolicyInput(c) \/ EvaluateAndRecord(c)
         \/ TripComponent(c) \/ TripHost(c)
  PROVE  UNCHANGED Lifecycle!lifecycleVars
<1>0. ProcsOK
  BY DEF ExecutionInv, TypeOK
<1>1. pc[c] # "apply"
  BY DEF MarkExecutingRead, AutoApproveRead, RecoverDone, ReadModeStart, GatherPolicyInput,
         EvaluateAndRecord, TripComponent, TripHost
<1>2. planState' = planState /\ applied' = applied
  BY DEF MarkExecutingRead, AutoApproveRead, RecoverDone, ReadModeStart, GatherPolicyInput,
         EvaluateAndRecord, TripComponent, TripHost, dbVars, historyVars
<1>3. \A d \in Procs \ {c} : cmd'[d] = cmd[d]
  BY <1>0 DEF ProcsOK, Goto, Exit, MarkExecutingRead, AutoApproveRead, RecoverDone,
         ReadModeStart, GatherPolicyInput, EvaluateAndRecord, TripComponent, TripHost
<1>4. \E s \in Steps \ {"apply"} : pc' = [pc EXCEPT ![c] = s]
  BY DEF Steps, Goto, Exit, MarkExecutingRead, AutoApproveRead, RecoverDone,
         ReadModeStart, GatherPolicyInput, EvaluateAndRecord, TripComponent, TripHost
<1>5. Permits' = Permits
  BY <1>0, <1>1, <1>3, <1>4, SamePermits
<1>6. QED
  BY <1>2, <1>5 DEF Lifecycle!lifecycleVars

\* The steps that write the plan tables are the steps of the lifecycle.
LEMMA WritingRefines ==
  ASSUME ExecutionInv, NEW c \in Procs,
         RecordDecision(c) \/ ExpireIfPastDeadline(c) \/ Finish(c) \/ RecoverOrphanedPlan(c)
  PROVE  [Lifecycle!Next]_(Lifecycle!lifecycleVars)
<1> DEFINE p == cmd[c].plan
<1>0. ProcsOK /\ PlansOK /\ cmd[c] \in Commands
  BY DEF ExecutionInv, TypeOK, ProcsOK
<1>1. p \in Plans /\ pc[c] # "apply"
  BY DEF RecordDecision, ExpireIfPastDeadline, Finish, RecoverOrphanedPlan,
         ExecutionInv, CommandsSane
<1>2. applied' = applied
  BY DEF RecordDecision, ExpireIfPastDeadline, Finish, RecoverOrphanedPlan, historyVars
<1>3. CASE RecordDecision(c)
  <2>1. Permits' = Permits
    BY <1>0, <1>1, <1>3, SamePermitsGoto DEF RecordDecision, Steps
  <2>2. Lifecycle!Decide(p) \/ planState' = planState
    BY <1>2, <1>3, <2>1 DEF RecordDecision, Lifecycle!Decide, Lifecycle!Move
  <2>3. QED
    BY <1>1, <1>2, <2>1, <2>2 DEF Lifecycle!Next, Lifecycle!lifecycleVars
<1>4. CASE ExpireIfPastDeadline(c)
  <2>1. Permits' = Permits
    BY <1>0, <1>1, <1>4, SamePermitsGoto DEF ExpireIfPastDeadline, Steps
  <2>2. cmd[c].seen \in {"PROPOSED", "APPROVED"}
    BY <1>4 DEF ExpireIfPastDeadline, ExecutionInv, CommandsSane
  <2>3. Lifecycle!Expire(p) \/ planState' = planState
    BY <1>2, <1>4, <2>1, <2>2 DEF ExpireIfPastDeadline, Lifecycle!Expire, Lifecycle!Move
  <2>4. QED
    BY <1>1, <1>2, <2>1, <2>3 DEF Lifecycle!Next, Lifecycle!lifecycleVars
<1>5. CASE Finish(c)
  <2>1. Permits' = Permits
    BY <1>0, <1>1, <1>5, SamePermitsGoto DEF Finish, Steps
  <2>2. cmd[c].result \in Results /\ planState[p] \in Started
    BY <1>0, <1>5 DEF Finish, ExecutionInv, CommandsSane, Commands
  <2>3. Lifecycle!Conclude(p) \/ planState' = planState
    BY <1>1, <1>2, <1>5, <2>1, <2>2, FinishRunRefines DEF Finish
  <2>4. QED
    BY <1>1, <1>2, <2>1, <2>3 DEF Lifecycle!Next, Lifecycle!lifecycleVars
<1>6. CASE RecoverOrphanedPlan(c)
  <2>1. PICK q \in cmd[c].todo :
          \/ /\ FinishRunOK(q) /\ FinishRun(q, "EXECUTION_FAILED")
             /\ cmd' = [cmd EXCEPT ![c].todo = @ \ {q}] /\ UNCHANGED pc
          \/ Exit(c) /\ UNCHANGED <<run, planState>>
    BY <1>6 DEF RecoverOrphanedPlan
  <2>2. q \in Plans /\ planState[q] \in Started
    BY <1>0, <2>1 DEF ExecutionInv, CommandsSane, Commands
  <2>3. \A d \in Procs \ {c} : cmd'[d] = cmd[d]
    BY <1>0, <2>1 DEF ProcsOK, Exit
  <2>4. pc' = [pc EXCEPT ![c] = "recover"] \/ pc' = [pc EXCEPT ![c] = "idle"]
    BY <1>0, <1>6, <2>1 DEF RecoverOrphanedPlan, ProcsOK, Exit
  <2>5. Permits' = Permits
    BY <1>0, <1>1, <2>3, <2>4, SamePermits DEF Steps
  <2>6. Lifecycle!Conclude(q) \/ planState' = planState
    BY <1>2, <2>1, <2>2, <2>5, FinishRunRefines DEF Results
  <2>7. QED
    BY <1>2, <2>2, <2>5, <2>6 DEF Lifecycle!Next, Lifecycle!lifecycleVars
<1>7. QED
  BY <1>3, <1>4, <1>5, <1>6

\* The permit appears with MarkExecuting ...
LEMMA MarkExecutingRefines ==
  ASSUME ExecutionInv, NEW c \in Procs, MarkExecuting(c)
  PROVE  [Lifecycle!Next]_(Lifecycle!lifecycleVars)
<1> DEFINE p == cmd[c].plan
<1>0. ProcsOK
  BY DEF ExecutionInv, TypeOK
<1>1. p \in Plans /\ pc[c] = "mark" /\ applied' = applied
  BY DEF MarkExecuting, ExecutionInv, CommandsSane
<1>2. CASE planState[p] # "APPROVED"
  <2>1. planState' = planState /\ Exit(c)
    BY <1>2 DEF MarkExecuting
  <2>2. Permits' = Permits
    BY <1>0, <1>1, <2>1, SamePermitsGoto DEF Steps
  <2>3. QED
    BY <1>1, <2>1, <2>2 DEF Lifecycle!lifecycleVars
<1>3. CASE planState[p] = "APPROVED"
  <2>1. planState' = [planState EXCEPT ![p] = "EXECUTING"] /\ Goto(c, "apply")
    BY <1>3 DEF MarkExecuting
  <2>2. cmd' = cmd /\ pc'[c] = "apply" /\ \A d \in Procs \ {c} : pc'[d] = pc[d]
    BY <1>0, <2>1 DEF Goto, ProcsOK
  <2>3. \A q \in Plans : Applying(q)' <=> (Applying(q) \/ q = p)
    BY <1>1, <2>2 DEF Applying
  <2>4. Permits' = Permits \cup {p}
    BY <1>1, <2>3 DEF Permits
  <2>5. Lifecycle!Start(p)
    BY <1>1, <1>3, <2>1, <2>4 DEF Lifecycle!Start, Lifecycle!Move
  <2>6. QED
    BY <1>1, <2>5 DEF Lifecycle!Next
<1>4. QED
  BY <1>2, <1>3

\* ... and goes with Apply, or with the process that held it.
LEMMA PermitGoes ==
  ASSUME ExecutionInv, NEW c \in Procs, pc[c] = "apply", pc'[c] # "apply",
         \A d \in Procs \ {c} : pc'[d] = pc[d] /\ cmd'[d] = cmd[d]
  PROVE  cmd[c].plan \in Permits /\ Permits' = Permits \ {cmd[c].plan}
<1> DEFINE p == cmd[c].plan
<1>1. p \in Plans /\ \A d \in Procs \ {c} : pc[d] = "apply" => cmd[d].plan # p
  BY DEF ExecutionInv, CommandsSane, SinglePermit
<1>2. Applying(p) /\ \A q \in Plans : Applying(q)' <=> (Applying(q) /\ q # p)
  BY <1>1 DEF Applying
<1>3. QED
  BY <1>1, <1>2 DEF Permits

LEMMA ApplyRefines ==
  ASSUME ExecutionInv, NEW c \in Procs, Apply(c)
  PROVE  Lifecycle!Next
<1> DEFINE p == cmd[c].plan
<1>0. ProcsOK
  BY DEF ExecutionInv, TypeOK
<1>1. p \in Plans /\ pc[c] = "apply" /\ planState' = planState
      /\ applied' = [applied EXCEPT ![p] = @ + 1]
  BY DEF Apply, ExecutionInv, CommandsSane, dbVars
<1>2. pc'[c] # "apply" /\ \A d \in Procs \ {c} : pc'[d] = pc[d] /\ cmd'[d] = cmd[d]
  BY <1>0 DEF Apply, ProcsOK
<1>3. p \in Permits /\ Permits' = Permits \ {p}
  BY <1>1, <1>2, PermitGoes
<1>4. Lifecycle!Effect(p)
  BY <1>1, <1>3 DEF Lifecycle!Effect
<1>5. QED
  BY <1>1, <1>4 DEF Lifecycle!Next

LEMMA CrashRefines ==
  ASSUME ExecutionInv, NEW c \in Procs, Crash(c)
  PROVE  [Lifecycle!Next]_(Lifecycle!lifecycleVars)
<1> DEFINE p == cmd[c].plan
<1>0. ProcsOK
  BY DEF ExecutionInv, TypeOK
<1>1. p \in Plans /\ planState' = planState /\ applied' = applied /\ Exit(c)
  BY DEF Crash, ExecutionInv, CommandsSane, dbVars, historyVars
<1>2. CASE pc[c] = "apply"
  <2>1. pc'[c] # "apply" /\ \A d \in Procs \ {c} : pc'[d] = pc[d] /\ cmd'[d] = cmd[d]
    BY <1>0, <1>1 DEF Exit, ProcsOK
  <2>2. p \in Permits /\ Permits' = Permits \ {p}
    BY <1>2, <2>1, PermitGoes
  <2>3. Lifecycle!LosePermit(p)
    BY <1>1, <2>2 DEF Lifecycle!LosePermit
  <2>4. QED
    BY <1>1, <2>3 DEF Lifecycle!Next
<1>3. CASE pc[c] # "apply"
  <2>1. Permits' = Permits
    BY <1>0, <1>1, <1>3, SamePermitsGoto DEF Steps
  <2>2. QED
    BY <1>1, <2>1 DEF Lifecycle!lifecycleVars
<1>4. QED
  BY <1>2, <1>3

LEMMA EnvironmentRefines ==
  ASSUME ExecutionInv, Environment
  PROVE  [Lifecycle!Next]_(Lifecycle!lifecycleVars)
<1>1. pc' = pc /\ cmd' = cmd /\ applied' = applied
  BY DEF Environment, CreatePlan, DeadlinePasses, WindowPasses, SetAutonomyMode, Kill,
         ResetBreaker, IncidentResolves, historyVars
<1>2. Permits' = Permits
  BY <1>1 DEF Permits, Applying
<1>3. CASE \E p \in Plans : CreatePlan(p)
  <2>1. PICK p \in Plans : CreatePlan(p)
    BY <1>3
  <2>2. Lifecycle!Propose(p)
    BY <1>1, <1>2, <2>1 DEF CreatePlan, Lifecycle!Propose, Lifecycle!Move
  <2>3. QED
    BY <2>2 DEF Lifecycle!Next
<1>4. CASE ~\E p \in Plans : CreatePlan(p)
  <2>1. planState' = planState
    BY <1>4 DEF Environment, DeadlinePasses, WindowPasses, SetAutonomyMode, Kill,
                ResetBreaker, IncidentResolves, dbVars
  <2>2. QED
    BY <1>1, <1>2, <2>1 DEF Lifecycle!lifecycleVars
<1>5. QED
  BY <1>3, <1>4

\* The controller's commands implement the plan lifecycle: one decision, one
\* permit, at most one effect and one outcome per plan, for any number of
\* processes and any crashes.
THEOREM Refinement == Spec => ImplementsLifecycle
<1>1. Init => Lifecycle!Init
  BY DEF Init, Lifecycle!Init, Permits, Applying
<1>2. ExecutionInv /\ [Next]_vars => [Lifecycle!Next]_(Lifecycle!lifecycleVars)
  <2> SUFFICES ASSUME ExecutionInv, [Next]_vars
               PROVE  [Lifecycle!Next]_(Lifecycle!lifecycleVars)
    OBVIOUS
  <2>1. CASE UNCHANGED vars
    BY <2>1 DEF vars, dbVars, historyVars, Permits, Applying, Lifecycle!lifecycleVars
  <2>2. ASSUME NEW c \in Procs, Start(c) \/ Continue(c) \/ Crash(c)
        PROVE  [Lifecycle!Next]_(Lifecycle!lifecycleVars)
    BY <2>2, StartRefines, ReadingRefines, WritingRefines, MarkExecutingRefines,
       ApplyRefines, CrashRefines DEF Continue
  <2>3. QED
    BY <2>1, <2>2, EnvironmentRefines DEF Next
<1>3. QED
  BY <1>1, <1>2, Invariance, PTL DEF Spec, ImplementsLifecycle, Lifecycle!Spec
=============================================================================
