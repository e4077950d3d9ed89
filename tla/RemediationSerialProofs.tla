----------------------- MODULE RemediationSerialProofs -----------------------
(***************************************************************************)
(* Remediation when commands run one at a time, as recovery assumes (an    *)
(* EXECUTING plan is an orphan): what the policy's guards guarantee, for   *)
(* any plans, hosts and policy configuration, and across crashes.  Two     *)
(* commands at once can pass the same guard (MarkExecuting is the only     *)
(* step they compete for), so each theorem assumes at most one process.    *)
(***************************************************************************)
EXTENDS RemediationProofs, WellFoundedInduction

USE RemediationAssumption

\* A set of guard positions that is not empty has a first one.
LEMMA FirstGuard ==
  ASSUME NEW F \in SUBSET Nat, F # {}
  PROVE  \E i \in F : \A j \in F : i <= j
<1>1. PICK R : R = OpToRel(<, Nat)
  OBVIOUS
<1>2. \E i \in F : \A j \in F : ~(<<j, i>> \in R)
  BY <1>1, NatLessThanWellFounded, WFMin
<1>3. R = {ss \in Nat \X Nat : ss[1] < ss[2]}
  BY <1>1 DEF OpToRel
<1>4. ASSUME NEW i \in Nat, NEW j \in Nat, ~(<<j, i>> \in R) PROVE i <= j
  <2>1. <<j, i>> \in Nat \X Nat /\ <<j, i>>[1] = j /\ <<j, i>>[2] = i
    OBVIOUS
  <2>2. ~(j < i)
    BY <1>3, <1>4, <2>1
  <2>3. QED
    BY <2>2
<1>5. QED
  BY <1>2, <1>4

\* Only when no guard fires is an action allowed without a human: every guard
\* denies or asks for one.
LEMMA AllowedMeansNoGuard ==
  ASSUME NEW cfg, NEW in, EvaluatePolicy(cfg, in) = "allow_auto"
  PROVE  /\ ~(in.hostActions >= Bounded(cfg.hostBudget, 2))
         /\ ~in.rejected
<1> DEFINE guards == Guards(cfg, in)
           firing == {i \in 1..Len(guards) : guards[i].fires}
           first == CHOOSE i \in firing : \A j \in firing : i <= j
<1>1. Len(guards) = 20 /\ \A i \in 1..20 : guards[i].decision \in {"deny", "require_human"}
  BY DEF Guards, Human, Deny
<1>2. ASSUME firing # {} PROVE FALSE
  <2>1. firing \in SUBSET Nat
    BY <1>1
  <2>2. first \in firing
    BY <1>2, <2>1, FirstGuard
  <2>3. EvaluatePolicy(cfg, in) = guards[first].decision
    BY <1>2 DEF EvaluatePolicy
  <2>4. guards[first].decision \in {"deny", "require_human"}
    BY <1>1, <2>2
  <2>5. QED
    BY <2>3, <2>4
<1>3. ~guards[13].fires /\ ~guards[17].fires
  BY <1>1, <1>2
<1>4. QED
  BY <1>3 DEF Guards, Human, Deny

-----------------------------------------------------------------------------
(* The invariant of commands that run one at a time *)

Alone == \A c, d \in Procs : c = d

\* What an autonomous command at step s with memory m relies on: what it gathered
\* is still true or errs on the side of caution, and once it is allowed to
\* approve, the host has budget left and no human has refused the repair.
AutoStep(s, m) ==
  /\ s = "breakers" =>
       /\ Cardinality(RecentActions(HostOf[m.plan])) <= m.facts.host
       /\ m.facts.rejected \/ ~HasHumanRejection(m.plan)
  /\ s = "approve" \/ (s = "decide" /\ m.auto) =>
       /\ Cardinality(RecentActions(HostOf[m.plan])) < Bounded(Config.hostBudget, 2)
       /\ ~HasHumanRejection(m.plan)

SerialInv == ExecutionInv /\ \A c \in Procs : AutoStep(pc[c], cmd[c])

\* The actions that count against a host's budget are plans.
LEMMA RecentCount ==
  ASSUME NEW h
  PROVE  /\ IsFiniteSet(RecentActions(h)) /\ Cardinality(RecentActions(h)) \in Nat
         /\ RecentActions(h) \in SUBSET Plans
<1>1. RecentActions(h) \in SUBSET Plans
  BY DEF RecentActions
<1>2. QED
  BY <1>1, FS_Subset, FS_CardinalityType

\* Time only takes actions out of the count.
LEMMA RecentShrinks ==
  ASSUME AgesOK, AgesOK', approvals' = approvals, NEW h, \A q \in Plans : age'[q] >= age[q]
  PROVE  Cardinality(RecentActions(h)') <= Cardinality(RecentActions(h))
         /\ Cardinality(RecentActions(h)') \in Nat
<1>1. \A q \in Plans : age[q] \in Nat /\ age'[q] \in Nat
  BY DEF AgesOK
<1>2. RecentActions(h)' \in SUBSET RecentActions(h)
  BY <1>1 DEF RecentActions, HostAge
<1>3. QED
  BY <1>2, RecentCount, FS_Subset, FS_CardinalityType

\* A step that records no decision leaves what a command relies on true.
LEMMA AutoStepStable ==
  ASSUME TypeOK, TypeOK', UNCHANGED approvals,
         \A q \in Plans : age'[q] >= age[q],
         NEW s \in Steps, NEW m \in Commands, AutoStep(s, m)
  PROVE  AutoStep(s, m)'
<1>2. HasHumanRejection(m.plan)' = HasHumanRejection(m.plan)
  BY DEF HasHumanRejection, HasApproval
<1>3. Cardinality(RecentActions(HostOf[m.plan])') <= Cardinality(RecentActions(HostOf[m.plan]))
      /\ Cardinality(RecentActions(HostOf[m.plan])') \in Nat
      /\ Cardinality(RecentActions(HostOf[m.plan])) \in Nat
  BY RecentShrinks, RecentCount DEF TypeOK
<1>4. m.facts.host \in Nat /\ Bounded(Config.hostBudget, 2) \in Int
  BY DEF Commands, Facts, Bounded, PolicyConfig
<1>5. Cardinality(RecentActions(HostOf[m.plan])) <= m.facts.host
        => Cardinality(RecentActions(HostOf[m.plan])') <= m.facts.host
  BY <1>3, <1>4
<1>6. Cardinality(RecentActions(HostOf[m.plan])) < Bounded(Config.hostBudget, 2)
        => Cardinality(RecentActions(HostOf[m.plan])') < Bounded(Config.hostBudget, 2)
  BY <1>3, <1>4
<1>7. QED
  BY <1>2, <1>5, <1>6 DEF AutoStep

\* A command that is elsewhere relies on nothing.
LEMMA AwayStep ==
  ASSUME Alone, ExecutionInv', NEW c \in Procs,
         pc'[c] \notin {"breakers", "approve", "decide"}
  PROVE  SerialInv'
BY DEF Alone, SerialInv, AutoStep

\* The process c, the only one, moves to step s with memory m without recording
\* a decision.
LEMMA ReadStep ==
  ASSUME Alone, SerialInv, ExecutionInv', UNCHANGED <<approvals, age>>,
         NEW c \in Procs, NEW s \in Steps, NEW m \in Commands, AutoStep(s, m),
         pc' = [pc EXCEPT ![c] = s], cmd' = [cmd EXCEPT ![c] = m]
  PROVE  SerialInv'
<1>0. TypeOK /\ TypeOK' /\ ProcsOK /\ AgesOK
  BY DEF SerialInv, ExecutionInv, TypeOK
<1>1. \A q \in Plans : age'[q] >= age[q]
  BY <1>0 DEF AgesOK
<1>2. AutoStep(s, m)'
  BY <1>0, <1>1, AutoStepStable
<1>3. \A d \in Procs : d = c /\ pc'[d] = s /\ cmd'[d] = m
  BY <1>0 DEF Alone, ProcsOK
<1>4. \A d \in Procs : AutoStep(pc[d], cmd[d])'
  BY <1>2, <1>3 DEF AutoStep
<1>5. QED
  BY <1>4 DEF SerialInv

-----------------------------------------------------------------------------
(* The steps of a command *)

\* A human's decision relies on nothing, and no command starts past its gathering.
LEMMA StartSerial ==
  ASSUME Alone, SerialInv, ExecutionInv', NEW c \in Procs, Start(c)
  PROVE  SerialInv'
<1>0. ProcsOK
  BY DEF SerialInv, ExecutionInv, TypeOK
<1>1. PICK m : cmd'[c] = m /\ m.auto \in BOOLEAN
               /\ (pc'[c] \notin {"breakers", "approve", "decide"} \/ (pc'[c] = "decide" /\ ~m.auto))
  <2>1. ASSUME NEW p \in Plans, NEW d \in {"approved", "rejected"}, DecideStart(c, p, d)
        PROVE  pc'[c] \in {"expire", "decide"} /\ cmd'[c].auto = FALSE
    <3> DEFINE late == p \in expired
               memory == [Idle EXCEPT !.plan = p, !.decision = d,
                                      !.late = late, !.seen = planState[p]]
    <3>1. memory.auto = FALSE
      BY DEF Idle
    <3>2. Begin(c, "expire", memory) \/ Begin(c, "decide", memory)
      BY <2>1 DEF DecideStart
    <3> HIDE DEF memory
    <3>3. QED
      BY <1>0, <3>1, <3>2 DEF Begin, ProcsOK
  <2>2. ASSUME NEW p \in Plans, ExecuteStart(c, p) PROVE pc'[c] \in {"check", "recover"}
    BY <1>0, <2>2 DEF ExecuteStart, Begin, ProcsOK
  <2>3. ASSUME NEW p \in Plans, AutoExecuteStart(c, p) PROVE pc'[c] = "recover"
    BY <1>0, <2>3 DEF AutoExecuteStart, Begin, ProcsOK
  <2>4. cmd'[c].auto \in BOOLEAN
    BY DEF ExecutionInv, TypeOK, ProcsOK, Commands
  <2>5. QED
    BY <2>1, <2>2, <2>3, <2>4 DEF Start
<1>2. QED
  BY <1>1 DEF Alone, SerialInv, AutoStep

\* The count of the policy is the count of the property.
LEMMA HostCountIsRecent ==
  ASSUME ApprovalsOK, NEW h
  PROVE  CountApprovedActionsForHost(h) = Cardinality(RecentActions(h))
<1>1. ASSUME NEW q \in Plans, NEW i \in DOMAIN approvals[q]
      PROVE  approvals[q][i].actor \in {"human", "policy"}
  <2>1. approvals[q] \in Seq(Approval)
    BY DEF ApprovalsOK
  <2>2. approvals[q][i] \in Approval
    BY <2>1
  <2>3. QED
    BY <2>2 DEF Approval
<1>2. RecentActions(h) = {q \in Family("R1") : HostOf[q] = h /\ Approved(q) /\ age[q] < HostAge}
  BY <1>1 DEF RecentActions, Family, Approved, HasApproval
<1>3. QED
  BY <1>2 DEF CountApprovedActionsForHost

LEMMA GatherSerial ==
  ASSUME Alone, SerialInv, ExecutionInv', NEW c \in Procs, GatherPolicyInput(c)
  PROVE  SerialInv'
<1> DEFINE p == cmd[c].plan
<1>0. cmd[c] \in Commands /\ ApprovalsOK /\ TypeOK
  BY DEF SerialInv, ExecutionInv, TypeOK, ProcsOK
<1>1. pc[c] = "gather" /\ UNCHANGED <<approvals, age>>
      /\ pc' = [pc EXCEPT ![c] = "breakers"]
  BY DEF GatherPolicyInput, dbVars, timeVars
<1>2. p \in Plans
  BY <1>1 DEF SerialInv, ExecutionInv, CommandsSane
<1>3. PICK f : /\ cmd' = [cmd EXCEPT ![c].facts = f]
               /\ \E fresh \in BOOLEAN : f =
                    [firing |-> IncidentOf[p] \notin resolved, fresh |-> fresh,
                     cooling |-> Cooling(p),
                     host |-> CountApprovedActionsForHost(HostOf[p]),
                     component |-> CountApprovedActionsForComponent(ComponentOf[p]),
                     prior |-> CountPolicyRunsForIncident(IncidentOf[p]),
                     rejected |-> HasHumanRejection(p)]
  BY DEF GatherPolicyInput
<1>4. /\ f.host = CountApprovedActionsForHost(HostOf[p])
      /\ f.rejected = HasHumanRejection(p)
  BY <1>3
<1>5. f \in Facts
  <2>1. (IncidentOf[p] \notin resolved) \in BOOLEAN /\ Cooling(p) \in BOOLEAN
        /\ HasHumanRejection(p) \in BOOLEAN
    BY DEF Cooling, HasHumanRejection
  <2>2. QED
    BY <1>2, <1>3, <2>1, FactsType DEF Facts
<1> DEFINE m == [cmd[c] EXCEPT !.facts = f]
<1>6. m \in Commands /\ m.plan = p /\ m.facts = f
  BY <1>0, <1>5 DEF Commands
<1>7. cmd' = [cmd EXCEPT ![c] = m]
  BY <1>3 DEF SerialInv, ExecutionInv, TypeOK, ProcsOK
<1> HIDE DEF m
<1>8. Cardinality(RecentActions(HostOf[p])) \in Nat
  BY RecentCount
<1>9. Cardinality(RecentActions(HostOf[p])) <= f.host
  BY <1>0, <1>4, <1>8, HostCountIsRecent
<1>10. f.rejected \/ ~HasHumanRejection(p)
  BY <1>4
<1> HIDE DEF p
<1>11. AutoStep("breakers", m) /\ "breakers" \in Steps
  BY <1>6, <1>9, <1>10 DEF AutoStep, Steps
<1>12. QED
  BY <1>1, <1>6, <1>7, <1>11, ReadStep

\* Only an action that no guard objects to goes on: the host has budget left and
\* no human has refused the repair.
LEMMA EvaluateSerial ==
  ASSUME Alone, SerialInv, ExecutionInv', NEW c \in Procs, EvaluateAndRecord(c)
  PROVE  SerialInv'
<1>0. cmd[c] \in Commands
  BY DEF SerialInv, ExecutionInv, TypeOK, ProcsOK
<1>1. pc[c] = "breakers" /\ UNCHANGED <<approvals, age>>
  BY DEF EvaluateAndRecord, dbVars, timeVars
<1>2. CASE Exit(c)
  <2>1. pc'[c] = "idle"
    BY <1>2 DEF Exit, SerialInv, ExecutionInv, TypeOK, ProcsOK
  <2>2. QED
    BY <2>1, AwayStep
<1>3. ASSUME NEW env \in Environments,
             EvaluatePolicy(Config, PolicyInputOf(c, env)) = "allow_auto",
             pc' = [pc EXCEPT ![c] = "approve"],
             cmd' = [cmd EXCEPT ![c].facts = NoFacts]
      PROVE  SerialInv'
  <2> DEFINE p == cmd[c].plan
             in == PolicyInputOf(c, env)
             m == [cmd[c] EXCEPT !.facts = NoFacts]
  <2>1. ~(in.hostActions >= Bounded(Config.hostBudget, 2)) /\ ~in.rejected
    BY <1>3, AllowedMeansNoGuard
  <2>2. in.hostActions = cmd[c].facts.host /\ in.rejected = cmd[c].facts.rejected
    BY DEF PolicyInputOf
  <2>3. cmd[c].facts \in Facts /\ Bounded(Config.hostBudget, 2) \in Int
    BY <1>0 DEF Commands, Bounded, PolicyConfig
  <2>4. cmd[c].facts.host < Bounded(Config.hostBudget, 2) /\ ~cmd[c].facts.rejected
    <3>1. cmd[c].facts.host \in Nat
      BY <2>3 DEF Facts
    <3>2. QED
      BY <2>1, <2>2, <2>3, <3>1
  <2>5. AutoStep("breakers", cmd[c])
    BY <1>1 DEF SerialInv
  <2>6. NoFacts \in Facts
    BY DEF NoFacts, Facts
  <2>7. m \in Commands /\ m.plan = p
    BY <1>0, <2>6 DEF Commands
  <2>8. cmd' = [cmd EXCEPT ![c] = m]
    BY <1>3 DEF SerialInv, ExecutionInv, TypeOK, ProcsOK
  <2> HIDE DEF m, in
  <2>9. Cardinality(RecentActions(HostOf[p])) < Bounded(Config.hostBudget, 2)
    <3>1. Cardinality(RecentActions(HostOf[p])) \in Nat /\ cmd[c].facts.host \in Nat
      BY <2>3, RecentCount DEF Facts
    <3>2. Cardinality(RecentActions(HostOf[p])) <= cmd[c].facts.host
      BY <2>5 DEF AutoStep
    <3>3. QED
      BY <2>3, <2>4, <3>1, <3>2
  <2>10. ~HasHumanRejection(p)
    BY <2>4, <2>5 DEF AutoStep
  <2> HIDE DEF p
  <2>11. AutoStep("approve", m) /\ "approve" \in Steps
    BY <2>7, <2>9, <2>10 DEF AutoStep, Steps
  <2>12. QED
    BY <1>1, <1>3, <2>7, <2>8, <2>11, ReadStep
<1>4. QED
  BY <1>2, <1>3 DEF EvaluateAndRecord

\* The policy's approval reads the plan before its conditional UPDATE.
LEMMA AutoApproveSerial ==
  ASSUME Alone, SerialInv, ExecutionInv', NEW c \in Procs, AutoApproveRead(c)
  PROVE  SerialInv'
<1>0. cmd[c] \in Commands /\ ProcsOK
  BY DEF SerialInv, ExecutionInv, TypeOK, ProcsOK
<1>1. pc[c] = "approve" /\ UNCHANGED <<approvals, age>>
  BY DEF AutoApproveRead, dbVars, timeVars
<1>2. CASE Goto(c, "decide")
  <2>1. PICK m \in Commands : m = cmd[c]
    BY <1>0
  <2>2. AutoStep("decide", m) /\ "decide" \in Steps
    BY <1>1, <2>1 DEF SerialInv, AutoStep, Steps
  <2>3. pc' = [pc EXCEPT ![c] = "decide"] /\ cmd' = [cmd EXCEPT ![c] = m]
    BY <1>0, <1>2, <2>1 DEF Goto, ProcsOK
  <2>4. QED
    BY <1>1, <2>2, <2>3, ReadStep
<1>3. CASE pc'[c] \in {"idle", "expire"}
  BY <1>3, AwayStep
<1>4. QED
  BY <1>0, <1>2, <1>3 DEF AutoApproveRead, Exit, ProcsOK

\* Every other step leads away from the policy's approval.
LEMMA ContinueSerial ==
  ASSUME Alone, SerialInv, ExecutionInv', NEW c \in Procs, Continue(c)
  PROVE  SerialInv'
<1>0. ProcsOK
  BY DEF SerialInv, ExecutionInv, TypeOK
<1>1. CASE \/ RecordDecision(c) \/ ExpireIfPastDeadline(c) \/ MarkExecutingRead(c)
           \/ MarkExecuting(c) \/ Apply(c) \/ Finish(c) \/ TripComponent(c) \/ TripHost(c)
  <2>1. pc'[c] \in {"idle", "check", "expire", "mark", "apply", "finish", "tripComponent", "tripHost"}
    BY <1>0, <1>1 DEF RecordDecision, ExpireIfPastDeadline, MarkExecutingRead, MarkExecuting,
         Apply, Finish, TripComponent, TripHost, Goto, Exit, ProcsOK
  <2>2. QED
    BY <2>1, AwayStep
<1>2. CASE RecoverOrphanedPlan(c) \/ RecoverDone(c) \/ ReadModeStart(c)
  <2>1. pc'[c] \in {"idle", "recover", "evaluate", "check", "gather"}
    BY <1>0, <1>2 DEF RecoverOrphanedPlan, RecoverDone, ReadModeStart, Goto, Exit, ProcsOK
  <2>2. QED
    BY <2>1, AwayStep
<1>3. QED
  BY <1>1, <1>2, GatherSerial, EvaluateSerial, AutoApproveSerial DEF Continue

-----------------------------------------------------------------------------
(* Every step *)

\* Operators, alerts and the clock leave what a command relies on true: an age
\* only takes an action out of the host's count.
LEMMA EnvironmentSerial ==
  ASSUME SerialInv, ExecutionInv', Environment
  PROVE  SerialInv'
<1>0. TypeOK /\ TypeOK' /\ AgesOK /\ ProcsOK
  BY DEF SerialInv, ExecutionInv, TypeOK
<1>1. UNCHANGED <<pc, cmd, approvals>>
  BY DEF Environment, CreatePlan, DeadlinePasses, WindowPasses, SetAutonomyMode, Kill,
         ResetBreaker, IncidentResolves, dbVars
<1>2. \A q \in Plans : age'[q] >= age[q]
  <2>1. CASE age' = age
    BY <1>0, <2>1 DEF AgesOK
  <2>2. ASSUME NEW p \in Plans, WindowPasses(p) PROVE \A q \in Plans : age'[q] >= age[q]
    <3>1. age' = [age EXCEPT ![p] = @ + 1]
      BY <2>2 DEF WindowPasses
    <3>2. \A q \in Plans : age[q] \in Nat
      BY <1>0 DEF AgesOK
    <3>3. \A q \in Plans : age'[q] = age[q] \/ age'[q] = age[q] + 1
      BY <1>0, <3>1 DEF AgesOK
    <3>4. QED
      BY <3>2, <3>3
  <2>3. QED
    BY <2>1, <2>2 DEF Environment, CreatePlan, DeadlinePasses, SetAutonomyMode, Kill,
                      ResetBreaker, IncidentResolves, timeVars
<1>3. ASSUME NEW d \in Procs PROVE AutoStep(pc[d], cmd[d])'
  <2>1. PICK s \in Steps, m \in Commands : s = pc[d] /\ m = cmd[d]
    BY <1>0 DEF ProcsOK
  <2>2. AutoStep(s, m)
    BY <2>1 DEF SerialInv
  <2>3. AutoStep(s, m)'
    BY <1>0, <1>1, <1>2, <2>2, AutoStepStable
  <2>4. pc'[d] = s /\ cmd'[d] = m
    BY <1>1, <2>1
  <2>5. QED
    BY <2>3, <2>4 DEF AutoStep
<1>4. QED
  BY <1>3 DEF SerialInv

LEMMA CrashSerial ==
  ASSUME Alone, SerialInv, ExecutionInv', NEW c \in Procs, Crash(c)
  PROVE  SerialInv'
<1>1. pc'[c] = "idle"
  BY DEF Crash, Exit, SerialInv, ExecutionInv, TypeOK, ProcsOK
<1>2. QED
  BY <1>1, AwayStep

LEMMA StutterSerial ==
  ASSUME SerialInv, ExecutionInv', UNCHANGED vars
  PROVE  SerialInv'
<1>1. UNCHANGED <<approvals, age, pc, cmd>>
  BY DEF vars, dbVars, timeVars
<1>2. ASSUME NEW d \in Procs PROVE AutoStep(pc[d], cmd[d])'
  <2>1. AutoStep(pc[d], cmd[d])
    BY DEF SerialInv
  <2>2. RecentActions(HostOf[cmd[d].plan])' = RecentActions(HostOf[cmd[d].plan])
        /\ HasHumanRejection(cmd[d].plan)' = HasHumanRejection(cmd[d].plan)
    BY <1>1 DEF RecentActions, HasHumanRejection, SameTarget, HasApproval
  <2>3. QED
    BY <1>1, <2>1, <2>2 DEF AutoStep
<1>3. QED
  BY <1>2 DEF SerialInv

LEMMA SerialInductive ==
  ASSUME Alone, SerialInv, [Next]_vars
  PROVE  SerialInv'
<1>1. ExecutionInv'
  BY Inductive DEF SerialInv
<1>2. QED
  BY <1>1, StartSerial, ContinueSerial, EnvironmentSerial, CrashSerial, StutterSerial
     DEF Next

LEMMA SerialInitially == Init => SerialInv
<1> SUFFICES ASSUME Init PROVE SerialInv
  OBVIOUS
<1>1. ExecutionInv
  BY Initially
<1>2. \A c \in Procs : pc[c] = "idle"
  BY DEF Init
<1>3. QED
  BY <1>1, <1>2 DEF SerialInv, AutoStep

-----------------------------------------------------------------------------
(* The theorems *)

\* Commands that run one at a time, and may die at any step, keep the invariant
\* above: what the policy gathered is still true, or errs on the side of caution,
\* when its approval is written.
THEOREM SerialInvariance ==
  ASSUME Alone
  PROVE  Spec => []SerialInv
<1>1. SerialInv /\ [Next]_vars => SerialInv'
  BY SerialInductive
<1>2. QED
  BY <1>1, SerialInitially, PTL DEF Spec

\* Only the policy's own RecordDecision writes a policy approval, on a plan that
\* is open.
LEMMA OnlyPolicyApproves ==
  ASSUME Alone, SerialInv, [Next]_vars, NEW p \in Plans, NewPolicyApproval(p)
  PROVE  \E c \in Procs : /\ pc[c] = "decide" /\ cmd[c].auto /\ cmd[c].plan = p
                          /\ approvals[p] = << >>
                          /\ \E row : approvals' = [approvals EXCEPT ![p] = <<row>>]
                          /\ age' = [age EXCEPT ![p] = 0]
<1>0. ApprovalsOK /\ ProcsOK /\ ExecutionInv
  BY DEF SerialInv, ExecutionInv, TypeOK
<1>1. ASSUME approvals' = approvals PROVE FALSE
  BY <1>1 DEF NewPolicyApproval, PolicyApproved, HasApproval
<1>2. ASSUME NEW c \in Procs, RecordDecision(c)
      PROVE  /\ pc[c] = "decide" /\ cmd[c].auto /\ cmd[c].plan = p
             /\ approvals[p] = << >>
             /\ \E row : approvals' = [approvals EXCEPT ![p] = <<row>>]
             /\ age' = [age EXCEPT ![p] = 0]
  <2>1. PICK q : q = cmd[c].plan
    OBVIOUS
  <2>2. pc[c] = "decide" /\ q \in Plans
    BY <1>0, <1>2, <2>1 DEF RecordDecision, ExecutionInv, CommandsSane
  <2>3. planState[q] = "PROPOSED"
    BY <1>1, <1>2, <2>1 DEF RecordDecision
  <2>4. PICK row : /\ approvals' = [approvals EXCEPT ![q] = Append(@, row)]
                   /\ row.actor = IF cmd[c].auto THEN "policy" ELSE "human"
                   /\ age' = [age EXCEPT ![q] = 0]
    <3>1. PICK row : row = [decision |-> cmd[c].decision,
                            actor |-> IF cmd[c].auto THEN "policy" ELSE "human"]
      OBVIOUS
    <3>2. /\ approvals' = [approvals EXCEPT ![q] = Append(@, row)]
          /\ age' = [age EXCEPT ![q] = 0]
      BY <1>2, <2>1, <2>3, <3>1 DEF RecordDecision
    <3>3. row.actor = IF cmd[c].auto THEN "policy" ELSE "human"
      BY <3>1
    <3>4. QED
      BY <3>2, <3>3
  <2>5. approvals[q] = << >>
    BY <1>0, <2>2, <2>3 DEF ExecutionInv, DecisionMatchesState
  <2>6. Append(approvals[q], row) = <<row>>
    BY <2>5
  <2>7. approvals' = [approvals EXCEPT ![q] = <<row>>]
    BY <2>4, <2>6
  <2>8. p = q
    <3>1. p # q => approvals'[p] = approvals[p]
      BY <1>0, <2>7 DEF ApprovalsOK
    <3>2. QED
      BY <3>1 DEF NewPolicyApproval, PolicyApproved, HasApproval
  <2>9. cmd[c].auto
    <3>1. PICK i \in DOMAIN approvals'[p] : approvals'[p][i].actor = "policy"
      BY DEF NewPolicyApproval, PolicyApproved, HasApproval
    <3>2. approvals'[p] = <<row>>
      BY <1>0, <2>2, <2>7, <2>8 DEF ApprovalsOK
    <3>3. DOMAIN <<row>> = {1} /\ <<row>>[1] = row
      OBVIOUS
    <3>4. row.actor = "policy"
      BY <3>1, <3>2, <3>3
    <3>5. cmd[c].auto \in BOOLEAN
      BY <1>0 DEF ProcsOK, Commands
    <3>6. QED
      BY <2>4, <3>4, <3>5
  <2>10. QED
    BY <2>1, <2>2, <2>4, <2>5, <2>7, <2>8, <2>9
<1>3. ASSUME Environment PROVE approvals' = approvals
  BY <1>3 DEF Environment, CreatePlan, DeadlinePasses, WindowPasses, SetAutonomyMode, Kill,
              ResetBreaker, IncidentResolves, dbVars
<1>4. ASSUME NEW c \in Procs, Start(c) \/ Crash(c) PROVE approvals' = approvals
  BY <1>4 DEF Start, DecideStart, ExecuteStart, AutoExecuteStart, Crash, dbVars
<1>5. ASSUME NEW c \in Procs, Continue(c), ~RecordDecision(c) PROVE approvals' = approvals
  BY <1>5 DEF Continue, ExpireIfPastDeadline, MarkExecutingRead, MarkExecuting, Apply, Finish,
              TripComponent, TripHost, RecoverOrphanedPlan, RecoverDone, ReadModeStart,
              GatherPolicyInput, EvaluateAndRecord, AutoApproveRead, dbVars
<1>6. ASSUME UNCHANGED vars PROVE approvals' = approvals
  BY <1>6 DEF vars, dbVars
<1>7. PICK c \in Procs : RecordDecision(c)
  BY <1>1, <1>3, <1>4, <1>5, <1>6 DEF Next
<1>8. QED
  BY <1>2, <1>7

\* With one command at a time, a policy approval never takes its host past the
\* host budget: the count that guards 8 and 9 saw is still an upper bound when
\* the approval is written.
THEOREM ApprovalsStayWithinBudget ==
  ASSUME Alone
  PROVE  Spec => PolicyApprovalWithinBudget
<1>1. ASSUME SerialInv, [Next]_vars, NEW p \in Plans, NewPolicyApproval(p)
      PROVE  Cardinality(RecentActions(HostOf[p])') <= Bounded(Config.hostBudget, 2)
  <2>1. PICK c \in Procs : /\ pc[c] = "decide" /\ cmd[c].auto /\ cmd[c].plan = p
                           /\ \E row : approvals' = [approvals EXCEPT ![p] = <<row>>]
                           /\ age' = [age EXCEPT ![p] = 0]
    BY <1>1, OnlyPolicyApproves
  <2>2. ApprovalsOK /\ AgesOK
    BY <1>1 DEF SerialInv, ExecutionInv, TypeOK
  <2>3. Cardinality(RecentActions(HostOf[p])) < Bounded(Config.hostBudget, 2)
    BY <1>1, <2>1 DEF SerialInv, AutoStep
  <2>4. \A q \in Plans : q # p => approvals'[q] = approvals[q] /\ age'[q] = age[q]
    BY <2>1, <2>2 DEF ApprovalsOK, AgesOK
  <2> DEFINE old == RecentActions(HostOf[p])
             new == RecentActions(HostOf[p])'
  <2>5. new \subseteq old \cup {p}
    BY <2>4 DEF RecentActions
  <2>6. IsFiniteSet(old) /\ Cardinality(old) \in Nat
    BY RecentCount
  <2> HIDE DEF old, new
  <2>7. IsFiniteSet(old \cup {p}) /\ Cardinality(old \cup {p}) <= Cardinality(old) + 1
        /\ Cardinality(old \cup {p}) \in Nat
    <3>1. PICK n \in Nat : n = Cardinality(old)
      BY <2>6
    <3>2. CASE p \in old
      <4>1. old \cup {p} = old
        BY <3>2
      <4>2. IsFiniteSet(old \cup {p}) /\ Cardinality(old \cup {p}) = n
        BY <2>6, <3>1, <4>1
      <4>3. QED
        BY <3>1, <4>2
    <3>3. CASE p \notin old
      <4>1. IsFiniteSet(old \cup {p}) /\ Cardinality(old \cup {p}) = Cardinality(old) + 1
        BY <2>6, <3>3, FS_AddElement
      <4>2. QED
        BY <3>1, <4>1
    <3>4. QED
      BY <3>2, <3>3
  <2>8. Cardinality(new) <= Cardinality(old \cup {p}) /\ Cardinality(new) \in Nat
    BY <2>5, <2>7, FS_Subset, FS_CardinalityType
  <2>9. Bounded(Config.hostBudget, 2) \in Int
    BY DEF Bounded, PolicyConfig
  <2>10. Cardinality(new) <= Bounded(Config.hostBudget, 2)
    BY <2>3, <2>6, <2>7, <2>8, <2>9 DEF old
  <2>11. QED
    BY <2>10 DEF new
<1>2. SerialInv /\ [Next]_vars =>
        [\A p \in Plans : NewPolicyApproval(p) =>
           Cardinality(RecentActions(HostOf[p])') <= Bounded(Config.hostBudget, 2)]_vars
  BY <1>1
<1>3. QED
  BY <1>2, SerialInvariance, PTL DEF Spec, PolicyApprovalWithinBudget

\* With one command at a time, policy never approves a repair that a human has
\* rejected under whatever plan id (guard 13): nobody can reject between the
\* gathering and the approval.
THEOREM RejectionsAreFinal ==
  ASSUME Alone
  PROVE  Spec => NoPolicyApprovalAfterRejection
<1>1. ASSUME SerialInv, [Next]_vars, NEW p \in Plans, NEW q \in Plans, NewPolicyApproval(p),
             SameRepair(p, q), NEW i \in DOMAIN approvals[q],
             approvals[q][i] = [decision |-> "rejected", actor |-> "human"]
      PROVE  FALSE
  <2>1. PICK c \in Procs : pc[c] = "decide" /\ cmd[c].auto /\ cmd[c].plan = p
    BY <1>1, OnlyPolicyApproves
  <2>2. ~HasHumanRejection(p)
    BY <1>1, <2>1 DEF SerialInv, AutoStep
  <2>3. q \in SameTarget(p)
    BY <1>1 DEF SameTarget, SameRepair, Family
  <2>4. approvals[q][i].decision = "rejected" /\ approvals[q][i].actor \in {"human"}
    BY <1>1
  <2>5. QED
    BY <2>2, <2>3, <2>4 DEF HasHumanRejection, HasApproval
<1>2. SerialInv /\ [Next]_vars =>
        [\A p, q \in Plans : NewPolicyApproval(p) /\ SameRepair(p, q) =>
           \A i \in DOMAIN approvals[q] :
             approvals[q][i] # [decision |-> "rejected", actor |-> "human"]]_vars
  BY <1>1
<1>3. QED
  BY <1>2, SerialInvariance, PTL DEF Spec, NoPolicyApprovalAfterRejection
=============================================================================
