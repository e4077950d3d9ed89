---------------------------- MODULE HostLifecycle ----------------------------
(***************************************************************************)
(* The hysteresis of one monitored host (internal/detection lifecycle.go): *)
(* what one valid score does to the host's in-memory state machine, and    *)
(* which transition it asks the engine to publish.  Scores are percent, so *)
(* the thresholds are the source's times a hundred.                        *)
(*                                                                         *)
(* A constant module: the state itself is kept by DetectionEngine.         *)
(***************************************************************************)
EXTENDS Naturals, Sequences, FiniteSets

CONSTANTS
  \* LifecyclePolicy of the feature profile, after Effective.
  WarningWindow, WarningRequired, CriticalCycles, RecoveryCycles

\* LifecyclePolicy.Validate; an omitted field has its positive default.
ASSUME PolicyAssumption ==
  /\ {WarningWindow, WarningRequired, CriticalCycles, RecoveryCycles} \subseteq Nat \ {0}
  /\ WarningRequired <= WarningWindow

RecoveryThreshold == 60
CandidateThreshold == 65
WarningThreshold == 80
CriticalThreshold == 95
\* The literal of advanceCandidate.
CandidateClearCycles == 2

LifecycleStates == {"normal", "candidate", "firing", "recovering"}
Alerting == {"firing", "recovering"}
ActiveSeverities == {"warning", "critical"}
LifecycleActions ==
  {"none", "create_warning", "create_critical", "escalate_critical",
   "enter_recovering", "return_to_firing", "resolve"}
Creates == {"create_warning", "create_critical"}

Lifecycles ==
  [state: LifecycleStates, severity: ActiveSeverities \cup {""},
   prior: ActiveSeverities \cup {""}, history: Seq(BOOLEAN),
   critical: Nat, recovery: Nat, clear: Nat]

\* NewHostLifecycleWithPolicy.
NewHostLifecycle ==
  [state |-> "normal", severity |-> "", prior |-> "", history |-> <<>>,
   critical |-> 0, recovery |-> 0, clear |-> 0]

-----------------------------------------------------------------------------
\* The newest values of a warning history, at most a window of them.
Window(h) ==
  IF Len(h) > WarningWindow THEN SubSeq(h, Len(h) - WarningWindow + 1, Len(h)) ELSE h

CountTrue(h) == Cardinality({i \in DOMAIN h : h[i]})

\* What every valid cycle does first, whatever the state.
Counted(l, score) ==
  [l EXCEPT !.history = Window(Append(@, score >= WarningThreshold)),
            !.critical = IF score >= CriticalThreshold THEN @ + 1 ELSE 0,
            !.recovery = IF score < RecoveryThreshold THEN @ + 1 ELSE 0]

\* One Advance call: the state after it and the action to publish.
Result(l, action) == [life |-> l, action |-> action]
Quiet(l) == Result(l, "none")
Fire(l, severity) ==
  Result([l EXCEPT !.state = "firing", !.severity = severity],
         IF severity = "critical" THEN "create_critical" ELSE "create_warning")

IsCritical(l) == l.critical >= CriticalCycles
IsWarning(l) == CountTrue(l.history) >= WarningRequired

AdvanceNormal(l, score) ==
  CASE IsCritical(l) -> Fire(l, "critical")
    [] ~IsCritical(l) /\ IsWarning(l) -> Fire(l, "warning")
    [] OTHER -> Quiet(IF score >= CandidateThreshold
                      THEN [l EXCEPT !.state = "candidate", !.clear = 0] ELSE l)

AdvanceCandidate(l, score) ==
  LET clear == IF score < CandidateThreshold THEN l.clear + 1 ELSE 0 IN
  CASE IsCritical(l) -> Fire(l, "critical")
    [] ~IsCritical(l) /\ IsWarning(l) -> Fire(l, "warning")
    [] OTHER -> Quiet(IF clear >= CandidateClearCycles
                      THEN [l EXCEPT !.state = "normal", !.clear = 0]
                      ELSE [l EXCEPT !.clear = clear])

\* A critical episode is never downgraded.
AdvanceFiring(l) ==
  CASE l.severity = "warning" /\ IsCritical(l) ->
         Result([l EXCEPT !.severity = "critical"], "escalate_critical")
    [] ~(l.severity = "warning" /\ IsCritical(l)) /\ l.recovery >= 1 ->
         Result([l EXCEPT !.state = "recovering", !.prior = l.severity], "enter_recovering")
    [] OTHER -> Quiet(l)

AdvanceRecovering(l, score) ==
  CASE l.recovery >= RecoveryCycles ->
         Result([l EXCEPT !.state = "normal", !.severity = "", !.prior = "", !.recovery = 0],
                "resolve")
    [] l.recovery < RecoveryCycles /\ score >= RecoveryThreshold ->
         Result([l EXCEPT !.state = "firing", !.severity = l.prior, !.recovery = 0],
                "return_to_firing")
    [] OTHER -> Quiet(l)

Advance(l, score) ==
  LET c == Counted(l, score) IN
  CASE l.state = "normal" -> AdvanceNormal(c, score)
    [] l.state = "candidate" -> AdvanceCandidate(c, score)
    [] l.state = "firing" -> AdvanceFiring(c)
    [] l.state = "recovering" -> AdvanceRecovering(c, score)
=============================================================================
