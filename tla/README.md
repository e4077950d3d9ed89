# TLA+ models of pilot

Formal models of the parts of pilot in which several processes, goroutines or
retries meet shared state.  Modelled first are the subsystems that can change a
managed host without a person watching, the remediation workflow of the agent
controller and its incident scheduler; then the outbox that tells other systems
what a deployment did, the detection engine that raises the alerts, the writers
of a workspace's rosters with the transactional edit on top of them, and the
retirement of a host.

## 1. Inventory

pilot describes a fleet of hosts (inventory, contracts, specs), deploys it with
ansible, verifies it, and operates it: it detects anomalies, sends alerts,
lets an agent diagnose incidents, and repairs hosts under human or policy
control.  The stateful parts and how they interact:

| Component | State | Operations | What is hard | What makes it correct |
| --- | --- | --- | --- | --- |
| Detection engine (`internal/detection`) | state machines in memory; episodes, history and outbox in SQLite | cycle: score, advance, publish, heartbeat; outbox claim / POST / complete; restore | memory and store move separately, leases, late completions, order of resolve and fire, overrunning cycles | one active episode per host, escalations resolve before they fire, no alert outlives its episode for long or lapses before it |
| Alertmanager (external) | alert groups | sends webhooks, redelivers | duplicates, reordering | - |
| Agent controller: incidents (`internal/agentcontroller/incident.go`) | `incidents`, `agent_runs` | `IngestEvent`, `EnqueueRun`, `StartRun`, `CompleteRunDiagnosed`, `FailRunAndMaybeRetry`, `RecoverInFlightRuns` | events arrive while a pass is between listing and writing; restarts | one active incident per identity, runs and incidents agree |
| Agent controller: scheduler (`queue.go`) | pass-local list, host map, workers | `RunOnce`, `dispatchOne` | concurrency limits, backoff, store errors | limits hold, every incident is investigated to an end |
| Agent controller: remediation (`remediation.go`, `approval.go`, `reapply*.go`, `remediation_cli.go`) | plans, approvals, runs (R1 and R2) | propose, approve, reject, execute, auto-execute, recover | every command is a process of its own and may die | an action is applied at most once, only after approval, with one outcome |
| Autonomy policy (`internal/policy`, `policy_*.go`, `breaker.go`, `autonomy_state.go`) | breakers, mode, derived budgets | evaluate, trip, reset, kill, enable | check-then-act over several reads | budgets, cooldowns, rejections and breakers are respected |
| Repair executor (`internal/repair`) | - | build plan, apply, verify | freshness of plans | acts only on the plan that was approved |
| Outbound webhooks (`internal/outbound`) | sequenced outbox, cursors, leases | enqueue, claim, mark, reconcile, flush | leases, head-of-line order, configuration changes, stale bases | receivers see states in order, none is skipped silently |
| Delivery (`internal/delivery`) | transaction of one deployment | apply, verify, idempotency check, rollback | failure of one step of several | the reported outcome is the one that happened |
| Decommissioning (`internal/decommission`, `cmd/pilot/cmd/host_decommission.go`) | plans and retired hosts in SQLite; `hosts.yml`, `host_vars`, `inventory.yml`; the live systems | plan, apply / resume (inspect and run steps, verify, derive again), finalize, restore | nothing records how far a run came; steps change what the plan is bound to; edit sessions, failures and kills in between | the host leaves `hosts.yml` last, verified clean and recorded; no edit is lost; a failed run can be continued |
| State files (`internal/statefile`) | one JSON file and a lock | load, save, mutate | crash during save | readers see the old or the new document |
| Session recording (`internal/sessionrecording`, `internal/sessionstore`) | chunks | record, upload, store | back-pressure, retries | no chunk lost or doubled |
| Access gateway, grants, identity (`internal/gatewayapi`, `accessportal`, `accessgrants`, `identityreconcile`, `freeipa*`) | snapshots, live directory | resolve, reconcile | staleness of snapshots | live state converges to desired state |
| Roster writers (`internal/inventory/roster_*.go`) | roster files, sidecar and inode locks, journals | edit, restore, remove | hard links: one file under several names and locks; writes in place that are cut short | one writer per file, no acknowledged change lost |
| Workspace apply (`cmd/pilot/cmd/edit_workspace_*.go`, `edit_automation_driver.go`) | snapshot, journal, touched files, in memory | apply a scenario, roll it back | other processes write the same rosters meanwhile | a rollback undoes exactly the apply's own writes |
| Inventory documents, contracts, specs, CLI, TUI, MCP servers, ansible runner, targets, diagnosis | documents, external programs | parse, validate, run | mostly data and I/O | - |

The detection engine posts to Alertmanager; Alertmanager posts webhooks to the
agent controller; the scheduler hands OPEN incidents to the Agent Runtime;
operators (or the policy) turn a diagnosis into a remediation plan; the repair
MCP server executes it.  Incidents and plans share one SQLite file: the policy
asks whether the incident still fires.  Independently of all this, a deploy or
reconcile that has ended publishes the resulting state to webhooks through a
durable outbox in `history.db`, which every later pilot process and a periodic
`pilot webhook flush` drain.  A workspace's files are edited by `pilot edit`,
by `pilot_edit_apply` of the MCP server and by a decommission's finalizer, which
exclude each other by the lock `.pilot/edit.lock`; the rosters among them have
further writers, which do not take that lock and have locks of their own.

`PROJECT.json` lists every component with its status, and every hazard with the
line where it bites and the properties that cover it.

## 2. Plan

Done:

1. **Remediation** with **AutonomyPolicy** and the abstract **PlanLifecycle**:
   the workflow that changes hosts.  Proofs in **RemediationProofs**, of the
   policy's properties in **RemediationSerialProofs**.
2. **IncidentController**, proofs in **IncidentProofs**.
3. **WebhookOutbox**, proofs in **WebhookOutboxProofs**.
4. **HostLifecycle** and **DetectionEngine**: hysteresis, cycle, episodes,
   heartbeats and the Alertmanager outbox.  Proofs in **DetectionProofs**.
5. **RosterWrite** and **RosterApply**, proofs in **RosterProofs** and
   **RosterUpdateProofs**.
6. **Decommission**, proofs in **DecommissionProofs**.

Left, in this order:

1. A module that composes DetectionEngine with IncidentController through an
   Alertmanager that delays, groups and redelivers.
2. An abstract specification of the outbox (a sequence of states of which the
   receiver sees a growing prefix with recorded gaps) and the refinement; the
   number of requests per event, which the code does not bound as its
   specification asks (the hazard at `dispatcher.go:157`).
3. **AutonomyPolicy** on its own: EvaluatePolicy against a reference definition
   over all inputs; a property for the window between the breaker reads of
   auto-execute and its execution.
4. Decommission: edits of the host's own roles, expiry and approvals; then the
   state files and the delivery transaction, as far as their control flow
   carries.

## 3. Modules

| Module | Models |
| --- | --- |
| `AutonomyPolicy` | `policy.EvaluatePolicy`: the ordered guards; pure |
| `PlanLifecycle` | abstract: what the store promises of every plan |
| `Remediation` | the remediation and autonomy commands on the controller's database; EXTENDS AutonomyPolicy, instantiates PlanLifecycle |
| `RemediationProofs` | theorems about Remediation |
| `RemediationSerialProofs` | theorems about Remediation with one command at a time |
| `IncidentController` | the webhook handler's transactions, the scheduler and its workers, restart |
| `IncidentProofs` | theorems about IncidentController |
| `WebhookOutbox` | the queue of one webhook: publication, claim leases, delivery, configuration changes |
| `WebhookOutboxProofs` | theorems about WebhookOutbox |
| `HostLifecycle` | the hysteresis of one host: what a score does to its state machine; pure |
| `DetectionEngine` | the detection daemon: cycles, episodes, heartbeats, the outbox to Alertmanager; EXTENDS HostLifecycle |
| `DetectionProofs` | theorems about DetectionEngine |
| `RosterWrite` | the roster writers of `internal/inventory`: locks, links, writes |
| `RosterApply` | transactional edits on top of them: steps, journal, rollback; EXTENDS RosterWrite |
| `RosterProofs` | theorems about RosterWrite and RosterApply: types, exclusion |
| `RosterUpdateProofs` | theorems about RosterApply: what the writers leave in the rosters; EXTENDS RosterProofs |
| `Decommission` | the retirement of a host: plan, apply, finalize, edit sessions |
| `DecommissionProofs` | theorems about Decommission |
| `MC...` | instances for TLC |

Operators whose name begins with `Buggy` are mutated forms of the definition
after them, one for each property; no specification uses them.

### Remediation

*State.*  `planState`, `approvals`, `run` are the rows of the plan, approval and
run tables (R1 and R2 live in separate tables with the same code; `RiskOf` says
which); `breaker` the OPEN scopes; `mode` the autonomy mode; `resolved` the
incidents in a terminal status.  Time is what the code asks of it: `expired`
(the deadline has passed) and `age` (how many of the cooldown, component and
host windows an approval has outlived).  `pc` and `cmd` are the step and the
local variables of each running command.  `applied` and `unattended` are
history.

*Steps.*  A step is one SQL statement or one transaction, so a command's read
and its conditional update are two steps:

| Code | Actions |
| --- | --- |
| `recordApprovalDecision` | `DecideStart`, (`ExpireIfPastDeadline`), `RecordDecision` |
| `MarkExecuting` | `MarkExecutingRead`, (`ExpireIfPastDeadline`), `MarkExecuting` |
| `client.Apply`, `FinishRun` | `Apply`, `Finish` |
| `RecoverOrphanedExecutingPlans` | list in `AutoExecuteStart` / `ExecuteStart`, one `RecoverOrphanedPlan` per plan, `RecoverDone` |
| `auto-execute` | `AutoExecuteStart`, recovery, `ReadModeStart`, `GatherPolicyInput`, `EvaluateAndRecord`, `AutoApproveRead`, `RecordDecision`, the two steps of MarkExecuting, `Apply`, `Finish`, `TripComponent`, `TripHost` |
| operators | `SetAutonomyMode`, `Kill`, `ResetBreaker` |
| a dying process | `Crash` at any step |

*Abstractions.*  A plan's hash is bound to its id, an operator passing a stale
hash gets an error that changes nothing.  The unsuccessful outcomes are one
(`EXECUTION_FAILED`): every branch asks whether the plan is verified.  The
answer of the repair service while gathering is one Boolean: fresh, healthy and
opted in, or not; any of the failures leads to a decision other than
`allow_auto`, which ends the command.  The queries of GatherPolicyInput are one
step and the three breaker reads another.  The code measures windows from the
clock reading taken when the command began, which only makes them longer; the
model lets a window end at any time.  `STALE` is declared by the code and
written nowhere.

### IncidentController

*State.*  `status`, `ident`, `body`, `waiting` (next_dispatch_at in the future),
`attempts` and `older` (the order of updated_at) are columns of `incidents`;
`runState` and `runOf` of `agent_runs`, where a finished row's slot is reused;
`listed`, `busy` and `worker` are the locals of RunOnce and dispatchOne.

*Steps.*  `IngestEvent` is one transaction.  `PassStart` is the count and the
listing (only webhooks can come between them, and they do not change the
count), `LaunchOrSkip` one turn of the loop, then each worker does `EnqueueRun`,
`StartRun` and, after Diagnose, `CompleteRunDiagnosed` or
`FailRunAndMaybeRetry`.  A pass starts only when all workers of the last one
have returned (`wg.Wait`).  `StoreFault` is a store error under a worker, and
the failing count is a disjunct of `LaunchOrSkip`.  `Crash` and
`RecoverInFlightRuns` are a restart; the server does not listen before recovery.

*Abstractions.*  incident_events, agent_evidence and the revision number are
written and read by no decision.  SUPPRESSED and CLOSED are read and written
nowhere.  updated_at has a resolution of a second; the model keeps the order of
single updates and leaves the order open among the rows one recovery touches.

### WebhookOutbox

*State.*  Rows of `webhook_outbox` are numbered by their sequence; `count` is the
highest.  `state`, `mode` (diff, or a payload that contains the snapshot),
`base`, `target`, `attempts`, `owner` are columns; `due` and `leased` say
whether next_attempt_at has passed and claim_until has not.  `cursor` is
`webhook_state_cursor`, `config` the entry of `integrations.yaml`.  `proc` holds
each pilot process: where it is, its command, the configuration it loaded, the
base of its draft, the row it has claimed.  `posted` is history.

*Steps.*  Every process begins with `Load` and `ReconcileWebhookConfig`, which
uses the configuration as it was loaded.  A publisher goes on with the two
reads of EffectiveBase (`ReadPendingTarget`, `ReadCursor`) and `EnqueueBatch`,
and then flushes; a flush is `ClaimNextDue`, `SendRequest`, and `MarkDelivered`
or `MarkAttemptFailed`, repeated.  `Leave` is the end of a process at any point:
a crash, a store error, the claim limit or the budget.  The budget matters: the
Mark calls run under its context, so a request that outlives it leaves no
trace.  `LeaseExpires`, `BackoffElapses` and `EditConfig` are the surroundings.

*Abstractions.*  The queues of two webhooks share no row, and there is one
projection, so one queue is modelled.  A snapshot is its id.  `target` is kept
only for authoritative events; nothing reads it for others.  claim_owner is a
fresh UUID per claim; a process has at most one claim, so its name stands for
it.  When both reads of EffectiveBase are made but the pending target decides,
the second read is left out.  A file that is missing as a whole ends a command
before it touches the outbox, which is `Leave`.

### HostLifecycle and DetectionEngine

*State.*  `life` is `Engine.lifecycles`, one state machine per host with its
window and counters; `episode` and `outbox` are the tables; `thread` the
goroutines of cycles, `proc` and `unread` the daemon and what it has still to
restore.  `alerts` is Alertmanager as far as the code relies on it: the endsAt
of every label set it was sent.  `posted`, `torn`, `flapped` and `faults` are
history.

*Steps.*  `Tick` is the ticker: time passes, and a cycle begins unless one is
running (`Scheduler`'s gate).  A cycle is `Query`, one of `AdvanceQuietly`,
`Publish` and `PublishFails` per host in order, `Heartbeat` for each episode
that is due, and the drain: `ClaimOutboxItem`, `Post`, `CompleteOutboxItem`
until nothing is eligible.  `Advance` changes the state machine before the
transaction of `Publish`; when that fails (`PublishFails`) memory is ahead of
the store, as in the code.  A transaction writes the episode and its outbox rows
together: an escalation two, in sequence.  `Crash`, `Start`, `RestoreEpisode`,
`ReconcileUnrestorable` and `Serve` are a restart.

*Abstractions.*  The score of a host in a cycle is an input, and so is whether
its series is valid: queries, baselines, detectors, the model provider and
fusion only produce it.  Engines of other profiles share no row.  A transaction
or a POST takes no time, a cycle any number of ticks.

### RosterWrite and RosterApply

*State.*  A file system with hard links: `dir` maps names to inodes, `data`
inodes to contents.  A roster's bytes are the set of changes it holds, and
whether a write in place has torn them.  `side` and `ilock` are the flocks of
the sidecar files and of an inode, `op` the operation each writer is in.  `app`
is an apply (snapshot, touched files, step, what its rollback has kept and
left), `journal` its RosterJournal, `acked` and `links` are history.

*Steps.*  `TakeSidecars`, `SidecarsHeld`, `LockInode`, `InodeHeld` are
lockRosterFile and lockRosterInode; `ReadRoster`, `CheckRestore` and
`CheckRemove` the three kinds of operation; then the open, refused when the file
has gained a link (`OpenRefused`), and the write, renamed into place
(`BeginReplace`, `Install`) or in place (`BeginInPlace`, `EndInPlace`,
`FailInPlace`).  An apply is `Snapshot`, `OpenJournal`, its steps, `Commit` or
`BeginRollback`, one `Undo` or `LeaveAlone` per file and `EndRollback`.

*Abstractions.*  What an edit changes in the YAML is one element.  A rollback
exists only in memory, so a crashed apply is not rolled back, and the locks end
with the process.  `Link` is anyone who gives a roster a second name; the model
excludes (`AddLink`) that this happens between the last link check of a write
and its end, which no user-space check can see.  Managed files that are not
rosters have no writer outside the workspace lock and are left out.

### Decommission

*State.*  `hosts` and `hostVars` are the workspace files of the host;
`undone` the teardown steps whose effect is not in place, which is all the live
state a step, an Inspect or a verifier looks at; `plan` and `retired` the
store's rows, each with whether it holds the host's FQDN (`named`); `lock` the
holder of `.pilot/edit.lock`; `proc` each running command with the plan it loaded
and the snapshot it took.  `acked`, `faults` and `gap`, the ways in which a
finalizer has left a removed host unrecorded, are history.

A step has a `Kind`: on the host, in a workspace file (the FreeIPA roster, the
endpoint manifest), or in a control plane, where the reconciler deletes only
what the file no longer declares.  Components in `References` are planned only
while a file names the host (internal endpoints); all others come from the
host's roles.

| Code | Actions |
| --- | --- |
| `autoRegenerateInventoryFromHosts`, without the lock, at the start of every command | `RegenRead`, `RegenWrite` |
| `plan` | `PlanStart`, `SavePlan` |
| `apply`, `resume` | `ApplyStart`, `Freshness`, one `RunStep` per step, `CollectVerifications`, `Rederive`, `SavePostCleanup` |
| `Finalize` | `FinalizeBegin`, `RemoveHostVars`, `WriteHosts`, `WriteInventory`, `SaveCompleted`, `SaveRetired`; `WriteFails`, `Restore` |
| a step, a write, a restore or a record that fails | `StepWithoutEffect`, `WriteFails`, `RestoreFails`, `RecordFails` |
| any other error before `hosts.yml` is written, or a kill at any step | `Abort` |
| `pilot_edit_apply` | `EditSession` |

A plan of a FreeIPA client is derived again only for the FQDN its predecessor
holds (`Bound`, bindPreviousRetirement).  A new plan has it from the inventory,
or, when the inventory has a short name (`ShortName`), from the host object in
the directory while that exists (`Resolvable`).

*Abstractions.*  Inspect and Execute of a step are one action: its effect is
idempotent, and a failure of Execute is an `Abort` before or after it.  A plan's
hash is bound to the hosts, the references and host_vars; the other fields of
computePlanHash are functions of these and of constants.  A derivation reads its
files and live systems in one step.  A plan slot is reused when its plan can
never be applied again, which keeps the number of plans bounded.  `hosts.yml` is
written by os.WriteFile; a kill in the middle, which leaves a truncated file,
is not modelled, nor is a plan that never becomes executable (blockers,
retention, unreachable hosts), which ends a command without an effect.

## 4. Runs

| Run | Expect | Shows |
| --- | --- | --- |
| `remediation_concurrent` | pass | 2 processes, 1 R1 and 1 R2 plan, crash at any step: ExecutionInv, ApplyAtMostOnce, AppliedOnlyIfApproved, RunMatchesState, and ImplementsLifecycle (PlanLifecycle) |
| `remediation_serial` | pass | 1 process that may die, 2 plans of one incident and host, operators on the global and the host breaker: TypeOK, PolicyApprovalWithinBudget, NoPolicyApprovalAfterRejection |
| `remediation_recovery` | violation | RecoveryOnlyClosesOrphans |
| `remediation_once` | violation | AutoOncePerIncident, 2 processes on 2 hosts of one incident |
| `incident_dispatch` | pass | 2 identities on 1 host, 3 incident rows, 3 events, 2 workers, 1 crash, 1 store fault: ControllerInv, OneActiveIncident, RunsMatchIncidents, ConcurrencyBounded, ActiveRunsOwned, FailedAfterBudget, and BacklogDrains under FairSpec |
| `incident_starvation` | violation | OthersNotStarved under FairSpec, one store fault |
| `incident_restart` | violation | RestartsNotCounted, one event and one crash |
| `outbox_delivery` | pass | 2 processes, 2 events, 2 snapshots, 2 configuration edits: OutboxInv, NothingOvertakes, DiffOnCursor, CursorIsLastAck, EndedForever |
| `detection_cycle` | pass | 1 host, 2 goroutines, 2 faults of any kind: TypeOK, OneActiveEpisode, MemoryFollowsStore, EscalationOrder, StaleAlertsExpire, SteadyAlertKept, SettledForever |
| `roster_apply` | pass | 2 applies and 1 other command on 2 names that may be, or become, one file: TypeOK, OneWriterPerFile, NoLostUpdate, RollbackUndoesOwn, JournalOwnWrites |
| `decommission_apply` | pass | 2 commands, 2 plans, 1 edit session, 1 fault, a host named by its FQDN: ZeroResidueBeforeRemoval, NoSilentRemoval, ReceiptMeansGone, EditsKept, and EventuallyRemoved under FairSpec |
| `decommission_endpoint` | violation | ZeroResidueBeforeRemoval for a host behind an internal endpoint |

*Bounds.*  Two processes and one plan of each family are enough for every race
on a plan: an invariant violated by three commands on a plan is violated by two,
and the proofs settle the general case.  MaxAge, OperatorModes, OperatorScopes
and Resolvable restrict what the surroundings do in a run.  Three incident rows
allow an identity to resolve and fire anew while the other identity waits;
MaxDispatchAttempts = 2 (3 in the code) allows a failure that is retried and one
that is final; MaxEvents, MaxCrashes and MaxFaults bound the environment, and an
event that would need a fourth row is not sent.  RunIds is the number of runs
active at the same time, two, so that the host limit has something to hold back.
In the outbox two processes are a claim's holder and whoever takes it away, two
events a head and its successor, and two edits take the entry away and bring it
back; MaxAttempts = 1 makes the first counted failure final, and the retry of a
pending row comes from a missing secret, an expired lease or a resume.  Three
processes and longer queues are left to the proofs.
In `detection_cycle` a window of one cycle, two cycles to critical and two to
recover take a host through every transition within six ticks; the horizon is
three refresh windows as in the code (12 and 4 ticks there); five rows hold the
fire, the escalation, a heartbeat and the resolve; two goroutines are a cycle and
the one that may not start beside it.  One channel label is enough because an
alert's labels are only compared.  In `roster_apply` the first apply has two
steps, so a rollback undoes a chain of writes; the second has none and is there
for its claim on a shared roster and its journal; three inodes are the file of
each name and the one a replacement installs.  Two applies that both write
are left to the proofs.  In `decommission_apply` two
commands are an apply and whatever overlaps it, two plans the stale one and its
successor, four steps one of every kind and a component without central state,
and one fault is a failure anywhere; more faults, steps and processes are left
to the proofs.

*Deadlock.*  Checked for Remediation.  IncidentController may stop when the
bounded events are used up and nothing is left to do, so it is not checked there;
BacklogDrains asks the question that matters.  The outbox may likewise stop
with an empty queue and its bounds used up.  In the
detection engine time is bounded, so every behaviour of the instance ends and
deadlock is not checked.  It is checked for the rosters, where `Idle` is the end
of all applies and commands, and for Decommission.

*Fairness.*  `FairSpec` of IncidentController assumes that the ticker
(`schedulerTick`, 2 s) starts passes, goroutines are scheduled, Diagnose
returns within DispatchTimeout (a context deadline), backoffs (at most 5 min)
end and the service manager restarts a dead process.  It assumes nothing about
events, crashes and faults, and not that a diagnosis succeeds.

The outbox has no liveness property.  That every event of an enabled webhook
comes to an end would need its secret to be present again and again and its
outcomes to be recorded within the flush budget, and the code sees to neither: a
head without its secret stays pending and uses up no attempt
(`dispatcher.go:99-114`, `webhook.go:139`), and a request that takes the whole
budget leaves no outcome (`dispatcher.go:157`).

`FairSpec` of Decommission assumes that a started command goes on
(`Proceed`), and that operators keep planning and keep applying a plan that is
current when they start (strong fairness, because edits and other commands make
plans stale again and again).  It does not assume that a run succeeds: faults
are bounded, not excluded, and steps are not fair on their own.

### What the violations show

* `remediation_recovery`: every auto-execute and reapply-execute recovers
  "orphans", so one that runs while another command is applying its plan closes
  that plan as EXECUTION_FAILED; the live command's outcome is then refused.
  The comment assumes a single process that recovers at startup.
* `remediation_once`: the budget of one autonomous repair per incident is counted
  from run rows, and those are written after the repair.  A second auto-execute,
  on another plan of the incident, that gathers in between counts none and
  repairs too.
* `incident_restart`: EnqueueRun counts the attempt and recovery does not give it
  back, so a restart uses up one of the attempts that, by the comment of
  RecoverInFlightRuns, it is not counted against.
* `incident_starvation`: a store error after EnqueueRun leaves a run active that
  nobody owns until a restart, and it counts against MaxConcurrentRuns.
* `decommission_endpoint`: the first step of an internal endpoint removes the
  manifest entry that the planner looks for.  When the run fails before the
  second step, the old plan is stale and the new one has no endpoint component
  and no blocker for it; the host is finalized with the endpoint live.

### Divergences without a run

Met while modelling, and visible in the models or beside them:

* Remediation: the comment of RecoverOrphanedExecutingPlans
  (`remediation.go:191-196`) says that going through FinishRun makes a recovered
  run "correctly count against budgets/breakers".  It counts against the budget,
  but breakers are tripped by auto-execute itself, after its own FinishRun
  (`remediation_cli.go:411-436`): a repair whose process died, or whose FinishRun
  recovery has forestalled, trips none.
* IncidentController: EnqueueRun has no condition on the status, so a resolve
  between listing and enqueueing is overwritten.
* IncidentController: the comment of RunOnce (`queue.go:46-50`) says that two
  incidents of one host can both pass the check for active runs and briefly
  exceed MaxRunsPerHost.  They cannot: `hostBusy` (lines 69-83), set in the same
  loop that makes the check, lets one incident of a host through in a pass, and
  the next pass waits for its worker.  ConcurrencyBounded holds without that
  exception; the one it has (`miscounted`) is a CountActiveRunsForHost that
  fails, after which the code goes on as if the host were free (line 77).
* WebhookOutbox: EffectiveBase is read outside the enqueue transaction, so two
  workflows that end together enqueue diffs with the same base; the second is
  blocked once the first is acknowledged and its state is never sent.  Safety is
  kept (DiffOnCursor).
* DetectionEngine: the specification of the engine
  (`docs/superpowers/specs/2026-08-28-detection-engine-spec.md:1652-1655`) asks
  that a failed commit leaves "no in-memory published transition".  RunCycle
  advances the state machine before it persists and does not take it back
  (`engine.go:624-632`), so a failed commit leaves memory ahead of the store:
  PublishFails does this in the model and notes the host in `torn`.
  MemoryFollowsStore says that nothing else parts the two, and exempts the torn.
* DetectionEngine: enter_recovering and return_to_firing renew updated_at and
  send nothing, and the refresh window is measured from updated_at; an episode
  that goes back and forth faster than the window is never refreshed and its
  alert lapses (SteadyAlertKept therefore leaves out the episodes in `flapped`).
* RosterApply: a roster's key is its path until it gains a hard link and its
  inode from then on.  When that happens between two writes of an apply they are
  journalled under two keys, and the rollback undoes the second only and reports
  that it is clean.  The link may also be older than the apply: another apply's
  rollback is about to remove the roster b it created and holds its lock; b gets
  a second name a; an apply on a begins and writes a, locked by its inode; then
  b is removed, a is the only name, and the second write is journalled under its
  path.  Found when the invariant behind RollbackUndoesOwn was not inductive;
  the property leaves out behaviours in which a link was made while any apply ran
  (`NoLinkDuringApply`).
* RosterApply: two applies on different workspaces claim different keys when
  they open their journals, but once a hard link joins two of their rosters both
  watch the inode key, and beginJournaledRosterWrite hands a write to the first
  registered journal that watches it (`internal/inventory/roster_journal.go:216`).
  The first apply's rollback then undoes the second's committed write, although
  "its rollback undoes exactly what its own writes replaced" (lines 3-6).
  Found when the invariant behind NoLostUpdate turned out not to be inductive:
  NoLostUpdate protects the changes of applies only as long as no link is made
  while an apply runs (`NoLinkDuringApply`), and those of other writers always.
* Decommission: the derivation after the cleanup becomes the baseline of the
  finalizer's freshness check, so an edit of the same host made meanwhile is
  absorbed; Apply does not look at a plan's expiry, and Finalize at that of the
  plan just derived; after SavePostCleanup the stored hash has no approval, so
  `resume` is refused and `apply` has to be confirmed anew; an overlapping apply
  may overwrite a completed row with an executable one (the retired marker
  stays); a host without roles skips the reference scan; a component with
  central state has its local cleanup not verified; a command that read hosts.yml before the removal
  writes the host's host_vars file again after it (RegenWrite).

* Decommission: "any failure after mutation starts restores the exact pre-mutation
  file bytes before returning" (`finalizer.go:117-120`).  The errors of SavePlan
  and SaveRetiredHost (lines 225-230) are returned with the host removed and no
  marker, after the first not even a completed plan, and so is that of a restore
  that fails too (190-191).  NoSilentRemoval names these and the kill (`gap`) and
  says that there is no other way.
* Decommission: INV-9 wants a failed run to be resumable.  A FreeIPA client whose
  inventory name is short, killed after its host object is deleted and before
  SavePostCleanup, is not: the old plan is stale, a new one can no longer learn
  the FQDN from the directory and keeps the short name
  (`providers/freeipa_client.go:773-782`), and each apply of it is refused by
  bindPreviousRetirement (`identity.go:52-55`), which asks for a new plan.  TLC
  finds this as a violation of EventuallyRemoved when `Decommission_apply.cfg` is
  run with ShortName = TRUE; the run has FALSE.
* Decommission: `workspace.go:7-9` says that a concurrent `pilot edit` session and
  a finalize exclude each other.  `pilot_edit_apply` takes the lock; the
  interactive editor's saveHosts (`cmd/pilot/cmd/edit.go:27-45`, `edit_tui.go:560`)
  does not, so what it saves between the finalizer's read and write is lost.
  EditsKept is about sessions that take the lock.

## 5. Theorems

Proved with TLAPS for every value of the constants that satisfies the modules'
ASSUMEs (finite sets of plans, incidents and runs, distinct markers, maps with
the right domains, positive limits); nothing else is assumed.

`RemediationProofs`.  `ExecutionInv` is inductive.  ApplyAtMostOnce alone is
not: that a second application is impossible needs `SinglePermit` (only one
process is between MarkExecuting and Apply, and the plan has not been applied
yet), which needs to know that a plan with a permit is EXECUTING or finished and
can never become APPROVED again (`CommandsSane`, `DecisionMatchesState`);
RunMatchesState needs that the plans a recovering process remembers have at
least started.  `Invariance` proves the invariant, one step per action;
`TypeCorrect`, `AppliesOnce`, `AppliesApproved` and `OutcomesAgree` follow.
`Refinement` proves Spec => PlanLifecycle's Spec with permit = the plans a
process is about to apply.

`IncidentProofs`.  `ControllerInv` is inductive: OneActiveIncident and
RunsMatchIncidents hold each other up (EnqueueRun's indexes keep both), and
need `WorkersHoldRuns` (a worker's run is its own and in the state it left it
in) and `RowsExist`.  `Invariance`, `ActiveIncidentUnique` and `RunsAgree`.

The bounds need more, `SchedulerInv`.  Active runs are counted before the runs
of the pass exist, so the invariant bounds the sum of active runs, workers that
have not enqueued yet and incidents still listed (`BoundInv`); a pass looks at an
incident once and starts its worker only then (`ListingInv`).  FailedAfterBudget
needs the books of an incident's attempts (`Counts`): each is a failure, a run a
restart has lost, or the run in progress, and a worker's count is that of the
listing; where no run was lost, the failure that gives an incident up is the last
of its budget.  `SchedulerInvariance`, `ConcurrencyIsBounded`,
`RunsAreOwned`, `GivenUpAfterBudget`.

`RemediationSerialProofs`.  The properties of the policy are check-then-act over
several transactions, and two concurrent commands can pass the same check
(`remediation_once`); the code's comments assume one command at a time, and so do
these theorems (`Alone`: Procs has at most one element; any number of commands
one after the other, operators in between, crashes at any step).  `SerialInv`
adds to ExecutionInv what an autonomous command relies on at each of its steps:
after recovery no R1 plan is executing, what it has gathered is still true or
errs on the side of caution although time passes, incidents resolve and
operators switch modes and breakers meanwhile, and once allowed it stays
allowed.  `SerialInvariance`, `ApprovalsStayWithinBudget`,
`RejectionsAreFinal`.

`DetectionProofs`.  `Inv` has a layer for each concern: OneActiveEpisode;
`MemoryInv` (state machine and row agree unless torn, also in the middle of a
restart, where the hosts not yet read are exempt); `GateInv` (one goroutine at a
time works, the scheduler's gate, so a lease is held by nobody or by it);
`OrderInv` (a fire_critical has a resolve_warning with the smaller sequence
number, and once it is being sent that one is settled); `TimeInv` and `AlertInv`
(no endsAt lies further ahead than the horizon from its episode's last change,
and a resolve carries that change).  All but SteadyAlertKept follow, and
SettledForever is one step of it.  SteadyAlertKept needs `SteadyInv`, for
behaviours without a failure: every active episode has a row that carries its
alert (`Carries`), every drain empties the outbox, and outside an evaluation no
episode is due for a heartbeat (`CalmInv`, `DrainInv`, `KeptInv`).  The
arithmetic is `TimingAssumption`: the horizon covers the evaluation delay, an
interval and the refresh window, as the constants of `engine.go` do.
`InductiveInvariant`, `TypeCorrect`, `AtMostOneEpisode`, `MemoryIsStore`,
`EscalationInOrder`, `ResolvedAlertsExpire`, `SteadyAlerts`, `SettledStays`.

`WebhookOutboxProofs`.  `DeliveryInv` is inductive: OutboxInv together with
NothingOvertakes, DiffOnCursor and CursorIsLastAck.  The key is
that ended rows are a prefix of the queue (`QueueShape`) and that only the first
open row can carry a claim (`ClaimShape`).  From these there is at most one row
in delivery and every acknowledged row lies before it, so the acknowledgement
of a row moves the cursor forward (CursorIsLastAck) and cannot pull it from
under another diff (DiffOnCursor).  NothingOvertakes needs `WorkerShape`: a
process that has lost its claim still posts, and still only a row whose
predecessors have ended, because ended rows stay ended (`EndedStep`, from which
`EndedStays` follows).  Steps are first sorted by what they do to the table
(`StepKinds`), so each invariant is shown for six kinds of change and not for
every action.  `DeliveryInvariance`, `ClaimedHead`, `FifoDelivery`,
`DiffSafety`, `CursorFollowsAcks`, `EndedStays`.

`RosterProofs`.  The invariant has two layers.  `FileInv` is about the writers
alone: besides types it says that sidecars and inodes that are locked belong to
the operation that says so (`SidecarsOwned`, `InodesOwned`), and that an
operation writing to a file has either locked the inode or found that the file
has one name, whose sidecars it holds (`WritesOwned`).  OneWriterPerFile follows:
two writers of one file come through one name, and exclude each other by its
sidecars, or through two, and then both hold the inode's lock.  That a file may
gain a name in between is what the check at the open (`GainedLink`) is for.  The
upper layer (`AppsOK`, `JournalsOK`, `AckedOK`, `LinksOK`, `EditsInSteps`) gives
the types of applies and journals; it needs that an operation of an apply is an
edit while it runs steps and a restore or removal while it rolls back.
`ApplyTypes`, `WritersExclude`.

`RosterUpdateProofs`.  Steps are first sorted by what they do to an operation,
to the files and to an apply (`Kinds`: an operation goes on, reads, stops,
removes, stores or breaks off; an apply takes its snapshot, opens its journal,
moves on or closes; a crash; a link), and each part of the invariant is shown for
these kinds.

For NoLostUpdate and JournalOwnWrites, `UpdateInv`: the journal's state and the
operation fit the apply's phase, and the claims of running applies do not meet
(`ControlInv`); while no link is made during an apply the claim covers its linked
rosters by inode too, so no journal records another apply's write (`ClaimInv`);
between what a write of an apply found and what it wrote, and so along an
unbroken chain of its journal, only its own changes differ (`ContentInv`, with
`Spared` the changes it must leave alone: those of other processes always, those
of other applies as long as no link is made during one); and every promised
change is in the roster and in what every writer that can reach it is about to
write (`PromiseInv`).  JournalOwnWrites needs besides that a change is nowhere
before its step has made it (`FreshInv`).

For RollbackUndoesOwn, `UndoneInv` adds that names with one key are one file and
keep their key while an apply runs; that operations and rollback files are held
under that key (`KeysInv`; what a rollback removes was absent at the first write,
so it has one name, `FirstInv`); that a writer whose lock is good finds in the
roster what it read or what it has begun to write (`OpenInv`, `LiveInv`), so
nobody else brings an apply's changes back; and the point itself (`UndoInv`): a
roster that holds a change of a running apply is one of its rosters, and a write
to it is in the journal or under way; the first write in the journal found none;
and in a rollback such a roster is still to be seen, is being undone to bytes
without them, or is reported as left.  A roster passed over in silence either has
no write in the journal or holds what the snapshot had, and neither can have any.
`NoAcknowledgedLoss`, `JournalsRecordOwn`, `RollbackLeavesNothing`.

`DecommissionProofs`.  The inductive invariant `IInv` is TypeOK; `LockInv` (the
lock's holder is the one process inside the finalizer); `SnapInv` (its snapshot
is hosts.yml as it stands until it writes, and without the host after), which
EditsKept rests on; `CleanInv` (a process whose verdict is clean has seen every
verified step of the host's roles done, and effects are never undone);
`NotYetRecorded`, `GoneInv` and `RecordInv` (completed rows and the marker exist
only once the host is gone).  Most actions touch none of it: the lemmas Quiet,
Advance and Return show for whole groups of steps that the invariant is kept.
`RolesCleanBeforeRemoval` holds for every instance; `CleanBeforeRemoval` and
`ReceiptsTrue`, which state ZeroResidueBeforeRemoval and ReceiptMeansGone, assume
that no component is planned from references only (References = {}), and
`decommission_endpoint` shows that they fail without it.  `RemovalRecorded`,
`NoEditLost`, `DecommissionTypes`.

*Only model-checked*: BacklogDrains and EventuallyRemoved, which are liveness
under fairness and outside the prover's reach.

## 6. Not modelled

Everything `PROJECT.json` lists as `not_modelled`, most of it parsing,
validation, wiring and I/O.  Inside the modelled parts: authentication and body
limits of the webhook receiver, label normalisation, wire formats, status
files, metrics, read-only commands; store errors of the remediation commands
other than refused updates (a command that gets one ends, which is the `Crash`
of the model, except that a failing TripBreaker is only logged); two serving
controllers on one database, which the phase 1 specification excludes; in the
outbox CheckWorkspaceBinding, the re-enqueue of a workflow id that is already in
the table, batches over several webhooks, and the content of events.  In the detection engine the scoring pipeline, the
status file and metrics; in the roster writers encryption, symbolic links that
are retargeted and the migration of plaintext rosters; of decommissioning
approvals, expiry, blockers, retention, unreachable hosts and `show`.
