------------------------- MODULE WebhookOutboxProofs -------------------------
(***************************************************************************)
(* Proofs about WebhookOutbox, for any number of processes, events,        *)
(* snapshots and configuration edits.                                      *)
(***************************************************************************)
EXTENDS WebhookOutbox, TLAPS

-----------------------------------------------------------------------------
(* Processes *)

ProcType == proc \in [Procs -> Processes]

\* The other processes stay as they are; p moves to a place, with a job.
Moves(p, place, n) ==
  /\ proc' \in [Procs -> Processes]
  /\ \A q \in Procs \ {p} : proc'[q] = proc[q]
  /\ proc'[p].pc = place /\ proc'[p].job = n

\* A process that is not running has a well-typed record.
LEMMA IdleType == Idle \in Processes
BY OutboxAssumption DEF Idle, Processes, Places, Commands, Configs, SnapshotRefs

\* Every way a step changes a process record.
LEMMA ProcSteps ==
  ASSUME ProcType, NEW p \in Procs
  PROVE  /\ \A place \in Places : Goto(p, place) => Moves(p, place, proc[p].job)
         /\ Exit(p) => Moves(p, "idle", 0)
         /\ NextTurn(p) => Moves(p, "claim", 0)
<1> USE DEF ProcType, Moves
<1>1. ASSUME NEW place \in Places, Goto(p, place) PROVE Moves(p, place, proc[p].job)
  BY <1>1 DEF Goto, Processes
<1>2. ASSUME Exit(p) PROVE Moves(p, "idle", 0)
  BY <1>2, IdleType DEF Exit, Idle
<1>3. ASSUME NextTurn(p) PROVE Moves(p, "claim", 0)
  <2>1. "claim" \in Places /\ 0 \in 0..MaxRows
    BY OutboxAssumption DEF Places
  <2> QED BY <1>3, <2>1 DEF NextTurn, Processes
<1> QED BY <1>1, <1>2, <1>3

\* The steps that also write the command, the configuration or the draft.
LEMMA ProcSetSteps ==
  ASSUME TypeOK, NEW p \in Procs
  PROVE  /\ \A c \in Commands : Load(p, c) => Moves(p, "loaded", proc[p].job)
         /\ ReadPendingTarget(p) =>
              Moves(p, "enqueue", proc[p].job) \/ Moves(p, "cursor", proc[p].job)
         /\ ReadCursor(p) => Moves(p, "enqueue", proc[p].job)
         /\ \A m \in PayloadModes, t \in SnapshotRefs :
              EnqueueBatch(p, m, t) => Moves(p, "claim", 0)
         /\ \A n \in Open : TakeClaim(p, n) => Moves(p, "post", n)
<1> USE DEF TypeOK, ProcsOK, Moves
<1>0. {"loaded", "enqueue", "cursor", "claim", "post"} \subseteq Places /\ "flush" \in Commands
  BY DEF Places, Holding, Commands
<1>1. ASSUME NEW c \in Commands, Load(p, c) PROVE Moves(p, "loaded", proc[p].job)
  BY <1>0, <1>1 DEF Load, Processes
<1>2. ASSUME ReadPendingTarget(p)
      PROVE  Moves(p, "enqueue", proc[p].job) \/ Moves(p, "cursor", proc[p].job)
  <2>1. ASSUME NEW n \in Open, proc' = [proc EXCEPT ![p].pc = "enqueue", ![p].draft = target[n]]
        PROVE  Moves(p, "enqueue", proc[p].job)
    <3>1. target[n] \in SnapshotRefs
      BY <2>1, OutboxAssumption DEF RowsOK, Open, Rows, Numbers
    <3> QED BY <1>0, <2>1, <3>1 DEF Processes
  <2>2. CASE Goto(p, "cursor")
    BY <1>0, <2>2, ProcSteps DEF ProcType
  <2> QED BY <1>2, <2>1, <2>2 DEF ReadPendingTarget
<1>3. ASSUME ReadCursor(p) PROVE Moves(p, "enqueue", proc[p].job)
  BY <1>0, <1>3 DEF ReadCursor, Processes
<1>4. ASSUME NEW m \in PayloadModes, NEW t \in SnapshotRefs, EnqueueBatch(p, m, t)
      PROVE  Moves(p, "claim", 0)
  <2>1. [Idle EXCEPT !.pc = "claim", !.cmd = "flush"] \in Processes
    BY <1>0, IdleType DEF Processes
  <2> QED BY <1>4, <2>1 DEF EnqueueBatch, Idle
<1>5. ASSUME NEW n \in Open, TakeClaim(p, n) PROVE Moves(p, "post", n)
  <2>1. n \in 0..MaxRows
    BY OutboxAssumption DEF Open, Rows, RowsOK
  <2> QED BY <1>0, <1>5, <2>1 DEF TakeClaim, Processes
<1> QED BY <1>1, <1>2, <1>3, <1>4, <1>5

-----------------------------------------------------------------------------
(* Types *)

\* The states by name: which are states, and which of them are ends.
LEMMA StateNames ==
  /\ {"none", "pending", "delivering", "paused_config"} \subseteq States
  /\ TerminalStates \subseteq States
  /\ {"none", "pending", "delivering", "paused_config"} \cap TerminalStates = {}
  /\ {"delivered", "dead_letter", "blocked_base_mismatch", "orphaned_config"} = TerminalStates
BY DEF States, TerminalStates

\* Where a reconciled process goes.
LEMMA ReconcileMoves ==
  ASSUME ProcType, NEW p \in Procs, AfterReconcile(p)
  PROVE  \E place \in Places \ Holding, n \in {0, proc[p].job} : Moves(p, place, n)
<1>1. {"idle", "pending", "claim"} \subseteq Places \ Holding
  BY DEF Places, Holding
<1> QED BY <1>1, ProcSteps DEF AfterReconcile

\* Every action keeps the types, given that a worker's job is a row.
LEMMA TypeStep ==
  ASSUME TypeOK, WorkerShape, [Next]_vars
  PROVE  TypeOK'
<1> USE OutboxAssumption, ProcSteps, StateNames
      DEF TypeOK, RowsOK, ProcsOK, ProcType, Moves, eventVars, claimVars, Numbers, Rows
<1>0. {"idle", "claim", "sent", "post"} \subseteq Places
  BY DEF Places, Holding
<1>1. ASSUME NEW p \in Procs, NEW c \in Commands, Load(p, c) PROVE TypeOK'
  BY <1>1, ProcSetSteps DEF Load
<1>2. ASSUME NEW p \in Procs, ReconcileWebhookConfig(p) PROVE TypeOK'
  <2>0. proc' \in [Procs -> Processes]
    BY <1>2, ReconcileMoves DEF ReconcileWebhookConfig
  <2>1. CASE OrphanRows(p)
    BY <1>2, <2>0, <2>1 DEF ReconcileWebhookConfig, OrphanRows, SnapshotRefs
  <2>2. CASE PauseRows(p)
    BY <1>2, <2>0, <2>2 DEF ReconcileWebhookConfig, PauseRows
  <2>3. CASE ResumeRows(p)
    BY <1>2, <2>0, <2>3 DEF ReconcileWebhookConfig, ResumeRows
  <2> QED BY <1>2, <2>1, <2>2, <2>3 DEF ReconcileWebhookConfig
<1>3. ASSUME NEW p \in Procs, ReadPendingTarget(p) PROVE TypeOK'
  BY <1>3, ProcSetSteps DEF ReadPendingTarget
<1>4. ASSUME NEW p \in Procs, ReadCursor(p) PROVE TypeOK'
  BY <1>4, ProcSetSteps DEF ReadCursor
<1>5. ASSUME NEW p \in Procs, NEW m \in PayloadModes, NEW t \in SnapshotRefs, EnqueueBatch(p, m, t)
      PROVE  TypeOK'
  <2>1. proc[p].draft \in SnapshotRefs
    BY DEF Processes
  <2>2. proc' \in [Procs -> Processes]
    BY <1>5, ProcSetSteps
  <2> QED BY <1>5, <2>1, <2>2 DEF EnqueueBatch
<1>6. ASSUME NEW p \in Procs, ClaimNextDue(p) PROVE TypeOK'
  <2>1. ASSUME NEW n \in Open, TakeClaim(p, n) PROVE TypeOK'
    <3>1. proc' \in [Procs -> Processes]
      BY <2>1, ProcSetSteps
    <3> QED BY <1>6, <2>1, <3>1 DEF ClaimNextDue, TakeClaim
  <2>2. ASSUME NEW n \in Open, BlockRow(p, n) PROVE TypeOK'
    BY <1>6, <2>2 DEF ClaimNextDue, BlockRow
  <2>3. CASE NothingDue(p)
    BY <1>6, <2>3 DEF ClaimNextDue, NothingDue
  <2> QED BY <1>6, <2>1, <2>2, <2>3 DEF ClaimNextDue
<1>7. ASSUME NEW p \in Procs, SendRequest(p) PROVE TypeOK'
  <2>1. proc[p].job \in Numbers
    BY <1>7 DEF SendRequest, WorkerShape, Holding
  <2> QED BY <1>0, <1>7, <2>1 DEF SendRequest
<1>8. ASSUME NEW p \in Procs, StaleOwner(p), UNCHANGED <<eventVars, config, edits, posted>>
      PROVE  TypeOK'
  BY <1>8 DEF StaleOwner
<1>9. ASSUME NEW p \in Procs, MarkDelivered(p) PROVE TypeOK'
  <2>1. proc[p].job \in Numbers
    BY <1>9 DEF MarkDelivered, WorkerShape, Holding
  <2>2. CASE RecordDelivered(p, proc[p].job)
    BY <1>9, <2>1, <2>2 DEF MarkDelivered, RecordDelivered, ReleaseClaim
  <2> QED BY <1>8, <1>9, <2>2 DEF MarkDelivered
<1>10. ASSUME NEW p \in Procs, NEW why \in Failures, MarkAttemptFailed(p, why) PROVE TypeOK'
  <2>1. proc[p].job \in Numbers
    BY <1>10 DEF MarkAttemptFailed, FailsWith, WorkerShape, Holding
  <2>2. CASE RecordFailed(p, proc[p].job, why)
    <3>1. proc' \in [Procs -> Processes]
      BY <2>2 DEF RecordFailed
    <3>2. AttemptsAfter(proc[p].job, why) \in Nat
      BY <2>1 DEF AttemptsAfter
    <3> QED BY <1>10, <2>1, <2>2, <3>1, <3>2 DEF MarkAttemptFailed, RecordFailed, ReleaseClaim
  <2> QED BY <1>8, <1>10, <2>2 DEF MarkAttemptFailed
<1>11. ASSUME NEW p \in Procs, Leave(p) PROVE TypeOK'
  BY <1>11 DEF Leave
<1>12. ASSUME NEW n \in Numbers, LeaseExpires(n) PROVE TypeOK'
  BY <1>12 DEF LeaseExpires
<1>13. ASSUME NEW n \in Numbers, BackoffElapses(n) PROVE TypeOK'
  BY <1>13 DEF BackoffElapses
<1>14. ASSUME NEW c \in Configs, EditConfig(c) PROVE TypeOK'
  BY <1>14 DEF EditConfig
<1>15. CASE UNCHANGED vars
  BY <1>15 DEF vars
<1>16. {"publish", "flush", "force", "status"} \subseteq Commands
  BY DEF Commands
<1> QED
  BY <1>1, <1>2, <1>3, <1>4, <1>5, <1>6, <1>7, <1>9, <1>10, <1>11, <1>12, <1>13, <1>14, <1>15, <1>16
     DEF Next, Publish, Flush
-----------------------------------------------------------------------------
(* The steps, sorted by what they do to the rows *)

\* Nothing the invariant reads about a row or the cursor changes.
Quiet == UNCHANGED <<eventVars, state, attempts, owner, cursor>>

\* A Mark call by the holder of the claim works on the row being delivered.
LEMMA OwnerDelivers ==
  ASSUME TypeOK, ClaimShape, WorkerShape, NEW p \in Procs,
         proc[p].pc \in Holding, owner[proc[p].job] = p
  PROVE  proc[p].job \in Rows /\ state[proc[p].job] = "delivering"
BY OutboxAssumption DEF ClaimShape, WorkerShape, TypeOK, RowsOK, Rows, Numbers

\* The changes of the table.
ReconcileChange(p) ==
  /\ OrphanRows(p) \/ PauseRows(p) \/ ResumeRows(p)
  /\ UNCHANGED <<eventVars, attempts>>
ClaimChange(p, n) ==
  /\ IsHead(n)
  /\ TakeClaim(p, n) \/ BlockRow(p, n)
  /\ UNCHANGED <<eventVars, attempts, cursor>>
DeliveredChange(p, n) ==
  state[n] = "delivering" /\ RecordDelivered(p, n) /\ UNCHANGED eventVars
FailedChange(p, n, why) ==
  state[n] = "delivering" /\ RecordFailed(p, n, why) /\ UNCHANGED eventVars

StepKind ==
  \/ Quiet
  \/ \E p \in Procs : ReconcileChange(p)
  \/ \E p \in Procs, m \in PayloadModes, t \in SnapshotRefs : EnqueueBatch(p, m, t)
  \/ \E p \in Procs, n \in Open : ClaimChange(p, n)
  \/ \E p \in Procs, n \in Rows : DeliveredChange(p, n)
  \/ \E p \in Procs, n \in Rows, why \in Failures : FailedChange(p, n, why)

\* Every step is one of these changes, or leaves the table alone.
LEMMA StepKinds ==
  ASSUME TypeOK, ClaimShape, WorkerShape, [Next]_vars
  PROVE  StepKind
<1>1. ASSUME NEW p \in Procs, ReconcileWebhookConfig(p) PROVE StepKind
  <2>1. ReconcileChange(p)
    BY <1>1 DEF ReconcileWebhookConfig, ReconcileChange
  <2> QED BY <2>1 DEF StepKind
<1>2. ASSUME NEW p \in Procs, ClaimNextDue(p) PROVE StepKind
  <2>1. CASE NothingDue(p)
    BY <1>2, <2>1 DEF ClaimNextDue, NothingDue, Quiet, StepKind
  <2>2. ASSUME NEW n \in Open, IsHead(n), TakeClaim(p, n) \/ BlockRow(p, n) PROVE StepKind
    BY <1>2, <2>2 DEF ClaimNextDue, ClaimChange, StepKind
  <2> QED BY <1>2, <2>1, <2>2 DEF ClaimNextDue
<1>3. ASSUME NEW p \in Procs, StaleOwner(p), UNCHANGED eventVars PROVE StepKind
  BY <1>3 DEF StaleOwner, Quiet, StepKind
<1>4. ASSUME NEW p \in Procs, MarkDelivered(p) PROVE StepKind
  <2>1. CASE RecordDelivered(p, proc[p].job)
    <3>1. proc[p].job \in Rows /\ state[proc[p].job] = "delivering"
      BY <1>4, <2>1, OwnerDelivers DEF MarkDelivered, RecordDelivered, Holding
    <3>2. DeliveredChange(p, proc[p].job)
      BY <1>4, <2>1, <3>1 DEF MarkDelivered, DeliveredChange
    <3> QED BY <3>1, <3>2 DEF StepKind
  <2> QED BY <1>3, <1>4, <2>1 DEF MarkDelivered
<1>5. ASSUME NEW p \in Procs, NEW why \in Failures, MarkAttemptFailed(p, why) PROVE StepKind
  <2>1. CASE RecordFailed(p, proc[p].job, why)
    <3>1. proc[p].job \in Rows /\ state[proc[p].job] = "delivering"
      BY <1>5, <2>1, OwnerDelivers DEF MarkAttemptFailed, FailsWith, RecordFailed, Holding
    <3>2. FailedChange(p, proc[p].job, why)
      BY <1>5, <2>1, <3>1 DEF MarkAttemptFailed, FailedChange
    <3> QED BY <3>1, <3>2 DEF StepKind
  <2> QED BY <1>3, <1>5, <2>1 DEF MarkAttemptFailed
<1>6. ASSUME NEW p \in Procs,
             \/ \E c \in {"publish", "flush", "force", "status"} : Load(p, c)
             \/ ReadPendingTarget(p) \/ ReadCursor(p) \/ SendRequest(p) \/ Leave(p)
      PROVE  Quiet
  BY <1>6 DEF Load, ReadPendingTarget, ReadCursor, SendRequest, Leave, Quiet, claimVars
<1>7. ASSUME NEW n \in Numbers, LeaseExpires(n) \/ BackoffElapses(n) PROVE Quiet
  BY <1>7 DEF LeaseExpires, BackoffElapses, Quiet
<1>8. ASSUME NEW c \in Configs, EditConfig(c) PROVE Quiet
  BY <1>8 DEF EditConfig, Quiet, claimVars
<1>9. CASE UNCHANGED vars
  BY <1>9 DEF vars, claimVars, Quiet, StepKind
<1>10. Quiet => StepKind
  BY DEF StepKind
<1>11. ASSUME NEW p \in Procs, NEW m \in PayloadModes, NEW t \in SnapshotRefs, EnqueueBatch(p, m, t)
       PROVE  StepKind
  BY <1>11 DEF StepKind
<1> QED
  BY <1>1, <1>2, <1>4, <1>5, <1>6, <1>7, <1>8, <1>9, <1>10, <1>11 DEF Next, Publish, Flush

-----------------------------------------------------------------------------
(* The queue *)

\* Rows are only added, and an ended row keeps its state: the fact behind
\* EndedForever, and behind every claim about predecessors.
Grows ==
  /\ count' \in {count, count + 1}
  /\ \A n \in Rows : Terminal(n) => state'[n] = state[n] /\ attempts'[n] = attempts[n]

\* No step removes a row or writes one that has ended.
LEMMA EndedStep ==
  ASSUME TypeOK, ClaimShape, WorkerShape, [Next]_vars
  PROVE  Grows
<1> USE OutboxAssumption, StateNames
      DEF Grows, TypeOK, RowsOK, Rows, Numbers, Terminal, eventVars
<1>1. CASE Quiet
  BY <1>1 DEF Quiet
<1>2. ASSUME NEW p \in Procs, ReconcileChange(p) PROVE Grows
  BY <1>2 DEF ReconcileChange, OrphanRows, PauseRows, ResumeRows, Open
<1>3. ASSUME NEW p \in Procs, NEW m \in PayloadModes, NEW t \in SnapshotRefs, EnqueueBatch(p, m, t)
      PROVE  Grows
  BY <1>3 DEF EnqueueBatch
<1>4. ASSUME NEW p \in Procs, NEW n \in Open, ClaimChange(p, n) PROVE Grows
  BY <1>4 DEF ClaimChange, TakeClaim, BlockRow, Open
<1>5. ASSUME NEW p \in Procs, NEW n \in Rows, DeliveredChange(p, n) PROVE Grows
  BY <1>5 DEF DeliveredChange, RecordDelivered
<1>6. ASSUME NEW p \in Procs, NEW n \in Rows, NEW why \in Failures, FailedChange(p, n, why)
      PROVE  Grows
  BY <1>6 DEF FailedChange, RecordFailed
<1> HIDE DEF Grows
<1> QED BY StepKinds, <1>1, <1>2, <1>3, <1>4, <1>5, <1>6 DEF StepKind

\* The rows that have ended stay a prefix, and the head holds the only claim.
LEMMA ShapeStep ==
  ASSUME TypeOK, QueueShape, ClaimShape, WorkerShape, [Next]_vars
  PROVE  QueueShape' /\ ClaimShape'
<1> DEFINE Shapes == QueueShape' /\ ClaimShape'
<1> USE OutboxAssumption, StateNames
      DEF TypeOK, RowsOK, Rows, Numbers, Terminal, eventVars, QueueShape, ClaimShape
<1>1. CASE Quiet
  BY <1>1 DEF Quiet
<1>2. ASSUME NEW p \in Procs, ReconcileChange(p) PROVE Shapes
  <2>1. CASE OrphanRows(p)
    BY <1>2, <2>1 DEF ReconcileChange, OrphanRows, Open
  <2>2. CASE PauseRows(p)
    BY <1>2, <2>2 DEF ReconcileChange, PauseRows, Open
  <2>3. CASE ResumeRows(p)
    BY <1>2, <2>3 DEF ReconcileChange, ResumeRows
  <2> QED BY <1>2, <2>1, <2>2, <2>3 DEF ReconcileChange
<1>3. ASSUME NEW p \in Procs, NEW m \in PayloadModes, NEW t \in SnapshotRefs, EnqueueBatch(p, m, t)
      PROVE  Shapes
  <2>1. count \in Nat /\ count + 1 \in Numbers /\ count' = count + 1 /\ owner' = owner
    BY <1>3 DEF EnqueueBatch
  <2>2. state'[count + 1] = "pending" /\ \A n \in Numbers \ {count + 1} : state'[n] = state[n]
    BY <1>3, <2>1 DEF EnqueueBatch
  <2>3. \A n \in Numbers : state'[n] = "none" <=> n > count + 1
    BY <2>1, <2>2
  <2>4. \A n \in 1..(count + 1) : state'[n] # "pending" => n \in Rows /\ state'[n] = state[n]
    BY <2>1, <2>2
  <2>5. \A n \in Rows : n \in Numbers \ {count + 1}
    BY <2>1
  <2>6. state[count + 1] = "none"
    BY <2>1
  <2>7. \A n \in 1..(count + 1) : state'[n] \in TerminalStates =>
          \A k \in 1..n : state'[k] \in TerminalStates
    BY <2>1, <2>2, <2>4, <2>5
  <2>8. \A n \in Numbers : owner[n] # NoProc <=> state'[n] = "delivering"
    BY <2>1, <2>2, <2>6
  <2>9. \A n \in 1..(count + 1) : state'[n] = "delivering" =>
          \A k \in 1..(n - 1) : state'[k] \in TerminalStates
    <3> SUFFICES ASSUME NEW n \in 1..(count + 1), state'[n] = "delivering", NEW k \in 1..(n - 1)
                 PROVE  state'[k] \in TerminalStates
      OBVIOUS
    <3>1. n \in Rows /\ state[n] = "delivering"
      BY <2>4
    <3>2. state[k] \in TerminalStates /\ k \in Rows
      BY <2>1, <3>1
    <3> QED BY <2>2, <2>5, <3>2
  <2> QED BY <2>1, <2>3, <2>7, <2>8, <2>9
<1>4. ASSUME NEW p \in Procs, NEW n \in Open, ClaimChange(p, n) PROVE Shapes
  <2>1. CASE TakeClaim(p, n)
    BY <1>4, <2>1 DEF ClaimChange, TakeClaim, IsHead, Open
  <2>2. CASE BlockRow(p, n)
    BY <1>4, <2>2 DEF ClaimChange, BlockRow, IsHead, Open
  <2> QED BY <1>4, <2>1, <2>2 DEF ClaimChange
<1>5. ASSUME NEW p \in Procs, NEW n \in Rows, DeliveredChange(p, n) PROVE Shapes
  BY <1>5 DEF DeliveredChange, RecordDelivered, ReleaseClaim
<1>6. ASSUME NEW p \in Procs, NEW n \in Rows, NEW why \in Failures, FailedChange(p, n, why)
      PROVE  Shapes
  BY <1>6 DEF FailedChange, RecordFailed, ReleaseClaim
<1>7. StepKind
  BY StepKinds
<1> HIDE DEF Shapes
<1>8. Shapes
  BY <1>1, <1>2, <1>3, <1>4, <1>5, <1>6, <1>7 DEF StepKind, Shapes
<1> QED BY <1>8 DEF Shapes

\* A process holds a row only by claiming it while it is the head.
LEMMA HoldingStep ==
  ASSUME TypeOK, WorkerShape, [Next]_vars, NEW q \in Procs, proc'[q].pc \in Holding
  PROVE  \/ proc[q].pc \in Holding /\ proc'[q].job = proc[q].job
         \/ IsHead(proc'[q].job)
<1> DEFINE Keeps == \/ proc[q].pc \in Holding /\ proc'[q].job = proc[q].job
                   \/ IsHead(proc'[q].job)
<1>1. ASSUME NEW p \in Procs, NEW place \in Places \ Holding, NEW n, Moves(p, place, n)
      PROVE  Keeps
  BY <1>1 DEF Moves
<1>2. {"idle", "loaded", "pending", "cursor", "enqueue", "claim"} \subseteq Places \ Holding
  BY DEF Places, Holding
<1>3. ASSUME NEW p \in Procs, NEW c \in Commands, Load(p, c) PROVE Keeps
  BY <1>1, <1>2, <1>3, ProcSetSteps
<1>4. ASSUME NEW p \in Procs, ReconcileWebhookConfig(p) PROVE Keeps
  BY <1>1, <1>4, ReconcileMoves DEF ReconcileWebhookConfig, ProcType, TypeOK, ProcsOK
<1>5. ASSUME NEW p \in Procs, ReadPendingTarget(p) \/ ReadCursor(p) PROVE Keeps
  BY <1>1, <1>2, <1>5, ProcSetSteps
<1>6. ASSUME NEW p \in Procs, NEW m \in PayloadModes, NEW t \in SnapshotRefs, EnqueueBatch(p, m, t)
      PROVE  Keeps
  BY <1>1, <1>2, <1>6, ProcSetSteps
<1>7. ASSUME NEW p \in Procs, Exit(p) \/ NextTurn(p) PROVE Keeps
  BY <1>1, <1>2, <1>7, ProcSteps DEF ProcType, TypeOK, ProcsOK
<1>8. ASSUME NEW p \in Procs, ClaimNextDue(p) PROVE Keeps
  <2>1. ASSUME NEW n \in Open, IsHead(n), TakeClaim(p, n) PROVE Keeps
    BY <2>1, ProcSetSteps DEF Moves
  <2> QED BY <1>7, <1>8, <2>1 DEF ClaimNextDue, BlockRow, NothingDue
<1>9. ASSUME NEW p \in Procs, SendRequest(p) PROVE Keeps
  <2>1. "sent" \in Places /\ "post" \in Holding
    BY DEF Places, Holding
  <2> QED BY <1>9, <2>1, ProcSteps DEF SendRequest, Moves, ProcType, TypeOK, ProcsOK
<1>10. ASSUME NEW p \in Procs, MarkDelivered(p) PROVE Keeps
  BY <1>7, <1>10 DEF MarkDelivered, RecordDelivered, StaleOwner
<1>11. ASSUME NEW p \in Procs, NEW why \in Failures, MarkAttemptFailed(p, why) PROVE Keeps
  BY <1>7, <1>11 DEF MarkAttemptFailed, RecordFailed, StaleOwner
<1>12. ASSUME NEW p \in Procs, Leave(p) PROVE Keeps
  BY <1>7, <1>12 DEF Leave
<1>13. CASE proc' = proc
  BY <1>13
<1>14. ASSUME NEW n \in Numbers, LeaseExpires(n) \/ BackoffElapses(n) PROVE proc' = proc
  BY <1>14 DEF LeaseExpires, BackoffElapses
<1>15. ASSUME NEW c \in Configs, EditConfig(c) PROVE proc' = proc
  BY <1>15 DEF EditConfig
<1>16. UNCHANGED vars => proc' = proc
  BY DEF vars
<1>17. {"publish", "flush", "force", "status"} \subseteq Commands
  BY DEF Commands
<1> HIDE DEF Keeps
<1>18. Keeps
  BY <1>3, <1>4, <1>5, <1>6, <1>8, <1>9, <1>10, <1>11, <1>12, <1>13, <1>14, <1>15, <1>16, <1>17
     DEF Next, Publish, Flush, Keeps
<1> QED BY <1>18 DEF Keeps

\* Whatever had only ended rows before it still has, because rows only grow.
LEMMA PrefixKept ==
  ASSUME TypeOK, Grows, NEW n \in Rows, \A m \in 1..(n - 1) : Terminal(m)
  PROVE  n \in Rows' /\ \A m \in 1..(n - 1) : Terminal(m)'
<1>1. count \in Nat /\ count' \in Nat /\ count <= count'
  BY OutboxAssumption DEF TypeOK, RowsOK, Grows
<1>2. n \in Rows'
  BY <1>1 DEF Rows
<1>3. \A m \in 1..(n - 1) : m \in Rows
  BY <1>1 DEF Rows
<1>4. \A m \in 1..(n - 1) : Terminal(m)'
  BY <1>3 DEF Grows, Terminal
<1> QED BY <1>2, <1>4

\* Before the head every row has ended.
LEMMA HeadFirst ==
  ASSUME TypeOK, NEW n, IsHead(n)
  PROVE  n \in Rows /\ \A m \in 1..(n - 1) : Terminal(m)
BY OutboxAssumption DEF IsHead, Open, Rows, TypeOK, RowsOK

\* A worker's job, once it is the first open row or later, stays so.
LEMMA WorkerStep ==
  ASSUME TypeOK, ClaimShape, WorkerShape, [Next]_vars
  PROVE  WorkerShape'
<1> SUFFICES ASSUME NEW q \in Procs, proc'[q].pc \in Holding
             PROVE  /\ proc'[q].job \in Rows'
                    /\ \A m \in 1..(proc'[q].job - 1) : Terminal(m)'
  BY DEF WorkerShape
<1>1. Grows
  BY EndedStep
<1>2. CASE proc[q].pc \in Holding /\ proc'[q].job = proc[q].job
  <2>1. proc'[q].job \in Rows /\ \A m \in 1..(proc'[q].job - 1) : Terminal(m)
    BY <1>2 DEF WorkerShape
  <2> QED BY <1>1, <2>1, PrefixKept
<1>3. CASE IsHead(proc'[q].job)
  <2>1. proc'[q].job \in Rows /\ \A m \in 1..(proc'[q].job - 1) : Terminal(m)
    BY <1>3, HeadFirst
  <2> QED BY <1>1, <2>1, PrefixKept
<1> QED BY <1>2, <1>3, HoldingStep

\* A body is only sent by a process that holds its row.
LEMMA PostedStep ==
  ASSUME [Next]_vars, NEW n \in posted', n \notin posted
  PROVE  \E p \in Procs : proc[p].pc \in Holding /\ n = proc[p].job
<1> DEFINE Held == \E p \in Procs : proc[p].pc \in Holding /\ n = proc[p].job
<1>1. ASSUME NEW p \in Procs, SendRequest(p) PROVE Held
  BY <1>1 DEF SendRequest, Holding
<1>2. ASSUME NEW p \in Procs,
             \/ \E c \in {"publish", "flush", "force", "status"} : Load(p, c)
             \/ ReconcileWebhookConfig(p) \/ Publish(p) \/ Leave(p)
      PROVE  posted' = posted
  BY <1>2 DEF Load, ReconcileWebhookConfig, Publish, ReadPendingTarget, ReadCursor, EnqueueBatch, Leave
<1>3. ASSUME NEW p \in Procs, ClaimNextDue(p) PROVE posted' = posted
  BY <1>3 DEF ClaimNextDue
<1>4. ASSUME NEW p \in Procs, MarkDelivered(p) \/ \E why \in Failures : MarkAttemptFailed(p, why)
      PROVE  posted' = posted
  BY <1>4 DEF MarkDelivered, MarkAttemptFailed
<1>5. ASSUME NEW k \in Numbers, LeaseExpires(k) \/ BackoffElapses(k) PROVE posted' = posted
  BY <1>5 DEF LeaseExpires, BackoffElapses
<1>6. ASSUME NEW c \in Configs, EditConfig(c) PROVE posted' = posted
  BY <1>6 DEF EditConfig
<1>7. UNCHANGED vars => posted' = posted
  BY DEF vars
<1> HIDE DEF Held
<1>8. Held
  BY <1>1, <1>2, <1>3, <1>4, <1>5, <1>6, <1>7 DEF Next, Flush
<1> QED BY <1>8 DEF Held

\* First in, first out is kept.
LEMMA FifoStep ==
  ASSUME TypeOK, ClaimShape, WorkerShape, NothingOvertakes, [Next]_vars
  PROVE  NothingOvertakes'
<1> SUFFICES ASSUME NEW n \in posted'
             PROVE  n \in Rows' /\ \A m \in 1..(n - 1) : Terminal(m)'
  BY DEF NothingOvertakes
<1>1. Grows
  BY EndedStep
<1>2. n \in Rows /\ \A m \in 1..(n - 1) : Terminal(m)
  BY PostedStep DEF NothingOvertakes, WorkerShape
<1> QED BY <1>1, <1>2, PrefixKept

-----------------------------------------------------------------------------
(* The cursor *)

\* At most one row is being delivered, and every ended row lies before it.
LEMMA DeliveringAlone ==
  ASSUME TypeOK, QueueShape, ClaimShape, NEW n \in Rows, state[n] = "delivering"
  PROVE  /\ \A m \in Rows : state[m] = "delivering" => m = n
         /\ \A m \in Rows : Terminal(m) => m < n
<1>1. count \in Nat /\ n \in Nat /\ ~Terminal(n)
  BY OutboxAssumption, StateNames DEF TypeOK, RowsOK, Rows, Terminal
<1>2. ASSUME NEW m \in Rows, m > n PROVE ~Terminal(m) /\ state[m] # "delivering"
  <2>1. n \in 1..m /\ n \in 1..(m - 1)
    BY <1>1, <1>2 DEF Rows
  <2> QED BY <1>1, <2>1 DEF QueueShape, ClaimShape
<1>3. ASSUME NEW m \in Rows, m < n PROVE Terminal(m) /\ state[m] # "delivering"
  <2>1. m \in 1..(n - 1)
    BY <1>1, <1>3 DEF Rows
  <2> QED BY <2>1, StateNames DEF ClaimShape, Terminal
<1>4. \A m \in Rows : m < n \/ m = n \/ m > n
  BY <1>1 DEF Rows
<1> QED BY <1>1, <1>2, <1>3, <1>4

\* The base check of a claim outlives every step taken during the claim.
LEMMA DiffStep ==
  ASSUME TypeOK, QueueShape, ClaimShape, WorkerShape, DiffOnCursor, [Next]_vars
  PROVE  DiffOnCursor'
<1> USE OutboxAssumption, StateNames
      DEF TypeOK, RowsOK, Rows, Numbers, Terminal, eventVars, DiffOnCursor
<1>1. CASE Quiet
  BY <1>1 DEF Quiet
<1>2. ASSUME NEW p \in Procs, ReconcileChange(p) PROVE DiffOnCursor'
  BY <1>2 DEF ReconcileChange, OrphanRows, PauseRows, ResumeRows, Open
<1>3. ASSUME NEW p \in Procs, NEW m \in PayloadModes, NEW t \in SnapshotRefs, EnqueueBatch(p, m, t)
      PROVE  DiffOnCursor'
  BY <1>3 DEF EnqueueBatch
<1>4. ASSUME NEW p \in Procs, NEW n \in Open, ClaimChange(p, n) PROVE DiffOnCursor'
  BY <1>4 DEF ClaimChange, TakeClaim, BlockRow, BaseMismatch, Open
<1>5. ASSUME NEW p \in Procs, NEW n \in Rows, DeliveredChange(p, n) PROVE DiffOnCursor'
  <2>1. \A m \in Rows : state[m] = "delivering" => m = n
    BY <1>5, DeliveringAlone DEF DeliveredChange
  <2> QED BY <1>5, <2>1 DEF DeliveredChange, RecordDelivered
<1>6. ASSUME NEW p \in Procs, NEW n \in Rows, NEW why \in Failures, FailedChange(p, n, why)
      PROVE  DiffOnCursor'
  BY <1>6 DEF FailedChange, RecordFailed
<1>7. StepKind
  BY StepKinds
<1> HIDE DEF DiffOnCursor
<1> QED BY <1>1, <1>2, <1>3, <1>4, <1>5, <1>6, <1>7 DEF StepKind

\* A step that settles no row and leaves the cursor alone.
SettlesNothing ==
  /\ cursor' = cursor
  /\ count \in Nat /\ count' \in Nat /\ count <= count'
  /\ \A n \in Rows' : Settles(n)' <=> (n \in Rows /\ Settles(n))
  /\ \A n \in Rows : Settles(n) => state'[n] = state[n] /\ target'[n] = target[n]

\* Such a step keeps the cursor true to the acknowledgements.
LEMMA SettlesNothingStep ==
  ASSUME CursorIsLastAck, SettlesNothing
  PROVE  CursorIsLastAck'
<1> USE DEF SettlesNothing
<1>0. Rows \subseteq Rows'
  BY DEF Rows
<1>1. ASSUME \A n \in Rows' : ~Settles(n)' PROVE cursor' = NoSnapshot
  BY <1>0, <1>1 DEF CursorIsLastAck
<1>2. ASSUME NEW n \in Rows', LastSettled(n)'
      PROVE  cursor' = IF state'[n] = "orphaned_config" THEN NoSnapshot ELSE target'[n]
  <2>1. n \in Rows /\ Settles(n)
    BY <1>2 DEF LastSettled
  <2>2. LastSettled(n)
    BY <1>0, <1>2, <2>1 DEF LastSettled
  <2> QED BY <2>1, <2>2 DEF CursorIsLastAck
<1> QED BY <1>1, <1>2 DEF CursorIsLastAck

\* The cursor follows the acknowledgements.
LEMMA AckStep ==
  ASSUME TypeOK, QueueShape, ClaimShape, WorkerShape, CursorIsLastAck, [Next]_vars
  PROVE  CursorIsLastAck'
<1> USE OutboxAssumption, StateNames
      DEF TypeOK, RowsOK, Rows, Numbers, Terminal, Authoritative, eventVars, Settles
<1>0. count \in Nat /\ \A n \in Rows : n \in Numbers /\ n \in Nat
  OBVIOUS
<1>1. CASE Quiet
  <2>1. SettlesNothing
    BY <1>1 DEF Quiet, SettlesNothing
  <2> QED BY <2>1, SettlesNothingStep
<1>2. ASSUME NEW p \in Procs, ReconcileChange(p) PROVE CursorIsLastAck'
  <2>1. CASE OrphanRows(p)
    <3>1. CASE Open = {}
      <4>1. SettlesNothing
        <5>1. cursor' = cursor /\ count' = count /\ target' = target
          BY <1>2, <2>1, <3>1 DEF ReconcileChange, OrphanRows
        <5>2. \A n \in Numbers : state'[n] = state[n]
          BY <2>1, <3>1 DEF OrphanRows
        <5> QED BY <1>0, <5>1, <5>2 DEF SettlesNothing
      <4> QED BY <4>1, SettlesNothingStep
    <3>2. CASE Open # {}
      <4>1. cursor' = NoSnapshot /\ count' = count /\ target' = target
        BY <1>2, <2>1, <3>2 DEF ReconcileChange, OrphanRows
      <4>2. PICK o \in Open : TRUE
        BY <3>2
      <4>3. o \in Rows /\ ~Terminal(o) /\ Settles(o)'
        BY <1>0, <2>1, <4>2 DEF OrphanRows, Open
      <4>4. ASSUME NEW n \in Rows, LastSettled(n)' PROVE state'[n] = "orphaned_config"
        <5>1. CASE n \in Open
          BY <1>0, <2>1, <5>1 DEF OrphanRows
        <5>2. CASE n \notin Open
          <6>1. Terminal(n)
            BY <5>2 DEF Open
          <6>2. o <= n
            BY <4>1, <4>3, <4>4 DEF LastSettled
          <6>3. o \in 1..n
            BY <1>0, <4>3, <6>2
          <6> QED BY <4>3, <6>1, <6>3 DEF QueueShape
        <5> QED BY <5>1, <5>2
      <4> QED BY <4>1, <4>4 DEF CursorIsLastAck
    <3> QED BY <3>1, <3>2
  <2>2. CASE PauseRows(p)
    <3>1. SettlesNothing
      BY <1>0, <1>2, <2>2 DEF ReconcileChange, PauseRows, SettlesNothing, Open
    <3> QED BY <3>1, SettlesNothingStep
  <2>3. CASE ResumeRows(p)
    <3>1. SettlesNothing
      BY <1>0, <1>2, <2>3 DEF ReconcileChange, ResumeRows, SettlesNothing
    <3> QED BY <3>1, SettlesNothingStep
  <2> QED BY <1>2, <2>1, <2>2, <2>3 DEF ReconcileChange
<1>3. ASSUME NEW p \in Procs, NEW m \in PayloadModes, NEW t \in SnapshotRefs, EnqueueBatch(p, m, t)
      PROVE  CursorIsLastAck'
  <2>1. SettlesNothing
    BY <1>0, <1>3 DEF EnqueueBatch, SettlesNothing
  <2> QED BY <2>1, SettlesNothingStep
<1>4. ASSUME NEW p \in Procs, NEW n \in Open, ClaimChange(p, n) PROVE CursorIsLastAck'
  <2>1. SettlesNothing
    BY <1>0, <1>4 DEF ClaimChange, TakeClaim, BlockRow, SettlesNothing, Open
  <2> QED BY <2>1, SettlesNothingStep
<1>5. ASSUME NEW p \in Procs, NEW n \in Rows, DeliveredChange(p, n) PROVE CursorIsLastAck'
  <2>1. \A m \in Rows : Terminal(m) => m < n
    BY <1>5, DeliveringAlone DEF DeliveredChange
  <2>2. CASE ~Authoritative(n)
    <3>1. SettlesNothing
      BY <1>0, <1>5, <2>2 DEF DeliveredChange, RecordDelivered, SettlesNothing
    <3> QED BY <3>1, SettlesNothingStep
  <2>3. CASE Authoritative(n)
    <3>1. cursor' = target[n] /\ count' = count /\ target' = target /\ state'[n] = "delivered"
      BY <1>0, <1>5, <2>3 DEF DeliveredChange, RecordDelivered
    <3>2. Settles(n)'
      BY <2>3, <3>1
    <3>3. ASSUME NEW k \in Rows, LastSettled(k)' PROVE k = n
      <4>1. n <= k /\ Settles(k)'
        BY <3>1, <3>2, <3>3 DEF LastSettled
      <4>2. k # n => state'[k] = state[k]
        BY <1>0, <1>5 DEF DeliveredChange, RecordDelivered
      <4>3. k # n => Terminal(k)
        BY <4>1, <4>2, <3>1
      <4> QED BY <1>0, <2>1, <4>1, <4>3
    <3> QED BY <3>1, <3>2, <3>3 DEF CursorIsLastAck
  <2> QED BY <2>2, <2>3
<1>6. ASSUME NEW p \in Procs, NEW n \in Rows, NEW why \in Failures, FailedChange(p, n, why)
      PROVE  CursorIsLastAck'
  <2>1. SettlesNothing
    BY <1>0, <1>6 DEF FailedChange, RecordFailed, SettlesNothing
  <2> QED BY <2>1, SettlesNothingStep
<1>7. StepKind
  BY StepKinds
<1> QED BY <1>1, <1>2, <1>3, <1>4, <1>5, <1>6, <1>7 DEF StepKind

-----------------------------------------------------------------------------
(* The theorems *)

\* The four parts need each other only through OutboxInv.
DeliveryInv == OutboxInv /\ NothingOvertakes /\ DiffOnCursor /\ CursorIsLastAck

\* The empty table.
LEMMA InitDelivery == Init => DeliveryInv
<1> SUFFICES ASSUME Init PROVE DeliveryInv
  OBVIOUS
<1> USE OutboxAssumption DEF Init
<1>1. TypeOK
  BY IdleType, StateNames DEF TypeOK, RowsOK, ProcsOK, PayloadModes, Configs, SnapshotRefs, Numbers
<1>2. QueueShape /\ ClaimShape
  BY StateNames DEF QueueShape, ClaimShape, Rows, Numbers
<1>3. WorkerShape
  BY DEF WorkerShape, Idle, Holding
<1>4. NothingOvertakes /\ DiffOnCursor /\ CursorIsLastAck
  BY DEF NothingOvertakes, DiffOnCursor, CursorIsLastAck, Rows
<1> QED BY <1>1, <1>2, <1>3, <1>4 DEF DeliveryInv, OutboxInv

\* Delivery keeps its whole invariant under every interleaving of publishers,
\* flushers, crashes, expiring leases and configuration edits.
THEOREM DeliveryInvariance == Spec => []DeliveryInv
<1>1. DeliveryInv /\ [Next]_vars => DeliveryInv'
  BY TypeStep, ShapeStep, WorkerStep, FifoStep, DiffStep, AckStep DEF DeliveryInv, OutboxInv
<1> QED BY <1>1, InitDelivery, PTL DEF Spec

\* The rows that have ended are a prefix, only the head is claimed, and every
\* worker holds a row all of whose predecessors have ended (ClaimNextDue).
THEOREM ClaimedHead == Spec => []OutboxInv
<1>1. DeliveryInv => OutboxInv
  BY DEF DeliveryInv
<1> QED BY <1>1, DeliveryInvariance, PTL

\* No body is sent while an earlier event can still be sent, for any number of
\* processes: the strict FIFO of ClaimNextDue.
THEOREM FifoDelivery == Spec => []NothingOvertakes
<1>1. DeliveryInv => NothingOvertakes
  BY DEF DeliveryInv
<1> QED BY <1>1, DeliveryInvariance, PTL

\* A diff being delivered starts from the cursor for as long as it is claimed.
THEOREM DiffSafety == Spec => []DiffOnCursor
<1>1. DeliveryInv => DiffOnCursor
  BY DEF DeliveryInv
<1> QED BY <1>1, DeliveryInvariance, PTL

\* The cursor is the target of the last acknowledged authoritative event, or
\* empty after an orphaned one (MarkDelivered, ReconcileWebhookConfig).
THEOREM CursorFollowsAcks == Spec => []CursorIsLastAck
<1>1. DeliveryInv => CursorIsLastAck
  BY DEF DeliveryInv
<1> QED BY <1>1, DeliveryInvariance, PTL

\* An ended event is never touched again, by a stale worker (the claim_owner
\* test of the Mark calls) or by a reconcile.
THEOREM EndedStays == Spec => EndedForever
<1>1. OutboxInv /\ [Next]_vars =>
        [\A n \in Rows : Terminal(n) => state'[n] = state[n] /\ attempts'[n] = attempts[n]]_vars
  BY EndedStep DEF OutboxInv, Grows
<1> QED BY <1>1, ClaimedHead, PTL DEF Spec, EndedForever
=============================================================================
