---------------------------- MODULE WebhookOutbox ----------------------------
(***************************************************************************)
(* The durable outbox behind `integrations.yaml`: publication of terminal  *)
(* workflows, the claim lease, and delivery to one webhook endpoint        *)
(* (internal/outbound outbox.go and dispatcher.go; publishTerminalWorkflow *)
(* and the `pilot webhook` commands of cmd/pilot/cmd).                     *)
(*                                                                         *)
(* Queues of different webhooks share no row, so the module models one     *)
(* (workspace_key, source_id, webhook_name); every event has the one       *)
(* projection user_host_access_v1.  The actors are short-lived             *)
(* pilot processes on one history.db: each loads the configuration,        *)
(* reconciles the queue with it, perhaps enqueues, and claims and posts    *)
(* the head of the queue.  A step is one transaction or one read; HTTP     *)
(* happens between transactions.                                           *)
(*                                                                         *)
(* A workflow id is a fresh UUID per operation, so the branch of           *)
(* EnqueueBatch for a workflow already in the table is not taken here.     *)
(*                                                                         *)
(* Definitions named Buggy... are mutated forms of the definition that     *)
(* follows them; no specification uses them.                               *)
(***************************************************************************)
EXTENDS Naturals

CONSTANTS
  Procs,        \* pilot processes that may run at the same time
  Snapshots,    \* snapshot ids a projection can have
  NoSnapshot,   \* the empty id: no cursor, bootstrap base, state unavailable
  NoProc,       \* the empty claim_owner
  MaxAttempts,  \* delivery.max_attempts
  \* Bounds of one instance.
  MaxRows, MaxEdits

ASSUME OutboxAssumption ==
  /\ NoSnapshot \notin Snapshots /\ NoProc \notin Procs
  /\ MaxAttempts \in Nat \ {0} /\ MaxRows \in Nat /\ MaxEdits \in Nat

VARIABLES
  \* --- webhook_outbox, by sequence
  count,     \* MAX(sequence)
  state, mode, base, attempts,
  target,    \* of an authoritative event, else NoSnapshot: no query reads it
  due,       \* next_attempt_at has passed
  owner,     \* claim_owner
  leased,    \* claim_until lies in the future
  \* --- webhook_state_cursor and integrations.yaml
  cursor, config, edits,
  \* --- the processes
  proc,
  \* --- history
  posted     \* rows whose body has been sent at least once

eventVars == <<count, mode, base, target>>
claimVars == <<state, attempts, due, owner, leased>>
vars == <<eventVars, claimVars, cursor, config, edits, proc, posted>>

-----------------------------------------------------------------------------
(* Rows *)

Numbers == 1..MaxRows
Rows == 1..count
TerminalStates == {"delivered", "dead_letter", "blocked_base_mismatch", "orphaned_config"}
States == {"none", "pending", "delivering", "paused_config"} \cup TerminalStates
PayloadModes == {"diff", "full"}   \* "full" is snapshot or both
Configs == {"enabled", "disabled", "absent"}
SnapshotRefs == Snapshots \cup {NoSnapshot}

Terminal(n) == state[n] \in TerminalStates
Authoritative(n) == target[n] # NoSnapshot
Open == {n \in Rows : ~Terminal(n)}

\* Looks past a row another process is delivering.
BuggyIsHead(n) == n \in Open /\ \A m \in Open : state[m] = "pending" => n <= m

\* The row every claim looks at: the lowest sequence that has not ended.
IsHead(n) == n \in Open /\ \A m \in Open : n <= m

\* The last authoritative row that is not yet acknowledged.
IsLastPending(n) ==
  /\ n \in Open /\ Authoritative(n)
  /\ \A m \in Open : Authoritative(m) => m <= n

Holding == {"post", "sent"}
Failures == {"unavailable", "refused", "nosecret"}
Places == {"idle", "loaded", "pending", "cursor", "enqueue", "claim"} \cup Holding

\* One pilot process: where it is, its command, the configuration it loaded,
\* the base of its draft and the row it has claimed.
Commands == {"none", "publish", "flush", "force", "status"}
Processes == [pc: Places, cmd: Commands, cfg: Configs, draft: SnapshotRefs, job: 0..MaxRows]
Idle == [pc |-> "idle", cmd |-> "none", cfg |-> "enabled", draft |-> NoSnapshot, job |-> 0]

RowsOK ==
  /\ count \in 0..MaxRows
  /\ state \in [Numbers -> States]
  /\ mode \in [Numbers -> PayloadModes]
  /\ base \in [Numbers -> SnapshotRefs]
  /\ target \in [Numbers -> SnapshotRefs]
  /\ attempts \in [Numbers -> Nat]
  /\ due \in [Numbers -> BOOLEAN]
  /\ owner \in [Numbers -> Procs \cup {NoProc}]
  /\ leased \in [Numbers -> BOOLEAN]
  /\ posted \subseteq Numbers

ProcsOK ==
  /\ cursor \in SnapshotRefs /\ config \in Configs /\ edits \in Nat
  /\ proc \in [Procs -> Processes]

TypeOK == RowsOK /\ ProcsOK

Init ==
  /\ count = 0
  /\ state = [n \in Numbers |-> "none"]
  /\ mode = [n \in Numbers |-> "full"]
  /\ base = [n \in Numbers |-> NoSnapshot]
  /\ target = [n \in Numbers |-> NoSnapshot]
  /\ attempts = [n \in Numbers |-> 0]
  /\ due = [n \in Numbers |-> FALSE]
  /\ owner = [n \in Numbers |-> NoProc]
  /\ leased = [n \in Numbers |-> FALSE]
  /\ cursor = NoSnapshot /\ config = "enabled" /\ edits = 0
  /\ proc = [p \in Procs |-> Idle]
  /\ posted = {}

Goto(p, place) == proc' = [proc EXCEPT ![p].pc = place]
Exit(p) == proc' = [proc EXCEPT ![p] = Idle]
\* The next turn of the flush loop.
NextTurn(p) == proc' = [proc EXCEPT ![p].pc = "claim", ![p].job = 0]

-----------------------------------------------------------------------------
(* A process starts, and reconciles the queue with the file it has loaded *)

\* A command begins: LoadConfigFile.  The copy may be stale when it is used.
Load(p, c) ==
  /\ proc[p].pc = "idle"
  /\ proc' = [proc EXCEPT ![p].pc = "loaded", ![p].cmd = c, ![p].cfg = config]
  /\ UNCHANGED <<eventVars, claimVars, cursor, config, edits, posted>>

\* Where a command goes once the queue is reconciled.
AfterReconcile(p) ==
  \/ /\ proc[p].cfg # "enabled" \/ proc[p].cmd = "status"
     /\ Exit(p)
  \/ /\ proc[p].cfg = "enabled" /\ proc[p].cmd = "publish"
     /\ Goto(p, "pending")
  \/ /\ proc[p].cfg = "enabled" /\ proc[p].cmd \in {"flush", "force"}
     /\ Goto(p, "claim")

\* Keeps the cursor of an orphaned webhook.
BuggyOrphanRows(p) ==
  /\ proc[p].cfg = "absent"
  /\ state' = [n \in Numbers |-> IF n \in Open THEN "orphaned_config" ELSE state[n]]
  /\ due' = [n \in Numbers |-> due[n] /\ n \notin Open]
  /\ owner' = [n \in Numbers |-> IF n \in Open THEN NoProc ELSE owner[n]]
  /\ leased' = [n \in Numbers |-> leased[n] /\ n \notin Open]
  /\ UNCHANGED cursor

\* Reconcile for an entry that has left the file: every open row is orphaned
\* and, when there was one, the cursor goes with it.
OrphanRows(p) ==
  /\ proc[p].cfg = "absent"
  /\ state' = [n \in Numbers |-> IF n \in Open THEN "orphaned_config" ELSE state[n]]
  /\ due' = [n \in Numbers |-> due[n] /\ n \notin Open]
  /\ owner' = [n \in Numbers |-> IF n \in Open THEN NoProc ELSE owner[n]]
  /\ leased' = [n \in Numbers |-> leased[n] /\ n \notin Open]
  /\ cursor' = IF Open # {} THEN NoSnapshot ELSE cursor

\* For a disabled entry: open rows are paused, and a live claim is taken away.
PauseRows(p) ==
  /\ proc[p].cfg = "disabled"
  /\ state' = [n \in Numbers |-> IF n \in Open THEN "paused_config" ELSE state[n]]
  /\ owner' = [n \in Numbers |-> IF n \in Open THEN NoProc ELSE owner[n]]
  /\ leased' = [n \in Numbers |-> leased[n] /\ n \notin Open]
  /\ UNCHANGED <<due, cursor>>

\* For an enabled entry: paused rows are pending again, their schedule kept.
ResumeRows(p) ==
  /\ proc[p].cfg = "enabled"
  /\ state' = [n \in Numbers |->
                 IF n \in Rows /\ state[n] = "paused_config" THEN "pending" ELSE state[n]]
  /\ UNCHANGED <<due, owner, leased, cursor>>

ReconcileWebhookConfig(p) ==
  /\ proc[p].pc = "loaded"
  /\ OrphanRows(p) \/ PauseRows(p) \/ ResumeRows(p)
  /\ AfterReconcile(p)
  /\ UNCHANGED <<eventVars, attempts, config, edits, posted>>

-----------------------------------------------------------------------------
(* Publication: EffectiveBase is two reads outside the enqueue transaction *)

ReadPendingTarget(p) ==
  /\ proc[p].pc = "pending"
  /\ \/ \E n \in Open :
          /\ IsLastPending(n)
          /\ proc' = [proc EXCEPT ![p].pc = "enqueue", ![p].draft = target[n]]
     \/ /\ \A n \in Open : ~Authoritative(n)
        /\ Goto(p, "cursor")
  /\ UNCHANGED <<eventVars, claimVars, cursor, config, edits, posted>>

ReadCursor(p) ==
  /\ proc[p].pc = "cursor"
  /\ proc' = [proc EXCEPT ![p].pc = "enqueue", ![p].draft = cursor]
  /\ UNCHANGED <<eventVars, claimVars, cursor, config, edits, posted>>

\* buildEventDraftForWebhook and the insert.  An event is authoritative when
\* the workflow succeeded with confirmed effects and its state is available
\* and not too large: then all three flags MarkDelivered asks for are set.
EnqueueBatch(p, m, t) ==
  /\ proc[p].pc = "enqueue"
  /\ count < MaxRows
  /\ count' = count + 1
  /\ state' = [state EXCEPT ![count + 1] = "pending"]
  /\ mode' = [mode EXCEPT ![count + 1] = m]
  /\ base' = [base EXCEPT ![count + 1] = proc[p].draft]
  /\ target' = [target EXCEPT ![count + 1] = t]
  /\ due' = [due EXCEPT ![count + 1] = TRUE]
  /\ proc' = [proc EXCEPT ![p] = [Idle EXCEPT !.pc = "claim", !.cmd = "flush"]]
  /\ UNCHANGED <<attempts, owner, leased, cursor, config, edits, posted>>

-----------------------------------------------------------------------------
(* FlushWebhooks: claim the head, post it, record the outcome, repeat *)

IsClaimable(p, n) ==
  \/ state[n] = "pending" /\ (proc[p].cmd = "force" \/ due[n])
  \/ state[n] = "delivering" /\ ~leased[n]

\* Sends any diff while the endpoint has acknowledged nothing.
BuggyBaseMismatch(n) == mode[n] = "diff" /\ base[n] # cursor /\ cursor # NoSnapshot

\* A diff can only be sent from the snapshot the endpoint last acknowledged.
BaseMismatch(n) == mode[n] = "diff" /\ base[n] # cursor

\* claim_owner is a fresh UUID per claim.  A process holds at most one, so
\* its name stands for the claim it currently holds.
TakeClaim(p, n) ==
  /\ ~BaseMismatch(n)
  /\ state' = [state EXCEPT ![n] = "delivering"]
  /\ owner' = [owner EXCEPT ![n] = p]
  /\ leased' = [leased EXCEPT ![n] = TRUE]
  /\ proc' = [proc EXCEPT ![p].pc = "post", ![p].job = n]
  /\ UNCHANGED due

\* A blocked head ends the flush as an empty queue would.
BlockRow(p, n) ==
  /\ BaseMismatch(n)
  /\ state' = [state EXCEPT ![n] = "blocked_base_mismatch"]
  /\ owner' = [owner EXCEPT ![n] = NoProc]
  /\ leased' = [leased EXCEPT ![n] = FALSE]
  /\ due' = [due EXCEPT ![n] = FALSE]
  /\ Exit(p)

NothingDue(p) ==
  /\ \A n \in Open : IsHead(n) => ~IsClaimable(p, n)
  /\ Exit(p)
  /\ UNCHANGED <<state, owner, leased, due>>

ClaimNextDue(p) ==
  /\ proc[p].pc = "claim"
  /\ \/ \E n \in Open :
          /\ IsHead(n) /\ IsClaimable(p, n)
          /\ TakeClaim(p, n) \/ BlockRow(p, n)
     \/ NothingDue(p)
  /\ UNCHANGED <<eventVars, attempts, cursor, config, edits, posted>>

\* DeliverOnce up to client.Do: the request may leave the machine.
SendRequest(p) ==
  /\ proc[p].pc = "post"
  /\ Goto(p, "sent")
  /\ posted' = posted \cup {proc[p].job}
  /\ UNCHANGED <<eventVars, claimVars, cursor, config, edits>>

\* A claim that was taken away: the outcome is dropped, the loop goes on.
StaleOwner(p) ==
  /\ owner[proc[p].job] # p
  /\ NextTurn(p)
  /\ UNCHANGED <<state, attempts, due, owner, leased, cursor>>

\* Leaves claim_owner in the row.
BuggyReleaseClaim(n) == leased' = [leased EXCEPT ![n] = FALSE] /\ UNCHANGED owner

ReleaseClaim(n) ==
  /\ owner' = [owner EXCEPT ![n] = NoProc]
  /\ leased' = [leased EXCEPT ![n] = FALSE]

\* Matches the event id alone.
BuggyRecordDelivered(p, n) ==
  /\ state' = [state EXCEPT ![n] = "delivered"]
  /\ due' = [due EXCEPT ![n] = FALSE]
  /\ cursor' = IF Authoritative(n) THEN target[n] ELSE cursor
  /\ ReleaseClaim(n)
  /\ NextTurn(p)
  /\ UNCHANGED attempts

\* Row and cursor change in one transaction.
RecordDelivered(p, n) ==
  /\ owner[n] = p
  /\ state' = [state EXCEPT ![n] = "delivered"]
  /\ due' = [due EXCEPT ![n] = FALSE]
  /\ cursor' = IF Authoritative(n) THEN target[n] ELSE cursor
  /\ ReleaseClaim(n)
  /\ NextTurn(p)
  /\ UNCHANGED attempts

MarkDelivered(p) ==
  /\ proc[p].pc = "sent"
  /\ RecordDelivered(p, proc[p].job) \/ StaleOwner(p)
  /\ UNCHANGED <<eventVars, config, edits, posted>>

\* The failures DeliverOnce tells apart.  "unavailable" is every retryable one:
\* the request cannot be built, or a timeout hides that the endpoint has taken
\* the event.  Without its secret the process consumes no attempt.
FailsWith(p, why) ==
  \/ why # "refused" /\ proc[p].pc = "post"
  \/ why # "nosecret" /\ proc[p].pc = "sent"

AttemptsAfter(n, why) == IF why = "nosecret" THEN attempts[n] ELSE attempts[n] + 1

Exhausted(n, why) ==
  \/ why = "refused"
  \/ why = "unavailable" /\ AttemptsAfter(n, why) >= MaxAttempts

\* The flush stops at a row that stays pending and goes on past a dead letter.
RecordFailed(p, n, why) ==
  /\ owner[n] = p
  /\ state' = [state EXCEPT ![n] = IF Exhausted(n, why) THEN "dead_letter" ELSE "pending"]
  /\ attempts' = [attempts EXCEPT ![n] = AttemptsAfter(n, why)]
  /\ due' = [due EXCEPT ![n] = FALSE]
  /\ ReleaseClaim(n)
  /\ IF Exhausted(n, why) THEN NextTurn(p) ELSE Exit(p)
  /\ UNCHANGED cursor

MarkAttemptFailed(p, why) ==
  /\ FailsWith(p, why)
  /\ RecordFailed(p, proc[p].job, why) \/ StaleOwner(p)
  /\ UNCHANGED <<eventVars, config, edits, posted>>

-----------------------------------------------------------------------------
(* The surroundings *)

\* The process ends where it is: a crash, a store error, a rule that does not
\* match, the claim limit, or the budget, whose expiry also fails the Mark
\* calls because they run under the same context.
Leave(p) ==
  /\ proc[p].pc # "idle"
  /\ Exit(p)
  /\ UNCHANGED <<eventVars, claimVars, cursor, config, edits, posted>>

LeaseExpires(n) ==
  /\ n \in Rows /\ leased[n]
  /\ leased' = [leased EXCEPT ![n] = FALSE]
  /\ UNCHANGED <<eventVars, state, attempts, due, owner, cursor, config, edits, proc, posted>>

BackoffElapses(n) ==
  /\ n \in Open /\ ~due[n]
  /\ due' = [due EXCEPT ![n] = TRUE]
  /\ UNCHANGED <<eventVars, state, attempts, owner, leased, cursor, config, edits, proc, posted>>

EditConfig(c) ==
  /\ edits < MaxEdits /\ c # config
  /\ config' = c
  /\ edits' = edits + 1
  /\ UNCHANGED <<eventVars, claimVars, cursor, proc, posted>>

Publish(p) ==
  \/ ReadPendingTarget(p) \/ ReadCursor(p)
  \/ \E m \in PayloadModes, t \in SnapshotRefs : EnqueueBatch(p, m, t)

Flush(p) ==
  \/ ClaimNextDue(p)
  \/ SendRequest(p) \/ MarkDelivered(p)
  \/ \E why \in Failures : MarkAttemptFailed(p, why)

Next ==
  \/ \E p \in Procs :
       \/ \E c \in {"publish", "flush", "force", "status"} : Load(p, c)
       \/ ReconcileWebhookConfig(p) \/ Publish(p) \/ Flush(p) \/ Leave(p)
  \/ \E n \in Numbers : LeaseExpires(n) \/ BackoffElapses(n)
  \/ \E c \in Configs : EditConfig(c)

Spec == Init /\ [][Next]_vars

-----------------------------------------------------------------------------
(* Properties *)

\* A row exists up to the highest sequence, and the rows that have ended are
\* a prefix of the queue.
QueueShape ==
  /\ \A n \in Numbers : state[n] = "none" <=> n > count
  /\ \A n \in Rows : Terminal(n) => \A m \in 1..n : Terminal(m)

\* A claim exists exactly on a row being delivered, and that row is the head.
ClaimShape ==
  /\ \A n \in Numbers : owner[n] # NoProc <=> state[n] = "delivering"
  /\ \A n \in Rows : state[n] = "delivering" => \A m \in 1..(n - 1) : Terminal(m)

\* A process between its claim and its Mark call works on a row all of whose
\* predecessors have ended, even when its claim has been taken away since.
WorkerShape ==
  \A p \in Procs : proc[p].pc \in Holding =>
    /\ proc[p].job \in Rows
    /\ \A m \in 1..(proc[p].job - 1) : Terminal(m)

\* The strict FIFO of ClaimNextDue: no body leaves the machine while an
\* earlier event of the same webhook can still be sent, whatever expired
\* leases, crashes and configuration edits did to the claims.
NothingOvertakes ==
  \A n \in posted : n \in Rows /\ \A m \in 1..(n - 1) : Terminal(m)

\* The base check of ClaimNextDue stays true for as long as the claim lasts:
\* a diff being delivered starts from the snapshot in the cursor, although
\* the check and the POST are not in one transaction.
DiffOnCursor ==
  \A n \in Rows : state[n] = "delivering" /\ mode[n] = "diff" => base[n] = cursor

\* What moved the cursor last.
Settles(n) == state[n] = "orphaned_config" \/ (state[n] = "delivered" /\ Authoritative(n))
LastSettled(n) == Settles(n) /\ \A m \in Rows : Settles(m) => m <= n

\* The cursor always is the target of the highest acknowledged authoritative
\* event, or empty if an orphaned event is higher: a late acknowledgement, a
\* retry or a reclaimed lease never turns it back.
CursorIsLastAck ==
  /\ (\A n \in Rows : ~Settles(n)) => cursor = NoSnapshot
  /\ \A n \in Rows : LastSettled(n) =>
       cursor = IF state[n] = "orphaned_config" THEN NoSnapshot ELSE target[n]

\* The inductive invariant.
OutboxInv == TypeOK /\ QueueShape /\ ClaimShape /\ WorkerShape

\* An event that has ended never changes again: a stale worker does not
\* overwrite it, and no configuration brings an orphaned event back.
EndedForever ==
  [][\A n \in Rows : Terminal(n) => state'[n] = state[n] /\ attempts'[n] = attempts[n]]_vars
=============================================================================
