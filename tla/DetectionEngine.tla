--------------------------- MODULE DetectionEngine ---------------------------
(***************************************************************************)
(* The detection engine's cycle, its episode store and the outbox to       *)
(* Alertmanager (internal/detection engine.go, episode.go, outbox.go,      *)
(* outbox_deliver.go, scheduler.go; runServe of cmd/pilot-detection-engine)*)
(*                                                                         *)
(* One enabled feature profile: engines of other profiles share the store  *)
(* but no row.  A ticker starts a cycle in a goroutine of its own unless   *)
(* one is running.  A cycle scores every host in order, advances the       *)
(* host's in-memory state machine (HostLifecycle) and publishes what it    *)
(* asks for as one transaction (episode, history and outbox rows), sends   *)
(* heartbeats for active episodes, and drains the outbox: claim, POST,     *)
(* record the outcome.  A step is one transaction, or one POST.            *)
(*                                                                         *)
(* Scores, the routing of a payload and every failure are inputs.  Time is *)
(* the ticker's: a step takes none, a cycle may take any number of ticks.  *)
(* Alertmanager is external: the map's `external` definitions say what the *)
(* code relies on.                                                         *)
(*                                                                         *)
(* Definitions named Buggy... are mutated forms of the definition that     *)
(* follows them; no specification uses them.                               *)
(***************************************************************************)
EXTENDS HostLifecycle, Integers

CONSTANTS
  Hosts,            \* subjects, numbered in the order a cycle visits them
  Scores,           \* fused scores, percent
  Channels,         \* values of the notification_channel label
  Threads,          \* goroutines a cycle may run in
  Interval, EvaluationDelay, RefreshWindow, Horizon, LeaseDuration,
  Backoffs,         \* outboxBackoffSeconds
  \* Bounds of one instance.
  MaxSignals, MaxRows, MaxTime, MaxFaults

ASSUME EngineAssumption ==
  /\ Hosts \subseteq Nat /\ Scores \subseteq Nat
  /\ {Interval, EvaluationDelay, RefreshWindow, Horizon, LeaseDuration} \subseteq Nat \ {0}
  /\ Backoffs \in Seq(Nat \ {0}) /\ Backoffs # <<>>
  /\ {MaxSignals, MaxRows, MaxTime, MaxFaults} \subseteq Nat

\* Constants of engine.go and scheduler.go: 20 s, 15 s, 60 s and 180 s.
ASSUME TimingAssumption == EvaluationDelay + Interval + RefreshWindow <= Horizon

VARIABLES
  now,        \* wall clock of the last tick
  proc,       \* the daemon: "up", "booting" or "down"
  unread,     \* episodes a booting daemon has still to restore or reconcile
  thread,     \* the cycle goroutines
  life,       \* Engine.lifecycles, lost in a crash
  episode,    \* signal_episodes, and the label of each one's newest history payload
  outbox,     \* outbox rows, in the order of created_at and sequence
  alerts,     \* Alertmanager: endsAt of each alert it was sent, by its labels
  \* --- history
  posted,     \* rows that were POSTed at least once
  torn,       \* hosts whose last transition a failed commit left in memory only
  flapped,    \* episodes that have been recovering
  faults      \* failures so far

vars == <<now, proc, unread, thread, life, episode, outbox, alerts,
          posted, torn, flapped, faults>>

-----------------------------------------------------------------------------
(* Types *)

SignalIds == 1..MaxSignals
RowIds == 1..MaxRows
Signals == DOMAIN episode
Rows == DOMAIN outbox

\* The part of a state machine that an episode row keeps.
Counters == [history: Seq(BOOLEAN), critical: Nat, recovery: Nat, clear: Nat]
CountersOf(l) ==
  [history |-> l.history, critical |-> l.critical, recovery |-> l.recovery, clear |-> l.clear]

Episodes ==
  [host: Hosts, state: Alerting \cup {"resolved"}, severity: ActiveSeverities \cup {""},
   updated: Int, revision: Nat, channel: Channels, counters: Counters]

OutboxKinds == {"fire", "resolve_warning", "fire_critical", "heartbeat_refresh", "resolve"}
Settled == {"delivered", "dead"}
OutboxRows ==
  [signal: SignalIds, revision: Nat, sequence: {1, 2}, kind: OutboxKinds,
   severity: ActiveSeverities, channel: Channels, ends: Int,
   status: {"pending", "sending"} \cup Settled, attempts: Nat, next: Int, lease: Int]

\* A cycle: its evaluation time, the hosts it has still to advance, the time
\* and the row of its drain, and the outcome of its POST.
Outcomes == {"delivered", "retry", "dead"}
Places == {"idle", "query", "hosts", "drain", "claim", "post", "settle"}
Cycles ==
  [pc: Places, eval: Int, todo: SUBSET Hosts, at: Int, job: 0..MaxRows, outcome: Outcomes]
NoCycle ==
  [pc |-> "idle", eval |-> 0, todo |-> {}, at |-> 0, job |-> 0, outcome |-> "delivered"]

Alerts == SignalIds \X ActiveSeverities \X Channels

TypeOK ==
  /\ now \in Int /\ proc \in {"up", "booting", "down"} /\ unread \subseteq Signals
  /\ thread \in [Threads -> Cycles]
  /\ life \in [Hosts -> Lifecycles]
  /\ episode \in Seq(Episodes) /\ Len(episode) <= MaxSignals
  /\ outbox \in Seq(OutboxRows) /\ Len(outbox) <= MaxRows
  /\ alerts \in [Alerts -> Int]
  /\ posted \subseteq Rows /\ torn \subseteq Hosts /\ flapped \subseteq Signals
  /\ faults \in Nat

\* EvaluationTime: behind the clock, on a cycle boundary.
EvaluationTime(t) == ((t - EvaluationDelay) \div Interval) * Interval

\* An empty state.db, and no alert from this engine: all ended before its first
\* evaluation.
Init ==
  /\ now = 0 /\ proc = "booting" /\ unread = {}
  /\ thread = [t \in Threads |-> NoCycle]
  /\ life = [h \in Hosts |-> NewHostLifecycle]
  /\ episode = <<>> /\ outbox = <<>>
  /\ alerts = [a \in Alerts |-> EvaluationTime(0)]
  /\ posted = {} /\ torn = {} /\ flapped = {} /\ faults = 0

Fault == faults < MaxFaults /\ faults' = faults + 1

-----------------------------------------------------------------------------
(* The store *)

Active(s) == episode[s].state # "resolved"
ListActiveEpisodes == {s \in Signals : Active(s)}
\* GetEpisodeByFingerprint: of a host, the profile being fixed.
ActiveOf(h) == {s \in ListActiveEpisodes : episode[s].host = h}

Row(s, revision, sequence, kind, severity, channel, ends, next) ==
  [signal |-> s, revision |-> revision, sequence |-> sequence, kind |-> kind,
   severity |-> severity, channel |-> channel, ends |-> ends,
   status |-> "pending", attempts |-> 0, next |-> next, lease |-> next]

\* ApplyTransition: the episode, its history and its outbox rows, or nothing.
Enqueue(new) == Len(outbox) + Len(new) <= MaxRows /\ outbox' = outbox \o new
UpdateEpisode(s, e, new) == episode' = [episode EXCEPT ![s] = e] /\ Enqueue(new)

\* A payload built at time t is firing for Horizon unless it is refreshed.
EndsAt(t) == t + Horizon

-----------------------------------------------------------------------------
(* The scheduler *)

\* Starts a cycle although the previous one is still running.
BuggyGateFree == \E t \in Threads : thread[t].pc = "idle"

\* cycleGate.tryStart: no cycle is running.
GateFree == \A t \in Threads : thread[t].pc = "idle"

\* A tick of Scheduler.Run: it starts a cycle, or is skipped as an overrun.
Tick ==
  /\ now + Interval <= MaxTime
  /\ now' = now + Interval
  /\ \/ /\ proc = "up" /\ GateFree
        /\ \E t \in Threads :
             /\ thread[t].pc = "idle"
             /\ thread' = [thread EXCEPT ![t] =
                             [NoCycle EXCEPT !.pc = "query", !.eval = EvaluationTime(now')]]
        /\ UNCHANGED faults
     \/ proc = "up" /\ ~GateFree /\ Fault /\ UNCHANGED thread
     \/ proc # "up" /\ UNCHANGED <<thread, faults>>
  /\ UNCHANGED <<proc, unread, life, episode, outbox, alerts, posted, torn, flapped>>

-----------------------------------------------------------------------------
(* RunCycle *)

\* The queries answer: valid holds the subjects with a valid cycle.
Query(t, valid) ==
  /\ proc = "up" /\ thread[t].pc = "query"
  /\ thread' = [thread EXCEPT ![t].pc = "hosts", ![t].todo = valid]
  /\ UNCHANGED <<now, proc, unread, life, episode, outbox, alerts, posted, torn, flapped, faults>>

\* RunCycle returns early: what is left of the cycle, heartbeats included, is
\* skipped, and the drain follows.
Abort(t) == thread' = [thread EXCEPT ![t].pc = "drain", ![t].todo = {}]

QueryFails(t) ==
  /\ proc = "up" /\ thread[t].pc = "query"
  /\ Abort(t) /\ Fault
  /\ UNCHANGED <<now, proc, unread, life, episode, outbox, alerts, posted, torn, flapped>>

\* The next pending host.
Turn(t, h) ==
  /\ proc = "up" /\ thread[t].pc = "hosts"
  /\ h \in thread[t].todo /\ \A g \in thread[t].todo : h <= g
HostDone(t, h) == thread' = [thread EXCEPT ![t].todo = @ \ {h}]

AdvanceQuietly(t, h, score) ==
  /\ Turn(t, h)
  /\ Advance(life[h], score).action = "none"
  /\ life' = [life EXCEPT ![h] = Advance(life[h], score).life]
  /\ HostDone(t, h)
  /\ UNCHANGED <<now, proc, unread, episode, outbox, alerts, posted, torn, flapped, faults>>

\* persistTransition, by action; l is the state machine after Advance.
Create(h, l, channel, eval) ==
  LET s == Len(episode) + 1 IN
  /\ s <= MaxSignals
  /\ episode' = Append(episode,
       [host |-> h, state |-> "firing", severity |-> l.severity, updated |-> eval,
        revision |-> 1, channel |-> channel, counters |-> CountersOf(l)])
  /\ Enqueue(<<Row(s, 1, 1, "fire", l.severity, channel, EndsAt(eval), eval)>>)
  /\ UNCHANGED flapped

\* An active episode after a transition of its state machine.
Changed(s, l, channel, eval) ==
  [episode[s] EXCEPT !.state = l.state, !.severity = l.severity, !.updated = eval,
                     !.revision = @ + 1, !.channel = channel, !.counters = CountersOf(l)]

\* The row's state stays as it is.  The resolve goes to the channel the policy
\* has for warnings of this category, the fire to the one it has for criticals.
Escalate(s, l, channel, eval) ==
  LET rev == episode[s].revision + 1 IN
  /\ \E warning \in Channels :
       UpdateEpisode(s, [Changed(s, l, channel, eval) EXCEPT !.state = episode[s].state],
         <<Row(s, rev, 1, "resolve_warning", "warning", warning, eval, eval),
           Row(s, rev, 2, "fire_critical", "critical", channel, EndsAt(eval), eval)>>)
  /\ UNCHANGED flapped

\* enter_recovering and return_to_firing send nothing.
Recover(s, l, channel, eval) ==
  /\ UpdateEpisode(s, Changed(s, l, channel, eval), <<>>)
  /\ flapped' = flapped \cup {s}

\* The resolve carries the labels of the newest history payload.
Resolve(s, l, eval) ==
  /\ UpdateEpisode(s,
       [episode[s] EXCEPT !.state = "resolved", !.severity = "", !.updated = eval,
                          !.revision = @ + 1, !.counters = CountersOf(l)],
       <<Row(s, episode[s].revision + 1, 1, "resolve", episode[s].severity, episode[s].channel,
             eval, eval)>>)
  /\ UNCHANGED flapped

\* Inserts a second active episode of a fingerprint.
BuggyCommittable(h, action) == action \in Creates \/ ActiveOf(h) # {}

\* The partial unique index of signal_episodes admits one active episode of a
\* fingerprint; every other action needs the one there is.
Committable(h, action) == (action \in Creates) <=> (ActiveOf(h) = {})

Publish(t, h, score, channel) ==
  LET result == Advance(life[h], score)
      l == result.life
      eval == thread[t].eval IN
  /\ Turn(t, h)
  /\ Committable(h, result.action)
  /\ \/ result.action \in Creates /\ Create(h, l, channel, eval)
     \/ result.action = "escalate_critical"
        /\ \E s \in ActiveOf(h) : Escalate(s, l, channel, eval)
     \/ result.action \in {"enter_recovering", "return_to_firing"}
        /\ \E s \in ActiveOf(h) : Recover(s, l, channel, eval)
     \/ result.action = "resolve" /\ \E s \in ActiveOf(h) : Resolve(s, l, eval)
  /\ life' = [life EXCEPT ![h] = l]
  /\ HostDone(t, h)
  /\ UNCHANGED <<now, proc, unread, alerts, posted, torn, faults>>

\* Advance has already changed the state machine when the commit fails; the
\* error leaves RunCycle.
PublishFails(t, h, score) ==
  LET result == Advance(life[h], score) IN
  /\ Turn(t, h)
  /\ result.action # "none"
  /\ IF Committable(h, result.action) THEN Fault ELSE UNCHANGED faults
  /\ life' = [life EXCEPT ![h] = result.life]
  /\ torn' = torn \cup {h}
  /\ Abort(t)
  /\ UNCHANGED <<now, proc, unread, episode, outbox, alerts, posted, flapped>>

\* Waits for the horizon instead of the refresh window.
BuggyRefreshDue(eval) == {s \in ListActiveEpisodes : eval - episode[s].updated >= Horizon}

\* refreshActiveEpisodesIfDue: the episodes whose row is old enough.
RefreshDue(eval) == {s \in ListActiveEpisodes : eval - episode[s].updated >= RefreshWindow}

\* Every host of the cycle is done.
AtRefresh(t) == proc = "up" /\ thread[t].pc = "hosts" /\ thread[t].todo = {}

Heartbeat(t, s) ==
  LET eval == thread[t].eval
      rev == episode[s].revision + 1 IN
  /\ AtRefresh(t)
  /\ s \in RefreshDue(eval) /\ \A d \in RefreshDue(eval) : s <= d
  /\ UpdateEpisode(s,
       [episode[s] EXCEPT !.updated = eval, !.revision = rev,
                          !.counters = CountersOf(life[episode[s].host])],
       <<Row(s, rev, 1, "heartbeat_refresh", episode[s].severity, episode[s].channel,
             EndsAt(eval), eval)>>)
  /\ UNCHANGED <<now, proc, unread, thread, life, alerts, posted, torn, flapped, faults>>

HeartbeatFails(t) ==
  /\ AtRefresh(t) /\ RefreshDue(thread[t].eval) # {}
  /\ Abort(t) /\ Fault
  /\ UNCHANGED <<now, proc, unread, life, episode, outbox, alerts, posted, torn, flapped>>

EndRunCycle(t) ==
  /\ AtRefresh(t) /\ RefreshDue(thread[t].eval) = {}
  /\ thread' = [thread EXCEPT ![t].pc = "drain"]
  /\ UNCHANGED <<now, proc, unread, life, episode, outbox, alerts, posted, torn, flapped, faults>>

-----------------------------------------------------------------------------
(* DrainOutbox *)

\* The clock is read once for the whole drain.
StartDrain(t) ==
  /\ proc = "up" /\ thread[t].pc = "drain"
  /\ thread' = [thread EXCEPT ![t].pc = "claim", ![t].at = now]
  /\ UNCHANGED <<now, proc, unread, life, episode, outbox, alerts, posted, torn, flapped, faults>>

\* Does not look at the status of a row whose time has come.
BuggyDue(r, at) ==
  \/ outbox[r].next <= at /\ outbox[r].status # "sending"
  \/ outbox[r].status = "sending" /\ outbox[r].lease < at

Due(r, at) ==
  \/ outbox[r].status = "pending" /\ outbox[r].next <= at
  \/ outbox[r].status = "sending" /\ outbox[r].lease < at

Blocks(b, r) ==
  /\ outbox[b].signal = outbox[r].signal /\ outbox[b].revision = outbox[r].revision
  /\ outbox[b].sequence < outbox[r].sequence
  /\ outbox[b].status \notin Settled

\* Ignores an unsettled row of the same transition.
BuggyEligible(at) == {r \in Rows : Due(r, at)}

\* The rows a claim may take.
Eligible(at) == {r \in Rows : Due(r, at) /\ \A b \in Rows : ~Blocks(b, r)}

\* ORDER BY next_attempt_at, created_at, sequence.
Before(q, r) ==
  \/ outbox[q].next < outbox[r].next
  \/ outbox[q].next = outbox[r].next /\ q <= r

ClaimOutboxItem(t, r) ==
  LET at == thread[t].at IN
  /\ proc = "up" /\ thread[t].pc = "claim"
  /\ r \in Eligible(at) /\ \A q \in Eligible(at) : Before(r, q)
  /\ outbox' = [outbox EXCEPT ![r].status = "sending", ![r].lease = at + LeaseDuration]
  /\ thread' = [thread EXCEPT ![t].pc = "post", ![t].job = r]
  /\ UNCHANGED <<now, proc, unread, life, episode, alerts, posted, torn, flapped, faults>>

\* Nothing is left to claim, or the drain gives up on a store error.  Fewer
\* rows than maxOutboxDrainPerCycle exist, and none is due twice in a drain.
Done(t) == thread' = [thread EXCEPT ![t] = NoCycle]

EndCycle(t) ==
  /\ proc = "up" /\ thread[t].pc = "claim"
  /\ Done(t)
  /\ IF Eligible(thread[t].at) = {} THEN UNCHANGED faults ELSE Fault
  /\ UNCHANGED <<now, proc, unread, life, episode, outbox, alerts, posted, torn, flapped>>

\* Alertmanager (external): a POST replaces endsAt, except that of two times
\* on the same side of the present the later one stays.
Received(a, ends) ==
  [alerts EXCEPT ![a] = IF (@ > now) = (ends > now) /\ @ > ends THEN @ ELSE ends]

\* The POST and its answer: accepted, refused, or no usable answer, after which
\* Alertmanager may have it or not.
Post(t, outcome, arrived) ==
  LET r == thread[t].job
      a == <<outbox[r].signal, outbox[r].severity, outbox[r].channel>> IN
  /\ proc = "up" /\ thread[t].pc = "post"
  /\ outcome = "delivered" => arrived
  /\ outcome = "dead" => ~arrived
  /\ alerts' = IF arrived THEN Received(a, outbox[r].ends) ELSE alerts
  /\ IF outcome = "delivered" THEN UNCHANGED faults ELSE Fault
  /\ posted' = posted \cup {r}
  /\ thread' = [thread EXCEPT ![t].pc = "settle", ![t].outcome = outcome]
  /\ UNCHANGED <<now, proc, unread, life, episode, outbox, torn, flapped>>

\* outboxBackoff: the ladder, and its last rung from then on.
OutboxBackoff(attempts) ==
  Backoffs[IF attempts < Len(Backoffs) THEN attempts ELSE Len(Backoffs)]

\* CompleteOutboxItem: by id, whoever holds the lease.
CompleteOutboxItem(t) ==
  LET r == thread[t].job
      n == outbox[r].attempts + 1 IN
  /\ proc = "up" /\ thread[t].pc = "settle"
  /\ outbox' = IF thread[t].outcome = "retry"
               THEN [outbox EXCEPT ![r].status = "pending", ![r].attempts = n,
                                   ![r].next = thread[t].at + OutboxBackoff(n)]
               ELSE [outbox EXCEPT ![r].status = thread[t].outcome]
  /\ thread' = [thread EXCEPT ![t].pc = "claim", ![t].job = 0]
  /\ UNCHANGED <<now, proc, unread, life, episode, alerts, posted, torn, flapped, faults>>

\* The row stays leased until its lease runs out.
CompleteFails(t) ==
  /\ proc = "up" /\ thread[t].pc = "settle"
  /\ Done(t) /\ Fault
  /\ UNCHANGED <<now, proc, unread, life, episode, outbox, alerts, posted, torn, flapped>>

-----------------------------------------------------------------------------
(* The daemon stops at any point, and starts again *)

Crash ==
  /\ proc # "down" /\ Fault
  /\ proc' = "down" /\ unread' = {}
  /\ thread' = [t \in Threads |-> NoCycle]
  /\ life' = [h \in Hosts |-> NewHostLifecycle]
  /\ UNCHANGED <<now, episode, outbox, alerts, posted, torn, flapped>>

Start ==
  /\ proc = "down"
  /\ proc' = "booting" /\ unread' = ListActiveEpisodes /\ torn' = {}
  /\ UNCHANGED <<now, thread, life, episode, outbox, alerts, posted, flapped, faults>>

NextUnread(s) == proc = "booting" /\ s \in unread /\ \A u \in unread : s <= u

\* Forgets which severity a recovering episode returns to.
BuggyRestored(e) ==
  [state |-> e.state, severity |-> e.severity, prior |-> "",
   history |-> Window(e.counters.history), critical |-> e.counters.critical,
   recovery |-> e.counters.recovery, clear |-> e.counters.clear]

\* The state machine an episode row is hydrated into.
Restored(e) ==
  [state |-> e.state, severity |-> e.severity,
   prior |-> IF e.state = "recovering" THEN e.severity ELSE "",
   history |-> Window(e.counters.history), critical |-> e.counters.critical,
   recovery |-> e.counters.recovery, clear |-> e.counters.clear]

RestoreEpisode(s) ==
  /\ NextUnread(s)
  /\ life' = [life EXCEPT ![episode[s].host] = Restored(episode[s])]
  /\ unread' = unread \ {s}
  /\ UNCHANGED <<now, proc, thread, episode, outbox, alerts, posted, torn, flapped, faults>>

\* Builds the payload from the severity it has just cleared.
BuggyReconcileUnrestorable(s) ==
  /\ NextUnread(s)
  /\ UpdateEpisode(s,
       [episode[s] EXCEPT !.state = "resolved", !.severity = "", !.updated = now,
                          !.revision = @ + 1, !.counters = CountersOf(NewHostLifecycle)],
       <<Row(s, episode[s].revision + 1, 1, "resolve", "", episode[s].channel, now, now)>>)
  /\ unread' = unread \ {s}
  /\ UNCHANGED <<now, proc, thread, life, alerts, posted, torn, flapped, faults>>

\* No enabled profile claims the episode: it is resolved instead.
ReconcileUnrestorable(s) ==
  /\ NextUnread(s)
  /\ UpdateEpisode(s,
       [episode[s] EXCEPT !.state = "resolved", !.severity = "", !.updated = now,
                          !.revision = @ + 1, !.counters = CountersOf(NewHostLifecycle)],
       <<Row(s, episode[s].revision + 1, 1, "resolve", episode[s].severity, episode[s].channel,
             now, now)>>)
  /\ unread' = unread \ {s}
  /\ UNCHANGED <<now, proc, thread, life, alerts, posted, torn, flapped, faults>>

Serve ==
  /\ proc = "booting" /\ unread = {}
  /\ proc' = "up"
  /\ UNCHANGED <<now, unread, thread, life, episode, outbox, alerts, posted, torn, flapped, faults>>

-----------------------------------------------------------------------------
Cycle(t) ==
  \/ \E valid \in SUBSET Hosts : Query(t, valid)
  \/ QueryFails(t)
  \/ \E h \in Hosts, score \in Scores :
       \/ AdvanceQuietly(t, h, score)
       \/ \E channel \in Channels : Publish(t, h, score, channel)
       \/ PublishFails(t, h, score)
  \/ \E s \in Signals : Heartbeat(t, s)
  \/ HeartbeatFails(t)
  \/ EndRunCycle(t)
  \/ StartDrain(t)
  \/ \E r \in Rows : ClaimOutboxItem(t, r)
  \/ EndCycle(t)
  \/ \E outcome \in Outcomes, arrived \in BOOLEAN : Post(t, outcome, arrived)
  \/ CompleteOutboxItem(t)
  \/ CompleteFails(t)

Next ==
  \/ Tick \/ Crash \/ Start \/ Serve
  \/ \E s \in Signals : RestoreEpisode(s) \/ ReconcileUnrestorable(s)
  \/ \E t \in Threads : Cycle(t)

Spec == Init /\ [][Next]_vars

-----------------------------------------------------------------------------
(* Properties *)

BetweenCycles == \A t \in Threads : thread[t].pc = "idle"
Firing(s) == {a \in Alerts : a[1] = s /\ a[2] = episode[s].severity /\ alerts[a] > now}

\* At most one active episode per fingerprint, also when memory and store have
\* come apart and the engine fires a host that still has an episode (the
\* partial unique index of store.go).
OneActiveEpisode ==
  \A h \in Hosts : \A s, u \in ActiveOf(h) : s = u

\* The state machine of a host says what the store says: it alerts exactly when
\* the host has an active episode, of the same state and severity, and knows
\* the severity a recovering episode returns to.  A failed commit is the only
\* thing that separates them, one host's failure never another's, and a restart
\* joins them again (RunCycle, RestoreActiveEpisodes).  The specification of the
\* engine goes further ("commit fail: no in-memory published transition"), which
\* the code does not keep: RunCycle calls Advance before it stores the
\* transition, and a failed commit leaves memory ahead of the store until the
\* restart.  Those are the hosts in torn.
Agrees(h) ==
  LET l == life[h] IN
  IF l.state \in Alerting
  THEN \E s \in ActiveOf(h) :
         /\ episode[s].state = l.state /\ episode[s].severity = l.severity
         /\ l.state = "recovering" => l.prior = l.severity
  ELSE ActiveOf(h) = {}
MemoryFollowsStore == proc = "up" => \A h \in Hosts \ torn : Agrees(h)

\* An escalation fires critical only after its resolve of the warning has been
\* accepted or refused for good, whatever crashes, retries and leases do in
\* between (ClaimOutboxItem, spec 22.2).
EscalationOrder ==
  \A r \in posted : outbox[r].kind = "fire_critical" =>
    \E q \in posted :
      /\ outbox[q].signal = outbox[r].signal /\ outbox[q].revision = outbox[r].revision
      /\ outbox[q].kind = "resolve_warning" /\ outbox[q].status \in Settled

\* No alert of a resolved episode outlives the time of its resolve by more than
\* the endsAt horizon, under whatever labels it was sent: also when the resolve
\* is lost, refused or overtaken by an older fire (refreshActiveEpisodesIfDue,
\* resolveAlertPayload, reconcileUnrestorableEpisode).
StaleAlertsExpire ==
  \A r \in Rows : outbox[r].kind = "resolve" =>
    \A a \in Alerts : a[1] = outbox[r].signal => alerts[a] <= EndsAt(outbox[r].ends)

\* Without a failure, and as long as its state machine has not been recovering,
\* the alert of an active episode never lapses between two cycles: the
\* heartbeat comes before the horizon (refreshActiveEpisodesIfDue, spec 22.1).
SteadyAlertKept ==
  faults = 0 /\ BetweenCycles =>
    \A s \in ListActiveEpisodes \ flapped : Firing(s) # {}

\* A row that was delivered or given up stays so: no second sender, holding a
\* lease that has run out, puts it back in the queue (CompleteOutboxItem does
\* not look at the lease; the scheduler's gate is what keeps it safe).
SettledForever ==
  [][\A r \in Rows : outbox[r].status \in Settled => outbox'[r].status = outbox[r].status]_vars
=============================================================================
