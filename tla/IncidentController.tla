------------------------- MODULE IncidentController -------------------------
(***************************************************************************)
(* The serving half of the agent controller: the webhook handler that      *)
(* turns alert events into incidents, and the scheduler that sends OPEN    *)
(* incidents to the Agent Runtime (internal/agentcontroller incident.go,   *)
(* queue.go, http.go; runServe of cmd/pilot-agent-controller).             *)
(*                                                                         *)
(* One controller process, many goroutines: a handler per webhook, the     *)
(* scheduler loop, and one worker per dispatched incident.  Every step     *)
(* below is one transaction on the single SQLite connection.  Events keep  *)
(* arriving while a pass is between its listing and its workers' writes.   *)
(*                                                                         *)
(* Definitions named Buggy... are mutated forms of the definition that     *)
(* follows them.  No specification uses them: they show which slip of the  *)
(* code each property would catch.                                         *)
(***************************************************************************)
EXTENDS Naturals, FiniteSets, Sequences

CONSTANTS
  Ids,                 \* incident row ids
  RunIds,              \* agent_runs rows; a finished row's slot is taken again
  Identities,          \* (source, source_identity) pairs
  Hosts, HostOf, NoHost,
  Bodies, NoIdentity, NoBody, NoRun, NoIncident,
  MaxConcurrentRuns, MaxRunsPerHost, MaxDispatchAttempts,
  \* Bounds on the environment of one instance.
  MaxEvents, MaxCrashes, MaxFaults

ASSUME IncidentAssumption ==
  /\ IsFiniteSet(Ids) /\ IsFiniteSet(RunIds)
  /\ NoRun \notin RunIds /\ NoIncident \notin Ids
  /\ NoIdentity \notin Identities /\ NoBody \notin Bodies /\ NoHost \notin Hosts
  /\ HostOf \in [Identities -> Hosts \cup {NoHost}]
  /\ MaxConcurrentRuns \in Nat \ {0}
  /\ MaxRunsPerHost \in Nat \ {0}
  /\ MaxDispatchAttempts \in Nat \ {0}
  /\ MaxEvents \in Nat /\ MaxCrashes \in Nat /\ MaxFaults \in Nat

VARIABLES
  \* --- incidents
  status, ident, body,
  waiting,    \* next_dispatch_at lies in the future
  attempts,   \* dispatch_attempts
  older,      \* pairs of incidents ordered by updated_at
  \* --- agent_runs
  runState, runOf,
  \* --- the scheduler
  up,         \* the process runs
  listed,     \* what the pass has listed and not yet looked at
  busy,       \* the pass's hostBusy map
  worker,     \* the goroutine of each incident
  \* --- history and bounds
  events, crashes, faults,
  failures,   \* failed outcomes of the current investigation cycle
  lost,       \* runs of the cycle that a restart gave up
  miscounted  \* a per-host count has failed

incidentVars == <<status, ident, body, waiting, attempts, older>>
runVars == <<runState, runOf>>
passVars == <<listed, busy, worker>>
boundVars == <<events, crashes, faults>>
historyVars == <<failures, lost, miscounted>>
vars == <<incidentVars, runVars, up, passVars, boundVars, historyVars>>

-----------------------------------------------------------------------------
(* Rows *)

\* SUPPRESSED and CLOSED are read by the code but written nowhere, so they
\* have no place here; "NONE" is a row that does not exist yet.
InFlight == {"QUEUED", "INVESTIGATING"}
Statuses == {"NONE", "OPEN", "DIAGNOSED", "AGENT_FAILED", "RESOLVED_EXTERNAL"} \cup InFlight

\* What the lookups and the unique index call active.
Active(i) == status[i] \notin {"NONE", "RESOLVED_EXTERNAL"}

RunActive(r) == runState[r] \in InFlight
ActiveRuns == {r \in RunIds : RunActive(r)}
HasActiveRun(i) == \E r \in RunIds : RunActive(r) /\ runOf[r] = i

NoWorker == [step |-> "none", run |-> NoRun, attempts |-> 0]
Workers == [step: {"none", "enqueue", "start", "diagnose"},
            run: RunIds \cup {NoRun}, attempts: Nat]
Working == {i \in Ids : worker[i].step # "none"}

Listed == [id: Ids, attempts: Nat]

IncidentsOK ==
  /\ status \in [Ids -> Statuses]
  /\ ident \in [Ids -> Identities \cup {NoIdentity}]
  /\ body \in [Ids -> Bodies \cup {NoBody}]
  /\ waiting \in [Ids -> BOOLEAN]
  /\ attempts \in [Ids -> Nat]
  /\ older \subseteq Ids \X Ids

RunsOK ==
  /\ runState \in [RunIds -> InFlight \cup {"done"}]
  /\ runOf \in [RunIds -> Ids \cup {NoIncident}]

SchedulerOK ==
  /\ up \in BOOLEAN
  /\ listed \in Seq(Listed)
  /\ busy \subseteq Hosts
  /\ worker \in [Ids -> Workers]

HistoryOK ==
  /\ events \in Nat /\ crashes \in Nat /\ faults \in Nat
  /\ failures \in [Ids -> Nat]
  /\ lost \in [Ids -> Nat]
  /\ miscounted \in BOOLEAN

TypeOK == IncidentsOK /\ RunsOK /\ SchedulerOK /\ HistoryOK

Init ==
  /\ status = [i \in Ids |-> "NONE"]
  /\ ident = [i \in Ids |-> NoIdentity]
  /\ body = [i \in Ids |-> NoBody]
  /\ waiting = [i \in Ids |-> FALSE]
  /\ attempts = [i \in Ids |-> 0]
  /\ older = {}
  /\ runState = [r \in RunIds |-> "done"]
  /\ runOf = [r \in RunIds |-> NoIncident]
  /\ up = TRUE
  /\ listed = << >>
  /\ busy = {}
  /\ worker = [i \in Ids |-> NoWorker]
  /\ events = 0 /\ crashes = 0 /\ faults = 0
  /\ failures = [i \in Ids |-> 0]
  /\ lost = [i \in Ids |-> 0]
  /\ miscounted = FALSE

\* updated_at of the incidents in S becomes now: they are the youngest, and
\* within S the order is open (the column counts seconds).
Touch(S) ==
  older' = {pair \in older : pair[1] \notin S /\ pair[2] \notin S}
           \cup {<<j, i>> : j \in Ids \ S, i \in S}

-----------------------------------------------------------------------------
(* IngestEvent: one transaction per event *)

\* createIncident and recordOrphanResolve: a row of its own, OPEN for a firing
\* event, already terminal for a resolve nobody waits for.
CreateIncident(e, s, b) ==
  /\ \E i \in Ids : status[i] = "NONE"
  /\ LET i == CHOOSE j \in Ids : status[j] = "NONE"
     IN  /\ status' = [status EXCEPT ![i] =
              IF s = "resolved" THEN "RESOLVED_EXTERNAL" ELSE "OPEN"]
         /\ ident' = [ident EXCEPT ![i] = e]
         /\ body' = [body EXCEPT ![i] = b]
         /\ Touch({i})
  /\ UNCHANGED <<waiting, attempts, failures, lost>>

\* updateIncident on the active row i.  A repeated firing body only touches the
\* row; anything else is stored, and re-opens an incident whose investigation
\* had ended.
UpdateIncident(i, s, b) ==
  LET replay == s # "resolved" /\ b = body[i]
      reopen == s # "resolved" /\ status[i] \in {"DIAGNOSED", "AGENT_FAILED"}
  IN  /\ Touch({i})
      /\ \/ replay /\ UNCHANGED <<status, body, waiting, attempts, failures, lost>>
         \/ /\ ~replay
            /\ body' = [body EXCEPT ![i] = b]
            /\ status' = [status EXCEPT ![i] = IF s = "resolved" THEN "RESOLVED_EXTERNAL"
                                               ELSE IF reopen THEN "OPEN" ELSE @]
            /\ waiting' = [waiting EXCEPT ![i] = @ /\ ~reopen]
            /\ attempts' = [attempts EXCEPT ![i] = IF reopen THEN 0 ELSE @]
            /\ failures' = [failures EXCEPT ![i] = IF reopen THEN 0 ELSE @]
            /\ lost' = [lost EXCEPT ![i] = IF reopen THEN 0 ELSE @]
      /\ UNCHANGED ident

IngestEvent(e, s, b) ==
  /\ up
  /\ events < MaxEvents
  /\ events' = events + 1
  /\ \/ \E i \in Ids : ident[i] = e /\ Active(i) /\ UpdateIncident(i, s, b)
     \/ ~(\E i \in Ids : ident[i] = e /\ Active(i)) /\ CreateIncident(e, s, b)
  /\ UNCHANGED <<runVars, up, passVars, crashes, faults, miscounted>>

BackoffElapses(i) ==
  /\ waiting[i]
  /\ waiting' = [waiting EXCEPT ![i] = FALSE]
  /\ UNCHANGED <<status, ident, body, attempts, older, runVars, up, passVars,
                 boundVars, historyVars>>

-----------------------------------------------------------------------------
(* RunOnce *)

\* ListIncidentsNeedingDispatch: the oldest ones, as many as the budget allows.
Eligible == {i \in Ids : status[i] = "OPEN" /\ ~waiting[i] /\ ~HasActiveRun(i)}

OldestFirst(s, n) ==
  /\ Len(s) = IF Cardinality(Eligible) < n THEN Cardinality(Eligible) ELSE n
  /\ \A a, b \in DOMAIN s : a < b => s[a] # s[b] /\ <<s[b], s[a]>> \notin older
  /\ \A i \in Eligible, a \in DOMAIN s : (\A b \in DOMAIN s : s[b] # i) => <<i, s[a]>> \notin older

PassIdle == listed = << >> /\ Working = {}

\* The scheduler's select loop starts a pass only after the previous one has
\* returned; a pass that lists nothing changes nothing.
PassStart ==
  /\ up /\ PassIdle
  /\ Cardinality(ActiveRuns) < MaxConcurrentRuns
  /\ LET budget == MaxConcurrentRuns - Cardinality(ActiveRuns)
     IN  \E n \in 1..budget : \E s \in [1..n -> Eligible] :
           /\ OldestFirst(s, budget)
           /\ listed' = [a \in 1..n |-> [id |-> s[a], attempts |-> attempts[s[a]]]]
  /\ busy' = {}
  /\ UNCHANGED <<incidentVars, runVars, up, worker, boundVars, historyVars>>

CountActiveRunsForHost(h) ==
  Cardinality({r \in ActiveRuns : HostOf[ident[runOf[r]]] = h})

\* Hosts of this pass are not remembered.
BuggyLaunchOrSkip ==
  /\ up /\ listed # << >>
  /\ LET i == Head(listed).id
         h == HostOf[ident[i]]
     IN  IF h # NoHost /\ CountActiveRunsForHost(h) >= MaxRunsPerHost
         THEN UNCHANGED worker
         ELSE worker' = [worker EXCEPT ![i] =
                [step |-> "enqueue", run |-> NoRun, attempts |-> Head(listed).attempts]]
  /\ listed' = Tail(listed)
  /\ UNCHANGED <<incidentVars, runVars, up, busy, boundVars, historyVars>>

\* One turn of the loop: skip the incident when its host is taken, else start
\* its worker.  Incidents without a host are not counted.
LaunchOrSkip ==
  /\ up /\ listed # << >>
  /\ LET i == Head(listed).id
         h == HostOf[ident[i]]
         launch == [step |-> "enqueue", run |-> NoRun, attempts |-> Head(listed).attempts]
         taken == CountActiveRunsForHost(h) >= MaxRunsPerHost \/ h \in busy
     IN  \/ /\ h = NoHost
            /\ worker' = [worker EXCEPT ![i] = launch]
            /\ UNCHANGED <<busy, faults, miscounted>>
         \/ /\ h # NoHost /\ taken
            /\ UNCHANGED <<worker, busy, faults, miscounted>>
         \/ /\ h # NoHost /\ ~taken
            /\ worker' = [worker EXCEPT ![i] = launch]
            /\ busy' = busy \cup {h}
            /\ UNCHANGED <<faults, miscounted>>
         \/ \* the count fails: the incident is dispatched unchecked
            /\ h # NoHost /\ faults < MaxFaults
            /\ worker' = [worker EXCEPT ![i] = launch]
            /\ busy' = busy \cup {h}
            /\ faults' = faults + 1
            /\ miscounted' = TRUE
  /\ listed' = Tail(listed)
  /\ UNCHANGED <<incidentVars, runVars, up, events, crashes, failures, lost>>

-----------------------------------------------------------------------------
(* dispatchOne *)

StopWorker(i) == worker' = [worker EXCEPT ![i] = NoWorker]

\* The two partial unique indexes as they bear on EnqueueRun.
EnqueueAllowed(i) ==
  /\ ~HasActiveRun(i)
  /\ \A j \in Ids \ {i} : Active(j) => ident[j] # ident[i]

\* EnqueueRun inserts the run and moves the incident to QUEUED, whatever its
\* status has become since it was listed.
EnqueueRun(i) ==
  /\ worker[i].step = "enqueue"
  /\ \/ /\ EnqueueAllowed(i)
        /\ \E r \in RunIds : ~RunActive(r)
        /\ LET r == CHOOSE q \in RunIds : ~RunActive(q)
           IN  /\ runState' = [runState EXCEPT ![r] = "QUEUED"]
               /\ runOf' = [runOf EXCEPT ![r] = i]
               /\ worker' = [worker EXCEPT ![i].step = "start", ![i].run = r]
        /\ status' = [status EXCEPT ![i] = "QUEUED"]
        /\ waiting' = [waiting EXCEPT ![i] = FALSE]
        /\ attempts' = [attempts EXCEPT ![i] = @ + 1]
        /\ Touch({i})
     \/ /\ ~EnqueueAllowed(i)
        /\ StopWorker(i)
        /\ UNCHANGED <<runVars, status, waiting, attempts, older>>
  /\ UNCHANGED <<ident, body, up, listed, busy, boundVars, historyVars>>

\* Writes over a terminal incident.
BuggyMoveIncident(i, to) == status' = [status EXCEPT ![i] = to] /\ Touch({i})

\* A run's step on its incident: nothing when the incident is terminal.
MoveIncident(i, to) ==
  IF status[i] = "RESOLVED_EXTERNAL"
  THEN UNCHANGED <<status, older>>
  ELSE status' = [status EXCEPT ![i] = to] /\ Touch({i})

\* Moves the incident and forgets the run.
BuggyStartRun(i) ==
  /\ worker[i].step = "start"
  /\ MoveIncident(i, "INVESTIGATING")
  /\ worker' = [worker EXCEPT ![i].step = "diagnose"]
  /\ UNCHANGED <<runVars, ident, body, waiting, attempts, up, listed, busy, boundVars, historyVars>>

StartRun(i) ==
  /\ worker[i].step = "start"
  /\ runState' = [runState EXCEPT ![worker[i].run] = "INVESTIGATING"]
  /\ MoveIncident(i, "INVESTIGATING")
  /\ worker' = [worker EXCEPT ![i].step = "diagnose"]
  /\ UNCHANGED <<ident, body, waiting, attempts, runOf, up, listed, busy, boundVars, historyVars>>

\* Diagnose has answered with a valid result: CompleteRunDiagnosed.
CompleteRunDiagnosed(i) ==
  /\ worker[i].step = "diagnose"
  /\ runState' = [runState EXCEPT ![worker[i].run] = "done"]
  /\ MoveIncident(i, "DIAGNOSED")
  /\ StopWorker(i)
  /\ UNCHANGED <<ident, body, waiting, attempts, runOf, up, listed, busy, boundVars, historyVars>>

\* Leaves the run active ...
BuggyFailRun(i) ==
  /\ worker[i].step = "diagnose"
  /\ MoveIncident(i, "OPEN")
  /\ StopWorker(i)
  /\ UNCHANGED <<ident, body, waiting, attempts, runVars, up, listed, busy, boundVars, historyVars>>

\* ... or counts the attempt that EnqueueRun has already counted.
BuggyRetryCount(i) ==
  /\ worker[i].step = "diagnose"
  /\ runState' = [runState EXCEPT ![worker[i].run] = "done"]
  /\ MoveIncident(i, IF attempts[i] + 1 < MaxDispatchAttempts THEN "OPEN" ELSE "AGENT_FAILED")
  /\ failures' = [failures EXCEPT ![i] = @ + 1]
  /\ StopWorker(i)
  /\ UNCHANGED <<ident, body, waiting, attempts, runOf, up, listed, busy, boundVars, lost, miscounted>>

\* Diagnose has failed, timed out or answered nonsense: FailRunAndMaybeRetry,
\* with the attempts read when the incident was listed.
FailRunAndMaybeRetry(i) ==
  /\ worker[i].step = "diagnose"
  /\ runState' = [runState EXCEPT ![worker[i].run] = "done"]
  /\ LET retried == worker[i].attempts + 1 < MaxDispatchAttempts
     IN  /\ MoveIncident(i, IF retried THEN "OPEN" ELSE "AGENT_FAILED")
         /\ waiting' = [waiting EXCEPT ![i] =
              IF status[i] = "RESOLVED_EXTERNAL" THEN @ ELSE retried]
  /\ failures' = [failures EXCEPT ![i] = @ + 1]
  /\ StopWorker(i)
  /\ UNCHANGED <<ident, body, attempts, runOf, up, listed, busy, boundVars, lost, miscounted>>

\* A store error in EnqueueRun, StartRun or the recording of the outcome: the
\* transaction is rolled back and dispatchOne returns.
StoreFault(i) ==
  /\ worker[i].step # "none"
  /\ faults < MaxFaults
  /\ faults' = faults + 1
  /\ StopWorker(i)
  /\ UNCHANGED <<incidentVars, runVars, up, listed, busy, events, crashes, historyVars>>

-----------------------------------------------------------------------------
(* Restart *)

Crash ==
  /\ up
  /\ crashes < MaxCrashes
  /\ crashes' = crashes + 1
  /\ up' = FALSE
  /\ listed' = << >> /\ busy' = {}
  /\ worker' = [i \in Ids |-> NoWorker]
  /\ UNCHANGED <<incidentVars, runVars, events, faults, historyVars>>

\* Gives up investigations but not the runs still queued ...
BuggyRecoverInvestigating ==
  /\ ~up
  /\ up' = TRUE
  /\ status' = [i \in Ids |-> IF status[i] = "INVESTIGATING" THEN "OPEN" ELSE status[i]]
  /\ runState' = [r \in RunIds |-> IF runState[r] = "INVESTIGATING" THEN "done" ELSE runState[r]]
  /\ UNCHANGED <<ident, body, waiting, attempts, older, runOf, passVars, boundVars, historyVars>>

\* ... or closes the runs and leaves their incidents as they are.
BuggyRecoverRunsOnly ==
  /\ ~up
  /\ up' = TRUE
  /\ runState' = [r \in RunIds |-> "done"]
  /\ UNCHANGED <<incidentVars, runOf, passVars, boundVars, historyVars>>

\* RecoverInFlightRuns, before the server listens: every active run is given
\* up and its incident re-opened, in one transaction.
RecoverInFlightRuns ==
  /\ ~up
  /\ up' = TRUE
  /\ LET reopened == {i \in Ids : HasActiveRun(i) /\ status[i] # "RESOLVED_EXTERNAL"}
     IN  /\ status' = [i \in Ids |-> IF i \in reopened THEN "OPEN" ELSE status[i]]
         /\ waiting' = [i \in Ids |-> waiting[i] /\ i \notin reopened]
         /\ Touch(reopened)
  /\ runState' = [r \in RunIds |-> "done"]
  /\ lost' = [i \in Ids |-> IF HasActiveRun(i) THEN lost[i] + 1 ELSE lost[i]]
  /\ UNCHANGED <<ident, body, attempts, runOf, passVars, boundVars, failures, miscounted>>

Worker(i) ==
  EnqueueRun(i) \/ StartRun(i) \/ CompleteRunDiagnosed(i) \/ FailRunAndMaybeRetry(i)

Next ==
  \/ \E e \in Identities, s \in {"firing", "resolved"}, b \in Bodies : IngestEvent(e, s, b)
  \/ PassStart \/ LaunchOrSkip
  \/ \E i \in Ids : Worker(i) \/ BackoffElapses(i) \/ StoreFault(i)
  \/ Crash \/ RecoverInFlightRuns

Spec == Init /\ [][Next]_vars

\* The ticker fires, goroutines are scheduled, Diagnose returns within its
\* DispatchTimeout, backoffs end and the service manager restarts the process.
\* Nothing is assumed of events, crashes and faults.
FairSpec ==
  /\ Spec
  /\ WF_vars(PassStart) /\ WF_vars(LaunchOrSkip) /\ WF_vars(RecoverInFlightRuns)
  /\ \A i \in Ids : WF_vars(Worker(i)) /\ WF_vars(BackoffElapses(i))

-----------------------------------------------------------------------------
(* Properties *)

\* An identity has at most one active incident, also when an incident resolves
\* and fires anew while its old row is being dispatched (IngestEvent's lookup,
\* EnqueueRun, ux_incidents_active_identity).
OneActiveIncident ==
  \A i, j \in Ids : Active(i) /\ Active(j) /\ ident[i] = ident[j] => i = j

\* Runs and incidents agree: an incident is QUEUED or INVESTIGATING exactly
\* when it has a run in that state, and an active run belongs to such an
\* incident or to one that has resolved meanwhile.  So no incident is left
\* waiting for a run that does not exist, and no incident has two.
RunsMatchIncidents ==
  /\ \A i \in Ids : status[i] \in InFlight =>
       \E r \in RunIds : runOf[r] = i /\ runState[r] = status[i]
  /\ \A r \in ActiveRuns :
       runOf[r] \in Ids /\ status[runOf[r]] \in {runState[r], "RESOLVED_EXTERNAL"}
  /\ \A q, r \in ActiveRuns : runOf[q] = runOf[r] => q = r

\* A worker that has enqueued holds its own run, in the state it left it in;
\* workers die with the process.
WorkersHoldRuns ==
  \A i \in Ids :
    /\ ~up => worker[i] = NoWorker
    /\ worker[i].step = "start" =>
         worker[i].run \in RunIds /\ runOf[worker[i].run] = i /\ runState[worker[i].run] = "QUEUED"
    /\ worker[i].step = "diagnose" =>
         worker[i].run \in RunIds /\ runOf[worker[i].run] = i
         /\ runState[worker[i].run] = "INVESTIGATING"

\* Rows exist before anything refers to them.
RowsExist ==
  /\ \A i \in Ids : status[i] # "NONE" => ident[i] \in Identities
  /\ \A i \in Ids : worker[i].step # "none" => status[i] # "NONE"
  /\ \A a \in DOMAIN listed : status[listed[a].id] # "NONE"

\* The inductive invariant.
ControllerInv ==
  TypeOK /\ OneActiveIncident /\ RunsMatchIncidents /\ WorkersHoldRuns /\ RowsExist

\* At most maxConcurrentRuns runs at any time, and at most maxRunsPerHost of one
\* host unless a count failed ("bounded global and per-host concurrency",
\* Scheduler).  This is more than the comment of RunOnce claims: it says that two
\* incidents of the same host in one pass "can both pass the check", "briefly
\* exceeding MaxRunsPerHost".  They cannot: hostBusy, which the loop sets before
\* it starts a worker, skips the second, and passes do not overlap.  The one way
\* over the limit is a count that fails, which skips the test of hostBusy too.
ConcurrencyBounded ==
  /\ Cardinality(ActiveRuns) <= MaxConcurrentRuns
  /\ miscounted \/ \A h \in Hosts : CountActiveRunsForHost(h) <= MaxRunsPerHost

\* Every active run is the business of a live worker, unless the process is
\* down or the store failed under one (RunOnce's wg.Wait and dispatchOne's
\* exits).
ActiveRunsOwned ==
  up /\ faults = 0 =>
    \A r \in ActiveRuns : worker[runOf[r]].step \in {"start", "diagnose"} /\ worker[runOf[r]].run = r

\* An incident that no restart has interrupted is given up at exactly the last
\* failure of its retry budget, neither early nor late (FailRunAndMaybeRetry's
\* count is the one read at listing, before EnqueueRun increments it).
FailedAfterBudget ==
  \A i \in Ids : status[i] = "AGENT_FAILED" /\ lost[i] = 0 => failures[i] = MaxDispatchAttempts

\* A restart costs nothing of the budget: an incident is given up only after
\* that many failures ("immediately dispatchable, not counted against the
\* transport-failure retry budget", RecoverInFlightRuns).
RestartsNotCounted ==
  \A i \in Ids : status[i] = "AGENT_FAILED" => failures[i] >= MaxDispatchAttempts

Undecided(i) == status[i] = "OPEN" \/ status[i] \in InFlight

\* Once events stop, every incident is investigated to an end: no listing
\* order, host limit, backoff or restart leaves one behind as long as the store
\* works (RunOnce).
BacklogDrains == [](faults = 0) => \A i \in Ids : Undecided(i) ~> ~Undecided(i)

\* "one bad incident does not starve the rest of the queue" (RunOnce): an
\* incident without a run of its own is not left OPEN, whatever store errors
\* other dispatches met.
OthersNotStarved == \A i \in Ids : status[i] = "OPEN" ~> status[i] # "OPEN"
=============================================================================
