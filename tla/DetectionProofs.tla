--------------------------- MODULE DetectionProofs ---------------------------
(***************************************************************************)
(* Proofs about DetectionEngine, for any number of hosts, threads, scores, *)
(* signals, outbox rows and failures, and any lifecycle policy.            *)
(***************************************************************************)
EXTENDS DetectionEngine, SequenceTheorems, TLAPS

-----------------------------------------------------------------------------
(* The inductive invariant *)

\* A state machine that alerts has a severity; a recovering one returns to it.
Sane(l) ==
  /\ l.state = "firing" => l.severity \in ActiveSeverities
  /\ l.state = "recovering" => l.severity \in ActiveSeverities /\ l.prior = l.severity

\* Memory, whatever the daemon is doing: a host whose episode a booting daemon
\* has still to read does not alert yet, every other one agrees with the store.
Unread(h) == \E s \in ActiveOf(h) : s \in unread
MemoryInv ==
  /\ \A h \in Hosts : Sane(life[h])
  /\ \A s \in ListActiveEpisodes : episode[s].severity \in ActiveSeverities
  /\ unread \subseteq ListActiveEpisodes
  /\ proc # "booting" => unread = {}
  /\ proc = "down" => \A h \in Hosts : life[h].state \notin Alerting
  /\ proc = "booting" =>
       \A h \in Hosts : IF Unread(h) THEN life[h].state \notin Alerting ELSE Agrees(h)
  /\ MemoryFollowsStore

\* The gate: one cycle at a time, of a daemon that is up, and the row it is
\* sending is its own.
Busy == {t \in Threads : thread[t].pc # "idle"}
Holds(t) == thread[t].pc \in {"post", "settle"}
GateInv ==
  /\ proc # "up" => Busy = {}
  /\ \A t, u \in Busy : t = u
  /\ \A t \in Threads : Holds(t) => thread[t].job \in Rows /\ outbox[thread[t].job].status = "sending"
  /\ \A t \in Threads : thread[t].pc = "settle" => thread[t].job \in posted

\* A row that is being sent or was sent.
Sent(r) == r \in posted \/ \E t \in Threads : Holds(t) /\ thread[t].job = r
WarningOf(q, r) ==
  /\ outbox[q].signal = outbox[r].signal /\ outbox[q].revision = outbox[r].revision
  /\ outbox[q].kind = "resolve_warning"
OrderInv ==
  /\ \A r \in Rows : outbox[r].status \in Settled => r \in posted
  /\ \A r \in Rows : outbox[r].kind = "fire_critical" =>
       /\ outbox[r].sequence = 2
       /\ \E q \in Rows : WarningOf(q, r) /\ outbox[q].sequence = 1
  /\ \A r \in Rows : outbox[r].kind = "fire_critical" /\ Sent(r) =>
       \E q \in Rows : WarningOf(q, r) /\ outbox[q].status \in Settled

\* Evaluation times only grow, so no row and no alert ends later than the
\* newest payload of its episode.
Evaluates(t) == thread[t].pc \in {"query", "hosts"}
TimeInv ==
  /\ 0 <= now
  /\ \A t \in Threads : Evaluates(t) =>
       /\ EvaluationTime(0) <= thread[t].eval /\ thread[t].eval <= EvaluationTime(now)
       /\ \A s \in ListActiveEpisodes : episode[s].updated <= thread[t].eval
  /\ \A s \in Signals : EvaluationTime(0) <= episode[s].updated
  /\ \A s \in ListActiveEpisodes : episode[s].updated <= EvaluationTime(now)
AlertInv ==
  /\ \A r \in Rows :
       /\ outbox[r].signal \in Signals
       /\ outbox[r].ends <= EndsAt(episode[outbox[r].signal].updated)
       /\ outbox[r].kind = "resolve" =>
            ~Active(outbox[r].signal) /\ outbox[r].ends = episode[outbox[r].signal].updated
  /\ \A a \in Alerts :
       IF a[1] \in Signals THEN alerts[a] <= EndsAt(episode[a[1]].updated)
                           ELSE alerts[a] = EvaluationTime(0)

Inv ==
  /\ TypeOK /\ OneActiveEpisode /\ MemoryInv /\ GateInv /\ OrderInv /\ TimeInv /\ AlertInv

-----------------------------------------------------------------------------
(* Without a failure *)

Refreshing == {"fire", "fire_critical", "heartbeat_refresh"}
AlertOf(r) == <<outbox[r].signal, outbox[r].severity, outbox[r].channel>>
\* The row that keeps an episode's alert firing; once it is settled the alert
\* lasts as long as the row says.
Carries(r, s) ==
  /\ outbox[r].signal = s /\ outbox[r].severity = episode[s].severity
  /\ outbox[r].ends = EndsAt(episode[s].updated)
  /\ outbox[r].kind \in Refreshing
  /\ outbox[r].status \in Settled => outbox[r].ends <= alerts[AlertOf(r)]

\* The daemon came up once with an empty store, and every cycle ran within its
\* tick.
CalmInv ==
  /\ torn = {} /\ proc # "down" /\ (proc = "booting" => episode = <<>> /\ outbox = <<>>)
  /\ \A t \in Busy : thread[t].eval = EvaluationTime(now)
  /\ \A t \in Threads : thread[t].pc \in {"claim", "post", "settle"} => thread[t].at = now
  /\ \A t \in Threads : thread[t].pc = "settle" => thread[t].outcome = "delivered"
\* Every drain empties the outbox, and what it has still to send is of this tick.
DrainInv ==
  /\ \A r \in Rows : outbox[r].status \in {"pending", "sending", "delivered"}
  /\ \A r \in Rows : outbox[r].status = "pending" => outbox[r].next <= now
  /\ \A r \in Rows : outbox[r].status = "sending" => \E t \in Threads : Holds(t) /\ thread[t].job = r
  /\ \A r \in Rows : outbox[r].status # "delivered" /\ outbox[r].kind \in Refreshing =>
       outbox[r].ends = EndsAt(EvaluationTime(now))
  /\ (\A t \in Threads : thread[t].pc \in {"idle", "query"}) =>
       \A r \in Rows : outbox[r].status = "delivered"
\* Outside an evaluation no episode is due, and each has a row that carries it.
KeptInv ==
  /\ \A r \in Rows : outbox[r].kind = "resolve_warning" /\ Active(outbox[r].signal) =>
       outbox[r].severity = "warning" /\ episode[outbox[r].signal].severity = "critical"
  /\ (\A t \in Threads : ~Evaluates(t)) =>
       \A s \in ListActiveEpisodes : EvaluationTime(now) - episode[s].updated < RefreshWindow
  /\ \A t \in Threads : thread[t].pc = "settle" /\ outbox[thread[t].job].kind \in Refreshing =>
       outbox[thread[t].job].ends <= alerts[AlertOf(thread[t].job)]
  /\ \A s \in ListActiveEpisodes \ flapped : \E r \in Rows : Carries(r, s)
SteadyInv == faults = 0 => CalmInv /\ DrainInv /\ KeptInv

-----------------------------------------------------------------------------
(* The state machine of a host *)

\* The window of a warning history is a warning history.
LEMMA WindowType ==
  ASSUME NEW h \in Seq(BOOLEAN)
  PROVE  Window(h) \in Seq(BOOLEAN)
<1>1. CASE Len(h) > WarningWindow
  <2>1. Len(h) \in Nat /\ WarningWindow \in Nat
    BY PolicyAssumption
  <2>2. SubSeq(h, Len(h) - WarningWindow + 1, Len(h)) \in Seq(BOOLEAN)
    BY <1>1, <2>1, SubSeqProperties, Z3
  <2> QED BY <1>1, <2>2 DEF Window
<1>2. CASE ~(Len(h) > WarningWindow)
  BY <1>2 DEF Window
<1> QED BY <1>1, <1>2

\* A new state machine, and one that has counted a score.
LEMMA NewLifeType == NewHostLifecycle \in Lifecycles /\ Sane(NewHostLifecycle)
<1>1. <<>> \in Seq(BOOLEAN)
  OBVIOUS
<1> QED BY <1>1 DEF NewHostLifecycle, Lifecycles, LifecycleStates, ActiveSeverities, Sane

LEMMA AboveWarningType ==
  ASSUME NEW score \in Nat
  PROVE  (score >= WarningThreshold) \in BOOLEAN
BY DEF WarningThreshold

LEMMA HistoryAppend ==
  ASSUME NEW h \in Seq(BOOLEAN), NEW b \in BOOLEAN
  PROVE  Append(h, b) \in Seq(BOOLEAN)
OBVIOUS

LEMMA CountedType ==
  ASSUME NEW l \in Lifecycles, NEW score \in Nat
  PROVE  LET c == Counted(l, score) IN
         /\ c \in Lifecycles
         /\ c.state = l.state /\ c.severity = l.severity /\ c.prior = l.prior
<1> DEFINE h == Window(Append(l.history, score >= WarningThreshold))
           x == IF score >= CriticalThreshold THEN l.critical + 1 ELSE 0
           y == IF score < RecoveryThreshold THEN l.recovery + 1 ELSE 0
<1>1. h \in Seq(BOOLEAN)
  <2>1. (score >= WarningThreshold) \in BOOLEAN
    BY AboveWarningType, Zenon
  <2>2. l.history \in Seq(BOOLEAN)
    BY DEF Lifecycles
  <2>3. Append(l.history, score >= WarningThreshold) \in Seq(BOOLEAN)
    BY <2>1, <2>2, HistoryAppend, Zenon
  <2> QED BY <2>3, WindowType, Zenon
<1>2. x \in Nat /\ y \in Nat
  <2>1. l.critical \in Nat /\ l.recovery \in Nat
    BY DEF Lifecycles
  <2>2. x \in Nat
    BY <2>1 DEF CriticalThreshold
  <2>3. y \in Nat
    BY <2>1 DEF RecoveryThreshold
  <2> QED BY <2>2, <2>3
<1>3. Counted(l, score) = [l EXCEPT !.history = h, !.critical = x, !.recovery = y]
  BY DEF Counted
<1> HIDE DEF h, x, y
<1> QED BY <1>1, <1>2, <1>3 DEF Lifecycles

\* What a score does to a state machine, by the action it asks for.
Moved(l, m, action) ==
  /\ m \in Lifecycles /\ Sane(m) /\ action \in LifecycleActions
  /\ action = "none" =>
       IF l.state \in Alerting
       THEN m.state = l.state /\ m.severity = l.severity
       ELSE m.state \notin Alerting
  /\ action \in Creates => l.state \notin Alerting /\ m.state = "firing"
  /\ action = "escalate_critical" =>
       l.state = "firing" /\ m.state = "firing" /\ l.severity = "warning" /\ m.severity = "critical"
  /\ action = "enter_recovering" =>
       l.state = "firing" /\ m.state = "recovering" /\ m.severity = l.severity
  /\ action = "return_to_firing" =>
       l.state = "recovering" /\ m.state = "firing" /\ m.severity = l.severity
  /\ action = "resolve" => l.state = "recovering" /\ m.state = "normal"

\* The records a score turns a state machine into.
LEMMA FiredUpdate ==
  ASSUME NEW c \in Lifecycles, NEW y \in ActiveSeverities
  PROVE  LET m == [c EXCEPT !.state = "firing", !.severity = y] IN
         m \in Lifecycles /\ m.state = "firing" /\ m.severity = y
BY DEF Lifecycles, LifecycleStates

LEMMA QuietUpdates ==
  ASSUME NEW c \in Lifecycles, NEW x \in LifecycleStates, NEW n \in Nat
  PROVE  /\ LET m == [c EXCEPT !.state = x, !.clear = n] IN m \in Lifecycles /\ m.state = x
         /\ LET m == [c EXCEPT !.clear = n] IN m \in Lifecycles /\ m.state = c.state
BY DEF Lifecycles

LEMMA LifeUpdates ==
  ASSUME NEW c \in Lifecycles
  PROVE  /\ LET m == [c EXCEPT !.severity = "critical"] IN
              m \in Lifecycles /\ m.state = c.state /\ m.severity = "critical"
         /\ LET m == [c EXCEPT !.state = "recovering", !.prior = c.severity] IN
              m \in Lifecycles /\ m.state = "recovering" /\ m.severity = c.severity /\ m.prior = c.severity
         /\ LET m == [c EXCEPT !.state = "normal", !.severity = "", !.prior = "", !.recovery = 0] IN
              m \in Lifecycles /\ m.state = "normal"
         /\ LET m == [c EXCEPT !.state = "firing", !.severity = c.prior, !.recovery = 0] IN
              m \in Lifecycles /\ m.state = "firing" /\ m.severity = c.prior
BY DEF Lifecycles, LifecycleStates, ActiveSeverities

\* A host that does not alert: it fires, or stays quiet.
LEMMA FireMoves ==
  ASSUME NEW c \in Lifecycles, c.state \in {"normal", "candidate"}, NEW y \in ActiveSeverities
  PROVE  Moved(c, Fire(c, y).life, Fire(c, y).action)
<1> DEFINE m == [c EXCEPT !.state = "firing", !.severity = y]
<1>1. Fire(c, y).life = m /\ Fire(c, y).action \in Creates
  BY DEF Fire, Result, Creates
<1>2. m \in Lifecycles /\ m.state = "firing" /\ m.severity = y
  BY FiredUpdate
<1> HIDE DEF m
<1> QED BY <1>1, <1>2 DEF Moved, Creates, LifecycleActions, Sane, Alerting

LEMMA QuietMoves ==
  ASSUME NEW c, NEW m \in Lifecycles, c.state \notin Alerting, m.state \notin Alerting
  PROVE  Moved(c, Quiet(m).life, Quiet(m).action)
BY DEF Moved, Quiet, Result, Creates, LifecycleActions, Sane, Alerting

LEMMA AdvanceMoves ==
  ASSUME NEW l \in Lifecycles, Sane(l), NEW score \in Nat
  PROVE  Moved(l, Advance(l, score).life, Advance(l, score).action)
<1> DEFINE c == Counted(l, score)
<1>0. /\ c \in Lifecycles /\ Sane(c)
      /\ c.state = l.state /\ c.severity = l.severity /\ c.prior = l.prior
  BY CountedType DEF Sane
<1>c. Advance(l, score) = CASE l.state = "normal" -> AdvanceNormal(c, score)
                            [] l.state = "candidate" -> AdvanceCandidate(c, score)
                            [] l.state = "firing" -> AdvanceFiring(c)
                            [] l.state = "recovering" -> AdvanceRecovering(c, score)
  BY DEF Advance
<1> HIDE DEF c
<1> SUFFICES Moved(c, Advance(l, score).life, Advance(l, score).action)
  BY <1>0 DEF Moved
<1>s. /\ "normal" \in LifecycleStates /\ "candidate" \in LifecycleStates
  BY DEF LifecycleStates
<1>1. CASE l.state = "normal"
  <2>1. Advance(l, score) = AdvanceNormal(c, score)
    BY <1>1, <1>c
  <2>2. CASE IsCritical(c)
    <3>1. Advance(l, score) = Fire(c, "critical")
      BY <2>1, <2>2 DEF AdvanceNormal
    <3> QED BY <1>0, <1>1, <3>1, FireMoves DEF ActiveSeverities
  <2>3. CASE ~IsCritical(c) /\ IsWarning(c)
    <3>1. Advance(l, score) = Fire(c, "warning")
      BY <2>1, <2>3 DEF AdvanceNormal
    <3> QED BY <1>0, <1>1, <3>1, FireMoves DEF ActiveSeverities
  <2>4. CASE ~IsCritical(c) /\ ~IsWarning(c)
    <3> DEFINE m == IF score >= CandidateThreshold
                    THEN [c EXCEPT !.state = "candidate", !.clear = 0] ELSE c
    <3>1. Advance(l, score) = Quiet(m)
      BY <2>1, <2>4 DEF AdvanceNormal
    <3>2. m \in Lifecycles /\ m.state \notin Alerting
      <4>1. LET d == [c EXCEPT !.state = "candidate", !.clear = 0] IN
            d \in Lifecycles /\ d.state = "candidate"
        BY <1>0, <1>s, QuietUpdates
      <4> QED BY <1>0, <1>1, <4>1 DEF Alerting
    <3> HIDE DEF m
    <3> QED BY <1>0, <1>1, <3>1, <3>2, QuietMoves DEF Alerting
  <2> QED BY <2>2, <2>3, <2>4
<1>2. CASE l.state = "candidate"
  <2>1. Advance(l, score) = AdvanceCandidate(c, score)
    BY <1>2, <1>c
  <2>2. CASE IsCritical(c)
    <3>1. Advance(l, score) = Fire(c, "critical")
      BY <2>1, <2>2 DEF AdvanceCandidate
    <3> QED BY <1>0, <1>2, <3>1, FireMoves DEF ActiveSeverities
  <2>3. CASE ~IsCritical(c) /\ IsWarning(c)
    <3>1. Advance(l, score) = Fire(c, "warning")
      BY <2>1, <2>3 DEF AdvanceCandidate
    <3> QED BY <1>0, <1>2, <3>1, FireMoves DEF ActiveSeverities
  <2>4. CASE ~IsCritical(c) /\ ~IsWarning(c)
    <3> DEFINE n == IF score < CandidateThreshold THEN c.clear + 1 ELSE 0
               m == IF n >= CandidateClearCycles
                    THEN [c EXCEPT !.state = "normal", !.clear = 0] ELSE [c EXCEPT !.clear = n]
    <3>1. Advance(l, score) = Quiet(m)
      BY <2>1, <2>4 DEF AdvanceCandidate
    <3>2. n \in Nat
      <4>1. c.clear \in Nat
        BY <1>0 DEF Lifecycles
      <4> QED BY <4>1 DEF CandidateThreshold
    <3> HIDE DEF n
    <3>3. m \in Lifecycles /\ m.state \notin Alerting
      <4>1. LET d == [c EXCEPT !.state = "normal", !.clear = 0] IN
            d \in Lifecycles /\ d.state = "normal"
        BY <1>0, <1>s, QuietUpdates
      <4>2. LET d == [c EXCEPT !.clear = n] IN d \in Lifecycles /\ d.state = c.state
        BY <1>0, <1>s, <3>2, QuietUpdates
      <4> QED BY <1>0, <1>2, <4>1, <4>2 DEF Alerting
    <3> HIDE DEF m
    <3> QED BY <1>0, <1>2, <3>1, <3>3, QuietMoves DEF Alerting
  <2> QED BY <2>2, <2>3, <2>4
<1>3. CASE l.state = "firing"
  <2>1. Advance(l, score) = AdvanceFiring(c)
    BY <1>3, <1>c
  <2>2. CASE c.severity = "warning" /\ IsCritical(c)
    <3>1. Advance(l, score) = Result([c EXCEPT !.severity = "critical"], "escalate_critical")
      BY <2>1, <2>2 DEF AdvanceFiring
    <3> DEFINE m == [c EXCEPT !.severity = "critical"]
    <3>2. m \in Lifecycles /\ m.state = c.state /\ m.severity = "critical"
      BY <1>0, LifeUpdates
    <3>3. Advance(l, score).life = m /\ Advance(l, score).action = "escalate_critical"
      BY <3>1 DEF Result
    <3> HIDE DEF m
    <3> QED BY <1>0, <1>3, <2>2, <3>2, <3>3
            DEF LifecycleActions, Creates, Alerting, Sane, Moved, ActiveSeverities
  <2>3. CASE ~(c.severity = "warning" /\ IsCritical(c)) /\ c.recovery >= 1
    <3>1. Advance(l, score) = Result([c EXCEPT !.state = "recovering", !.prior = c.severity],
                                     "enter_recovering")
      BY <2>1, <2>3 DEF AdvanceFiring
    <3> DEFINE m == [c EXCEPT !.state = "recovering", !.prior = c.severity]
    <3>2. m \in Lifecycles /\ m.state = "recovering" /\ m.severity = c.severity /\ m.prior = c.severity
      BY <1>0, LifeUpdates
    <3>3. Advance(l, score).life = m /\ Advance(l, score).action = "enter_recovering"
      BY <3>1 DEF Result
    <3> HIDE DEF m
    <3> QED BY <1>0, <1>3, <3>2, <3>3
            DEF LifecycleActions, Creates, Alerting, Sane, Moved
  <2>4. CASE ~(c.severity = "warning" /\ IsCritical(c)) /\ ~(c.recovery >= 1)
    <3>1. Advance(l, score).life = c /\ Advance(l, score).action = "none"
      BY <2>1, <2>4 DEF AdvanceFiring, Quiet, Result
    <3> QED BY <1>0, <1>3, <3>1 DEF LifecycleActions, Creates, Alerting, Sane, Moved
  <2> QED BY <2>2, <2>3, <2>4
<1>4. CASE l.state = "recovering"
  <2>0. c.recovery \in Nat /\ RecoveryCycles \in Nat
    BY <1>0, PolicyAssumption DEF Lifecycles
  <2>1. Advance(l, score) = AdvanceRecovering(c, score)
    BY <1>4, <1>c
  <2>2. CASE c.recovery >= RecoveryCycles
    <3>1. Advance(l, score) =
            Result([c EXCEPT !.state = "normal", !.severity = "", !.prior = "", !.recovery = 0],
                   "resolve")
      BY <2>0, <2>1, <2>2 DEF AdvanceRecovering
    <3> DEFINE m == [c EXCEPT !.state = "normal", !.severity = "", !.prior = "", !.recovery = 0]
    <3>2. m \in Lifecycles /\ m.state = "normal"
      BY <1>0, LifeUpdates
    <3>3. Advance(l, score).life = m /\ Advance(l, score).action = "resolve"
      BY <3>1 DEF Result
    <3> HIDE DEF m
    <3> QED BY <1>0, <1>4, <3>2, <3>3
            DEF LifecycleActions, Creates, Alerting, Sane, Moved
  <2>3. CASE c.recovery < RecoveryCycles /\ score >= RecoveryThreshold
    <3>1. Advance(l, score) =
            Result([c EXCEPT !.state = "firing", !.severity = c.prior, !.recovery = 0],
                   "return_to_firing")
      BY <2>0, <2>1, <2>3 DEF AdvanceRecovering
    <3> DEFINE m == [c EXCEPT !.state = "firing", !.severity = c.prior, !.recovery = 0]
    <3>2. m \in Lifecycles /\ m.state = "firing" /\ m.severity = c.prior
      BY <1>0, LifeUpdates
    <3>3. Advance(l, score).life = m /\ Advance(l, score).action = "return_to_firing"
      BY <3>1 DEF Result
    <3> HIDE DEF m
    <3> QED BY <1>0, <1>4, <3>2, <3>3
            DEF LifecycleActions, Creates, Alerting, Sane, Moved
  <2>4. CASE c.recovery < RecoveryCycles /\ ~(score >= RecoveryThreshold)
    <3>1. Advance(l, score).life = c /\ Advance(l, score).action = "none"
      BY <2>0, <2>1, <2>4 DEF AdvanceRecovering, Quiet, Result
    <3> QED BY <1>0, <1>4, <3>1 DEF LifecycleActions, Creates, Alerting, Sane, Moved
  <2> QED BY <2>0, <2>2, <2>3, <2>4
<1> QED BY <1>1, <1>2, <1>3, <1>4 DEF Lifecycles, LifecycleStates

-----------------------------------------------------------------------------
(* Evaluation times *)

\* A time rounded down to a multiple of i.
LEMMA RoundedDown ==
  ASSUME NEW x \in Int, NEW i \in Nat, i > 0
  PROVE  /\ x \div i \in Int /\ (x \div i) * i \in Int
         /\ (x \div i) * i <= x /\ x < (x \div i) * i + i
<1>1. x \div i \in Int
  OBVIOUS
<1>2. (x \div i) * i <= x /\ x < (x \div i) * i + i
  OBVIOUS
<1>3. \A q \in Int : q * i \in Int
  OBVIOUS
<1> QED BY <1>1, <1>2, <1>3

LEMMA MultiplesApart ==
  ASSUME NEW p \in Int, NEW q \in Int, NEW i \in Nat, i > 0, p > q
  PROVE  p * i >= q * i + i
OBVIOUS

\* Evaluation times are behind the clock, by less than the delay and a cycle,
\* and in its order.
LEMMA EvaluationTimes ==
  ASSUME NEW t \in Int, NEW u \in Int
  PROVE  /\ EvaluationTime(t) \in Int
         /\ EvaluationTime(t) <= t
         /\ t - EvaluationDelay - Interval < EvaluationTime(t)
         /\ t <= u => EvaluationTime(t) <= EvaluationTime(u)
<1> DEFINE x == t - EvaluationDelay
           y == u - EvaluationDelay
           p == x \div Interval
           q == y \div Interval
<1>0. EvaluationDelay \in Nat /\ Interval \in Nat /\ Interval > 0
  BY EngineAssumption
<1>1. x \in Int /\ y \in Int /\ x <= t /\ (t <= u => x <= y)
  BY <1>0
<1>2. p \in Int /\ p * Interval \in Int /\ p * Interval <= x /\ x < p * Interval + Interval
  BY <1>0, <1>1, RoundedDown
<1>3. q \in Int /\ q * Interval \in Int /\ q * Interval <= y /\ y < q * Interval + Interval
  BY <1>0, <1>1, RoundedDown
<1>4. EvaluationTime(t) = p * Interval /\ EvaluationTime(u) = q * Interval
  BY DEF EvaluationTime
<1>5. ASSUME p > q, t <= u PROVE FALSE
  <2>1. p * Interval >= q * Interval + Interval
    BY <1>0, <1>2, <1>3, <1>5, MultiplesApart
  <2> HIDE DEF x, y, p, q
  <2> QED BY <1>0, <1>1, <1>2, <1>3, <1>5, <2>1
<1>6. ASSUME p <= q PROVE p * Interval <= q * Interval
  <2> HIDE DEF x, y, p, q
  <2>1. CASE p = q
    BY <1>2, <2>1
  <2>2. CASE q > p
    <3>1. q * Interval >= p * Interval + Interval
      BY <1>0, <1>2, <1>3, <2>2, MultiplesApart
    <3> QED BY <1>0, <1>2, <1>3, <3>1
  <2> QED BY <1>2, <1>3, <1>6, <2>1, <2>2
<1> HIDE DEF x, y, p, q
<1>7. t - EvaluationDelay - Interval < EvaluationTime(t)
  BY <1>0, <1>1, <1>2, <1>4 DEF x
<1>8. EvaluationTime(t) <= t
  BY <1>0, <1>1, <1>2, <1>4
<1>9. t <= u => EvaluationTime(t) <= EvaluationTime(u)
  BY <1>2, <1>3, <1>4, <1>5, <1>6
<1> QED BY <1>2, <1>4, <1>7, <1>8, <1>9

-----------------------------------------------------------------------------
(* How a step changes the threads *)

\* Only thread t may change.
Only(t) ==
  /\ thread' \in [Threads -> Cycles]
  /\ \A u \in Threads : u # t => thread'[u] = thread[u]

\* Thread t goes on to a place with what it has.
Goes(t, place) ==
  /\ Only(t)
  /\ thread'[t].pc = place /\ thread'[t].eval = thread[t].eval
  /\ thread'[t].at = thread[t].at /\ thread'[t].job = thread[t].job

\* The indices of rows and episodes.
LEMMA Indices ==
  ASSUME TypeOK
  PROVE  /\ Rows = 1..Len(outbox) /\ Len(outbox) \in Nat /\ Rows \subseteq 0..MaxRows
         /\ Signals = 1..Len(episode) /\ Len(episode) \in Nat /\ Signals \subseteq SignalIds
         /\ \A r \in Rows : outbox[r] \in OutboxRows
         /\ \A s \in Signals : episode[s] \in Episodes
<1> USE EngineAssumption DEF TypeOK, Rows, Signals, SignalIds
<1>1. Rows = 1..Len(outbox) /\ Len(outbox) \in Nat /\ \A r \in Rows : outbox[r] \in OutboxRows
  OBVIOUS
<1>2. Signals = 1..Len(episode) /\ Len(episode) \in Nat /\ \A s \in Signals : episode[s] \in Episodes
  OBVIOUS
<1>3. MaxRows \in Nat /\ MaxSignals \in Nat /\ Len(outbox) <= MaxRows /\ Len(episode) <= MaxSignals
  OBVIOUS
<1> HIDE EngineAssumption DEF TypeOK, Rows, Signals
<1>4. Rows \subseteq 0..MaxRows
  BY <1>1, <1>3
<1>5. Signals \subseteq SignalIds
  BY <1>2, <1>3
<1> QED BY <1>1, <1>2, <1>4, <1>5

LEMMA NoCycleType == NoCycle \in Cycles
BY EngineAssumption DEF NoCycle, Cycles, Places, Outcomes

LEMMA ThreadGoes ==
  ASSUME TypeOK, NEW t \in Threads
  PROVE  /\ Abort(t) => Goes(t, "drain")
         /\ \A valid \in SUBSET Hosts :
              thread' = [thread EXCEPT ![t].pc = "hosts", ![t].todo = valid] => Goes(t, "hosts")
         /\ \A h \in Hosts : thread[t].pc = "hosts" /\ HostDone(t, h) => Goes(t, "hosts")
         /\ thread' = [thread EXCEPT ![t].pc = "drain"] => Goes(t, "drain")
<1> USE DEF TypeOK, Goes, Only, Cycles, Places
<1>0. ASSUME NEW place \in Places, NEW valid \in SUBSET Hosts,
             thread' = [thread EXCEPT ![t].pc = place, ![t].todo = valid]
      PROVE  Goes(t, place)
  BY <1>0
<1>1. ASSUME Abort(t) PROVE Goes(t, "drain")
  <2>1. {} \in SUBSET Hosts
    OBVIOUS
  <2> QED BY <1>0, <1>1, <2>1 DEF Abort
<1>2. ASSUME NEW valid \in SUBSET Hosts,
             thread' = [thread EXCEPT ![t].pc = "hosts", ![t].todo = valid]
      PROVE  Goes(t, "hosts")
  BY <1>0, <1>2
<1>3. ASSUME NEW h \in Hosts, thread[t].pc = "hosts", HostDone(t, h)
      PROVE  Goes(t, "hosts")
  BY <1>3 DEF HostDone
<1>4. ASSUME thread' = [thread EXCEPT ![t].pc = "drain"]
      PROVE  Goes(t, "drain")
  BY <1>4
<1> QED BY <1>1, <1>2, <1>3, <1>4

LEMMA ThreadDone ==
  ASSUME TypeOK, NEW t \in Threads, Done(t)
  PROVE  Only(t) /\ thread'[t].pc = "idle"
<1>1. thread'[t] = NoCycle
  BY DEF Done, TypeOK
<1> QED BY <1>1, NoCycleType DEF Done, Only, TypeOK, NoCycle

LEMMA ThreadDrains ==
  ASSUME TypeOK, NEW t \in Threads
  PROVE  /\ StartDrain(t) =>
              Only(t) /\ thread'[t].pc = "claim" /\ thread'[t].at = now
              /\ thread'[t].eval = thread[t].eval
         /\ \A r \in Rows : ClaimOutboxItem(t, r) =>
              Only(t) /\ thread'[t].pc = "post" /\ thread'[t].job = r
              /\ thread'[t].at = thread[t].at /\ thread'[t].eval = thread[t].eval
         /\ \A outcome \in Outcomes, arrived \in BOOLEAN : Post(t, outcome, arrived) =>
              Only(t) /\ thread'[t].pc = "settle" /\ thread'[t].job = thread[t].job
              /\ thread'[t].at = thread[t].at /\ thread'[t].eval = thread[t].eval
              /\ thread'[t].outcome = outcome
         /\ CompleteOutboxItem(t) =>
              Only(t) /\ thread'[t].pc = "claim"
              /\ thread'[t].at = thread[t].at /\ thread'[t].eval = thread[t].eval
<1> USE DEF TypeOK, Only, Cycles, Places
<1>1. ASSUME StartDrain(t)
      PROVE  Only(t) /\ thread'[t].pc = "claim" /\ thread'[t].at = now
             /\ thread'[t].eval = thread[t].eval
  BY <1>1 DEF StartDrain
<1>2. ASSUME NEW r \in Rows, ClaimOutboxItem(t, r)
      PROVE  Only(t) /\ thread'[t].pc = "post" /\ thread'[t].job = r
             /\ thread'[t].at = thread[t].at /\ thread'[t].eval = thread[t].eval
  <2>1. r \in 0..MaxRows
    BY Indices
  <2> QED BY <1>2, <2>1 DEF ClaimOutboxItem
<1>3. ASSUME NEW outcome \in Outcomes, NEW arrived \in BOOLEAN, Post(t, outcome, arrived)
      PROVE  Only(t) /\ thread'[t].pc = "settle" /\ thread'[t].job = thread[t].job
             /\ thread'[t].at = thread[t].at /\ thread'[t].eval = thread[t].eval
             /\ thread'[t].outcome = outcome
  BY <1>3 DEF Post
<1>4. ASSUME CompleteOutboxItem(t)
      PROVE  Only(t) /\ thread'[t].pc = "claim"
             /\ thread'[t].at = thread[t].at /\ thread'[t].eval = thread[t].eval
  <2>1. 0 \in 0..MaxRows
    BY EngineAssumption
  <2> QED BY <1>4, <2>1 DEF CompleteOutboxItem
<1> QED BY <1>1, <1>2, <1>3, <1>4

\* A tick starts a cycle only when none is running.
LEMMA ThreadTick ==
  ASSUME TypeOK, Tick
  PROVE  \/ UNCHANGED thread
         \/ /\ proc = "up" /\ GateFree
            /\ \E t \in Threads : Only(t) /\ thread'[t].pc = "query"
                                  /\ thread'[t].eval = EvaluationTime(now')
<1>1. ASSUME NEW t \in Threads,
             thread' = [thread EXCEPT ![t] =
                          [NoCycle EXCEPT !.pc = "query", !.eval = EvaluationTime(now')]]
      PROVE  Only(t) /\ thread'[t].pc = "query" /\ thread'[t].eval = EvaluationTime(now')
  <2>1. now' \in Int
    BY EngineAssumption DEF Tick, TypeOK
  <2>2. EvaluationTime(now') \in Int
    BY <2>1, EvaluationTimes
  <2> DEFINE c == [NoCycle EXCEPT !.pc = "query", !.eval = EvaluationTime(now')]
  <2>3. c \in Cycles /\ c.pc = "query" /\ c.eval = EvaluationTime(now')
    BY <2>2, NoCycleType DEF Cycles, Places
  <2> HIDE DEF c
  <2> QED BY <1>1, <2>3 DEF Only, TypeOK, c
<1> QED BY <1>1 DEF Tick

-----------------------------------------------------------------------------
(* How a step changes the store *)

\* Appending rows to the outbox.
LEMMA Concatenation ==
  ASSUME NEW S, NEW p \in Seq(S), NEW q \in Seq(S)
  PROVE  /\ p \o q \in Seq(S) /\ Len(p \o q) = Len(p) + Len(q)
         /\ DOMAIN p \subseteq DOMAIN (p \o q)
         /\ \A i \in DOMAIN p : (p \o q)[i] = p[i]
         /\ \A i \in DOMAIN (p \o q) : i \notin DOMAIN p => \E j \in DOMAIN q : (p \o q)[i] = q[j]
         /\ \A j \in DOMAIN q : \E i \in DOMAIN (p \o q) : i \notin DOMAIN p /\ (p \o q)[i] = q[j]
<1>1. /\ p \o q \in Seq(S) /\ Len(p \o q) = Len(p) + Len(q)
      /\ \A i \in 1..(Len(p) + Len(q)) :
           (p \o q)[i] = IF i <= Len(p) THEN p[i] ELSE q[i - Len(p)]
  BY ConcatProperties
<1>2. /\ DOMAIN p = 1..Len(p) /\ DOMAIN q = 1..Len(q) /\ DOMAIN (p \o q) = 1..(Len(p) + Len(q))
      /\ Len(p) \in Nat /\ Len(q) \in Nat
  BY <1>1
<1>3. \A i \in DOMAIN (p \o q) : i \notin DOMAIN p => i - Len(p) \in DOMAIN q /\ (p \o q)[i] = q[i - Len(p)]
  BY <1>1, <1>2
<1>4. ASSUME NEW j \in DOMAIN q
      PROVE  \E i \in DOMAIN (p \o q) : i \notin DOMAIN p /\ (p \o q)[i] = q[j]
  <2>1. /\ Len(p) + j \in DOMAIN (p \o q) /\ Len(p) + j \notin DOMAIN p
        /\ (Len(p) + j) - Len(p) = j
    BY <1>2
  <2> QED BY <1>3, <2>1
<1>5. DOMAIN p \subseteq DOMAIN (p \o q) /\ \A i \in DOMAIN p : (p \o q)[i] = p[i]
  BY <1>1, <1>2
<1> QED BY <1>1, <1>3, <1>4, <1>5

\* The rows there were stay; the others are the new ones.
Appends(new) ==
  /\ outbox' \in Seq(OutboxRows) /\ Len(outbox') <= MaxRows
  /\ Rows \subseteq Rows' /\ \A r \in Rows : outbox'[r] = outbox[r]
  /\ \A r \in Rows' : r \notin Rows => \E i \in DOMAIN new : outbox'[r] = new[i]
  /\ \A i \in DOMAIN new : \E r \in Rows' : r \notin Rows /\ outbox'[r] = new[i]

LEMMA Enqueued ==
  ASSUME TypeOK, NEW new \in Seq(OutboxRows), Enqueue(new)
  PROVE  Appends(new)
<1>1. outbox \in Seq(OutboxRows) /\ outbox' = outbox \o new /\ Len(outbox) + Len(new) <= MaxRows
  BY DEF TypeOK, Enqueue
<1> QED BY <1>1, Concatenation DEF Appends, Rows

LEMMA RowType ==
  ASSUME NEW s \in SignalIds, NEW revision \in Nat, NEW sequence \in {1, 2}, NEW kind \in OutboxKinds,
         NEW severity \in ActiveSeverities, NEW channel \in Channels, NEW ends \in Int, NEW next \in Int
  PROVE  Row(s, revision, sequence, kind, severity, channel, ends, next) \in OutboxRows
BY DEF Row, OutboxRows

\* An episode that is updated or created.
Stores(s, e) ==
  /\ episode' \in Seq(Episodes) /\ Len(episode') <= MaxSignals
  /\ Signals' = Signals \cup {s} /\ episode'[s] = e
  /\ \A u \in Signals : u # s => episode'[u] = episode[u]

LEMMA EpisodeUpdated ==
  ASSUME TypeOK, NEW s \in Signals, NEW e \in Episodes, episode' = [episode EXCEPT ![s] = e]
  PROVE  Stores(s, e)
<1>1. episode \in Seq(Episodes) /\ s \in DOMAIN episode
  BY DEF TypeOK, Signals
<1>2. episode' \in Seq(Episodes) /\ Len(episode') = Len(episode) /\ DOMAIN episode' = DOMAIN episode
  BY <1>1
<1>3. episode'[s] = e /\ \A u \in DOMAIN episode : u # s => episode'[u] = episode[u]
  BY <1>1
<1> QED BY <1>1, <1>2, <1>3 DEF Stores, Signals, TypeOK

LEMMA EpisodeCreated ==
  ASSUME TypeOK, NEW e \in Episodes, Len(episode) + 1 <= MaxSignals, episode' = Append(episode, e)
  PROVE  Stores(Len(episode) + 1, e) /\ Len(episode) + 1 \notin Signals /\ Len(episode) + 1 \in SignalIds
<1>1. episode \in Seq(Episodes) /\ Len(episode) \in Nat /\ DOMAIN episode = 1..Len(episode)
  BY DEF TypeOK
<1>2. /\ episode' \in Seq(Episodes) /\ Len(episode') = Len(episode) + 1
      /\ DOMAIN episode' = 1..(Len(episode) + 1)
  BY <1>1
<1>3. episode'[Len(episode) + 1] = e /\ \A u \in DOMAIN episode : episode'[u] = episode[u]
  BY <1>1
<1>4. /\ DOMAIN episode' = DOMAIN episode \cup {Len(episode) + 1}
      /\ Len(episode) + 1 \notin DOMAIN episode
      /\ Len(episode) + 1 \in 1..MaxSignals
  BY <1>1, <1>2, EngineAssumption
<1> QED BY <1>2, <1>3, <1>4 DEF Stores, Signals, SignalIds

LEMMA CountersType ==
  ASSUME NEW l \in Lifecycles
  PROVE  CountersOf(l) \in Counters
BY DEF CountersOf, Counters, Lifecycles

\* A notification of the version e of episode s.
Announcement(w, s, e) ==
  /\ w.signal = s /\ w.revision = e.revision /\ w.status = "pending" /\ w.next = e.updated
  /\ IF w.kind \in Refreshing THEN w.ends = EndsAt(e.updated) /\ w.severity = e.severity
                              ELSE w.ends = e.updated
  /\ w.kind = "resolve" => e.state = "resolved"
  /\ w.kind = "resolve_warning" => w.severity = "warning" /\ e.severity = "critical"
  /\ w.kind = "fire_critical" => w.sequence = 2

\* The transaction that makes e the version of episode s.
Transition(s, e) ==
  /\ e \in Episodes /\ Stores(s, e)
  /\ outbox' \in Seq(OutboxRows) /\ Len(outbox') <= MaxRows
  /\ Rows \subseteq Rows' /\ \A r \in Rows : outbox'[r] = outbox[r]
  /\ \A r \in Rows' : r \notin Rows =>
       /\ Announcement(outbox'[r], s, e)
       /\ outbox'[r].kind = "fire_critical" =>
            \E q \in Rows' : q \notin Rows /\ outbox'[q].kind = "resolve_warning" /\ outbox'[q].sequence = 1

\* It sends something that keeps the alert firing.
Refreshed == \E r \in Rows' : r \notin Rows /\ outbox'[r].kind \in Refreshing

LEMMA QuietTransition ==
  ASSUME TypeOK, NEW s, NEW e \in Episodes, Stores(s, e), Enqueue(<<>>)
  PROVE  Transition(s, e)
<1>1. Appends(<<>>)
  <2>1. <<>> \in Seq(OutboxRows)
    OBVIOUS
  <2> QED BY <2>1, Enqueued
<1>2. \A r \in Rows' : r \in Rows
  BY <1>1 DEF Appends
<1> QED BY <1>1, <1>2 DEF Transition, Appends

LEMMA LoudTransition ==
  ASSUME TypeOK, NEW s, NEW e \in Episodes, Stores(s, e), NEW w \in OutboxRows,
         Announcement(w, s, e), w.kind # "fire_critical", Enqueue(<<w>>)
  PROVE  Transition(s, e) /\ (w.kind \in Refreshing => Refreshed)
<1>1. <<w>> \in Seq(OutboxRows) /\ DOMAIN <<w>> = {1} /\ <<w>>[1] = w
  OBVIOUS
<1>2. Appends(<<w>>)
  BY <1>1, Enqueued
<1>3. /\ \A r \in Rows' : r \notin Rows => outbox'[r] = w
      /\ \E r \in Rows' : r \notin Rows /\ outbox'[r] = w
  BY <1>1, <1>2 DEF Appends
<1> QED BY <1>2, <1>3 DEF Transition, Appends, Refreshed

LEMMA DoubleTransition ==
  ASSUME TypeOK, NEW s, NEW e \in Episodes, Stores(s, e),
         NEW v \in OutboxRows, NEW w \in OutboxRows, Announcement(v, s, e), Announcement(w, s, e),
         v.kind = "resolve_warning", v.sequence = 1, w.kind = "fire_critical",
         Enqueue(<<v, w>>)
  PROVE  Transition(s, e) /\ Refreshed
<1>1. <<v, w>> \in Seq(OutboxRows) /\ DOMAIN <<v, w>> = {1, 2} /\ <<v, w>>[1] = v /\ <<v, w>>[2] = w
  OBVIOUS
<1>2. Appends(<<v, w>>)
  BY <1>1, Enqueued
<1>3. /\ \A r \in Rows' : r \notin Rows => outbox'[r] = v \/ outbox'[r] = w
      /\ \E r \in Rows' : r \notin Rows /\ outbox'[r] = v
      /\ \E r \in Rows' : r \notin Rows /\ outbox'[r] = w
  BY <1>1, <1>2 DEF Appends
<1> QED BY <1>2, <1>3 DEF Transition, Appends, Refreshed, Refreshing

-----------------------------------------------------------------------------
(* The transactions of the code *)

\* What persistTransition is called with.
LEMMA CreateWrites ==
  ASSUME TypeOK, NEW h \in Hosts, NEW l \in Lifecycles, l.severity \in ActiveSeverities,
         NEW channel \in Channels, NEW eval \in Int, Create(h, l, channel, eval)
  PROVE  \E s \in SignalIds, e \in Episodes :
           /\ s \notin Signals /\ Transition(s, e) /\ Refreshed
           /\ e.host = h /\ e.state = "firing" /\ e.severity = l.severity /\ e.updated = eval
<1> DEFINE s == Len(episode) + 1
           e == [host |-> h, state |-> "firing", severity |-> l.severity, updated |-> eval,
                 revision |-> 1, channel |-> channel, counters |-> CountersOf(l)]
           w == Row(s, 1, 1, "fire", l.severity, channel, EndsAt(eval), eval)
<1>1. e \in Episodes
  BY CountersType DEF Episodes, Alerting
<1>2. Stores(s, e) /\ s \notin Signals /\ s \in SignalIds
  BY <1>1, EpisodeCreated DEF Create
<1>3. EndsAt(eval) \in Int
  BY EngineAssumption DEF EndsAt
<1>4. w \in OutboxRows
  BY <1>2, <1>3, RowType DEF OutboxKinds
<1>5. Announcement(w, s, e) /\ w.kind = "fire"
  BY DEF Announcement, Row, Refreshing
<1>6. Enqueue(<<w>>)
  BY DEF Create
<1>7. e.host = h /\ e.state = "firing" /\ e.severity = l.severity /\ e.updated = eval
  OBVIOUS
<1> HIDE DEF s, e, w
<1>8. Transition(s, e) /\ Refreshed
  BY <1>1, <1>2, <1>4, <1>5, <1>6, LoudTransition DEF Refreshing
<1> QED BY <1>1, <1>2, <1>7, <1>8

\* What stays and what changes of an episode that is updated.
Updates(s, e, state, severity, updated) ==
  /\ Transition(s, e)
  /\ e.host = episode[s].host /\ e.state = state /\ e.severity = severity /\ e.updated = updated

LEMMA ChangedType ==
  ASSUME TypeOK, NEW s \in Signals, NEW l \in Lifecycles, l.state \in Alerting,
         NEW channel \in Channels, NEW eval \in Int
  PROVE  LET e == Changed(s, l, channel, eval) IN
         /\ e \in Episodes /\ e.host = episode[s].host /\ e.state = l.state
         /\ e.severity = l.severity /\ e.updated = eval
         /\ e.revision = episode[s].revision + 1 /\ e.revision \in Nat
<1> DEFINE rev == episode[s].revision + 1
           c == CountersOf(l)
<1>1. episode[s] \in Episodes
  BY Indices
<1>2. rev \in Nat
  <2>1. episode[s].revision \in Nat
    BY <1>1 DEF Episodes
  <2> QED BY <2>1
<1>3. c \in Counters
  BY CountersType
<1>4. l.severity \in ActiveSeverities \cup {""}
  BY DEF Lifecycles
<1>5. Changed(s, l, channel, eval) =
        [episode[s] EXCEPT !.state = l.state, !.severity = l.severity, !.updated = eval,
                           !.revision = rev, !.channel = channel, !.counters = c]
  BY DEF Changed
<1> HIDE DEF rev, c
<1>6. LET e == Changed(s, l, channel, eval) IN
      /\ e \in Episodes /\ e.host = episode[s].host /\ e.state = l.state
      /\ e.severity = l.severity /\ e.updated = eval /\ e.revision = rev
  BY <1>1, <1>2, <1>3, <1>4, <1>5 DEF Episodes
<1> QED BY <1>2, <1>6 DEF rev

LEMMA EscalateWrites ==
  ASSUME TypeOK, NEW s \in Signals, NEW l \in Lifecycles,
         l.state \in Alerting, l.severity = "critical",
         NEW channel \in Channels, NEW eval \in Int, Escalate(s, l, channel, eval)
  PROVE  \E e \in Episodes : Updates(s, e, episode[s].state, "critical", eval) /\ Refreshed
<1>w. PICK warning \in Channels :
        UpdateEpisode(s, [Changed(s, l, channel, eval) EXCEPT !.state = episode[s].state],
          <<Row(s, episode[s].revision + 1, 1, "resolve_warning", "warning", warning, eval, eval),
            Row(s, episode[s].revision + 1, 2, "fire_critical", "critical", channel, EndsAt(eval), eval)>>)
  BY DEF Escalate
<1> DEFINE e == [Changed(s, l, channel, eval) EXCEPT !.state = episode[s].state]
           rev == episode[s].revision + 1
           v == Row(s, rev, 1, "resolve_warning", "warning", warning, eval, eval)
           w == Row(s, rev, 2, "fire_critical", "critical", channel, EndsAt(eval), eval)
<1>0. episode[s] \in Episodes /\ s \in SignalIds
  BY Indices
<1>1. /\ e \in Episodes /\ e.host = episode[s].host /\ e.state = episode[s].state
      /\ e.severity = "critical" /\ e.updated = eval /\ e.revision = rev /\ rev \in Nat
  <2> DEFINE c == Changed(s, l, channel, eval)
  <2>1. /\ c \in Episodes /\ c.host = episode[s].host /\ c.severity = "critical"
        /\ c.updated = eval /\ c.revision = rev /\ rev \in Nat
    BY ChangedType
  <2>2. episode[s].state \in Alerting \cup {"resolved"}
    BY <1>0 DEF Episodes
  <2> HIDE DEF c, rev
  <2>3. e = [c EXCEPT !.state = episode[s].state]
    BY DEF c
  <2> HIDE DEF e
  <2> QED BY <2>1, <2>2, <2>3 DEF Episodes
<1>2. EndsAt(eval) \in Int
  BY EngineAssumption DEF EndsAt
<1>3. v \in OutboxRows /\ w \in OutboxRows
  BY <1>0, <1>1, <1>2, RowType DEF OutboxKinds, ActiveSeverities
<1>4. Enqueue(<<v, w>>) /\ episode' = [episode EXCEPT ![s] = e]
  BY <1>w DEF UpdateEpisode
<1> HIDE DEF e, rev
<1>5. Announcement(v, s, e) /\ v.kind = "resolve_warning" /\ v.sequence = 1
  BY <1>1 DEF Announcement, Row, Refreshing
<1>6. Announcement(w, s, e) /\ w.kind = "fire_critical"
  BY <1>1 DEF Announcement, Row, Refreshing
<1>7. Stores(s, e)
  BY <1>1, <1>4, EpisodeUpdated
<1> HIDE DEF v, w
<1>8. Transition(s, e) /\ Refreshed
  BY <1>1, <1>3, <1>4, <1>5, <1>6, <1>7, DoubleTransition
<1> QED BY <1>1, <1>8 DEF Updates

LEMMA RecoverWrites ==
  ASSUME TypeOK, NEW s \in Signals, NEW l \in Lifecycles, l.state \in Alerting,
         NEW channel \in Channels, NEW eval \in Int, Recover(s, l, channel, eval)
  PROVE  \E e \in Episodes : Updates(s, e, l.state, l.severity, eval)
<1> DEFINE e == Changed(s, l, channel, eval)
<1>0. episode[s] \in Episodes /\ s \in SignalIds
  BY Indices
<1>1. /\ e \in Episodes /\ e.host = episode[s].host /\ e.state = l.state
      /\ e.severity = l.severity /\ e.updated = eval
  BY ChangedType
<1>2. Enqueue(<<>>) /\ episode' = [episode EXCEPT ![s] = e]
  BY DEF Recover, UpdateEpisode
<1> HIDE DEF e
<1>3. Stores(s, e)
  BY <1>1, <1>2, EpisodeUpdated
<1> QED BY <1>1, <1>2, <1>3, QuietTransition DEF Updates

\* Resolve and reconcileUnrestorableEpisode write the same.
LEMMA ResolveWrites ==
  ASSUME TypeOK, NEW s \in Signals, episode[s].severity \in ActiveSeverities,
         NEW l \in Lifecycles, NEW at \in Int,
         UpdateEpisode(s,
           [episode[s] EXCEPT !.state = "resolved", !.severity = "", !.updated = at,
                              !.revision = @ + 1, !.counters = CountersOf(l)],
           <<Row(s, episode[s].revision + 1, 1, "resolve", episode[s].severity,
                 episode[s].channel, at, at)>>)
  PROVE  \E e \in Episodes : Updates(s, e, "resolved", "", at)
<1> DEFINE e == [episode[s] EXCEPT !.state = "resolved", !.severity = "", !.updated = at,
                                   !.revision = @ + 1, !.counters = CountersOf(l)]
           rev == episode[s].revision + 1
           w == Row(s, rev, 1, "resolve", episode[s].severity, episode[s].channel, at, at)
<1>0. episode[s] \in Episodes /\ s \in SignalIds
  BY Indices
<1>1. /\ e \in Episodes /\ e.host = episode[s].host /\ e.state = "resolved"
      /\ e.severity = "" /\ e.updated = at /\ e.revision = rev /\ rev \in Nat
  <2> DEFINE c == CountersOf(l)
  <2>1. episode[s].revision \in Nat
    BY <1>0 DEF Episodes
  <2>2. rev \in Nat /\ c \in Counters
    BY <2>1, CountersType
  <2>3. e = [episode[s] EXCEPT !.state = "resolved", !.severity = "", !.updated = at,
                               !.revision = rev, !.counters = c]
    OBVIOUS
  <2> HIDE DEF c, rev, e
  <2> QED BY <1>0, <2>2, <2>3 DEF Episodes
<1>2. episode[s].channel \in Channels
  BY <1>0 DEF Episodes
<1>3. w \in OutboxRows
  BY <1>0, <1>1, <1>2, RowType DEF OutboxKinds
<1>4. Enqueue(<<w>>) /\ episode' = [episode EXCEPT ![s] = e]
  BY DEF UpdateEpisode
<1> HIDE DEF e, rev
<1>5. Announcement(w, s, e) /\ w.kind = "resolve"
  BY <1>1 DEF Announcement, Row, Refreshing
<1>6. Stores(s, e)
  BY <1>1, <1>4, EpisodeUpdated
<1> HIDE DEF w
<1>7. Transition(s, e)
  BY <1>1, <1>3, <1>4, <1>5, <1>6, LoudTransition
<1> QED BY <1>1, <1>7 DEF Updates

LEMMA HeartbeatWrites ==
  ASSUME TypeOK, NEW s \in Signals, episode[s].severity \in ActiveSeverities, NEW t \in Threads,
         Heartbeat(t, s)
  PROVE  \E e \in Episodes :
           Updates(s, e, episode[s].state, episode[s].severity, thread[t].eval) /\ Refreshed
<1> DEFINE eval == thread[t].eval
           rev == episode[s].revision + 1
           e == [episode[s] EXCEPT !.updated = eval, !.revision = rev,
                                   !.counters = CountersOf(life[episode[s].host])]
           w == Row(s, rev, 1, "heartbeat_refresh", episode[s].severity, episode[s].channel,
                    EndsAt(eval), eval)
<1>0. episode[s] \in Episodes /\ s \in SignalIds
  BY Indices
<1>1. /\ life[episode[s].host] \in Lifecycles /\ episode[s].channel \in Channels
      /\ eval \in Int /\ rev \in Nat
  <2>1. episode[s].host \in Hosts
    BY <1>0 DEF Episodes
  <2>2. life[episode[s].host] \in Lifecycles
    BY <2>1 DEF TypeOK
  <2>3. eval \in Int
    BY DEF TypeOK, Cycles
  <2>4. episode[s].revision \in Nat /\ episode[s].channel \in Channels
    BY <1>0 DEF Episodes
  <2> QED BY <2>2, <2>3, <2>4
<1>2. Enqueue(<<w>>) /\ episode' = [episode EXCEPT ![s] = e]
  BY DEF Heartbeat, UpdateEpisode
<1>3. CountersOf(life[episode[s].host]) \in Counters
  BY <1>1, CountersType
<1> HIDE DEF eval, rev
<1>4. /\ e \in Episodes /\ e.host = episode[s].host /\ e.state = episode[s].state
      /\ e.severity = episode[s].severity /\ e.updated = eval /\ e.revision = rev
  BY <1>0, <1>1, <1>3 DEF Episodes
<1>5. EndsAt(eval) \in Int
  BY <1>1, EngineAssumption DEF EndsAt
<1>6. w \in OutboxRows
  BY <1>0, <1>1, <1>5, RowType DEF OutboxKinds
<1> HIDE DEF e
<1>7. Announcement(w, s, e) /\ w.kind = "heartbeat_refresh"
  BY <1>4 DEF Announcement, Row, Refreshing
<1>8. Stores(s, e)
  BY <1>2, <1>4, EpisodeUpdated
<1> HIDE DEF w
<1>9. Transition(s, e) /\ Refreshed
  BY <1>2, <1>4, <1>6, <1>7, <1>8, LoudTransition DEF Refreshing
<1> QED BY <1>4, <1>9 DEF Updates, eval

\* Row r is claimed or settled: nothing of its content changes.
Restamps(r, status) ==
  /\ outbox' \in Seq(OutboxRows) /\ Len(outbox') = Len(outbox) /\ Rows' = Rows
  /\ \A q \in Rows : q # r => outbox'[q] = outbox[q]
  /\ \A f \in {"signal", "revision", "sequence", "kind", "severity", "channel", "ends"} :
       outbox'[r][f] = outbox[r][f]
  /\ outbox'[r].status = status

LEMMA BackoffType == \A n \in Nat \ {0} : OutboxBackoff(n) \in Nat
<1> SUFFICES ASSUME NEW n \in Nat \ {0} PROVE OutboxBackoff(n) \in Nat
  OBVIOUS
<1>1. Backoffs \in Seq(Nat) /\ Len(Backoffs) \in Nat /\ Len(Backoffs) > 0 /\ DOMAIN Backoffs = 1..Len(Backoffs)
  BY EngineAssumption
<1>2. (IF n < Len(Backoffs) THEN n ELSE Len(Backoffs)) \in DOMAIN Backoffs
  BY <1>1
<1> QED BY <1>1, <1>2 DEF OutboxBackoff

LEMMA RowUpdated ==
  ASSUME TypeOK, NEW r \in Rows, NEW w \in OutboxRows, outbox' = [outbox EXCEPT ![r] = w],
         \A f \in {"signal", "revision", "sequence", "kind", "severity", "channel", "ends"} :
           w[f] = outbox[r][f]
  PROVE  Restamps(r, w.status) /\ outbox'[r] = w
<1>1. outbox \in Seq(OutboxRows) /\ r \in DOMAIN outbox
  BY DEF TypeOK, Rows
<1>2. outbox' \in Seq(OutboxRows) /\ Len(outbox') = Len(outbox) /\ DOMAIN outbox' = DOMAIN outbox
  BY <1>1
<1>3. outbox'[r] = w /\ \A q \in DOMAIN outbox : q # r => outbox'[q] = outbox[q]
  BY <1>1
<1> QED BY <1>2, <1>3 DEF Restamps, Rows

LEMMA ClaimStamps ==
  ASSUME TypeOK, NEW t \in Threads, NEW r \in Rows, ClaimOutboxItem(t, r)
  PROVE  Restamps(r, "sending")
<1> DEFINE n == thread[t].at + LeaseDuration
           w == [outbox[r] EXCEPT !.status = "sending", !.lease = n]
<1>1. outbox[r] \in OutboxRows
  BY Indices
<1>2. n \in Int
  <2>1. thread[t].at \in Int
    BY DEF TypeOK, Cycles
  <2> QED BY <2>1, EngineAssumption
<1>3. outbox' = [outbox EXCEPT ![r] = w]
  BY DEF ClaimOutboxItem
<1> HIDE DEF n
<1>4. /\ w \in OutboxRows /\ w.status = "sending"
      /\ \A f \in {"signal", "revision", "sequence", "kind", "severity", "channel", "ends"} :
           w[f] = outbox[r][f]
  BY <1>1, <1>2 DEF OutboxRows
<1> HIDE DEF w
<1> QED BY <1>3, <1>4, RowUpdated

LEMMA CompleteStamps ==
  ASSUME TypeOK, GateInv, NEW t \in Threads, CompleteOutboxItem(t)
  PROVE  LET r == thread[t].job IN
         /\ r \in Rows /\ Holds(t) /\ outbox[r].status = "sending" /\ r \in posted
         /\ Restamps(r, IF thread[t].outcome = "retry" THEN "pending" ELSE thread[t].outcome)
<1> DEFINE r == thread[t].job
           n == outbox[r].attempts + 1
           next == thread[t].at + OutboxBackoff(n)
           v == [outbox[r] EXCEPT !.status = "pending", !.attempts = n, !.next = next]
           w == [outbox[r] EXCEPT !.status = thread[t].outcome]
           Same(x) == \A f \in {"signal", "revision", "sequence", "kind", "severity", "channel", "ends"} :
                        x[f] = outbox[r][f]
<1>1. r \in Rows /\ Holds(t) /\ outbox[r].status = "sending" /\ r \in posted
  BY DEF CompleteOutboxItem, GateInv, Holds
<1>2. outbox[r] \in OutboxRows /\ thread[t] \in Cycles
  BY <1>1, Indices DEF TypeOK
<1>3. CASE thread[t].outcome = "retry"
  <2>1. n \in Nat \ {0}
    <3>1. outbox[r].attempts \in Nat
      BY <1>2 DEF OutboxRows
    <3> QED BY <3>1
  <2>2. next \in Int
    <3>1. thread[t].at \in Int /\ OutboxBackoff(n) \in Nat
      BY <1>2, <2>1, BackoffType DEF Cycles
    <3> QED BY <3>1
  <2>3. outbox' = [outbox EXCEPT ![r] = v]
    BY <1>3 DEF CompleteOutboxItem
  <2> HIDE DEF n, next, r
  <2>4. v \in OutboxRows /\ v.status = "pending" /\ Same(v)
    BY <1>2, <2>1, <2>2 DEF OutboxRows
  <2> HIDE DEF v
  <2>5. Restamps(r, "pending")
    BY <1>1, <2>3, <2>4, RowUpdated
  <2> QED BY <1>1, <1>3, <2>5 DEF r
<1>4. CASE thread[t].outcome # "retry"
  <2>1. thread[t].outcome \in Settled
    BY <1>2, <1>4 DEF Cycles, Outcomes, Settled
  <2>2. outbox' = [outbox EXCEPT ![r] = w]
    BY <1>4 DEF CompleteOutboxItem
  <2>3. w \in OutboxRows /\ w.status = thread[t].outcome /\ Same(w)
    BY <1>2, <2>1 DEF OutboxRows
  <2> HIDE DEF w
  <2>4. Restamps(r, thread[t].outcome)
    BY <1>1, <2>2, <2>3, RowUpdated
  <2> QED BY <1>1, <1>4, <2>4
<1> QED BY <1>3, <1>4

-----------------------------------------------------------------------------
(* The kinds of steps *)

\* A transaction about one episode, at a time.
Rewrites(s, e, at) ==
  /\ s \in SignalIds /\ e \in Episodes /\ Transition(s, e) /\ e.updated = at
  /\ IF s \in Signals THEN Active(s) /\ e.host = episode[s].host
                      ELSE ActiveOf(e.host) = {}
  /\ e.state # "resolved" => e.severity \in ActiveSeverities

\* A step of a cycle outside the store and the outbox.
Local(t) ==
  /\ proc = "up" /\ thread[t].pc # "idle"
  /\ UNCHANGED <<now, proc, unread, episode, outbox, alerts, posted, flapped>>
  /\ Only(t) /\ ~Holds(t)'
  /\ Evaluates(t)' => Evaluates(t) /\ thread'[t].eval = thread[t].eval

\* A step of a cycle that publishes.
Writing(t, s, e) ==
  /\ proc = "up" /\ thread[t].pc = "hosts" /\ thread'[t].pc = "hosts"
  /\ UNCHANGED <<now, proc, unread, alerts, posted>>
  /\ Only(t) /\ thread'[t].eval = thread[t].eval
  /\ Rewrites(s, e, thread[t].eval)

\* What the transition that a score asks for writes.
Published(h, l, m, action, eval) ==
  \/ /\ action \in Creates /\ ActiveOf(h) = {} /\ UNCHANGED flapped
     /\ \E s \in SignalIds, e \in Episodes :
          /\ s \notin Signals /\ Transition(s, e) /\ Refreshed
          /\ e.host = h /\ e.state = "firing" /\ e.severity = m.severity /\ e.updated = eval
  \/ /\ action = "escalate_critical" /\ UNCHANGED flapped
     /\ \E s \in ActiveOf(h), e \in Episodes :
          Updates(s, e, episode[s].state, "critical", eval) /\ Refreshed
  \/ /\ action \in {"enter_recovering", "return_to_firing"}
     /\ \E s \in ActiveOf(h), e \in Episodes :
          Updates(s, e, m.state, m.severity, eval) /\ flapped' = flapped \cup {s}
  \/ /\ action = "resolve" /\ UNCHANGED flapped
     /\ \E s \in ActiveOf(h), e \in Episodes : Updates(s, e, "resolved", "", eval)

LEMMA ActiveFacts ==
  ASSUME MemoryInv, NEW h, NEW s \in ActiveOf(h)
  PROVE  /\ s \in Signals /\ Active(s) /\ episode[s].host = h
         /\ episode[s].severity \in ActiveSeverities
BY DEF MemoryInv, ActiveOf, ListActiveEpisodes

LEMMA PublishFacts ==
  ASSUME TypeOK, MemoryInv, NEW t \in Threads, NEW h \in Hosts, NEW score \in Scores,
         NEW channel \in Channels, Publish(t, h, score, channel)
  PROVE  LET m == Advance(life[h], score).life
             action == Advance(life[h], score).action IN
         /\ Moved(life[h], m, action) /\ Published(h, life[h], m, action, thread[t].eval)
         /\ life' = [life EXCEPT ![h] = m]
<1> DEFINE m == Advance(life[h], score).life
           action == Advance(life[h], score).action
           eval == thread[t].eval
<1>1. Moved(life[h], m, action)
  <2>1. life[h] \in Lifecycles /\ Sane(life[h]) /\ score \in Nat
    BY EngineAssumption DEF TypeOK, MemoryInv
  <2> QED BY <2>1, AdvanceMoves
<1>2. eval \in Int
  BY DEF TypeOK, Cycles
<1>3. /\ Committable(h, action) /\ life' = [life EXCEPT ![h] = m]
      /\ \/ action \in Creates /\ Create(h, m, channel, eval)
         \/ action = "escalate_critical" /\ \E s \in ActiveOf(h) : Escalate(s, m, channel, eval)
         \/ action \in {"enter_recovering", "return_to_firing"}
            /\ \E s \in ActiveOf(h) : Recover(s, m, channel, eval)
         \/ action = "resolve" /\ \E s \in ActiveOf(h) : Resolve(s, m, eval)
  BY DEF Publish
<1> HIDE DEF m, action, eval
<1>4. m \in Lifecycles /\ Sane(m)
  BY <1>1 DEF Moved
<1>5. ASSUME action \in Creates /\ Create(h, m, channel, eval)
      PROVE  Published(h, life[h], m, action, eval)
  <2>1. ActiveOf(h) = {} /\ UNCHANGED flapped
    BY <1>3, <1>5 DEF Committable, Create
  <2>2. m.severity \in ActiveSeverities
    BY <1>1, <1>5 DEF Moved, Sane
  <2> QED BY <1>2, <1>4, <1>5, <2>1, <2>2, CreateWrites DEF Published
<1>6. ASSUME action = "escalate_critical" /\ \E s \in ActiveOf(h) : Escalate(s, m, channel, eval)
      PROVE  Published(h, life[h], m, action, eval)
  <2>1. PICK s \in ActiveOf(h) : Escalate(s, m, channel, eval)
    BY <1>6
  <2>2. m.state \in Alerting /\ m.severity = "critical"
    BY <1>1, <1>6 DEF Moved, Alerting
  <2>3. UNCHANGED flapped
    BY <2>1 DEF Escalate
  <2> QED BY <1>2, <1>4, <1>6, <2>1, <2>2, <2>3, ActiveFacts, EscalateWrites DEF Published
<1>7. ASSUME /\ action \in {"enter_recovering", "return_to_firing"}
             /\ \E s \in ActiveOf(h) : Recover(s, m, channel, eval)
      PROVE  Published(h, life[h], m, action, eval)
  <2>1. PICK s \in ActiveOf(h) : Recover(s, m, channel, eval)
    BY <1>7
  <2>2. m.state \in Alerting
    BY <1>1, <1>7 DEF Moved, Alerting
  <2>3. flapped' = flapped \cup {s}
    BY <2>1 DEF Recover
  <2> QED BY <1>2, <1>4, <1>7, <2>1, <2>2, <2>3, ActiveFacts, RecoverWrites DEF Published
<1>8. ASSUME action = "resolve" /\ \E s \in ActiveOf(h) : Resolve(s, m, eval)
      PROVE  Published(h, life[h], m, action, eval)
  <2>1. PICK s \in ActiveOf(h) : Resolve(s, m, eval)
    BY <1>8
  <2>2. s \in Signals /\ episode[s].severity \in ActiveSeverities
    BY ActiveFacts
  <2>3. \E e \in Episodes : Updates(s, e, "resolved", "", eval)
    BY <1>2, <1>4, <2>1, <2>2, ResolveWrites DEF Resolve
  <2>4. UNCHANGED flapped
    BY <2>1 DEF Resolve
  <2> QED BY <1>8, <2>3, <2>4 DEF Published
<1>9. Published(h, life[h], m, action, eval)
  BY <1>3, <1>5, <1>6, <1>7, <1>8
<1> QED BY <1>1, <1>3, <1>9 DEF m, action, eval

LEMMA PublishWrites ==
  ASSUME TypeOK, MemoryInv, NEW t \in Threads, NEW h \in Hosts, NEW score \in Scores,
         NEW channel \in Channels, Publish(t, h, score, channel)
  PROVE  \E s, e : Writing(t, s, e)
<1> DEFINE m == Advance(life[h], score).life
           action == Advance(life[h], score).action
           eval == thread[t].eval
<1>1. Moved(life[h], m, action) /\ Published(h, life[h], m, action, eval)
  BY PublishFacts
<1>2. /\ proc = "up" /\ thread[t].pc = "hosts" /\ Goes(t, "hosts")
      /\ UNCHANGED <<now, proc, unread, alerts, posted>>
  BY ThreadGoes DEF Publish, Turn
<1> HIDE DEF m, action, eval
<1>3. ASSUME NEW s \in ActiveOf(h), NEW e \in Episodes, NEW x, NEW y,
             Updates(s, e, x, y, eval), x # "resolved" => y \in ActiveSeverities
      PROVE  Rewrites(s, e, eval)
  BY <1>3, ActiveFacts, Indices DEF Rewrites, Updates
<1>4. \E s, e : Rewrites(s, e, eval)
  <2>1. ASSUME NEW s \in SignalIds, NEW e \in Episodes, s \notin Signals, Transition(s, e),
               ActiveOf(h) = {}, action \in Creates,
               e.host = h, e.state = "firing", e.severity = m.severity, e.updated = eval
        PROVE  Rewrites(s, e, eval)
    BY <1>1, <2>1 DEF Rewrites, Moved, Sane
  <2>2. ASSUME NEW s \in ActiveOf(h), NEW e \in Episodes,
               Updates(s, e, episode[s].state, "critical", eval)
        PROVE  Rewrites(s, e, eval)
    BY <1>3, <2>2 DEF ActiveSeverities
  <2>3. ASSUME NEW s \in ActiveOf(h), NEW e \in Episodes,
               action \in {"enter_recovering", "return_to_firing"},
               Updates(s, e, m.state, m.severity, eval)
        PROVE  Rewrites(s, e, eval)
    <3>1. m.severity \in ActiveSeverities
      BY <1>1, <2>3 DEF Moved, Sane
    <3> QED BY <1>3, <2>3, <3>1
  <2>4. ASSUME NEW s \in ActiveOf(h), NEW e \in Episodes, Updates(s, e, "resolved", "", eval)
        PROVE  Rewrites(s, e, eval)
    BY <1>3, <2>4
  <2> QED BY <1>1, <2>1, <2>2, <2>3, <2>4 DEF Published
<1> QED BY <1>2, <1>4 DEF Writing, Goes, eval

LEMMA HeartbeatWriting ==
  ASSUME TypeOK, MemoryInv, NEW t \in Threads, NEW s \in Signals, Heartbeat(t, s)
  PROVE  \E e : Writing(t, s, e)
<1>1. s \in ListActiveEpisodes
  BY DEF Heartbeat, RefreshDue
<1>2. Active(s) /\ episode[s].severity \in ActiveSeverities /\ s \in SignalIds
  BY <1>1, Indices DEF MemoryInv, ListActiveEpisodes
<1>3. PICK e \in Episodes : Updates(s, e, episode[s].state, episode[s].severity, thread[t].eval)
  BY <1>2, HeartbeatWrites
<1>4. Rewrites(s, e, thread[t].eval)
  BY <1>2, <1>3 DEF Rewrites, Updates
<1> QED BY <1>4 DEF Writing, Heartbeat, AtRefresh, Only, TypeOK

LEMMA ReconcileWrites ==
  ASSUME TypeOK, MemoryInv, NEW s \in Signals, ReconcileUnrestorable(s)
  PROVE  \E e \in Episodes : Rewrites(s, e, now) /\ e.state = "resolved"
<1>1. s \in ListActiveEpisodes
  BY DEF ReconcileUnrestorable, NextUnread, MemoryInv
<1>2. Active(s) /\ episode[s].severity \in ActiveSeverities /\ s \in SignalIds
  BY <1>1, Indices DEF MemoryInv, ListActiveEpisodes
<1>3. now \in Int /\ NewHostLifecycle \in Lifecycles
  BY NewLifeType DEF TypeOK
<1>4. PICK e \in Episodes : Updates(s, e, "resolved", "", now)
  BY <1>2, <1>3, ResolveWrites DEF ReconcileUnrestorable
<1> QED BY <1>2, <1>4 DEF Rewrites, Updates

LEMMA LocalSteps ==
  ASSUME TypeOK, NEW t \in Threads,
         \/ \E valid \in SUBSET Hosts : Query(t, valid)
         \/ QueryFails(t)
         \/ \E h \in Hosts, score \in Scores : AdvanceQuietly(t, h, score) \/ PublishFails(t, h, score)
         \/ HeartbeatFails(t) \/ EndRunCycle(t) \/ StartDrain(t) \/ EndCycle(t) \/ CompleteFails(t)
  PROVE  Local(t)
<1> USE DEF Holds, Evaluates
<1>1. ASSUME NEW valid \in SUBSET Hosts, Query(t, valid) PROVE Local(t)
  BY <1>1, ThreadGoes DEF Local, Query, Goes
<1>2. ASSUME QueryFails(t) PROVE Local(t)
  BY <1>2, ThreadGoes DEF Local, QueryFails, Goes
<1>3. ASSUME NEW h \in Hosts, NEW score \in Scores, AdvanceQuietly(t, h, score) PROVE Local(t)
  BY <1>3, ThreadGoes DEF Local, AdvanceQuietly, Turn, Goes
<1>4. ASSUME NEW h \in Hosts, NEW score \in Scores, PublishFails(t, h, score) PROVE Local(t)
  BY <1>4, ThreadGoes DEF Local, PublishFails, Turn, Goes
<1>5. ASSUME HeartbeatFails(t) PROVE Local(t)
  BY <1>5, ThreadGoes DEF Local, HeartbeatFails, AtRefresh, Goes
<1>6. ASSUME EndRunCycle(t) PROVE Local(t)
  BY <1>6, ThreadGoes DEF Local, EndRunCycle, AtRefresh, Goes
<1>7. ASSUME StartDrain(t) PROVE Local(t)
  BY <1>7, ThreadDrains DEF Local, StartDrain
<1>8. ASSUME EndCycle(t) PROVE Local(t)
  BY <1>8, ThreadDone DEF Local, EndCycle
<1>9. ASSUME CompleteFails(t) PROVE Local(t)
  BY <1>9, ThreadDone DEF Local, CompleteFails
<1> QED BY <1>1, <1>2, <1>3, <1>4, <1>5, <1>6, <1>7, <1>8, <1>9

\* Every step is one of these.
LEMMA StepKinds ==
  ASSUME TypeOK, MemoryInv, Next
  PROVE  \/ Tick \/ Crash \/ Start \/ Serve
         \/ \E s \in Signals : RestoreEpisode(s) \/ ReconcileUnrestorable(s)
         \/ \E t \in Threads :
              \/ Local(t)
              \/ \E s, e : Writing(t, s, e)
              \/ \E r \in Rows : ClaimOutboxItem(t, r)
              \/ \E outcome \in Outcomes, arrived \in BOOLEAN : Post(t, outcome, arrived)
              \/ CompleteOutboxItem(t)
<1>1. ASSUME NEW t \in Threads, Cycle(t)
      PROVE  \/ Local(t)
             \/ \E s, e : Writing(t, s, e)
             \/ \E r \in Rows : ClaimOutboxItem(t, r)
             \/ \E outcome \in Outcomes, arrived \in BOOLEAN : Post(t, outcome, arrived)
             \/ CompleteOutboxItem(t)
  <2>1. ASSUME NEW h \in Hosts, NEW score \in Scores, NEW channel \in Channels,
               Publish(t, h, score, channel)
        PROVE  \E s, e : Writing(t, s, e)
    BY <2>1, PublishWrites
  <2>2. ASSUME NEW s \in Signals, Heartbeat(t, s) PROVE \E u, e : Writing(t, u, e)
    BY <2>2, HeartbeatWriting
  <2> QED BY <1>1, <2>1, <2>2, LocalSteps DEF Cycle
<1> QED BY <1>1 DEF Next

-----------------------------------------------------------------------------
(* Types *)

\* The state machines of every step.
LifeOK == life \in [Hosts -> Lifecycles] /\ \A h \in Hosts : Sane(life[h])

LEMMA LifeRecord ==
  ASSUME NEW x \in LifecycleStates, NEW y \in ActiveSeverities, NEW p \in ActiveSeverities \cup {""},
         NEW h \in Seq(BOOLEAN), NEW c \in Nat, NEW r \in Nat, NEW n \in Nat
  PROVE  [state |-> x, severity |-> y, prior |-> p, history |-> h,
          critical |-> c, recovery |-> r, clear |-> n] \in Lifecycles
BY DEF Lifecycles

LEMMA RestoredType ==
  ASSUME NEW e \in Episodes, e.state \in Alerting, e.severity \in ActiveSeverities
  PROVE  LET m == Restored(e) IN
         /\ m \in Lifecycles /\ Sane(m) /\ m.state = e.state /\ m.severity = e.severity
         /\ m.state = "recovering" => m.prior = m.severity
<1> DEFINE h == Window(e.counters.history)
           x == e.counters.critical
           y == e.counters.recovery
           z == e.counters.clear
           p == IF e.state = "recovering" THEN e.severity ELSE ""
<1>1. e.counters \in Counters
  BY DEF Episodes
<1>2. h \in Seq(BOOLEAN) /\ x \in Nat /\ y \in Nat /\ z \in Nat
  BY <1>1, WindowType DEF Counters
<1>3. Restored(e) = [state |-> e.state, severity |-> e.severity,
                     prior |-> p, history |-> h, critical |-> x, recovery |-> y, clear |-> z]
  BY DEF Restored
<1>4. /\ p \in ActiveSeverities \cup {""} /\ (e.state = "recovering" => p = e.severity)
      /\ e.state \in LifecycleStates
  BY DEF Alerting, LifecycleStates
<1> HIDE DEF h, x, y, z, p
<1>5. Restored(e) \in Lifecycles
  <2>1. [state |-> e.state, severity |-> e.severity, prior |-> p, history |-> h,
         critical |-> x, recovery |-> y, clear |-> z] \in Lifecycles
    BY <1>2, <1>4, LifeRecord, Zenon
  <2> QED BY <1>3, <2>1, Zenon
<1>6. Restored(e).state = e.state /\ Restored(e).severity = e.severity /\ Restored(e).prior = p
  BY <1>3
<1> QED BY <1>4, <1>5, <1>6 DEF Sane

\* A score moves the state machine of one host.
LEMMA AdvanceLife ==
  ASSUME LifeOK, NEW h \in Hosts, NEW score \in Scores,
         life' = [life EXCEPT ![h] = Advance(life[h], score).life]
  PROVE  /\ LifeOK' /\ Moved(life[h], life'[h], Advance(life[h], score).action)
         /\ \A g \in Hosts : g # h => life'[g] = life[g]
<1> DEFINE m == Advance(life[h], score).life
<1>1. Moved(life[h], m, Advance(life[h], score).action)
  <2>1. life[h] \in Lifecycles /\ Sane(life[h]) /\ score \in Nat
    BY EngineAssumption DEF LifeOK
  <2> QED BY <2>1, AdvanceMoves
<1>2. m \in Lifecycles /\ Sane(m)
  BY <1>1 DEF Moved
<1>3. life' = [life EXCEPT ![h] = m]
  OBVIOUS
<1> HIDE DEF m
<1>4. life'[h] = m /\ \A g \in Hosts : g # h => life'[g] = life[g]
  BY <1>3 DEF LifeOK
<1>5. LifeOK'
  BY <1>2, <1>3, <1>4 DEF LifeOK
<1> QED BY <1>1, <1>4, <1>5 DEF m

LEMMA UnreadEpisode ==
  ASSUME TypeOK, MemoryInv, NEW s \in unread
  PROVE  /\ s \in Signals /\ Active(s) /\ episode[s] \in Episodes /\ episode[s].host \in Hosts
         /\ episode[s].state \in Alerting /\ episode[s].severity \in ActiveSeverities
<1>1. s \in Signals /\ Active(s) /\ episode[s].severity \in ActiveSeverities
  BY DEF MemoryInv, ListActiveEpisodes
<1>2. episode[s] \in Episodes
  BY <1>1, Indices
<1> QED BY <1>1, <1>2 DEF Episodes, Active

LEMMA LifeStep ==
  ASSUME TypeOK, MemoryInv, Next
  PROVE  LifeOK'
<1>0. LifeOK
  BY DEF LifeOK, TypeOK, MemoryInv
<1>1. CASE UNCHANGED life
  BY <1>0, <1>1 DEF LifeOK
<1>2. CASE Crash
  <2>1. life' = [h \in Hosts |-> NewHostLifecycle]
    BY <1>2 DEF Crash
  <2> QED BY <2>1, NewLifeType DEF LifeOK
<1>3. ASSUME NEW s \in Signals, RestoreEpisode(s) PROVE LifeOK'
  <2>1. s \in unread /\ life' = [life EXCEPT ![episode[s].host] = Restored(episode[s])]
    BY <1>3 DEF RestoreEpisode, NextUnread
  <2>2. /\ episode[s].host \in Hosts
        /\ Restored(episode[s]) \in Lifecycles /\ Sane(Restored(episode[s]))
    BY <2>1, UnreadEpisode, RestoredType
  <2> QED BY <1>0, <2>1, <2>2 DEF LifeOK
<1>4. ASSUME NEW h \in Hosts, NEW score \in Scores,
             life' = [life EXCEPT ![h] = Advance(life[h], score).life]
      PROVE  LifeOK'
  BY <1>0, <1>4, AdvanceLife
<1>5. ASSUME NEW t \in Threads, Cycle(t) PROVE LifeOK'
  <2>1. \/ UNCHANGED life
        \/ \E h \in Hosts, score \in Scores : life' = [life EXCEPT ![h] = Advance(life[h], score).life]
    BY <1>5 DEF Cycle, Query, QueryFails, AdvanceQuietly, Publish, PublishFails, Heartbeat,
                HeartbeatFails, EndRunCycle, StartDrain, ClaimOutboxItem, EndCycle, Post,
                CompleteOutboxItem, CompleteFails
  <2> QED BY <1>1, <1>4, <2>1
<1>6. ASSUME Tick \/ Start \/ Serve \/ \E s \in Signals : ReconcileUnrestorable(s)
      PROVE  UNCHANGED life
  BY <1>6 DEF Tick, Start, Serve, ReconcileUnrestorable
<1> QED BY <1>1, <1>2, <1>3, <1>5, <1>6 DEF Next

\* The rest of the types, by kind of step.
StoreOK ==
  /\ episode' \in Seq(Episodes) /\ Len(episode') <= MaxSignals
  /\ outbox' \in Seq(OutboxRows) /\ Len(outbox') <= MaxRows
  /\ Signals \subseteq Signals' /\ Rows \subseteq Rows'

LEMMA StoreStep ==
  ASSUME TypeOK, MemoryInv, GateInv, Next
  PROVE  StoreOK
<1>1. CASE UNCHANGED <<episode, outbox>>
  BY <1>1 DEF StoreOK, TypeOK, Signals, Rows
<1>2. ASSUME NEW s, NEW e, NEW at, Rewrites(s, e, at) PROVE StoreOK
  BY <1>2 DEF StoreOK, Rewrites, Transition, Stores
<1>3. ASSUME NEW r \in Rows, NEW x, Restamps(r, x), UNCHANGED episode PROVE StoreOK
  BY <1>3 DEF StoreOK, Restamps, TypeOK, Signals
<1>4. ASSUME NEW s \in Signals, RestoreEpisode(s) \/ ReconcileUnrestorable(s) PROVE StoreOK
  BY <1>1, <1>2, <1>4, ReconcileWrites DEF RestoreEpisode
<1>5. ASSUME NEW t \in Threads, Local(t) \/ \E s, e : Writing(t, s, e) PROVE StoreOK
  BY <1>1, <1>2, <1>5 DEF Local, Writing
<1>6. ASSUME NEW t \in Threads, NEW r \in Rows, ClaimOutboxItem(t, r) PROVE StoreOK
  BY <1>3, <1>6, ClaimStamps DEF ClaimOutboxItem
<1>7. ASSUME NEW t \in Threads, CompleteOutboxItem(t) PROVE StoreOK
  BY <1>3, <1>7, CompleteStamps DEF CompleteOutboxItem
<1>8. ASSUME NEW t \in Threads, NEW outcome \in Outcomes, NEW arrived \in BOOLEAN,
             Post(t, outcome, arrived)
      PROVE  StoreOK
  BY <1>1, <1>8 DEF Post
<1>9. CASE Tick \/ Crash \/ Start \/ Serve
  BY <1>1, <1>9 DEF Tick, Crash, Start, Serve
<1> QED BY <1>4, <1>5, <1>6, <1>7, <1>8, <1>9, StepKinds

LEMMA ThreadStep ==
  ASSUME TypeOK, MemoryInv, Next
  PROVE  thread' \in [Threads -> Cycles]
<1>1. CASE UNCHANGED thread
  BY <1>1 DEF TypeOK
<1>2. ASSUME NEW t \in Threads, Only(t) PROVE thread' \in [Threads -> Cycles]
  BY <1>2 DEF Only
<1>3. CASE Tick
  BY <1>1, <1>2, <1>3, ThreadTick
<1>4. CASE Crash
  <2>1. thread' = [t \in Threads |-> NoCycle]
    BY <1>4 DEF Crash
  <2> QED BY <2>1, NoCycleType
<1>5. CASE Start \/ Serve \/ \E s \in Signals : RestoreEpisode(s) \/ ReconcileUnrestorable(s)
  BY <1>1, <1>5 DEF Start, Serve, RestoreEpisode, ReconcileUnrestorable
<1>6. ASSUME NEW t \in Threads, Local(t) \/ \E s, e : Writing(t, s, e)
      PROVE  thread' \in [Threads -> Cycles]
  BY <1>2, <1>6 DEF Local, Writing
<1>7. ASSUME NEW t \in Threads,
             \/ \E r \in Rows : ClaimOutboxItem(t, r)
             \/ \E outcome \in Outcomes, arrived \in BOOLEAN : Post(t, outcome, arrived)
             \/ CompleteOutboxItem(t)
      PROVE  thread' \in [Threads -> Cycles]
  BY <1>2, <1>7, ThreadDrains
<1> QED BY <1>3, <1>4, <1>5, <1>6, <1>7, StepKinds

\* What Alertmanager makes of a POST: the new end, or the old one if it is later.
LEMMA ReceivedEnds ==
  ASSUME TypeOK, NEW a \in Alerts, NEW ends \in Int
  PROVE  /\ Received(a, ends) \in [Alerts -> Int]
         /\ \A b \in Alerts : b # a => Received(a, ends)[b] = alerts[b]
         /\ Received(a, ends)[a] \in {alerts[a], ends}
         /\ ends > now => ends <= Received(a, ends)[a]
         /\ ends > now /\ alerts[a] \in Int => alerts[a] <= Received(a, ends)[a]
<1> DEFINE x == IF (alerts[a] > now) = (ends > now) /\ alerts[a] > ends THEN alerts[a] ELSE ends
<1>1. alerts \in [Alerts -> Int] /\ alerts[a] \in Int /\ now \in Int
  BY DEF TypeOK
<1>2. Received(a, ends) = [alerts EXCEPT ![a] = x]
  BY DEF Received
<1>3. x \in {alerts[a], ends} /\ x \in Int
  BY <1>1
<1>4. ASSUME ends > now PROVE ends <= x /\ alerts[a] <= x
  <2>1. CASE alerts[a] > now
    <3>1. ((alerts[a] > now) = (ends > now)) = TRUE
      BY <1>4, <2>1, Zenon
    <3>2. x = IF alerts[a] > ends THEN alerts[a] ELSE ends
      BY <3>1, Zenon
    <3> QED BY <1>1, <3>2
  <2>2. CASE ~(alerts[a] > now)
    <3>1. alerts[a] <= ends
      BY <1>1, <1>4, <2>2
    <3> QED BY <1>1, <1>3, <3>1
  <2> QED BY <2>1, <2>2
<1> HIDE DEF x
<1> QED BY <1>1, <1>2, <1>3, <1>4

\* The alert a row is about.
LEMMA RowAlert ==
  ASSUME NEW r \in Rows, TypeOK
  PROVE  AlertOf(r) \in Alerts /\ outbox[r].ends \in Int
<1>1. outbox[r] \in OutboxRows
  BY Indices
<1> QED BY <1>1 DEF OutboxRows, AlertOf, Alerts

LEMMA PostFacts ==
  ASSUME TypeOK, GateInv, NEW t \in Threads, NEW outcome \in Outcomes, NEW arrived \in BOOLEAN,
         Post(t, outcome, arrived)
  PROVE  LET r == thread[t].job IN
         /\ r \in Rows /\ Holds(t) /\ posted' = posted \cup {r}
         /\ \/ alerts' = alerts /\ outcome # "delivered" /\ faults' # 0
            \/ alerts' = Received(AlertOf(r), outbox[r].ends)
         /\ outcome # "delivered" => faults' # 0
<1>1. Holds(t) /\ thread[t].job \in Rows
  BY DEF Post, Holds, GateInv
<1>2. ASSUME outcome # "delivered" PROVE faults' # 0
  BY <1>2 DEF Post, Fault, TypeOK
<1> QED BY <1>1, <1>2 DEF Post, AlertOf

\* What a step may change of the clock, the failures and the history.
Frame ==
  /\ now' = now \/ now' = now + Interval
  /\ faults' = faults \/ faults' = faults + 1
  /\ \/ UNCHANGED <<alerts, posted>>
     \/ \E t \in Threads, outcome \in Outcomes, arrived \in BOOLEAN : Post(t, outcome, arrived)
  /\ torn' \subseteq torn \/ \E h \in Hosts : torn' = torn \cup {h}
  /\ \/ UNCHANGED flapped
     \/ \E t \in Threads, h \in Hosts, score \in Scores, channel \in Channels :
          Publish(t, h, score, channel)

LEMMA StepFrame ==
  ASSUME Next
  PROVE  Frame
<1> USE DEF Frame, Fault
<1>1. CASE Tick
  BY <1>1 DEF Tick
<1>2. CASE Crash
  BY <1>2 DEF Crash
<1>3. CASE Start
  BY <1>3 DEF Start
<1>4. CASE Serve
  BY <1>4 DEF Serve
<1>5. ASSUME NEW s \in Signals, RestoreEpisode(s) PROVE Frame
  BY <1>5 DEF RestoreEpisode
<1>6. ASSUME NEW s \in Signals, ReconcileUnrestorable(s) PROVE Frame
  BY <1>6 DEF ReconcileUnrestorable
<1>7. ASSUME NEW t \in Threads, Cycle(t) PROVE Frame
  <2>1. ASSUME NEW valid \in SUBSET Hosts, Query(t, valid) PROVE Frame
    BY <2>1 DEF Query
  <2>2. ASSUME QueryFails(t) PROVE Frame
    BY <2>2 DEF QueryFails
  <2>3. ASSUME NEW h \in Hosts, NEW score \in Scores, AdvanceQuietly(t, h, score) PROVE Frame
    BY <2>3 DEF AdvanceQuietly
  <2>4. ASSUME NEW h \in Hosts, NEW score \in Scores, NEW channel \in Channels,
               Publish(t, h, score, channel)
        PROVE  Frame
    BY <2>4 DEF Publish
  <2>5. ASSUME NEW h \in Hosts, NEW score \in Scores, PublishFails(t, h, score) PROVE Frame
    BY <2>5 DEF PublishFails
  <2>6. ASSUME NEW s \in Signals, Heartbeat(t, s) PROVE Frame
    BY <2>6 DEF Heartbeat
  <2>7. ASSUME HeartbeatFails(t) PROVE Frame
    BY <2>7 DEF HeartbeatFails
  <2>8. ASSUME EndRunCycle(t) PROVE Frame
    BY <2>8 DEF EndRunCycle
  <2>9. ASSUME StartDrain(t) PROVE Frame
    BY <2>9 DEF StartDrain
  <2>10. ASSUME NEW r \in Rows, ClaimOutboxItem(t, r) PROVE Frame
    BY <2>10 DEF ClaimOutboxItem
  <2>11. ASSUME EndCycle(t) PROVE Frame
    BY <2>11 DEF EndCycle
  <2>12. ASSUME NEW outcome \in Outcomes, NEW arrived \in BOOLEAN,
               Post(t, outcome, arrived)
        PROVE  Frame
    BY <2>12 DEF Post
  <2>13. ASSUME CompleteOutboxItem(t) PROVE Frame
    BY <2>13 DEF CompleteOutboxItem
  <2>14. ASSUME CompleteFails(t) PROVE Frame
    BY <2>14 DEF CompleteFails
  <2> HIDE DEF Frame
  <2> QED BY <1>7, <2>1, <2>2, <2>3, <2>4, <2>5, <2>6, <2>7, <2>8, <2>9, <2>10, <2>11, <2>12, <2>13, <2>14 DEF Cycle
<1> HIDE DEF Frame
<1> QED BY <1>1, <1>2, <1>3, <1>4, <1>5, <1>6, <1>7 DEF Next

LEMMA TypeStep ==
  ASSUME TypeOK, MemoryInv, GateInv, Next
  PROVE  TypeOK'
<1>1. StoreOK /\ LifeOK' /\ thread' \in [Threads -> Cycles]
  BY StoreStep, LifeStep, ThreadStep
<1>2. /\ life' \in [Hosts -> Lifecycles] /\ Signals \subseteq Signals' /\ Rows \subseteq Rows'
      /\ episode' \in Seq(Episodes) /\ Len(episode') <= MaxSignals
      /\ outbox' \in Seq(OutboxRows) /\ Len(outbox') <= MaxRows
  BY <1>1 DEF StoreOK, LifeOK
<1>3. now' \in Int
  <2>1. now' = now \/ now' = now + Interval
    BY StepFrame DEF Frame
  <2> QED BY <2>1, EngineAssumption DEF TypeOK
<1>4. faults' \in Nat
  <2>1. faults' = faults \/ faults' = faults + 1
    BY StepFrame DEF Frame
  <2> QED BY <2>1 DEF TypeOK
<1>5. proc' \in {"up", "booting", "down"} /\ unread' \subseteq Signals'
  <2>1. CASE UNCHANGED <<proc, unread>>
    BY <1>2, <2>1 DEF TypeOK
  <2>2. CASE Crash
    BY <2>2 DEF Crash
  <2>3. CASE Start
    BY <1>2, <2>3 DEF Start, ListActiveEpisodes
  <2>4. CASE Serve
    BY <1>2, <2>4 DEF Serve, TypeOK
  <2>5. ASSUME NEW s \in Signals, RestoreEpisode(s) \/ ReconcileUnrestorable(s)
        PROVE  proc' = proc /\ unread' \subseteq unread
    BY <2>5 DEF RestoreEpisode, ReconcileUnrestorable
  <2>6. CASE Tick
    BY <2>1, <2>6 DEF Tick
  <2>7. ASSUME NEW t \in Threads, Cycle(t) PROVE UNCHANGED <<proc, unread>>
    BY <2>7 DEF Cycle, Query, QueryFails, AdvanceQuietly, Publish, PublishFails, Heartbeat,
           HeartbeatFails, EndRunCycle, StartDrain, ClaimOutboxItem, EndCycle, Post,
           CompleteOutboxItem, CompleteFails
  <2> QED BY <1>2, <2>1, <2>2, <2>3, <2>4, <2>5, <2>6, <2>7 DEF Next, TypeOK
<1>6. alerts' \in [Alerts -> Int] /\ posted' \subseteq Rows'
  <2>1. CASE UNCHANGED <<alerts, posted>>
    BY <1>2, <2>1 DEF TypeOK
  <2>2. ASSUME NEW t \in Threads, NEW outcome \in Outcomes, NEW arrived \in BOOLEAN,
               Post(t, outcome, arrived)
        PROVE  alerts' \in [Alerts -> Int] /\ posted' \subseteq Rows'
    <3> DEFINE r == thread[t].job
    <3>1. /\ r \in Rows /\ posted' = posted \cup {r}
          /\ alerts' = alerts \/ alerts' = Received(AlertOf(r), outbox[r].ends)
      BY <2>2, PostFacts
    <3>2. AlertOf(r) \in Alerts /\ outbox[r].ends \in Int
      BY <3>1, RowAlert
    <3> HIDE DEF r
    <3> QED BY <1>2, <3>1, <3>2, ReceivedEnds DEF TypeOK
  <2>3. \/ UNCHANGED <<alerts, posted>>
        \/ \E t \in Threads, outcome \in Outcomes, arrived \in BOOLEAN : Post(t, outcome, arrived)
    BY StepFrame DEF Frame
  <2> QED BY <2>1, <2>2, <2>3
<1>7. torn' \subseteq Hosts
  <2>1. torn' \subseteq torn \/ \E h \in Hosts : torn' = torn \cup {h}
    BY StepFrame DEF Frame
  <2> QED BY <2>1 DEF TypeOK
<1>8. flapped' \subseteq Signals'
  <2>1. \/ UNCHANGED flapped
        \/ \E t \in Threads, h \in Hosts, score \in Scores, channel \in Channels :
             Publish(t, h, score, channel)
    BY StepFrame DEF Frame
  <2>2. flapped' = flapped \/ \E s \in Signals : flapped' = flapped \cup {s}
    BY <2>1, PublishFacts, ActiveFacts DEF Published
  <2> QED BY <1>2, <2>2 DEF TypeOK
<1> QED BY <1>1, <1>2, <1>3, <1>4, <1>5, <1>6, <1>7, <1>8 DEF TypeOK

-----------------------------------------------------------------------------
(* One active episode *)

LEMMA ActiveAfter ==
  ASSUME NEW s, NEW e, NEW at, Rewrites(s, e, at), NEW h
  PROVE  /\ \A u : u \in ActiveOf(h)' <=>
              \/ u # s /\ u \in ActiveOf(h)
              \/ u = s /\ e.state # "resolved" /\ e.host = h
         /\ \A u : u # s /\ u \in Signals => u \in Signals' /\ episode'[u] = episode[u]
         /\ s \in Signals' /\ episode'[s] = e
         /\ s \in Signals => s \in ActiveOf(e.host)
         /\ s \notin Signals => ActiveOf(e.host) = {}
BY DEF Rewrites, Transition, Stores, ActiveOf, ListActiveEpisodes, Active

\* A step that does not write the store leaves the active episodes alone.
LEMMA ActiveSame ==
  ASSUME UNCHANGED episode
  PROVE  /\ Signals' = Signals /\ ListActiveEpisodes' = ListActiveEpisodes
         /\ \A h : ActiveOf(h)' = ActiveOf(h)
BY DEF Signals, ListActiveEpisodes, ActiveOf, Active

\* Every step rewrites one episode or none.
LEMMA StoreKinds ==
  ASSUME TypeOK, MemoryInv, Next
  PROVE  UNCHANGED episode \/ \E s, e, at : Rewrites(s, e, at)
<1>1. ASSUME NEW s \in Signals, RestoreEpisode(s) \/ ReconcileUnrestorable(s)
      PROVE  UNCHANGED episode \/ \E u, e, at : Rewrites(u, e, at)
  BY <1>1, ReconcileWrites DEF RestoreEpisode
<1>2. ASSUME NEW t \in Threads, Local(t) \/ \E s, e : Writing(t, s, e)
      PROVE  UNCHANGED episode \/ \E s, e, at : Rewrites(s, e, at)
  BY <1>2 DEF Local, Writing
<1>3. ASSUME NEW t \in Threads,
             \/ \E r \in Rows : ClaimOutboxItem(t, r)
             \/ \E outcome \in Outcomes, arrived \in BOOLEAN : Post(t, outcome, arrived)
             \/ CompleteOutboxItem(t)
      PROVE  UNCHANGED episode
  BY <1>3 DEF ClaimOutboxItem, Post, CompleteOutboxItem
<1>4. Tick \/ Crash \/ Start \/ Serve => UNCHANGED episode
  BY DEF Tick, Crash, Start, Serve
<1> QED BY <1>1, <1>2, <1>3, <1>4, StepKinds

LEMMA OneActiveStep ==
  ASSUME TypeOK, MemoryInv, OneActiveEpisode, Next
  PROVE  OneActiveEpisode'
<1>1. CASE UNCHANGED episode
  BY <1>1, ActiveSame DEF OneActiveEpisode
<1>2. ASSUME NEW s, NEW e, NEW at, Rewrites(s, e, at) PROVE OneActiveEpisode'
  <2> SUFFICES ASSUME NEW h \in Hosts, NEW u \in ActiveOf(h)', NEW v \in ActiveOf(h)'
               PROVE  u = v
    BY DEF OneActiveEpisode
  <2>1. \A x, y \in ActiveOf(h) : x = y
    BY DEF OneActiveEpisode
  <2> QED BY <1>2, <2>1, ActiveAfter
<1> QED BY <1>1, <1>2, StoreKinds

-----------------------------------------------------------------------------
(* The gate *)

\* The rows there were, in the outbox after a step.
LEMMA RewritesRows ==
  ASSUME NEW s, NEW e, NEW at, Rewrites(s, e, at)
  PROVE  Rows \subseteq Rows' /\ \A r \in Rows : outbox'[r] = outbox[r]
BY DEF Rewrites, Transition

LEMMA GateStep ==
  ASSUME TypeOK, MemoryInv, GateInv, Next
  PROVE  GateInv'
<1> USE DEF Busy, Holds
\* A step of a cycle that holds no row afterwards.
<1>1. ASSUME NEW t \in Threads, thread[t].pc # "idle", proc = "up", proc' = "up", Only(t),
             ~Holds(t)', posted' = posted, Rows \subseteq Rows',
             \A u \in Threads : u # t /\ Holds(u) => outbox'[thread[u].job] = outbox[thread[u].job]
      PROVE  GateInv'
  BY <1>1 DEF GateInv, Only
<1>2. CASE Tick
  <2>1. UNCHANGED <<proc, outbox, posted>> /\ Rows' = Rows
    BY <1>2 DEF Tick, Rows
  <2>2. CASE UNCHANGED thread
    BY <2>1, <2>2 DEF GateInv
  <2>3. ASSUME proc = "up", GateFree, NEW t \in Threads, Only(t), thread'[t].pc = "query"
        PROVE  GateInv'
    BY <2>1, <2>3 DEF GateInv, GateFree, Only
  <2> QED BY <1>2, <2>2, <2>3, ThreadTick
<1>3. CASE Crash
  <2>1. \A t \in Threads : thread'[t] = NoCycle
    BY <1>3 DEF Crash
  <2> QED BY <2>1 DEF GateInv, NoCycle
<1>4. ASSUME UNCHANGED thread, proc # "up" PROVE GateInv'
  BY <1>4 DEF GateInv
<1>5. CASE Start \/ Serve \/ \E s \in Signals : RestoreEpisode(s) \/ ReconcileUnrestorable(s)
  BY <1>4, <1>5 DEF Start, Serve, RestoreEpisode, ReconcileUnrestorable, NextUnread
<1>6. ASSUME NEW t \in Threads, Local(t) PROVE GateInv'
  BY <1>1, <1>6 DEF Local, Rows
<1>7. ASSUME NEW t \in Threads, NEW s, NEW e, Writing(t, s, e) PROVE GateInv'
  <2>1. Rows \subseteq Rows' /\ \A r \in Rows : outbox'[r] = outbox[r]
    BY <1>7, RewritesRows DEF Writing
  <2>2. \A u \in Threads : Holds(u) => thread[u].job \in Rows
    BY DEF GateInv
  <2> QED BY <1>1, <1>7, <2>1, <2>2 DEF Writing
<1>8. ASSUME NEW t \in Threads, NEW r \in Rows, ClaimOutboxItem(t, r) PROVE GateInv'
  <2>1. /\ Only(t) /\ thread'[t].pc = "post" /\ thread'[t].job = r
        /\ thread[t].pc = "claim" /\ UNCHANGED <<proc, posted>>
    BY <1>8, ThreadDrains DEF ClaimOutboxItem
  <2>2. Restamps(r, "sending")
    BY <1>8, ClaimStamps
  <2> QED BY <2>1, <2>2 DEF GateInv, Only, Restamps
<1>9. ASSUME NEW t \in Threads, NEW outcome \in Outcomes, NEW arrived \in BOOLEAN,
             Post(t, outcome, arrived)
      PROVE  GateInv'
  <2>1. /\ Only(t) /\ thread'[t].pc = "settle" /\ thread'[t].job = thread[t].job
        /\ Holds(t) /\ UNCHANGED <<proc, outbox>> /\ Rows' = Rows
        /\ posted' = posted \cup {thread[t].job}
    BY <1>9, ThreadDrains DEF Post, Rows
  <2> QED BY <2>1 DEF GateInv, Only
<1>10. ASSUME NEW t \in Threads, CompleteOutboxItem(t) PROVE GateInv'
  <2>1. /\ Only(t) /\ thread'[t].pc = "claim" /\ thread[t].pc = "settle" /\ proc = "up"
        /\ UNCHANGED <<proc, posted>>
    BY <1>10, ThreadDrains DEF CompleteOutboxItem
  <2>2. Rows' = Rows /\ \A q \in Rows : q # thread[t].job => outbox'[q] = outbox[q]
    BY <1>10, CompleteStamps DEF Restamps
  <2>3. \A u \in Threads : u # t => ~Holds(u)
    BY <2>1 DEF GateInv
  <2> QED BY <1>1, <2>1, <2>2, <2>3
<1> QED BY <1>2, <1>3, <1>5, <1>6, <1>7, <1>8, <1>9, <1>10, StepKinds

-----------------------------------------------------------------------------
(* The order of an escalation *)

\* What a row says never changes.
SameContent ==
  /\ Rows \subseteq Rows'
  /\ \A r \in Rows :
       /\ outbox'[r].signal = outbox[r].signal /\ outbox'[r].revision = outbox[r].revision
       /\ outbox'[r].sequence = outbox[r].sequence /\ outbox'[r].kind = outbox[r].kind
       /\ outbox'[r].severity = outbox[r].severity /\ outbox'[r].channel = outbox[r].channel
       /\ outbox'[r].ends = outbox[r].ends

LEMMA RestampsContent ==
  ASSUME NEW r \in Rows, NEW x, Restamps(r, x)
  PROVE  SameContent /\ Rows' = Rows
<1> QED BY DEF Restamps, SameContent

\* A settled row stays as it is.
SettledKept == \A r \in Rows : outbox[r].status \in Settled => outbox'[r].status = outbox[r].status

\* The outbox of every step: new rows are pending, a row is settled by the
\* thread that sent it.
LEMMA OutboxStep ==
  ASSUME TypeOK, MemoryInv, GateInv, Next
  PROVE  /\ SameContent /\ SettledKept
         /\ \A r \in Rows' : outbox'[r].status \in Settled =>
              r \in Rows /\ (outbox[r].status \in Settled \/ r \in posted)
<1> USE DEF Settled
<1>1. CASE UNCHANGED outbox
  BY <1>1 DEF SameContent, SettledKept, Rows
<1>2. ASSUME NEW s, NEW e, NEW at, Rewrites(s, e, at)
      PROVE  /\ SameContent /\ SettledKept
             /\ \A r \in Rows' : outbox'[r].status \in Settled => r \in Rows /\ outbox[r].status \in Settled
  BY <1>2 DEF Rewrites, Transition, Announcement, SameContent, SettledKept
<1>3. ASSUME NEW t \in Threads, NEW r \in Rows, ClaimOutboxItem(t, r)
      PROVE  /\ SameContent /\ SettledKept
             /\ \A q \in Rows' : outbox'[q].status \in Settled => q \in Rows /\ outbox[q].status \in Settled
  <2>1. outbox[r].status \notin Settled
    BY <1>3 DEF ClaimOutboxItem, Eligible, Due
  <2>2. Restamps(r, "sending")
    BY <1>3, ClaimStamps
  <2> QED BY <2>1, <2>2, RestampsContent DEF Restamps, SettledKept
<1>4. ASSUME NEW t \in Threads, CompleteOutboxItem(t)
      PROVE  /\ SameContent /\ SettledKept
             /\ \A q \in Rows' : outbox'[q].status \in Settled =>
                  q \in Rows /\ (outbox[q].status \in Settled \/ q \in posted)
  <2> DEFINE r == thread[t].job
  <2>1. PICK x : r \in Rows /\ outbox[r].status = "sending" /\ r \in posted /\ Restamps(r, x)
    BY <1>4, CompleteStamps
  <2> HIDE DEF r
  <2> QED BY <2>1, RestampsContent DEF Restamps, SettledKept
<1>5. ASSUME NEW s \in Signals, RestoreEpisode(s) \/ ReconcileUnrestorable(s)
      PROVE  UNCHANGED outbox \/ \E u, e, at : Rewrites(u, e, at)
  BY <1>5, ReconcileWrites DEF RestoreEpisode
<1>6. ASSUME NEW t \in Threads,
             \/ Local(t) \/ \E s, e : Writing(t, s, e)
             \/ \E outcome \in Outcomes, arrived \in BOOLEAN : Post(t, outcome, arrived)
      PROVE  UNCHANGED outbox \/ \E s, e, at : Rewrites(s, e, at)
  BY <1>6 DEF Local, Writing, Post
<1>7. Tick \/ Crash \/ Start \/ Serve => UNCHANGED outbox
  BY DEF Tick, Crash, Start, Serve
<1> QED BY <1>1, <1>2, <1>3, <1>4, <1>5, <1>6, <1>7, StepKinds

\* The rows a step adds.
LEMMA FreshRows ==
  ASSUME TypeOK, MemoryInv, GateInv, Next
  PROVE  \A r \in Rows' : r \notin Rows /\ outbox'[r].kind = "fire_critical" =>
             /\ outbox'[r].sequence = 2
             /\ \E q \in Rows' : WarningOf(q, r)' /\ outbox'[q].sequence = 1
<1>1. ASSUME NEW s, NEW e, NEW at, Rewrites(s, e, at), NEW r \in Rows', r \notin Rows,
             outbox'[r].kind = "fire_critical"
      PROVE  /\ outbox'[r].sequence = 2
             /\ \E q \in Rows' : WarningOf(q, r)' /\ outbox'[q].sequence = 1
  <2>1. /\ Announcement(outbox'[r], s, e)
        /\ \E q \in Rows' : q \notin Rows /\ outbox'[q].kind = "resolve_warning" /\ outbox'[q].sequence = 1
    BY <1>1 DEF Rewrites, Transition
  <2>2. PICK q \in Rows' : q \notin Rows /\ outbox'[q].kind = "resolve_warning" /\ outbox'[q].sequence = 1
    BY <2>1
  <2>3. Announcement(outbox'[q], s, e)
    BY <1>1, <2>2 DEF Rewrites, Transition
  <2> QED BY <1>1, <2>1, <2>2, <2>3 DEF Announcement, WarningOf
<1>2. ASSUME \A s, e, at : ~Rewrites(s, e, at) PROVE Rows' = Rows
  <2>1. ASSUME NEW t \in Threads, NEW r \in Rows, ClaimOutboxItem(t, r) PROVE Rows' = Rows
    BY <2>1, ClaimStamps DEF Restamps
  <2>2. ASSUME NEW t \in Threads, CompleteOutboxItem(t) PROVE Rows' = Rows
    BY <2>2, CompleteStamps DEF Restamps
  <2>3. CASE UNCHANGED outbox
    BY <2>3 DEF Rows
  <2>4. ASSUME NEW t \in Threads,
               \/ Local(t) \/ \E s, e : Writing(t, s, e)
               \/ \E outcome \in Outcomes, arrived \in BOOLEAN : Post(t, outcome, arrived)
        PROVE  UNCHANGED outbox
    BY <1>2, <2>4 DEF Local, Writing, Post
  <2>5. ASSUME NEW s \in Signals, RestoreEpisode(s) \/ ReconcileUnrestorable(s)
        PROVE  UNCHANGED outbox
    BY <1>2, <2>5, ReconcileWrites DEF RestoreEpisode
  <2>6. Tick \/ Crash \/ Start \/ Serve => UNCHANGED outbox
    BY DEF Tick, Crash, Start, Serve
  <2> QED BY <2>1, <2>2, <2>3, <2>4, <2>5, <2>6, StepKinds
<1> QED BY <1>1, <1>2

\* A row is taken only by a claim, and posted only when it was taken.
LEMMA SentStep ==
  ASSUME TypeOK, MemoryInv, GateInv, Next
  PROVE  /\ posted \subseteq posted'
         /\ \A r : Sent(r)' =>
              Sent(r) \/ (r \in Rows /\ \E t \in Threads : ClaimOutboxItem(t, r))
<1> USE DEF Sent, Holds
<1>1. ASSUME posted' = posted, UNCHANGED thread PROVE \A r : Sent(r)' => Sent(r)
  BY <1>1
<1>2. ASSUME NEW t \in Threads, Only(t), posted' = posted, ~Holds(t)'
      PROVE  \A r : Sent(r)' => Sent(r)
  BY <1>2 DEF Only
<1>3. CASE Tick
  <2>1. posted' = posted
    BY <1>3 DEF Tick
  <2> QED BY <1>1, <1>2, <1>3, <2>1, ThreadTick
<1>4. CASE Crash
  <2>1. posted' = posted /\ \A t \in Threads : thread'[t] = NoCycle
    BY <1>4 DEF Crash
  <2> QED BY <2>1 DEF NoCycle
<1>5. CASE Start \/ Serve \/ \E s \in Signals : RestoreEpisode(s) \/ ReconcileUnrestorable(s)
  BY <1>1, <1>5 DEF Start, Serve, RestoreEpisode, ReconcileUnrestorable
<1>6. ASSUME NEW t \in Threads, Local(t) \/ \E s, e : Writing(t, s, e)
      PROVE  posted' = posted /\ \A r : Sent(r)' => Sent(r)
  BY <1>2, <1>6 DEF Local, Writing
<1>7. ASSUME NEW t \in Threads, NEW q \in Rows, ClaimOutboxItem(t, q)
      PROVE  posted' = posted /\ \A r : Sent(r)' => Sent(r) \/ r = q
  <2>1. Only(t) /\ thread'[t].job = q /\ posted' = posted
    BY <1>7, ThreadDrains DEF ClaimOutboxItem
  <2> QED BY <2>1 DEF Only
<1>8. ASSUME NEW t \in Threads, NEW outcome \in Outcomes, NEW arrived \in BOOLEAN,
             Post(t, outcome, arrived)
      PROVE  posted \subseteq posted' /\ \A r : Sent(r)' => Sent(r)
  <2>1. /\ Only(t) /\ thread'[t].job = thread[t].job /\ Holds(t)
        /\ posted' = posted \cup {thread[t].job}
    BY <1>8, ThreadDrains, PostFacts
  <2> QED BY <2>1 DEF Only
<1>9. ASSUME NEW t \in Threads, CompleteOutboxItem(t)
      PROVE  posted' = posted /\ \A r : Sent(r)' => Sent(r)
  <2>1. Only(t) /\ thread'[t].pc = "claim" /\ posted' = posted
    BY <1>9, ThreadDrains DEF CompleteOutboxItem
  <2> QED BY <1>2, <2>1
<1>10. Tick \/ Crash \/ Start \/ Serve => posted' = posted
  BY DEF Tick, Crash, Start, Serve
<1>11. \A s \in Signals : RestoreEpisode(s) \/ ReconcileUnrestorable(s) => posted' = posted
  BY DEF RestoreEpisode, ReconcileUnrestorable
<1> HIDE DEF Sent, Holds
<1> QED BY <1>3, <1>4, <1>5, <1>6, <1>7, <1>8, <1>9, <1>10, <1>11, StepKinds

\* A claim takes a fire_critical only after its resolve_warning is settled.
LEMMA ClaimOrder ==
  ASSUME TypeOK, OrderInv, NEW t \in Threads, NEW r \in Rows, ClaimOutboxItem(t, r),
         outbox[r].kind = "fire_critical"
  PROVE  \E q \in Rows : WarningOf(q, r) /\ outbox[q].status \in Settled
<1>1. PICK q \in Rows : WarningOf(q, r) /\ outbox[q].sequence = 1
  BY DEF OrderInv
<1>2. outbox[r].sequence = 2
  BY DEF OrderInv
<1>3. ~Blocks(q, r)
  BY DEF ClaimOutboxItem, Eligible
<1> QED BY <1>1, <1>2, <1>3 DEF Blocks, WarningOf

LEMMA OrderStep ==
  ASSUME TypeOK, MemoryInv, GateInv, OrderInv, Next
  PROVE  OrderInv'
<1>1. /\ SameContent /\ SettledKept
      /\ \A r \in Rows' : outbox'[r].status \in Settled =>
           r \in Rows /\ (outbox[r].status \in Settled \/ r \in posted)
  BY OutboxStep
<1>2. /\ posted \subseteq posted'
      /\ \A r : Sent(r)' => Sent(r) \/ (r \in Rows /\ \E t \in Threads : ClaimOutboxItem(t, r))
  BY SentStep
<1>3. \A r \in Rows' : outbox'[r].status \in Settled => r \in posted'
  BY <1>1, <1>2 DEF OrderInv
<1>4. ASSUME NEW q \in Rows, NEW r \in Rows, WarningOf(q, r)
      PROVE  /\ q \in Rows' /\ WarningOf(q, r)' /\ outbox'[q].sequence = outbox[q].sequence
             /\ outbox[q].status \in Settled => outbox'[q].status \in Settled
  BY <1>1, <1>4 DEF SameContent, SettledKept, WarningOf
<1>5. \A r \in Rows' : outbox'[r].kind = "fire_critical" =>
        /\ outbox'[r].sequence = 2
        /\ \E q \in Rows' : WarningOf(q, r)' /\ outbox'[q].sequence = 1
  <2> SUFFICES ASSUME NEW r \in Rows', outbox'[r].kind = "fire_critical", r \in Rows
               PROVE  /\ outbox'[r].sequence = 2
                      /\ \E q \in Rows' : WarningOf(q, r)' /\ outbox'[q].sequence = 1
    BY FreshRows
  <2>1. outbox[r].kind = "fire_critical" /\ outbox'[r].sequence = outbox[r].sequence
    BY <1>1 DEF SameContent
  <2>2. outbox[r].sequence = 2 /\ \E q \in Rows : WarningOf(q, r) /\ outbox[q].sequence = 1
    BY <2>1 DEF OrderInv
  <2> QED BY <1>4, <2>1, <2>2
<1>6. ASSUME NEW r \in Rows', outbox'[r].kind = "fire_critical", Sent(r)'
      PROVE  \E q \in Rows' : WarningOf(q, r)' /\ outbox'[q].status \in Settled
  <2>1. r \in Rows
    BY <1>2, <1>6 DEF Sent, GateInv, TypeOK
  <2>2. outbox[r].kind = "fire_critical"
    BY <1>1, <1>6, <2>1 DEF SameContent
  <2>3. \E q \in Rows : WarningOf(q, r) /\ outbox[q].status \in Settled
    <3>1. CASE Sent(r)
      BY <2>1, <2>2, <3>1 DEF OrderInv
    <3>2. CASE \E t \in Threads : ClaimOutboxItem(t, r)
      BY <2>1, <2>2, <3>2, ClaimOrder
    <3> QED BY <1>2, <1>6, <3>1, <3>2
  <2> QED BY <1>4, <2>1, <2>3
<1> QED BY <1>3, <1>5, <1>6 DEF OrderInv

-----------------------------------------------------------------------------
(* Times *)

LEMMA TimeTypes ==
  ASSUME TypeOK
  PROVE  /\ now \in Int /\ EvaluationTime(now) \in Int /\ EvaluationTime(0) \in Int
         /\ EvaluationTime(now) <= now /\ EvaluationTime(0) <= 0
         /\ \A s \in Signals : episode[s].updated \in Int
         /\ \A t \in Threads : thread[t].eval \in Int
<1>1. now \in Int /\ \A t \in Threads : thread[t].eval \in Int
  BY DEF TypeOK, Cycles
<1>2. \A s \in Signals : episode[s].updated \in Int
  BY Indices DEF Episodes
<1> QED BY <1>1, <1>2, EvaluationTimes

\* Only a tick moves the clock, and it moves it on.
LEMMA Clock ==
  ASSUME TypeOK, Next
  PROVE  /\ now <= now' /\ EvaluationTime(now) <= EvaluationTime(now')
         /\ EvaluationTime(now') \in Int /\ now' \in Int
<1>1. now' = now \/ now' = now + Interval
  BY StepFrame DEF Frame
<1>2. now \in Int /\ Interval \in Nat
  BY EngineAssumption DEF TypeOK
<1>3. now' \in Int /\ now <= now'
  BY <1>1, <1>2
<1> QED BY <1>2, <1>3, EvaluationTimes

\* The time of a transaction: not before the version it replaces.
InTime(s, at) ==
  /\ at \in Int /\ EvaluationTime(0) <= at
  /\ s \in Signals => episode[s].updated <= at

LEMMA WritingTime ==
  ASSUME TypeOK, TimeInv, NEW t \in Threads, NEW s, NEW e, Writing(t, s, e)
  PROVE  InTime(s, thread[t].eval) /\ thread[t].eval <= EvaluationTime(now)
<1>1. Evaluates(t)
  BY DEF Writing, Evaluates
<1>2. s \in Signals => s \in ListActiveEpisodes
  BY DEF Writing, Rewrites, ListActiveEpisodes
<1>3. thread[t].eval \in Int
  BY TimeTypes
<1> QED BY <1>1, <1>2, <1>3 DEF InTime, TimeInv

LEMMA ReconcileTime ==
  ASSUME TypeOK, MemoryInv, TimeInv, NEW s \in Signals, ReconcileUnrestorable(s)
  PROVE  InTime(s, now)
<1>1. s \in ListActiveEpisodes
  BY DEF ReconcileUnrestorable, NextUnread, MemoryInv
<1>2. episode[s].updated <= EvaluationTime(now) /\ 0 <= now
  BY <1>1 DEF TimeInv
<1> QED BY <1>2, TimeTypes DEF InTime

LEMMA TimeStep ==
  ASSUME TypeOK, MemoryInv, GateInv, TimeInv, Next
  PROVE  TimeInv'
<1>0. /\ now <= now' /\ EvaluationTime(now) <= EvaluationTime(now')
      /\ EvaluationTime(now') \in Int /\ now' \in Int /\ 0 <= now'
  BY Clock, TimeTypes DEF TimeInv
\* The store stays and no thread starts evaluating.
<1>1. ASSUME UNCHANGED episode,
             \A t \in Threads : Evaluates(t)' => Evaluates(t) /\ thread'[t].eval = thread[t].eval
      PROVE  TimeInv'
  <2>1. Signals' = Signals /\ ListActiveEpisodes' = ListActiveEpisodes
        /\ ListActiveEpisodes \subseteq Signals
    BY <1>1, ActiveSame DEF ListActiveEpisodes
  <2> QED BY <1>0, <1>1, <2>1, TimeTypes DEF TimeInv
<1>2. CASE Tick
  <2>1. UNCHANGED episode
    BY <1>2 DEF Tick
  <2>2. CASE UNCHANGED thread
    BY <1>1, <2>1, <2>2 DEF Evaluates
  <2>3. ASSUME NEW t \in Threads, GateFree, Only(t), thread'[t].eval = EvaluationTime(now')
        PROVE  TimeInv'
    <3>1. Signals' = Signals /\ ListActiveEpisodes' = ListActiveEpisodes
          /\ ListActiveEpisodes \subseteq Signals
      BY <2>1, ActiveSame DEF ListActiveEpisodes
    <3>2. \A u \in Threads : Evaluates(u)' => thread'[u].eval = EvaluationTime(now')
      BY <2>3 DEF GateFree, Only, Evaluates
    <3>3. EvaluationTime(0) <= EvaluationTime(now')
      BY <1>0, EvaluationTimes
    <3> QED BY <1>0, <2>1, <3>1, <3>2, <3>3, TimeTypes DEF TimeInv
  <2> QED BY <1>2, <2>2, <2>3, ThreadTick
<1>3. CASE Crash
  <2>1. UNCHANGED episode /\ \A t \in Threads : thread'[t] = NoCycle
    BY <1>3 DEF Crash
  <2> QED BY <1>1, <2>1 DEF Evaluates, NoCycle
<1>4. CASE Start \/ Serve \/ \E s \in Signals : RestoreEpisode(s)
  BY <1>1, <1>4 DEF Start, Serve, RestoreEpisode, Evaluates
<1>5. ASSUME NEW s \in Signals, ReconcileUnrestorable(s) PROVE TimeInv'
  <2>1. PICK e \in Episodes : Rewrites(s, e, now) /\ e.state = "resolved"
    BY <1>5, ReconcileWrites
  <2>2. InTime(s, now)
    BY <1>5, ReconcileTime
  <2>3. \A t \in Threads : ~Evaluates(t)'
    BY <1>5 DEF ReconcileUnrestorable, NextUnread, GateInv, Busy, Evaluates
  <2>4. e.updated = now /\ episode'[s] = e /\ Signals' = Signals
        /\ \A u \in Signals : u # s => episode'[u] = episode[u]
    BY <2>1 DEF Rewrites, Transition, Stores
  <2> QED BY <1>0, <2>1, <2>2, <2>3, <2>4, TimeTypes
          DEF TimeInv, InTime, ListActiveEpisodes, Active
<1>6. ASSUME NEW t \in Threads, Local(t) PROVE TimeInv'
  BY <1>1, <1>6 DEF Local, Only, Evaluates
<1>7. ASSUME NEW t \in Threads, NEW s, NEW e, Writing(t, s, e) PROVE TimeInv'
  <2>1. InTime(s, thread[t].eval) /\ thread[t].eval <= EvaluationTime(now)
    BY <1>7, WritingTime
  <2>2. /\ e.updated = thread[t].eval /\ episode'[s] = e /\ Signals' = Signals \cup {s}
        /\ \A u \in Signals : u # s => episode'[u] = episode[u]
        /\ thread'[t].eval = thread[t].eval /\ Evaluates(t)
    BY <1>7 DEF Writing, Rewrites, Transition, Stores, Evaluates
  <2>3. \A u \in Threads : Evaluates(u)' => u = t
    BY <1>7 DEF Writing, Only, GateInv, Busy, Evaluates
  <2>4. /\ EvaluationTime(0) <= thread[t].eval
        /\ \A u \in ListActiveEpisodes : episode[u].updated <= thread[t].eval
    BY <2>2 DEF TimeInv
  <2>5. \A u \in ListActiveEpisodes' : u = s \/ (u \in ListActiveEpisodes /\ episode'[u] = episode[u])
    BY <2>2 DEF ListActiveEpisodes, Active
  <2>6. \A u \in ListActiveEpisodes' : episode'[u].updated <= thread[t].eval /\ episode'[u].updated \in Int
    BY <2>2, <2>4, <2>5, TimeTypes DEF ListActiveEpisodes
  <2>7. \A u \in Signals' : EvaluationTime(0) <= episode'[u].updated
    BY <2>2, <2>4 DEF TimeInv
  <2>8. thread[t].eval <= EvaluationTime(now') /\ thread[t].eval \in Int
    BY <1>0, <2>1, TimeTypes
  <2>9. \A u \in ListActiveEpisodes' : episode'[u].updated <= EvaluationTime(now')
    BY <1>0, <2>6, <2>8
  <2> QED BY <1>0, <2>2, <2>3, <2>4, <2>6, <2>7, <2>8, <2>9 DEF TimeInv
<1>8. ASSUME NEW t \in Threads,
             \/ \E r \in Rows : ClaimOutboxItem(t, r)
             \/ \E outcome \in Outcomes, arrived \in BOOLEAN : Post(t, outcome, arrived)
             \/ CompleteOutboxItem(t)
      PROVE  TimeInv'
  <2>1. Only(t) /\ ~Evaluates(t)'
    BY <1>8, ThreadDrains DEF Evaluates
  <2>2. UNCHANGED episode
    BY <1>8 DEF ClaimOutboxItem, Post, CompleteOutboxItem
  <2> QED BY <1>1, <2>1, <2>2 DEF Only, Evaluates
<1> QED BY <1>2, <1>3, <1>4, <1>5, <1>6, <1>7, <1>8, StepKinds

-----------------------------------------------------------------------------
(* Alerts *)

\* A transaction in time keeps every row and every alert within the horizon.
LEMMA RewriteAlerts ==
  ASSUME TypeOK, AlertInv, NEW s, NEW e, NEW at, Rewrites(s, e, at), InTime(s, at), UNCHANGED alerts
  PROVE  AlertInv'
<1>0. Horizon \in Nat
  BY EngineAssumption
<1>1. /\ Signals' = Signals \cup {s} /\ episode'[s] = e /\ e.updated = at
      /\ \A u \in Signals : u # s => episode'[u] = episode[u]
      /\ s \in Signals => Active(s)
  BY DEF Rewrites, Transition, Stores
<1>2. Rows \subseteq Rows' /\ \A r \in Rows : outbox'[r] = outbox[r]
  BY RewritesRows
<1>3. at \in Int /\ EvaluationTime(0) \in Int /\ EvaluationTime(0) <= at
      /\ \A u \in Signals : episode[u].updated \in Int
  BY TimeTypes DEF InTime
<1>4. \A u \in Signals : EndsAt(episode[u].updated) <= EndsAt(episode'[u].updated)
  BY <1>0, <1>1, <1>3 DEF EndsAt, InTime
<1>5. \A u \in Signals : EndsAt(episode[u].updated) \in Int /\ EndsAt(episode'[u].updated) \in Int
  BY <1>0, <1>1, <1>3 DEF EndsAt
<1>6. ASSUME NEW r \in Rows'
      PROVE  /\ outbox'[r].signal \in Signals'
             /\ outbox'[r].ends <= EndsAt(episode'[outbox'[r].signal].updated)
             /\ outbox'[r].kind = "resolve" =>
                  /\ ~Active(outbox[r].signal)'
                  /\ outbox'[r].ends = episode'[outbox'[r].signal].updated
  <2>1. CASE r \in Rows
    <3> DEFINE u == outbox[r].signal
    <3>1. /\ u \in Signals /\ outbox[r].ends <= EndsAt(episode[u].updated)
          /\ outbox[r].kind = "resolve" => ~Active(u) /\ outbox[r].ends = episode[u].updated
      BY <2>1 DEF AlertInv
    <3>2. outbox'[r] = outbox[r] /\ outbox[r].ends \in Int
      BY <1>2, <2>1, RowAlert
    <3> HIDE DEF u
    <3>3. outbox[r].ends <= EndsAt(episode'[u].updated)
      BY <1>4, <1>5, <3>1, <3>2
    <3> QED BY <1>1, <3>1, <3>2, <3>3 DEF Active, u
  <2>2. CASE r \notin Rows
    <3>1. Announcement(outbox'[r], s, e)
      BY <2>2 DEF Rewrites, Transition
    <3>2. /\ outbox'[r].signal = s /\ (outbox'[r].ends = EndsAt(at) \/ outbox'[r].ends = at)
          /\ outbox'[r].kind = "resolve" => outbox'[r].ends = at /\ e.state = "resolved"
      BY <1>1, <3>1 DEF Announcement, Refreshing
    <3>3. outbox'[r].ends <= EndsAt(at)
      BY <1>0, <1>3, <3>2 DEF EndsAt
    <3> QED BY <1>1, <3>2, <3>3 DEF Active
  <2> QED BY <2>1, <2>2
<1>7. ASSUME NEW a \in Alerts
      PROVE  IF a[1] \in Signals' THEN alerts'[a] <= EndsAt(episode'[a[1]].updated)
                                  ELSE alerts'[a] = EvaluationTime(0)
  <2>1. alerts[a] \in Int /\ alerts' = alerts
    BY DEF TypeOK
  <2>2. CASE a[1] \in Signals
    <3>1. alerts[a] <= EndsAt(episode[a[1]].updated)
      BY <2>2 DEF AlertInv
    <3>2. alerts[a] <= EndsAt(episode'[a[1]].updated)
      BY <1>4, <1>5, <2>1, <2>2, <3>1
    <3> QED BY <1>1, <2>1, <2>2, <3>2
  <2>3. CASE a[1] \notin Signals
    <3>1. alerts[a] = EvaluationTime(0)
      BY <2>3 DEF AlertInv
    <3>2. EvaluationTime(0) <= EndsAt(at)
      BY <1>0, <1>3 DEF EndsAt
    <3> QED BY <1>1, <2>1, <2>3, <3>1, <3>2
  <2> QED BY <2>2, <2>3
<1> QED BY <1>6, <1>7 DEF AlertInv

LEMMA AlertStep ==
  ASSUME TypeOK, MemoryInv, GateInv, TimeInv, AlertInv, Next
  PROVE  AlertInv'
\* Alerts and the episodes stay, and no row is added.
<1>1. ASSUME UNCHANGED <<episode, alerts>>, SameContent, Rows' = Rows PROVE AlertInv'
  <2>1. Signals' = Signals
    BY <1>1, ActiveSame
  <2> QED BY <1>1, <2>1 DEF AlertInv, SameContent, Active
<1>2. ASSUME UNCHANGED <<episode, outbox, alerts>> PROVE AlertInv'
  BY <1>1, <1>2 DEF SameContent, Rows
<1>3. CASE Tick \/ Crash \/ Start \/ Serve \/ \E s \in Signals : RestoreEpisode(s)
  BY <1>2, <1>3 DEF Tick, Crash, Start, Serve, RestoreEpisode
<1>4. ASSUME NEW s \in Signals, ReconcileUnrestorable(s) PROVE AlertInv'
  <2>1. UNCHANGED alerts /\ \E e : Rewrites(s, e, now)
    BY <1>4, ReconcileWrites DEF ReconcileUnrestorable
  <2> QED BY <1>4, <2>1, ReconcileTime, RewriteAlerts
<1>5. ASSUME NEW t \in Threads, Local(t) PROVE AlertInv'
  BY <1>2, <1>5 DEF Local
<1>6. ASSUME NEW t \in Threads, NEW s, NEW e, Writing(t, s, e) PROVE AlertInv'
  <2>1. UNCHANGED alerts /\ Rewrites(s, e, thread[t].eval)
    BY <1>6 DEF Writing
  <2> QED BY <1>6, <2>1, WritingTime, RewriteAlerts
<1>7. ASSUME NEW t \in Threads, NEW r \in Rows, ClaimOutboxItem(t, r) PROVE AlertInv'
  <2>1. UNCHANGED <<episode, alerts>>
    BY <1>7 DEF ClaimOutboxItem
  <2> QED BY <1>1, <1>7, <2>1, ClaimStamps, RestampsContent
<1>8. ASSUME NEW t \in Threads, CompleteOutboxItem(t) PROVE AlertInv'
  <2>1. UNCHANGED <<episode, alerts>>
    BY <1>8 DEF CompleteOutboxItem
  <2>2. \E r \in Rows : \E x : Restamps(r, x)
    BY <1>8, CompleteStamps
  <2> QED BY <1>1, <2>1, <2>2, RestampsContent
<1>9. ASSUME NEW t \in Threads, NEW outcome \in Outcomes, NEW arrived \in BOOLEAN,
             Post(t, outcome, arrived)
      PROVE  AlertInv'
  <2> DEFINE r == thread[t].job
             a == AlertOf(r)
  <2>1. r \in Rows /\ (alerts' = alerts \/ alerts' = Received(a, outbox[r].ends))
    BY <1>9, PostFacts
  <2>2. UNCHANGED <<episode, outbox>>
    BY <1>9 DEF Post
  <2> HIDE DEF r
  <2>3. CASE alerts' = alerts
    BY <1>2, <2>2, <2>3
  <2>4. CASE alerts' = Received(a, outbox[r].ends)
    <3>1. a \in Alerts /\ outbox[r].ends \in Int /\ a[1] = outbox[r].signal
      BY <2>1, RowAlert DEF AlertOf
    <3>2. /\ \A b \in Alerts : b # a => alerts'[b] = alerts[b]
          /\ alerts'[a] \in {alerts[a], outbox[r].ends}
      BY <2>4, <3>1, ReceivedEnds
    <3>3. /\ outbox[r].signal \in Signals
          /\ outbox[r].ends <= EndsAt(episode[outbox[r].signal].updated)
          /\ alerts[a] <= EndsAt(episode[outbox[r].signal].updated)
      BY <2>1, <3>1 DEF AlertInv
    <3>4. Signals' = Signals /\ Rows' = Rows
      BY <2>2 DEF Signals, Rows
    <3> HIDE DEF a
    <3>5. ASSUME NEW b \in Alerts
          PROVE  IF b[1] \in Signals' THEN alerts'[b] <= EndsAt(episode'[b[1]].updated)
                                      ELSE alerts'[b] = EvaluationTime(0)
      <4>1. CASE b = a
        BY <2>2, <3>1, <3>2, <3>3, <3>4, <4>1
      <4>2. CASE b # a
        BY <2>2, <3>2, <3>4, <4>2 DEF AlertInv
      <4> QED BY <4>1, <4>2
    <3> QED BY <2>2, <3>4, <3>5 DEF AlertInv, Active
  <2> QED BY <2>1, <2>3, <2>4
<1> QED BY <1>3, <1>4, <1>5, <1>6, <1>7, <1>8, <1>9, StepKinds

-----------------------------------------------------------------------------
(* Memory and store *)

\* A host that a step leaves alone, in memory and in the store.
LEMMA AgreesKept ==
  ASSUME NEW h, Agrees(h), Sane(life[h])',
         life'[h].state = life[h].state, life'[h].severity = life[h].severity,
         \A s : s \in ActiveOf(h)' <=> s \in ActiveOf(h),
         \A s \in ActiveOf(h) :
           episode'[s].state = episode[s].state /\ episode'[s].severity = episode[s].severity
  PROVE  Agrees(h)'
BY DEF Agrees, Sane, Alerting

\* Of a host whose episode is not the one a step rewrites.
LEMMA OtherHost ==
  ASSUME NEW s, NEW e, NEW at, Rewrites(s, e, at), NEW g, g # e.host
  PROVE  /\ \A u : u \in ActiveOf(g)' <=> u \in ActiveOf(g)
         /\ \A u \in ActiveOf(g) : episode'[u] = episode[u]
<1>1. s \notin ActiveOf(g)
  BY DEF Rewrites, ActiveOf, ListActiveEpisodes
<1>2. \A u \in ActiveOf(g) : u \in Signals
  BY DEF ActiveOf, ListActiveEpisodes
<1> QED BY <1>1, <1>2, ActiveAfter

\* The only active episode of a host.
LEMMA OnlyOne ==
  ASSUME OneActiveEpisode, NEW h \in Hosts, NEW s \in ActiveOf(h)
  PROVE  \A u : u \in ActiveOf(h) <=> u = s
BY DEF OneActiveEpisode

\* The severity of the active episodes.
LEMMA SeverityStep ==
  ASSUME TypeOK, MemoryInv, Next
  PROVE  \A s \in ListActiveEpisodes' : episode'[s].severity \in ActiveSeverities
<1>1. CASE UNCHANGED episode
  BY <1>1, ActiveSame DEF MemoryInv
<1>2. ASSUME NEW s, NEW e, NEW at, Rewrites(s, e, at), NEW u \in ListActiveEpisodes'
      PROVE  episode'[u].severity \in ActiveSeverities
  <2>1. CASE u = s
    BY <1>2, <2>1 DEF Rewrites, Transition, Stores, ListActiveEpisodes, Active
  <2>2. CASE u # s
    BY <1>2, <2>2 DEF Rewrites, Transition, Stores, ListActiveEpisodes, Active, MemoryInv
  <2> QED BY <2>1, <2>2
<1> QED BY <1>1, <1>2, StoreKinds

\* While the daemon is up: what a step must do for every host.
LEMMA UpStep ==
  ASSUME TypeOK, MemoryInv, Next, proc = "up", proc' = "up", unread' = unread,
         \A h \in Hosts : h \notin torn' => h \notin torn /\ Agrees(h)'
  PROVE  MemoryInv'
<1>1. LifeOK' /\ \A s \in ListActiveEpisodes' : episode'[s].severity \in ActiveSeverities
  BY LifeStep, SeverityStep
<1> QED BY <1>1 DEF MemoryInv, MemoryFollowsStore, LifeOK

LEMMA QuietStep ==
  ASSUME TypeOK, MemoryInv, Next, UNCHANGED <<proc, unread, life, episode, torn>>
  PROVE  MemoryInv'
<1>1. /\ Signals' = Signals /\ ListActiveEpisodes' = ListActiveEpisodes
      /\ \A h : ActiveOf(h)' = ActiveOf(h)
  BY ActiveSame
<1>2. \A h : (Agrees(h)' <=> Agrees(h)) /\ (Unread(h)' <=> Unread(h))
  BY <1>1 DEF Agrees, Unread
<1> QED BY <1>1, <1>2 DEF MemoryInv, MemoryFollowsStore, Sane

LEMMA AdvanceQuietlyMemory ==
  ASSUME TypeOK, MemoryInv, Next, NEW t \in Threads, NEW h \in Hosts, NEW score \in Scores,
         AdvanceQuietly(t, h, score)
  PROVE  MemoryInv'
<1>1. /\ proc = "up" /\ UNCHANGED <<proc, unread, episode, torn>>
      /\ life' = [life EXCEPT ![h] = Advance(life[h], score).life]
      /\ Advance(life[h], score).action = "none"
  BY DEF AdvanceQuietly, Turn
<1>2. LifeOK
  BY DEF LifeOK, TypeOK, MemoryInv
<1>3. /\ LifeOK' /\ Moved(life[h], life'[h], "none")
      /\ \A g \in Hosts : g # h => life'[g] = life[g]
  BY <1>1, <1>2, AdvanceLife
<1>4. \A g : ActiveOf(g)' = ActiveOf(g)
  BY <1>1, ActiveSame
<1>5. ASSUME NEW g \in Hosts, g \notin torn PROVE Agrees(g)'
  <2>1. Agrees(g)
    BY <1>1, <1>5 DEF MemoryInv, MemoryFollowsStore
  <2>2. CASE g # h
    BY <1>1, <1>3, <1>4, <2>1, <2>2, AgreesKept DEF LifeOK
  <2>3. CASE g = h /\ life[h].state \in Alerting
    <3>1. life'[h].state = life[h].state /\ life'[h].severity = life[h].severity
      BY <1>3, <2>3 DEF Moved
    <3> QED BY <1>1, <1>3, <1>4, <2>1, <2>3, <3>1, AgreesKept DEF LifeOK
  <2>4. CASE g = h /\ life[h].state \notin Alerting
    BY <1>3, <1>4, <2>1, <2>4 DEF Moved, Agrees
  <2> QED BY <2>2, <2>3, <2>4
<1> QED BY <1>1, <1>5, UpStep

LEMMA PublishFailsMemory ==
  ASSUME TypeOK, MemoryInv, Next, NEW t \in Threads, NEW h \in Hosts, NEW score \in Scores,
         PublishFails(t, h, score)
  PROVE  MemoryInv'
<1>1. /\ proc = "up" /\ UNCHANGED <<proc, unread, episode>> /\ torn' = torn \cup {h}
      /\ life' = [life EXCEPT ![h] = Advance(life[h], score).life]
  BY DEF PublishFails, Turn
<1>2. LifeOK
  BY DEF LifeOK, TypeOK, MemoryInv
<1>3. LifeOK' /\ \A g \in Hosts : g # h => life'[g] = life[g]
  BY <1>1, <1>2, AdvanceLife
<1>4. \A g : ActiveOf(g)' = ActiveOf(g)
  BY <1>1, ActiveSame
<1>5. ASSUME NEW g \in Hosts, g \notin torn' PROVE g \notin torn /\ Agrees(g)'
  <2>1. g \notin torn /\ g # h
    BY <1>1, <1>5
  <2>2. Agrees(g)
    BY <1>1, <2>1 DEF MemoryInv, MemoryFollowsStore
  <2> QED BY <1>1, <1>3, <1>4, <2>1, <2>2, AgreesKept DEF LifeOK
<1> QED BY <1>1, <1>5, UpStep

LEMMA HeartbeatMemory ==
  ASSUME TypeOK, MemoryInv, Next, NEW t \in Threads, NEW s \in Signals, Heartbeat(t, s)
  PROVE  MemoryInv'
<1>1. proc = "up" /\ UNCHANGED <<proc, unread, life, torn>> /\ s \in ListActiveEpisodes
  BY DEF Heartbeat, AtRefresh, RefreshDue
<1>2. Active(s) /\ episode[s].severity \in ActiveSeverities
  BY <1>1 DEF MemoryInv, ListActiveEpisodes
<1>3. PICK e \in Episodes : Updates(s, e, episode[s].state, episode[s].severity, thread[t].eval)
  BY <1>2, HeartbeatWrites
<1>4. /\ Signals' = Signals /\ episode'[s] = e
      /\ \A u \in Signals : u # s => episode'[u] = episode[u]
      /\ e.host = episode[s].host /\ e.state = episode[s].state /\ e.severity = episode[s].severity
  BY <1>3 DEF Updates, Transition, Stores
<1>5. \A u \in Signals :
        /\ episode'[u].host = episode[u].host /\ episode'[u].state = episode[u].state
        /\ episode'[u].severity = episode[u].severity
  BY <1>4
<1>6. \A g, u : u \in ActiveOf(g)' <=> u \in ActiveOf(g)
  BY <1>4, <1>5 DEF ActiveOf, ListActiveEpisodes, Active
<1>7. \A g : \A u \in ActiveOf(g) : u \in Signals
  BY DEF ActiveOf, ListActiveEpisodes
<1>8. ASSUME NEW g \in Hosts, g \notin torn PROVE Agrees(g)'
  <2>1. Agrees(g) /\ Sane(life[g])
    BY <1>1, <1>8 DEF MemoryInv, MemoryFollowsStore
  <2>2. Sane(life[g])'
    BY <1>1, <2>1 DEF Sane
  <2> QED BY <1>1, <1>5, <1>6, <1>7, <2>1, <2>2, AgreesKept
<1> QED BY <1>1, <1>8, UpStep

LEMMA PublishMemory ==
  ASSUME TypeOK, MemoryInv, OneActiveEpisode, Next, NEW t \in Threads, NEW h \in Hosts,
         NEW score \in Scores, NEW channel \in Channels, Publish(t, h, score, channel)
  PROVE  MemoryInv'
<1> DEFINE m == Advance(life[h], score).life
           action == Advance(life[h], score).action
           eval == thread[t].eval
<1>1. /\ Moved(life[h], m, action) /\ Published(h, life[h], m, action, eval)
      /\ life' = [life EXCEPT ![h] = m]
  BY PublishFacts
<1>2. proc = "up" /\ UNCHANGED <<proc, unread, torn>>
  BY DEF Publish, Turn
<1> HIDE DEF m, action, eval
<1>3. life'[h] = m /\ \A g \in Hosts : g # h => life'[g] = life[g]
  BY <1>1 DEF TypeOK
<1>4. LifeOK'
  BY LifeStep
<1>5. ASSUME NEW s, NEW e, Transition(s, e), e.host = h,
             s \in Signals => Active(s) /\ episode[s].host = h,
             NEW g \in Hosts, g \notin torn, g # h
      PROVE  Agrees(g)'
  <2>1. Agrees(g)
    BY <1>2, <1>5 DEF MemoryInv, MemoryFollowsStore
  <2>2. s \notin ActiveOf(g)
    BY <1>5 DEF ActiveOf, ListActiveEpisodes
  <2>3. /\ \A u : u \in ActiveOf(g)' <=> u \in ActiveOf(g)
        /\ \A u \in ActiveOf(g) : episode'[u] = episode[u]
    BY <1>5, <2>2 DEF Transition, Stores, ActiveOf, ListActiveEpisodes, Active
  <2> QED BY <1>3, <1>4, <1>5, <2>1, <2>3, AgreesKept DEF LifeOK
\* The host itself, by what is published.
<1>6. ASSUME NEW s, NEW e, Transition(s, e), e.host = h, e.state = m.state,
             e.severity = m.severity, m.state \in Alerting
      PROVE  Agrees(h)'
  <2>1. s \in Signals' /\ episode'[s] = e
    BY <1>6 DEF Transition, Stores
  <2>2. s \in ActiveOf(h)'
    BY <1>6, <2>1 DEF ActiveOf, ListActiveEpisodes, Active, Alerting
  <2>3. m.state = "recovering" => m.prior = m.severity
    BY <1>1 DEF Moved, Sane
  <2> QED BY <1>3, <1>6, <2>1, <2>2, <2>3 DEF Agrees
<1>7. CASE action \in Creates
  <2>1. PICK s \in SignalIds, e \in Episodes :
          /\ s \notin Signals /\ Transition(s, e)
          /\ e.host = h /\ e.state = "firing" /\ e.severity = m.severity
    BY <1>1, <1>7 DEF Published, Creates
  <2>2. m.state = "firing"
    BY <1>1, <1>7 DEF Moved
  <2>3. Agrees(h)'
    BY <1>6, <2>1, <2>2 DEF Alerting
  <2> QED BY <1>2, <1>5, <2>1, <2>3, UpStep
<1>8. CASE action = "escalate_critical"
  <2>1. PICK s \in ActiveOf(h), e \in Episodes :
          Updates(s, e, episode[s].state, "critical", eval)
    BY <1>1, <1>8 DEF Published, Creates
  <2>2. s \in Signals /\ Active(s) /\ episode[s].host = h
    BY ActiveFacts
  <2>3. /\ Transition(s, e) /\ e.host = h /\ e.state = episode[s].state /\ e.severity = "critical"
    BY <2>1, <2>2 DEF Updates
  <2>4. life[h].state = "firing" /\ m.state = "firing" /\ m.severity = "critical"
    BY <1>1, <1>8 DEF Moved
  <2>5. ASSUME h \notin torn PROVE Agrees(h)'
    <3>1. Agrees(h)
      BY <1>2, <2>5 DEF MemoryInv, MemoryFollowsStore
    <3>2. episode[s].state = "firing"
      BY <2>4, <3>1, OnlyOne DEF Agrees, Alerting
    <3> QED BY <1>6, <2>3, <2>4, <3>2 DEF Alerting
  <2> QED BY <1>2, <1>5, <2>2, <2>3, <2>5, UpStep
<1>9. CASE action \in {"enter_recovering", "return_to_firing"}
  <2>1. PICK s \in ActiveOf(h), e \in Episodes : Updates(s, e, m.state, m.severity, eval)
    BY <1>1, <1>9 DEF Published, Creates
  <2>2. s \in Signals /\ Active(s) /\ episode[s].host = h
    BY ActiveFacts
  <2>3. Transition(s, e) /\ e.host = h /\ e.state = m.state /\ e.severity = m.severity
    BY <2>1, <2>2 DEF Updates
  <2>4. m.state \in Alerting
    BY <1>1, <1>9 DEF Moved, Alerting
  <2>5. Agrees(h)'
    BY <1>6, <2>3, <2>4
  <2> QED BY <1>2, <1>5, <2>2, <2>3, <2>5, UpStep
<1>10. CASE action = "resolve"
  <2>1. PICK s \in ActiveOf(h), e \in Episodes : Updates(s, e, "resolved", "", eval)
    BY <1>1, <1>10 DEF Published, Creates
  <2>2. s \in Signals /\ Active(s) /\ episode[s].host = h
    BY ActiveFacts
  <2>3. Transition(s, e) /\ e.host = h /\ e.state = "resolved"
    BY <2>1, <2>2 DEF Updates
  <2>4. m.state = "normal"
    BY <1>1, <1>10 DEF Moved
  <2>5. \A u : u \in ActiveOf(h) <=> u = s
    BY OnlyOne
  <2>6. ActiveOf(h)' = {}
    BY <2>2, <2>3, <2>5 DEF Transition, Stores, ActiveOf, ListActiveEpisodes, Active
  <2>7. Agrees(h)'
    BY <1>3, <2>4, <2>6 DEF Agrees, Alerting
  <2> QED BY <1>2, <1>5, <2>2, <2>3, <2>7, UpStep
<1> QED BY <1>1, <1>7, <1>8, <1>9, <1>10 DEF Published

\* The daemon goes down, comes up and reads the store.
LEMMA CrashMemory ==
  ASSUME TypeOK, MemoryInv, Next, Crash
  PROVE  MemoryInv'
<1>1. LifeOK' /\ \A s \in ListActiveEpisodes' : episode'[s].severity \in ActiveSeverities
  BY LifeStep, SeverityStep
<1>2. proc' = "down" /\ unread' = {} /\ \A h \in Hosts : life'[h] = NewHostLifecycle
  BY DEF Crash
<1>3. \A h \in Hosts : life'[h].state \notin Alerting
  <2>1. NewHostLifecycle.state = "normal"
    BY DEF NewHostLifecycle
  <2> QED BY <1>2, <2>1 DEF Alerting
<1> QED BY <1>1, <1>2, <1>3 DEF MemoryInv, MemoryFollowsStore, LifeOK

LEMMA StartMemory ==
  ASSUME TypeOK, MemoryInv, Next, Start
  PROVE  MemoryInv'
<1>1. LifeOK' /\ \A s \in ListActiveEpisodes' : episode'[s].severity \in ActiveSeverities
  BY LifeStep, SeverityStep
<1>2. /\ proc = "down" /\ proc' = "booting" /\ unread' = ListActiveEpisodes
      /\ UNCHANGED <<life, episode>>
  BY DEF Start
<1>3. ListActiveEpisodes' = ListActiveEpisodes /\ \A h : ActiveOf(h)' = ActiveOf(h)
  BY <1>2, ActiveSame
<1>4. \A h \in Hosts : life'[h].state \notin Alerting
  BY <1>2 DEF MemoryInv
<1>5. \A h \in Hosts : ~Unread(h)' => ActiveOf(h)' = {}
  BY <1>2, <1>3 DEF Unread, ActiveOf
<1>6. \A h \in Hosts : ~Unread(h)' => Agrees(h)'
  BY <1>4, <1>5 DEF Agrees
<1> QED BY <1>1, <1>2, <1>3, <1>4, <1>6 DEF MemoryInv, MemoryFollowsStore, LifeOK

LEMMA ServeMemory ==
  ASSUME TypeOK, MemoryInv, Next, Serve
  PROVE  MemoryInv'
<1>1. LifeOK' /\ \A s \in ListActiveEpisodes' : episode'[s].severity \in ActiveSeverities
  BY LifeStep, SeverityStep
<1>2. /\ proc = "booting" /\ proc' = "up" /\ unread = {} /\ unread' = {}
      /\ UNCHANGED <<life, episode>>
  BY DEF Serve
<1>3. \A h : ActiveOf(h)' = ActiveOf(h)
  BY <1>2, ActiveSame
<1>4. ASSUME NEW h \in Hosts PROVE Agrees(h)'
  <2>1. ~Unread(h)
    BY <1>2 DEF Unread
  <2>2. Agrees(h)
    BY <1>2, <2>1 DEF MemoryInv
  <2> QED BY <1>2, <1>3, <2>2 DEF Agrees
<1> QED BY <1>1, <1>2, <1>4 DEF MemoryInv, MemoryFollowsStore, LifeOK

\* A booting daemon has dealt with one episode.
LEMMA BootStep ==
  ASSUME TypeOK, MemoryInv, Next, proc = "booting", proc' = "booting",
         unread' \subseteq ListActiveEpisodes',
         \A h \in Hosts : IF Unread(h)' THEN life'[h].state \notin Alerting ELSE Agrees(h)'
  PROVE  MemoryInv'
<1>1. LifeOK' /\ \A s \in ListActiveEpisodes' : episode'[s].severity \in ActiveSeverities
  BY LifeStep, SeverityStep
<1> QED BY <1>1 DEF MemoryInv, MemoryFollowsStore, LifeOK

LEMMA RestoreMemory ==
  ASSUME TypeOK, MemoryInv, OneActiveEpisode, Next, NEW s \in Signals, RestoreEpisode(s)
  PROVE  MemoryInv'
<1>0. PICK h \in Hosts : h = episode[s].host
  <2>1. s \in unread
    BY DEF RestoreEpisode, NextUnread
  <2> QED BY <2>1, UnreadEpisode
<1>1. /\ proc = "booting" /\ s \in unread /\ unread' = unread \ {s} /\ UNCHANGED <<proc, episode>>
      /\ life' = [life EXCEPT ![h] = Restored(episode[s])]
  BY <1>0 DEF RestoreEpisode, NextUnread
<1>2. /\ Active(s) /\ episode[s] \in Episodes /\ h \in Hosts
      /\ episode[s].state \in Alerting /\ episode[s].severity \in ActiveSeverities
  BY <1>0, <1>1, UnreadEpisode
<1>3. /\ ListActiveEpisodes' = ListActiveEpisodes /\ \A g : ActiveOf(g)' = ActiveOf(g)
      /\ unread \subseteq ListActiveEpisodes
  BY <1>1, ActiveSame DEF MemoryInv
<1>4. s \in ActiveOf(h)
  BY <1>0, <1>2 DEF ActiveOf, ListActiveEpisodes
<1>5. \A u : u \in ActiveOf(h) <=> u = s
  BY <1>2, <1>4, OnlyOne
<1>6. life'[h] = Restored(episode[s]) /\ \A g \in Hosts : g # h => life'[g] = life[g]
  BY <1>1, <1>2 DEF TypeOK
<1>7. LET m == Restored(episode[s]) IN
      /\ m.state = episode[s].state /\ m.severity = episode[s].severity
      /\ m.state = "recovering" => m.prior = m.severity
  BY <1>2, RestoredType
<1>8. Agrees(h)'
  BY <1>1, <1>2, <1>3, <1>4, <1>6, <1>7 DEF Agrees
<1>9. ~Unread(h)'
  BY <1>1, <1>3, <1>5 DEF Unread
<1>10. ASSUME NEW g \in Hosts, g # h
       PROVE  IF Unread(g)' THEN life'[g].state \notin Alerting ELSE Agrees(g)'
  <2>1. s \notin ActiveOf(g)
    BY <1>0, <1>10 DEF ActiveOf
  <2>2. Unread(g)' <=> Unread(g)
    BY <1>1, <1>3, <2>1 DEF Unread
  <2>3. Agrees(g) => Agrees(g)'
    BY <1>1, <1>3, <1>6, <1>10 DEF Agrees
  <2>4. IF Unread(g) THEN life[g].state \notin Alerting ELSE Agrees(g)
    BY <1>1 DEF MemoryInv
  <2> QED BY <1>6, <1>10, <2>2, <2>3, <2>4
<1> QED BY <1>1, <1>3, <1>8, <1>9, <1>10, BootStep

LEMMA ReconcileMemory ==
  ASSUME TypeOK, MemoryInv, OneActiveEpisode, Next, NEW s \in Signals, ReconcileUnrestorable(s)
  PROVE  MemoryInv'
<1>0. PICK h \in Hosts : h = episode[s].host
  <2>1. s \in unread
    BY DEF ReconcileUnrestorable, NextUnread
  <2> QED BY <2>1, UnreadEpisode
<1>1. proc = "booting" /\ s \in unread /\ unread' = unread \ {s} /\ UNCHANGED <<proc, life>>
  BY DEF ReconcileUnrestorable, NextUnread
<1>2. Active(s) /\ h \in Hosts
  BY <1>0, <1>1, UnreadEpisode
<1>3. PICK e \in Episodes : Rewrites(s, e, now) /\ e.state = "resolved"
  BY ReconcileWrites
<1>4. s \in ActiveOf(h) /\ e.host = h
  BY <1>0, <1>2, <1>3 DEF ActiveOf, ListActiveEpisodes, Rewrites
<1>5. \A u : u \in ActiveOf(h) <=> u = s
  BY <1>2, <1>4, OnlyOne
<1>6. ActiveOf(h)' = {}
  BY <1>3, <1>5, ActiveAfter
<1>7. Unread(h) /\ ~Unread(h)'
  BY <1>1, <1>4, <1>6 DEF Unread
<1>8. Agrees(h)'
  <2>1. life'[h].state \notin Alerting
    BY <1>1, <1>2, <1>7 DEF MemoryInv
  <2> QED BY <1>6, <2>1 DEF Agrees
<1>9. unread' \subseteq ListActiveEpisodes'
  BY <1>1, <1>3 DEF MemoryInv, Rewrites, Transition, Stores, ListActiveEpisodes, Active
<1>10. ASSUME NEW g \in Hosts, g # h
       PROVE  IF Unread(g)' THEN life'[g].state \notin Alerting ELSE Agrees(g)'
  <2>1. /\ \A u : u \in ActiveOf(g)' <=> u \in ActiveOf(g)
        /\ \A u \in ActiveOf(g) : episode'[u] = episode[u]
    BY <1>3, <1>4, <1>10, OtherHost
  <2>2. s \notin ActiveOf(g)
    BY <1>0, <1>10 DEF ActiveOf
  <2>3. Unread(g)' <=> Unread(g)
    BY <1>1, <2>1, <2>2 DEF Unread
  <2>4. Agrees(g) => Agrees(g)'
    <3>1. Sane(life[g])'
      BY <1>1 DEF MemoryInv, Sane
    <3> QED BY <1>1, <2>1, <3>1, AgreesKept
  <2>5. IF Unread(g) THEN life[g].state \notin Alerting ELSE Agrees(g)
    BY <1>1 DEF MemoryInv
  <2> QED BY <1>1, <2>3, <2>4, <2>5
<1> QED BY <1>1, <1>8, <1>7, <1>9, <1>10, BootStep

LEMMA MemoryStep ==
  ASSUME TypeOK, MemoryInv, OneActiveEpisode, Next
  PROVE  MemoryInv'
<1>1. ASSUME NEW t \in Threads, Cycle(t) PROVE MemoryInv'
  <2>1. ASSUME NEW valid \in SUBSET Hosts, Query(t, valid) PROVE MemoryInv'
    BY <2>1, QuietStep DEF Query
  <2>2. CASE QueryFails(t)
    BY <2>2, QuietStep DEF QueryFails
  <2>3. CASE HeartbeatFails(t)
    BY <2>3, QuietStep DEF HeartbeatFails
  <2>4. CASE EndRunCycle(t)
    BY <2>4, QuietStep DEF EndRunCycle
  <2>5. CASE StartDrain(t)
    BY <2>5, QuietStep DEF StartDrain
  <2>6. ASSUME NEW r \in Rows, ClaimOutboxItem(t, r) PROVE MemoryInv'
    BY <2>6, QuietStep DEF ClaimOutboxItem
  <2>7. CASE EndCycle(t)
    BY <2>7, QuietStep DEF EndCycle
  <2>8. ASSUME NEW outcome \in Outcomes, NEW arrived \in BOOLEAN, Post(t, outcome, arrived)
        PROVE  MemoryInv'
    BY <2>8, QuietStep DEF Post
  <2>9. CASE CompleteOutboxItem(t)
    BY <2>9, QuietStep DEF CompleteOutboxItem
  <2>10. CASE CompleteFails(t)
    BY <2>10, QuietStep DEF CompleteFails
  <2> QED BY <1>1, <2>1, <2>2, <2>3, <2>4, <2>5, <2>6, <2>7, <2>8, <2>9, <2>10,
             AdvanceQuietlyMemory, PublishMemory, PublishFailsMemory, HeartbeatMemory DEF Cycle
<1>2. CASE Tick
  BY <1>2, QuietStep DEF Tick
<1> QED BY <1>1, <1>2, CrashMemory, StartMemory, ServeMemory, RestoreMemory, ReconcileMemory DEF Next

-----------------------------------------------------------------------------
(* The steps of a run without a failure *)

LEMMA NoFault ==
  ASSUME TypeOK, Next, faults' = 0
  PROVE  faults = 0 /\ ~Fault
<1>1. faults \in Nat
  BY DEF TypeOK
<1>2. faults' = faults \/ faults' = faults + 1
  BY StepFrame DEF Frame
<1> QED BY <1>1, <1>2 DEF Fault

\* While memory and store agree every transition can be committed.
LEMMA AgreesCommits ==
  ASSUME NEW h, Agrees(h), NEW m, NEW action, Moved(life[h], m, action), action # "none"
  PROVE  Committable(h, action)
<1>1. CASE action \in Creates
  BY <1>1 DEF Moved, Agrees, Committable
<1>2. CASE action \notin Creates
  <2>1. life[h].state \in Alerting
    BY <1>2 DEF Moved, LifecycleActions, Creates, Alerting
  <2> QED BY <1>2, <2>1 DEF Agrees, Committable
<1> QED BY <1>1, <1>2

\* A cycle goes on without writing the store or claiming a row.
Plain(t) ==
  /\ proc = "up" /\ UNCHANGED <<now, proc, episode, outbox, alerts, flapped, torn>>
  /\ Only(t) /\ thread'[t].eval = thread[t].eval
  /\ thread[t].pc \in {"query", "hosts", "drain"} /\ thread'[t].pc \in {"hosts", "drain", "claim"}
  /\ thread'[t].pc = "claim" => thread'[t].at = now
  /\ Evaluates(t) => Evaluates(t)' \/ RefreshDue(thread[t].eval) = {}

\* A transition that keeps an unflapped episode's alert, and a critical one critical.
Keeps(s, e) ==
  /\ flapped \subseteq flapped' /\ UNCHANGED torn
  /\ e.state = "resolved" \/ s \in flapped' \/ Refreshed
  /\ s \in Signals /\ e.state # "resolved" => e.severity \in {episode[s].severity, "critical"}

LEMMA PlainSteps ==
  ASSUME TypeOK, NEW t \in Threads,
         \/ \E valid \in SUBSET Hosts : Query(t, valid)
         \/ \E h \in Hosts, score \in Scores : AdvanceQuietly(t, h, score)
         \/ EndRunCycle(t) \/ StartDrain(t)
  PROVE  Plain(t)
<1>1. ASSUME NEW valid \in SUBSET Hosts, Query(t, valid) PROVE Plain(t)
  BY <1>1, ThreadGoes DEF Query, Plain, Goes, Evaluates
<1>2. ASSUME NEW h \in Hosts, NEW score \in Scores, AdvanceQuietly(t, h, score) PROVE Plain(t)
  BY <1>2, ThreadGoes DEF AdvanceQuietly, Turn, Plain, Goes, Evaluates
<1>3. ASSUME EndRunCycle(t) PROVE Plain(t)
  BY <1>3, ThreadGoes DEF EndRunCycle, AtRefresh, Plain, Goes, Evaluates
<1>4. ASSUME StartDrain(t) PROVE Plain(t)
  BY <1>4, ThreadDrains DEF StartDrain, Plain, Evaluates
<1> QED BY <1>1, <1>2, <1>3, <1>4

LEMMA HeartbeatKeeps ==
  ASSUME TypeOK, MemoryInv, NEW t \in Threads, NEW s \in Signals, Heartbeat(t, s)
  PROVE  \E e : Writing(t, s, e) /\ Keeps(s, e)
<1>1. s \in ListActiveEpisodes
  BY DEF Heartbeat, RefreshDue
<1>2. Active(s) /\ episode[s].severity \in ActiveSeverities /\ s \in SignalIds
  BY <1>1, Indices DEF MemoryInv, ListActiveEpisodes
<1>3. PICK e \in Episodes :
        Updates(s, e, episode[s].state, episode[s].severity, thread[t].eval) /\ Refreshed
  BY <1>2, HeartbeatWrites
<1>4. Rewrites(s, e, thread[t].eval)
  BY <1>2, <1>3 DEF Rewrites, Updates
<1>5. Writing(t, s, e)
  BY <1>4 DEF Writing, Heartbeat, AtRefresh, Only, TypeOK
<1>6. Keeps(s, e)
  BY <1>3 DEF Keeps, Updates, Heartbeat
<1> QED BY <1>5, <1>6

LEMMA PublishKeeps ==
  ASSUME TypeOK, MemoryInv, OneActiveEpisode, NEW t \in Threads, NEW h \in Hosts,
         NEW score \in Scores, NEW channel \in Channels, Agrees(h), Publish(t, h, score, channel)
  PROVE  \E s, e : Writing(t, s, e) /\ Keeps(s, e)
<1> DEFINE m == Advance(life[h], score).life
           action == Advance(life[h], score).action
           eval == thread[t].eval
<1>1. Moved(life[h], m, action) /\ Published(h, life[h], m, action, eval)
  BY PublishFacts
<1>2. /\ proc = "up" /\ thread[t].pc = "hosts" /\ Goes(t, "hosts")
      /\ UNCHANGED <<now, proc, unread, alerts, posted, torn>>
  BY ThreadGoes DEF Publish, Turn
<1> HIDE DEF m, action, eval
<1>3. ASSUME NEW s \in ActiveOf(h), NEW e \in Episodes, NEW x, NEW y,
             Updates(s, e, x, y, eval), x # "resolved" => y \in ActiveSeverities
      PROVE  Rewrites(s, e, eval)
  BY <1>3, ActiveFacts, Indices DEF Rewrites, Updates
<1>4. ASSUME NEW s, NEW e, Rewrites(s, e, eval) PROVE Writing(t, s, e)
  BY <1>2, <1>4 DEF Writing, Goes, eval
<1>5. ASSUME NEW s \in SignalIds, NEW e \in Episodes, s \notin Signals, Transition(s, e), Refreshed,
             ActiveOf(h) = {}, action \in Creates, UNCHANGED flapped,
             e.host = h, e.state = "firing", e.severity = m.severity, e.updated = eval
      PROVE  Writing(t, s, e) /\ Keeps(s, e)
  <2>1. Rewrites(s, e, eval)
    BY <1>1, <1>5 DEF Rewrites, Moved, Sane
  <2> QED BY <1>2, <1>4, <1>5, <2>1 DEF Keeps
<1>6. ASSUME NEW s \in ActiveOf(h), NEW e \in Episodes, Refreshed, UNCHANGED flapped,
             Updates(s, e, episode[s].state, "critical", eval)
      PROVE  Writing(t, s, e) /\ Keeps(s, e)
  <2>1. Rewrites(s, e, eval)
    BY <1>3, <1>6 DEF ActiveSeverities
  <2> QED BY <1>2, <1>4, <1>6, <2>1 DEF Keeps, Updates
<1>7. ASSUME NEW s \in ActiveOf(h), NEW e \in Episodes, flapped' = flapped \cup {s},
             action \in {"enter_recovering", "return_to_firing"},
             Updates(s, e, m.state, m.severity, eval)
      PROVE  Writing(t, s, e) /\ Keeps(s, e)
  <2>1. m.severity \in ActiveSeverities /\ m.severity = life[h].severity /\ life[h].state \in Alerting
    BY <1>1, <1>7 DEF Moved, Sane, Alerting
  <2>2. episode[s].severity = life[h].severity
    <3>1. \A u : u \in ActiveOf(h) <=> u = s
      BY <1>7, OnlyOne
    <3> QED BY <2>1, <3>1 DEF Agrees
  <2>3. Rewrites(s, e, eval)
    BY <1>3, <1>7, <2>1
  <2> QED BY <1>2, <1>4, <1>7, <2>1, <2>2, <2>3 DEF Keeps, Updates
<1>8. ASSUME NEW s \in ActiveOf(h), NEW e \in Episodes, UNCHANGED flapped,
             Updates(s, e, "resolved", "", eval)
      PROVE  Writing(t, s, e) /\ Keeps(s, e)
  <2>1. Rewrites(s, e, eval)
    BY <1>3, <1>8
  <2> QED BY <1>2, <1>4, <1>8, <2>1 DEF Keeps, Updates
<1> QED BY <1>1, <1>5, <1>6, <1>7, <1>8 DEF Published

\* Without a failure the daemon boots, ticks and runs its cycles.
CalmStep ==
  \/ Tick \/ Serve
  \/ \E t \in Threads :
       \/ Plain(t)
       \/ \E s, e : Writing(t, s, e) /\ Keeps(s, e)
       \/ \E r \in Rows : ClaimOutboxItem(t, r)
       \/ EndCycle(t) /\ Eligible(thread[t].at) = {}
       \/ Post(t, "delivered", TRUE)
       \/ CompleteOutboxItem(t)

LEMMA CalmKinds ==
  ASSUME Inv, CalmInv, Next, faults' = 0
  PROVE  CalmStep
<1>1. ~Fault /\ TypeOK /\ MemoryInv /\ OneActiveEpisode
  BY NoFault DEF Inv
<1>2. ASSUME NEW t \in Threads, Cycle(t) PROVE CalmStep
  <2>0. proc = "up" => \A h \in Hosts : Agrees(h)
    BY <1>1 DEF CalmInv, MemoryInv, MemoryFollowsStore
  <2>1. ASSUME NEW h \in Hosts, NEW score \in Scores, NEW channel \in Channels,
               Publish(t, h, score, channel)
        PROVE  CalmStep
    <3>1. Agrees(h)
      BY <2>0, <2>1 DEF Publish, Turn
    <3> QED BY <1>1, <2>1, <3>1, PublishKeeps DEF CalmStep
  <2>2. ASSUME NEW s \in Signals, Heartbeat(t, s) PROVE CalmStep
    BY <1>1, <2>2, HeartbeatKeeps DEF CalmStep
  <2>3. ASSUME NEW h \in Hosts, NEW score \in Scores PROVE ~PublishFails(t, h, score)
    <3> SUFFICES ASSUME PublishFails(t, h, score) PROVE FALSE
      OBVIOUS
    <3> DEFINE m == Advance(life[h], score).life
               action == Advance(life[h], score).action
    <3>1. action # "none" /\ ~Committable(h, action) /\ Agrees(h)
      BY <1>1, <2>0 DEF PublishFails, Turn
    <3>2. Moved(life[h], m, action)
      <4>1. life[h] \in Lifecycles /\ Sane(life[h]) /\ score \in Nat
        BY <1>1, EngineAssumption DEF TypeOK, MemoryInv
      <4> QED BY <4>1, AdvanceMoves
    <3> HIDE DEF m, action
    <3> QED BY <3>1, <3>2, AgreesCommits
  <2>4. ~QueryFails(t) /\ ~HeartbeatFails(t) /\ ~CompleteFails(t)
    BY <1>1 DEF QueryFails, HeartbeatFails, CompleteFails
  <2>5. ASSUME NEW outcome \in Outcomes, NEW arrived \in BOOLEAN, Post(t, outcome, arrived)
        PROVE  outcome = "delivered" /\ arrived = TRUE
    BY <1>1, <2>5 DEF Post
  <2>6. EndCycle(t) => Eligible(thread[t].at) = {}
    BY <1>1 DEF EndCycle
  <2>7. ASSUME NEW outcome \in Outcomes, NEW arrived \in BOOLEAN, Post(t, outcome, arrived)
        PROVE  CalmStep
    BY <2>5, <2>7 DEF CalmStep
  <2>8. ASSUME \/ \E valid \in SUBSET Hosts : Query(t, valid)
               \/ \E h \in Hosts, score \in Scores : AdvanceQuietly(t, h, score)
               \/ EndRunCycle(t) \/ StartDrain(t)
        PROVE  CalmStep
    BY <1>1, <2>8, PlainSteps DEF CalmStep
  <2>9. ASSUME EndCycle(t) \/ CompleteOutboxItem(t) \/ \E r \in Rows : ClaimOutboxItem(t, r)
        PROVE  CalmStep
    BY <2>6, <2>9 DEF CalmStep
  <2> QED BY <1>2, <2>1, <2>2, <2>3, <2>4, <2>7, <2>8, <2>9 DEF Cycle
<1>3. ~Crash /\ ~Start
  BY <1>1 DEF Crash, Start, CalmInv
<1>4. ASSUME NEW s \in Signals PROVE ~RestoreEpisode(s) /\ ~ReconcileUnrestorable(s)
  BY <1>4 DEF RestoreEpisode, ReconcileUnrestorable, NextUnread, CalmInv, Signals
<1> QED BY <1>2, <1>3, <1>4 DEF Next, CalmStep

-----------------------------------------------------------------------------
(* A run without a failure *)

\* The only cycle that runs.
LEMMA OnlyBusy ==
  ASSUME GateInv, NEW t \in Threads, thread[t].pc # "idle"
  PROVE  proc = "up" /\ \A u \in Threads : u # t => thread[u].pc = "idle"
BY DEF GateInv, Busy

\* Thread t moves, within the tick.
LEMMA CalmThread ==
  ASSUME CalmInv, NEW t \in Threads, Only(t), UNCHANGED <<now, proc, torn>>, proc = "up",
         \/ thread'[t].pc = "idle"
         \/ /\ thread[t].pc # "idle" /\ thread'[t].eval = thread[t].eval
            /\ thread'[t].pc \in {"claim", "post", "settle"} => thread'[t].at = now
            /\ thread'[t].pc = "settle" => thread'[t].outcome = "delivered"
  PROVE  CalmInv'
<1>1. \A u \in Busy' : thread'[u].eval = EvaluationTime(now)
  <2> SUFFICES ASSUME NEW u \in Busy' PROVE thread'[u].eval = EvaluationTime(now)
    OBVIOUS
  <2>1. CASE u = t
    BY <2>1 DEF CalmInv, Busy
  <2>2. CASE u # t
    BY <2>2 DEF CalmInv, Busy, Only
  <2> QED BY <2>1, <2>2
<1>2. \A u \in Threads : thread'[u].pc \in {"claim", "post", "settle"} => thread'[u].at = now
  BY DEF CalmInv, Only
<1>3. \A u \in Threads : thread'[u].pc = "settle" => thread'[u].outcome = "delivered"
  BY DEF CalmInv, Only
<1> QED BY <1>1, <1>2, <1>3 DEF CalmInv

LEMMA CalmKept ==
  ASSUME Inv, CalmInv, Next, faults' = 0, CalmStep
  PROVE  CalmInv'
<1>0. TypeOK /\ GateInv /\ ~Fault
  BY NoFault DEF Inv
<1>1. CASE Tick
  <2>1. UNCHANGED <<proc, torn, episode, outbox>>
    BY <1>1 DEF Tick
  <2>2. CASE UNCHANGED thread
    <3>1. proc # "up"
      BY <1>0, <1>1, <2>2 DEF Tick, GateFree, TypeOK, NoCycle, Cycles
    <3>2. \A t \in Threads : thread'[t].pc = "idle"
      BY <1>0, <2>2, <3>1 DEF GateInv, Busy
    <3> QED BY <2>1, <3>2 DEF CalmInv, Busy
  <2>3. ASSUME NEW t \in Threads, Only(t), thread'[t].pc = "query",
               thread'[t].eval = EvaluationTime(now'), GateFree
        PROVE  CalmInv'
    <3>1. \A u \in Threads : u # t => thread'[u].pc = "idle"
      BY <2>3 DEF GateFree, Only
    <3>2. \A u \in Threads : thread'[u].pc \in {"idle", "query"}
      BY <2>3, <3>1
    <3>3. \A u \in Busy' : u = t
      BY <3>1 DEF Busy
    <3> QED BY <2>1, <2>3, <3>2, <3>3 DEF CalmInv
  <2> QED BY <1>0, <1>1, <2>2, <2>3, ThreadTick
<1>2. CASE Serve
  BY <1>2 DEF Serve, CalmInv, Busy
<1>3. ASSUME NEW t \in Threads, Plain(t) PROVE CalmInv'
  BY <1>3, CalmThread DEF Plain
<1>4. ASSUME NEW t \in Threads, NEW s, NEW e, Writing(t, s, e), Keeps(s, e) PROVE CalmInv'
  BY <1>4, CalmThread DEF Writing, Keeps
<1>5. ASSUME NEW t \in Threads, NEW r \in Rows, ClaimOutboxItem(t, r) PROVE CalmInv'
  <2>1. /\ UNCHANGED <<now, proc, torn>> /\ proc = "up" /\ thread[t].pc = "claim"
    BY <1>5 DEF ClaimOutboxItem
  <2>2. Only(t) /\ thread'[t].pc = "post"
        /\ thread'[t].at = thread[t].at /\ thread'[t].eval = thread[t].eval
    BY <1>0, <1>5, ThreadDrains
  <2>3. thread[t].at = now
    BY <2>1 DEF CalmInv
  <2> QED BY <2>1, <2>2, <2>3, CalmThread
<1>6. ASSUME NEW t \in Threads, EndCycle(t) PROVE CalmInv'
  <2>1. /\ UNCHANGED <<now, proc, torn>> /\ proc = "up" /\ Done(t)
    BY <1>6 DEF EndCycle
  <2> QED BY <1>0, <2>1, ThreadDone, CalmThread
<1>7. ASSUME NEW t \in Threads, Post(t, "delivered", TRUE) PROVE CalmInv'
  <2>1. /\ UNCHANGED <<now, proc, torn>> /\ proc = "up" /\ thread[t].pc = "post"
    BY <1>7 DEF Post
  <2>2. "delivered" \in Outcomes /\ TRUE \in BOOLEAN
    BY DEF Outcomes
  <2>3. Only(t) /\ thread'[t].pc = "settle" /\ thread'[t].outcome = "delivered"
        /\ thread'[t].at = thread[t].at /\ thread'[t].eval = thread[t].eval
    BY <1>0, <1>7, <2>2, ThreadDrains
  <2>4. thread[t].at = now
    BY <2>1 DEF CalmInv
  <2> QED BY <2>1, <2>3, <2>4, CalmThread
<1>8. ASSUME NEW t \in Threads, CompleteOutboxItem(t) PROVE CalmInv'
  <2>1. /\ UNCHANGED <<now, proc, torn>> /\ proc = "up" /\ thread[t].pc = "settle"
    BY <1>8 DEF CompleteOutboxItem
  <2>2. Only(t) /\ thread'[t].pc = "claim"
        /\ thread'[t].at = thread[t].at /\ thread'[t].eval = thread[t].eval
    BY <1>0, <1>8, ThreadDrains
  <2>3. thread[t].at = now
    BY <2>1 DEF CalmInv
  <2> QED BY <2>1, <2>2, <2>3, CalmThread
<1> QED BY <1>1, <1>2, <1>3, <1>4, <1>5, <1>6, <1>7, <1>8 DEF CalmStep

\* A drain that finds nothing to claim leaves nothing behind: the rows of a
\* transition are settled in the order of their sequence.
LEMMA DrainedAll ==
  ASSUME Inv, CalmInv, DrainInv, NEW t \in Threads, thread[t].pc = "claim",
         Eligible(thread[t].at) = {}
  PROVE  \A r \in Rows : outbox[r].status = "delivered"
<1>1. thread[t].at = now
  BY DEF CalmInv
<1>2. \A u \in Threads : ~Holds(u)
  BY OnlyBusy DEF Inv, Holds
<1>3. \A r \in Rows : outbox[r].status # "delivered" => Due(r, now)
  BY <1>2 DEF DrainInv, Due
<1>4. \A r \in Rows : outbox[r].sequence \in {1, 2}
  BY Indices DEF Inv, OutboxRows
<1>5. ASSUME NEW r \in Rows, outbox[r].sequence = 1 PROVE outbox[r].status = "delivered"
  <2>1. \A b \in Rows : ~Blocks(b, r)
    BY <1>4, <1>5 DEF Blocks
  <2> QED BY <1>1, <1>3, <2>1 DEF Eligible
<1>6. ASSUME NEW r \in Rows PROVE outbox[r].status = "delivered"
  <2>1. ASSUME NEW b \in Rows, Blocks(b, r) PROVE FALSE
    <3>1. outbox[b].sequence = 1
      BY <1>4, <2>1 DEF Blocks
    <3> QED BY <1>5, <2>1, <3>1 DEF Blocks, Settled
  <2> QED BY <1>1, <1>3, <2>1 DEF Eligible
<1> QED BY <1>6

\* The outbox stays and thread t still holds what it held.
LEMMA DrainSame ==
  ASSUME DrainInv, UNCHANGED <<now, outbox>>,
         \A u \in Threads : Holds(u) => Holds(u)' /\ thread'[u].job = thread[u].job,
         \/ \A r \in Rows : outbox[r].status = "delivered"
         \/ \E u \in Threads : thread'[u].pc \notin {"idle", "query"}
  PROVE  DrainInv'
<1>1. Rows' = Rows
  BY DEF Rows
<1>2. \A r \in Rows : outbox[r].status = "sending" =>
        \E u \in Threads : Holds(u)' /\ thread'[u].job = r
  BY DEF DrainInv
<1> QED BY <1>1, <1>2 DEF DrainInv

LEMMA DrainKept ==
  ASSUME Inv, CalmInv, DrainInv, Next, faults' = 0, CalmStep
  PROVE  DrainInv'
<1>0. TypeOK /\ GateInv /\ ~Fault
  BY NoFault DEF Inv
<1>1. CASE Tick
  <2>1. UNCHANGED outbox /\ Rows' = Rows
    BY <1>1 DEF Tick, Rows
  <2>2. \A r \in Rows : outbox[r].status = "delivered"
    <3>1. CASE proc = "up"
      <4>1. GateFree
        BY <1>0, <1>1, <3>1 DEF Tick
      <4> QED BY <4>1 DEF GateFree, DrainInv
    <3>2. CASE proc # "up"
      BY <1>0, <3>2 DEF TypeOK, CalmInv, Rows
    <3> QED BY <3>1, <3>2
  <2> QED BY <2>1, <2>2 DEF DrainInv
<1>2. CASE Serve
  <2>1. Rows = {} /\ Rows' = {}
    BY <1>2 DEF Serve, CalmInv, Rows
  <2> QED BY <2>1 DEF DrainInv
<1>3. ASSUME NEW t \in Threads, Plain(t) PROVE DrainInv'
  BY <1>3, DrainSame DEF Plain, Only, Holds
<1>4. ASSUME NEW t \in Threads, NEW s, NEW e, Writing(t, s, e), Keeps(s, e) PROVE DrainInv'
  <2>1. /\ Only(t) /\ thread[t].pc = "hosts" /\ thread'[t].pc = "hosts" /\ UNCHANGED now
        /\ Transition(s, e) /\ e.updated = thread[t].eval
    BY <1>4 DEF Writing, Rewrites
  <2>2. e.updated = EvaluationTime(now) /\ e.updated <= now
    BY <1>0, <2>1, TimeTypes DEF CalmInv, Busy
  <2>3. \A r \in Rows : r \in Rows' /\ outbox'[r] = outbox[r]
    BY <2>1 DEF Transition
  <2>4. ASSUME NEW r \in Rows', r \notin Rows
        PROVE  /\ outbox'[r].status = "pending" /\ outbox'[r].next <= now
               /\ outbox'[r].kind \in Refreshing => outbox'[r].ends = EndsAt(EvaluationTime(now))
    BY <2>1, <2>2, <2>4 DEF Transition, Announcement
  <2>5. ASSUME NEW r \in Rows', outbox'[r].status = "sending"
        PROVE  \E u \in Threads : Holds(u)' /\ thread'[u].job = r
    <3>1. r \in Rows /\ outbox[r].status = "sending"
      BY <2>3, <2>4, <2>5
    <3>2. PICK u \in Threads : Holds(u) /\ thread[u].job = r
      BY <3>1 DEF DrainInv
    <3>3. u # t
      BY <2>1, <3>2 DEF Holds
    <3> QED BY <2>1, <3>2, <3>3 DEF Only, Holds
  <2>6. \A r \in Rows' : outbox'[r].status \in {"pending", "sending", "delivered"}
    BY <2>3, <2>4 DEF DrainInv
  <2>7. \A r \in Rows' : outbox'[r].status = "pending" => outbox'[r].next <= now
    BY <2>3, <2>4 DEF DrainInv
  <2>8. \A r \in Rows' : outbox'[r].status # "delivered" /\ outbox'[r].kind \in Refreshing =>
          outbox'[r].ends = EndsAt(EvaluationTime(now))
    BY <2>3, <2>4 DEF DrainInv
  <2> QED BY <2>1, <2>5, <2>6, <2>7, <2>8 DEF DrainInv
<1>5. ASSUME NEW t \in Threads, NEW r \in Rows, ClaimOutboxItem(t, r) PROVE DrainInv'
  <2>1. UNCHANGED now /\ thread[t].pc = "claim"
    BY <1>5 DEF ClaimOutboxItem
  <2>2. Only(t) /\ thread'[t].pc = "post" /\ thread'[t].job = r
    BY <1>0, <1>5, ThreadDrains
  <2>3. /\ Rows' = Rows /\ outbox'[r].status = "sending"
        /\ outbox'[r].kind = outbox[r].kind /\ outbox'[r].ends = outbox[r].ends
        /\ \A q \in Rows : q # r => outbox'[q] = outbox[q]
    BY <1>0, <1>5, ClaimStamps DEF Restamps
  <2>4. outbox[r].status # "delivered"
    BY <1>5 DEF ClaimOutboxItem, Eligible, Due
  <2>5. ASSUME NEW q \in Rows, outbox'[q].status = "sending"
        PROVE  \E u \in Threads : Holds(u)' /\ thread'[u].job = q
    <3>1. CASE q = r
      BY <2>2, <3>1 DEF Holds
    <3>2. CASE q # r
      <4>1. PICK u \in Threads : Holds(u) /\ thread[u].job = q
        BY <2>3, <2>5, <3>2 DEF DrainInv
      <4>2. u # t
        BY <2>1, <4>1 DEF Holds
      <4> QED BY <2>2, <4>1, <4>2 DEF Only, Holds
    <3> QED BY <3>1, <3>2
  <2>6. \A q \in Rows : outbox'[q].status \in {"pending", "sending", "delivered"}
    BY <2>3 DEF DrainInv
  <2>7. \A q \in Rows : outbox'[q].status = "pending" => outbox'[q].next <= now
    BY <2>3 DEF DrainInv
  <2>8. \A q \in Rows : outbox'[q].status # "delivered" /\ outbox'[q].kind \in Refreshing =>
          outbox'[q].ends = EndsAt(EvaluationTime(now))
    BY <2>3, <2>4 DEF DrainInv
  <2> QED BY <2>1, <2>2, <2>3, <2>5, <2>6, <2>7, <2>8 DEF DrainInv
<1>6. ASSUME NEW t \in Threads, EndCycle(t), Eligible(thread[t].at) = {} PROVE DrainInv'
  <2>1. UNCHANGED <<now, outbox>> /\ thread[t].pc = "claim" /\ Done(t)
    BY <1>6 DEF EndCycle
  <2>2. Only(t)
    BY <1>0, <2>1, ThreadDone
  <2>3. \A u \in Threads : Holds(u) => Holds(u)' /\ thread'[u].job = thread[u].job
    BY <2>1, <2>2 DEF Only, Holds
  <2> QED BY <1>6, <2>1, <2>3, DrainedAll, DrainSame
<1>7. ASSUME NEW t \in Threads, Post(t, "delivered", TRUE) PROVE DrainInv'
  <2>1. UNCHANGED <<now, outbox>>
    BY <1>7 DEF Post
  <2>2. "delivered" \in Outcomes /\ TRUE \in BOOLEAN
    BY DEF Outcomes
  <2>3. Only(t) /\ thread'[t].pc = "settle" /\ thread'[t].job = thread[t].job
    BY <1>0, <1>7, <2>2, ThreadDrains
  <2>4. \A u \in Threads : Holds(u) => Holds(u)' /\ thread'[u].job = thread[u].job
    BY <2>3 DEF Only, Holds
  <2> QED BY <2>1, <2>3, <2>4, DrainSame
<1>8. ASSUME NEW t \in Threads, CompleteOutboxItem(t) PROVE DrainInv'
  <2>0. PICK r : r = thread[t].job
    OBVIOUS
  <2>1. UNCHANGED now /\ thread[t].pc = "settle" /\ thread[t].outcome = "delivered"
    BY <1>8 DEF CompleteOutboxItem, CalmInv
  <2>2. Only(t) /\ thread'[t].pc = "claim"
    BY <1>0, <1>8, ThreadDrains
  <2>3. r \in Rows /\ Restamps(r, "delivered")
    <3>1. r \in Rows /\ Restamps(r, IF thread[t].outcome = "retry" THEN "pending" ELSE thread[t].outcome)
      BY <1>0, <1>8, <2>0, CompleteStamps
    <3> QED BY <2>1, <3>1
  <2>4. /\ Rows' = Rows /\ outbox'[r].status = "delivered"
        /\ \A q \in Rows : q # r => outbox'[q] = outbox[q]
    BY <2>3 DEF Restamps
  <2>5. ASSUME NEW q \in Rows, outbox'[q].status = "sending"
        PROVE  \E u \in Threads : Holds(u)' /\ thread'[u].job = q
    <3>1. q # r
      BY <2>4, <2>5
    <3>2. PICK u \in Threads : Holds(u) /\ thread[u].job = q
      BY <2>4, <2>5, <3>1 DEF DrainInv
    <3>3. u # t
      BY <2>0, <3>1, <3>2
    <3> QED BY <2>2, <3>2, <3>3 DEF Only, Holds
  <2>6. \A q \in Rows : outbox'[q].status \in {"pending", "sending", "delivered"}
    BY <2>4 DEF DrainInv
  <2>7. \A q \in Rows : outbox'[q].status = "pending" => outbox'[q].next <= now
    BY <2>4 DEF DrainInv
  <2>8. \A q \in Rows : outbox'[q].status # "delivered" /\ outbox'[q].kind \in Refreshing =>
          outbox'[q].ends = EndsAt(EvaluationTime(now))
    BY <2>4 DEF DrainInv
  <2> QED BY <2>1, <2>2, <2>4, <2>5, <2>6, <2>7, <2>8 DEF DrainInv
<1> QED BY <1>1, <1>2, <1>3, <1>4, <1>5, <1>6, <1>7, <1>8 DEF CalmStep

\* What was sent in a tick fires beyond it: the horizon covers the delay of the
\* evaluation, a cycle and the refresh window.
LEMMA HorizonReaches ==
  ASSUME TypeOK
  PROVE  /\ EndsAt(EvaluationTime(now)) > now
         /\ \A u \in Int : EvaluationTime(now) - u < RefreshWindow => EndsAt(u) > now
<1>1. /\ {EvaluationDelay, Interval, RefreshWindow, Horizon} \subseteq Nat \ {0}
      /\ EvaluationDelay + Interval + RefreshWindow <= Horizon
  BY EngineAssumption, TimingAssumption
<1>2. now \in Int /\ EvaluationTime(now) \in Int /\ now - EvaluationDelay - Interval < EvaluationTime(now)
  BY EvaluationTimes DEF TypeOK
<1> HIDE DEF EvaluationTime
<1> QED BY <1>1, <1>2 DEF EndsAt

\* Episodes, alerts and the content of the rows stay; a row is settled only
\* when the alert lasts as long as it says.
LEMMA KeptSame ==
  ASSUME KeptInv, UNCHANGED <<now, episode, alerts, flapped>>, Rows' = Rows, SameContent,
         \A r \in Rows : outbox'[r].status \in Settled =>
           outbox[r].status \in Settled
           \/ (outbox[r].kind \in Refreshing => outbox[r].ends <= alerts[AlertOf(r)]),
         (\A t \in Threads : ~Evaluates(t)') =>
           \/ \A t \in Threads : ~Evaluates(t)
           \/ RefreshDue(EvaluationTime(now)) = {},
         \A t \in Threads : thread'[t].pc = "settle" =>
           thread[t].pc = "settle" /\ thread'[t].job = thread[t].job /\ thread[t].job \in Rows,
         TypeOK
  PROVE  KeptInv'
<1>1. ListActiveEpisodes' = ListActiveEpisodes /\ \A s : Active(s)' = Active(s)
  BY ActiveSame DEF Active
<1>2. \A r \in Rows : AlertOf(r)' = AlertOf(r)
  BY DEF AlertOf, SameContent
<1>3. \A r \in Rows', s \in ListActiveEpisodes : Carries(r, s) => Carries(r, s)'
  BY <1>2 DEF Carries, SameContent
<1>4. (\A t \in Threads : ~Evaluates(t)') =>
        \A s \in ListActiveEpisodes : EvaluationTime(now) - episode[s].updated < RefreshWindow
  <2>1. ASSUME RefreshDue(EvaluationTime(now)) = {}, NEW s \in ListActiveEpisodes
        PROVE  EvaluationTime(now) - episode[s].updated < RefreshWindow
    <3>1. ~(EvaluationTime(now) - episode[s].updated >= RefreshWindow)
      BY <2>1 DEF RefreshDue
    <3>2. EvaluationTime(now) \in Int /\ episode[s].updated \in Int /\ RefreshWindow \in Int
      BY TimeTypes, EngineAssumption DEF ListActiveEpisodes
    <3> QED BY <3>1, <3>2
  <2> QED BY <2>1 DEF KeptInv
<1>5. ASSUME NEW t \in Threads, NEW j, j = thread'[t].job,
             thread'[t].pc = "settle", outbox'[j].kind \in Refreshing
      PROVE  outbox'[j].ends <= alerts[<<outbox'[j].signal, outbox'[j].severity, outbox'[j].channel>>]
  <2>1. j \in Rows /\ thread[t].pc = "settle" /\ j = thread[t].job
    BY <1>5
  <2>2. outbox[j].kind \in Refreshing
    BY <1>5, <2>1 DEF SameContent
  <2>3. outbox[j].ends <= alerts[AlertOf(j)]
    BY <2>1, <2>2 DEF KeptInv
  <2> QED BY <2>1, <2>3 DEF SameContent, AlertOf
<1>6. \A r \in Rows : outbox'[r].kind = "resolve_warning" /\ Active(outbox'[r].signal) =>
        outbox'[r].severity = "warning" /\ episode[outbox'[r].signal].severity = "critical"
  BY DEF KeptInv, SameContent
<1>7. \A s \in ListActiveEpisodes \ flapped : \E r \in Rows : Carries(r, s)'
  BY <1>3 DEF KeptInv
<1> QED BY <1>1, <1>4, <1>5, <1>6, <1>7 DEF KeptInv, Active, AlertOf

\* A transition: the other episodes keep their rows, this one gets a new row or
\* is flapped or resolved.
LEMMA KeptWriting ==
  ASSUME Inv, CalmInv, KeptInv, NEW t \in Threads, NEW s, NEW e, Writing(t, s, e), Keeps(s, e)
  PROVE  KeptInv'
<1>0. TypeOK /\ AlertInv /\ GateInv
  BY DEF Inv
<1>1. /\ Only(t) /\ thread[t].pc = "hosts" /\ thread'[t].pc = "hosts" /\ UNCHANGED <<now, alerts>>
      /\ Transition(s, e) /\ Rewrites(s, e, thread[t].eval)
  BY DEF Writing, Rewrites
<1>2. /\ Signals' = Signals \cup {s} /\ episode'[s] = e
      /\ \A u \in Signals : u # s => episode'[u] = episode[u]
  BY <1>1 DEF Transition, Stores
<1>3. \A r \in Rows : r \in Rows' /\ outbox'[r] = outbox[r] /\ outbox[r].signal \in Signals
  BY <1>0, <1>1 DEF Transition, AlertInv
<1>4. ASSUME NEW r \in Rows', outbox'[r].kind = "resolve_warning",
             episode'[outbox'[r].signal].state # "resolved"
      PROVE  outbox'[r].severity = "warning" /\ episode'[outbox'[r].signal].severity = "critical"
  <2>1. CASE r \notin Rows
    BY <1>1, <1>2, <1>4, <2>1 DEF Transition, Announcement
  <2>2. CASE r \in Rows /\ outbox[r].signal # s
    BY <1>2, <1>3, <1>4, <2>2 DEF KeptInv, Active
  <2>3. CASE r \in Rows /\ outbox[r].signal = s
    <3>1. s \in Signals /\ Active(s) /\ e.state # "resolved"
      BY <1>1, <1>2, <1>3, <1>4, <2>3 DEF Rewrites, Active
    <3>2. outbox[r].severity = "warning" /\ episode[s].severity = "critical"
      BY <1>3, <1>4, <2>3, <3>1 DEF KeptInv
    <3>3. e.severity = "critical"
      BY <3>1, <3>2 DEF Keeps
    <3> QED BY <1>2, <1>3, <2>3, <3>2, <3>3
  <2> QED BY <2>1, <2>2, <2>3
<1>5. Evaluates(t)'
  BY <1>1 DEF Evaluates
<1>6. \A u \in Threads : thread'[u].pc # "settle"
  <2>1. \A u \in Threads : u # t => thread[u].pc = "idle"
    BY <1>0, <1>1, OnlyBusy
  <2> QED BY <1>1, <2>1 DEF Only
<1>7. ASSUME NEW u \in ListActiveEpisodes', u \notin flapped'
      PROVE  \E r \in Rows' : Carries(r, u)'
  <2>1. CASE u = s
    <3>1. Refreshed
      BY <1>2, <1>7, <2>1 DEF ListActiveEpisodes, Active, Keeps
    <3>2. PICK r \in Rows' : r \notin Rows /\ outbox'[r].kind \in Refreshing
      BY <3>1 DEF Refreshed
    <3>3. Announcement(outbox'[r], s, e)
      BY <1>1, <3>2 DEF Transition
    <3>4. Carries(r, u)'
      BY <1>2, <2>1, <3>2, <3>3 DEF Carries, Announcement, Settled
    <3> QED BY <3>4
  <2>2. CASE u # s
    <3>1. u \in ListActiveEpisodes /\ u \notin flapped /\ episode'[u] = episode[u]
      BY <1>2, <1>7, <2>2 DEF ListActiveEpisodes, Active, Keeps
    <3>2. PICK r \in Rows : Carries(r, u)
      BY <3>1 DEF KeptInv
    <3>3. Carries(r, u)'
      BY <1>1, <1>3, <3>1, <3>2 DEF Carries, AlertOf
    <3> QED BY <1>3, <3>3
  <2> QED BY <2>1, <2>2
<1> QED BY <1>4, <1>5, <1>6, <1>7 DEF KeptInv, Active

\* A POST: only a row that keeps an alert firing is about the alert of an
\* active episode, so no end moves back.
LEMMA KeptPost ==
  ASSUME Inv, CalmInv, DrainInv, KeptInv, NEW t \in Threads, Post(t, "delivered", TRUE)
  PROVE  KeptInv'
<1>0. TypeOK /\ AlertInv /\ GateInv
  BY DEF Inv
<1>1. /\ UNCHANGED <<now, episode, outbox, flapped>> /\ thread[t].pc = "post"
      /\ "delivered" \in Outcomes /\ TRUE \in BOOLEAN
  BY DEF Post, Outcomes
<1>2. PICK r : r = thread[t].job
  OBVIOUS
<1>3. r \in Rows /\ Holds(t) /\ alerts' = Received(AlertOf(r), outbox[r].ends)
  BY <1>0, <1>1, <1>2, PostFacts
<1>4. /\ Only(t) /\ thread'[t].pc = "settle" /\ thread'[t].job = r
  BY <1>0, <1>1, <1>2, ThreadDrains
<1>5. outbox[r].status = "sending"
  BY <1>0, <1>2, <1>3 DEF GateInv
<1>6. AlertOf(r) \in Alerts /\ outbox[r].ends \in Int
  BY <1>0, <1>3, RowAlert
<1>7. \A b \in Alerts : b # AlertOf(r) => alerts'[b] = alerts[b]
  BY <1>0, <1>3, <1>6, ReceivedEnds
<1>8. ASSUME outbox[r].kind \in Refreshing
      PROVE  outbox[r].ends <= alerts'[AlertOf(r)] /\ alerts[AlertOf(r)] <= alerts'[AlertOf(r)]
             /\ alerts[AlertOf(r)] \in Int /\ alerts'[AlertOf(r)] \in Int
  <2>1. outbox[r].ends > now
    BY <1>0, <1>3, <1>5, <1>8, HorizonReaches DEF DrainInv
  <2>2. alerts[AlertOf(r)] \in Int
    BY <1>0, <1>6 DEF TypeOK
  <2>3. Received(AlertOf(r), outbox[r].ends) \in [Alerts -> Int]
    BY <1>0, <1>6, ReceivedEnds
  <2> QED BY <1>0, <1>3, <1>6, <2>1, <2>2, <2>3, ReceivedEnds
<1>9. /\ Rows' = Rows /\ ListActiveEpisodes' = ListActiveEpisodes
      /\ \A s : Active(s)' = Active(s) /\ \A q : AlertOf(q)' = AlertOf(q)
  BY <1>1, ActiveSame DEF Rows, Active, AlertOf
<1>10. ASSUME NEW s \in ListActiveEpisodes, NEW q \in Rows, Carries(q, s) PROVE Carries(q, s)'
  <2>1. SUFFICES ASSUME outbox[q].status \in Settled PROVE outbox[q].ends <= alerts'[AlertOf(q)]
    BY <1>1, <1>10 DEF Carries, AlertOf
  <2>2. /\ outbox[q].ends <= alerts[AlertOf(q)] /\ AlertOf(q) \in Alerts
        /\ outbox[q].ends \in Int /\ alerts[AlertOf(q)] \in Int
    BY <1>0, <1>10, <2>1, RowAlert DEF Carries, TypeOK
  <2>3. CASE AlertOf(q) # AlertOf(r)
    BY <1>7, <2>2, <2>3
  <2>4. CASE AlertOf(q) = AlertOf(r)
    <3>1. /\ outbox[r].signal = s /\ outbox[r].severity = episode[s].severity /\ Active(s)
      BY <1>10, <2>4 DEF AlertOf, Carries, ListActiveEpisodes
    <3>2. outbox[r].kind # "resolve"
      BY <1>0, <1>3, <3>1 DEF AlertInv
    <3>3. outbox[r].kind # "resolve_warning"
      BY <1>3, <3>1 DEF KeptInv
    <3>4. outbox[r].kind \in OutboxKinds
      BY <1>0, <1>3, Indices DEF OutboxRows
    <3>5. outbox[r].kind \in Refreshing
      BY <3>2, <3>3, <3>4 DEF OutboxKinds, Refreshing
    <3> QED BY <1>8, <2>2, <2>4, <3>5
  <2> QED BY <2>3, <2>4
<1>11. \A u \in Threads : thread'[u].pc = "settle" => thread'[u].job = r
  <2>1. \A u \in Threads : u # t => thread[u].pc = "idle"
    BY <1>0, <1>1, OnlyBusy
  <2> QED BY <1>4, <2>1 DEF Only
<1>12. (\A u \in Threads : ~Evaluates(u)') => \A u \in Threads : ~Evaluates(u)
  BY <1>1, <1>4 DEF Evaluates, Only
<1>13. \A u \in Threads : thread'[u].pc = "settle" /\ outbox[thread'[u].job].kind \in Refreshing =>
         outbox[thread'[u].job].ends <= alerts'[AlertOf(thread'[u].job)]
  BY <1>8, <1>11
<1>14. \A s \in ListActiveEpisodes \ flapped : \E q \in Rows : Carries(q, s)'
  BY <1>10 DEF KeptInv
<1> QED BY <1>1, <1>9, <1>12, <1>13, <1>14 DEF KeptInv, Active, AlertOf

LEMMA KeptKept ==
  ASSUME Inv, CalmInv, DrainInv, KeptInv, Next, faults' = 0, CalmStep
  PROVE  KeptInv'
<1>0. TypeOK /\ GateInv /\ ~Fault
  BY NoFault DEF Inv
\* Nothing is stored yet.
<1>1. ASSUME episode' = <<>>, outbox' = <<>>, \A t \in Threads : thread'[t].pc = "idle"
      PROVE  KeptInv'
  BY <1>1 DEF KeptInv, Rows, Signals, ListActiveEpisodes
<1>2. CASE proc = "booting" /\ (Tick \/ Serve)
  <2>1. \A t \in Threads : thread[t].pc = "idle"
    BY <1>0, <1>2 DEF GateInv, Busy
  <2>2. UNCHANGED <<episode, outbox, thread>>
    BY <1>2 DEF Tick, Serve
  <2> QED BY <1>1, <1>2, <2>1, <2>2 DEF CalmInv
<1>3. CASE proc # "booting" /\ Tick
  <2>1. proc = "up" /\ GateFree
    BY <1>0, <1>3 DEF Tick, TypeOK, CalmInv
  <2>2. \A t \in Threads : thread[t].pc = "idle"
    BY <2>1 DEF GateFree
  <2>3. UNCHANGED <<episode, outbox, alerts, flapped>>
    BY <1>3 DEF Tick
  <2>4. PICK t \in Threads : Only(t) /\ thread'[t].pc = "query"
    <3>1. ~UNCHANGED thread
      <4>1. PICK t \in Threads :
              thread' = [thread EXCEPT ![t] =
                           [NoCycle EXCEPT !.pc = "query", !.eval = EvaluationTime(now')]]
        BY <1>3, <2>1 DEF Tick
      <4>2. thread'[t].pc = "query"
        BY <1>0, <4>1 DEF TypeOK, NoCycle
      <4> QED BY <2>2, <4>2
    <3> QED BY <1>0, <1>3, <3>1, ThreadTick
  <2>5. Evaluates(t)' /\ \A u \in Threads : thread'[u].pc # "settle"
    BY <2>2, <2>4 DEF Evaluates, Only
  <2>6. Rows' = Rows /\ ListActiveEpisodes' = ListActiveEpisodes
    BY <2>3, ActiveSame DEF Rows
  <2>7. \A r, s : Carries(r, s) => Carries(r, s)'
    BY <2>3 DEF Carries, AlertOf
  <2> QED BY <2>3, <2>5, <2>6, <2>7 DEF KeptInv, Active
<1>4. ASSUME NEW t \in Threads, Plain(t) PROVE KeptInv'
  <2>1. UNCHANGED <<now, episode, outbox, alerts, flapped>> /\ Only(t) /\ thread'[t].pc # "settle"
    BY <1>4 DEF Plain
  <2>2. Rows' = Rows /\ SameContent
    BY <2>1 DEF Rows, SameContent
  <2>3. (\A u \in Threads : ~Evaluates(u)') =>
          \/ \A u \in Threads : ~Evaluates(u)
          \/ RefreshDue(EvaluationTime(now)) = {}
    <3>1. thread[t].eval = EvaluationTime(now)
      BY <1>4 DEF Plain, CalmInv, Busy
    <3>2. \A u \in Threads : u # t => (Evaluates(u)' <=> Evaluates(u))
      BY <2>1 DEF Only, Evaluates
    <3> QED BY <1>4, <3>1, <3>2 DEF Plain
  <2>4. \A u \in Threads : thread'[u].pc = "settle" =>
          thread[u].pc = "settle" /\ thread'[u].job = thread[u].job /\ thread[u].job \in Rows
    BY <1>0, <2>1 DEF Only, GateInv, Holds
  <2> QED BY <1>0, <2>1, <2>2, <2>3, <2>4, KeptSame
<1>5. ASSUME NEW t \in Threads, NEW r \in Rows, ClaimOutboxItem(t, r) PROVE KeptInv'
  <2>1. UNCHANGED <<now, episode, alerts, flapped>> /\ thread[t].pc = "claim"
    BY <1>5 DEF ClaimOutboxItem
  <2>2. Only(t) /\ thread'[t].pc = "post"
    BY <1>0, <1>5, ThreadDrains
  <2>3. /\ Rows' = Rows /\ SameContent /\ outbox'[r].status = "sending"
        /\ \A q \in Rows : q # r => outbox'[q] = outbox[q]
    BY <1>0, <1>5, ClaimStamps, RestampsContent DEF Restamps
  <2>4. \A q \in Rows : outbox'[q].status \in Settled => outbox[q].status \in Settled
    BY <2>3 DEF Settled
  <2>5. (\A u \in Threads : ~Evaluates(u)') => \A u \in Threads : ~Evaluates(u)
    BY <2>1, <2>2 DEF Only, Evaluates
  <2>6. \A u \in Threads : thread'[u].pc = "settle" =>
          thread[u].pc = "settle" /\ thread'[u].job = thread[u].job /\ thread[u].job \in Rows
    BY <1>0, <2>2 DEF Only, GateInv, Holds
  <2> QED BY <1>0, <2>1, <2>3, <2>4, <2>5, <2>6, KeptSame
<1>6. ASSUME NEW t \in Threads, EndCycle(t) PROVE KeptInv'
  <2>1. UNCHANGED <<now, episode, outbox, alerts, flapped>> /\ thread[t].pc = "claim" /\ Done(t)
    BY <1>6 DEF EndCycle
  <2>2. Only(t) /\ thread'[t].pc = "idle"
    BY <1>0, <2>1, ThreadDone
  <2>3. Rows' = Rows /\ SameContent
    BY <2>1 DEF Rows, SameContent
  <2>4. (\A u \in Threads : ~Evaluates(u)') => \A u \in Threads : ~Evaluates(u)
    BY <2>1, <2>2 DEF Only, Evaluates
  <2>5. \A u \in Threads : thread'[u].pc = "settle" =>
          thread[u].pc = "settle" /\ thread'[u].job = thread[u].job /\ thread[u].job \in Rows
    BY <1>0, <2>2 DEF Only, GateInv, Holds
  <2> QED BY <1>0, <2>1, <2>3, <2>4, <2>5, KeptSame
<1>7. ASSUME NEW t \in Threads, CompleteOutboxItem(t) PROVE KeptInv'
  <2>0. PICK r : r = thread[t].job
    OBVIOUS
  <2>1. UNCHANGED <<now, episode, alerts, flapped>> /\ thread[t].pc = "settle"
    BY <1>7 DEF CompleteOutboxItem
  <2>2. Only(t) /\ thread'[t].pc = "claim"
    BY <1>0, <1>7, ThreadDrains
  <2>3. r \in Rows /\ \E x : Restamps(r, x)
    BY <1>0, <1>7, <2>0, CompleteStamps
  <2>4. /\ Rows' = Rows /\ SameContent /\ \A q \in Rows : q # r => outbox'[q] = outbox[q]
    BY <2>3, RestampsContent DEF Restamps
  <2>5. outbox[r].kind \in Refreshing => outbox[r].ends <= alerts[AlertOf(r)]
    BY <2>0, <2>1 DEF KeptInv
  <2>6. (\A u \in Threads : ~Evaluates(u)') => \A u \in Threads : ~Evaluates(u)
    BY <2>1, <2>2 DEF Only, Evaluates
  <2>7. \A u \in Threads : thread'[u].pc = "settle" =>
          thread[u].pc = "settle" /\ thread'[u].job = thread[u].job /\ thread[u].job \in Rows
    BY <1>0, <2>2 DEF Only, GateInv, Holds
  <2> QED BY <1>0, <2>1, <2>4, <2>5, <2>6, <2>7, KeptSame
<1>8. CASE proc # "booting" /\ Serve
  BY <1>8 DEF Serve
<1> QED BY <1>2, <1>3, <1>4, <1>5, <1>6, <1>7, <1>8, KeptWriting, KeptPost DEF CalmStep

LEMMA SteadyStep ==
  ASSUME Inv, SteadyInv, Next
  PROVE  SteadyInv'
<1> SUFFICES ASSUME faults' = 0 PROVE CalmInv' /\ DrainInv' /\ KeptInv'
  BY DEF SteadyInv
<1>1. CalmInv /\ DrainInv /\ KeptInv
  BY NoFault DEF SteadyInv, Inv
<1>2. CalmStep
  BY <1>1, CalmKinds
<1> QED BY <1>1, <1>2, CalmKept, DrainKept, KeptKept

LEMMA SteadyInit ==
  ASSUME Init
  PROVE  SteadyInv
<1>1. \A t \in Threads : thread[t].pc = "idle"
  BY DEF Init, NoCycle
<1>2. Rows = {} /\ ListActiveEpisodes = {}
  BY DEF Init, Rows, Signals, ListActiveEpisodes
<1>3. CalmInv
  BY <1>1 DEF Init, CalmInv, Busy
<1>4. DrainInv
  BY <1>2 DEF DrainInv
<1>5. KeptInv
  BY <1>1, <1>2 DEF KeptInv
<1> QED BY <1>3, <1>4, <1>5 DEF SteadyInv

LEMMA SteadyStutter ==
  ASSUME SteadyInv, UNCHANGED vars
  PROVE  SteadyInv'
<1> USE DEF vars
<1>1. Signals' = Signals /\ Rows' = Rows /\ ListActiveEpisodes' = ListActiveEpisodes
  BY ActiveSame DEF Rows
<1>2. CalmInv => CalmInv'
  BY DEF CalmInv, Busy
<1>3. DrainInv => DrainInv'
  BY <1>1 DEF DrainInv, Holds
<1>4. KeptInv => KeptInv'
  BY <1>1 DEF KeptInv, Carries, AlertOf, Active, Evaluates
<1> QED BY <1>2, <1>3, <1>4 DEF SteadyInv

\* Between two cycles every alert has been sent and reaches beyond the present.
LEMMA SteadyFires ==
  ASSUME TypeOK, SteadyInv
  PROVE  SteadyAlertKept
<1> SUFFICES ASSUME faults = 0, BetweenCycles, NEW s \in ListActiveEpisodes \ flapped
             PROVE  Firing(s) # {}
  BY DEF SteadyAlertKept
<1>1. DrainInv /\ KeptInv
  BY DEF SteadyInv
<1>2. \A t \in Threads : thread[t].pc \in {"idle", "query"} /\ ~Evaluates(t)
  BY DEF BetweenCycles, Evaluates
<1>3. PICK r \in Rows : Carries(r, s)
  BY <1>1 DEF KeptInv
<1>4. outbox[r].status \in Settled
  BY <1>1, <1>2 DEF DrainInv, Settled
<1>5. AlertOf(r) \in Alerts /\ outbox[r].ends \in Int /\ alerts[AlertOf(r)] \in Int
  BY RowAlert DEF TypeOK
<1>6. outbox[r].ends <= alerts[AlertOf(r)] /\ outbox[r].ends = EndsAt(episode[s].updated)
  BY <1>3, <1>4 DEF Carries
<1>7. EndsAt(episode[s].updated) > now
  <2>1. EvaluationTime(now) - episode[s].updated < RefreshWindow
    BY <1>1, <1>2 DEF KeptInv
  <2>2. episode[s].updated \in Int
    BY TimeTypes DEF ListActiveEpisodes
  <2> QED BY <2>1, <2>2, HorizonReaches
<1>8. alerts[AlertOf(r)] > now
  BY <1>5, <1>6, <1>7 DEF TypeOK
<1>9. AlertOf(r)[1] = s /\ AlertOf(r)[2] = episode[s].severity
  BY <1>3 DEF AlertOf, Carries
<1> QED BY <1>5, <1>8, <1>9 DEF Firing

-----------------------------------------------------------------------------
(* The theorems *)

LEMMA InitInv ==
  ASSUME Init
  PROVE  Inv
<1> USE DEF Init
<1>1. Signals = {} /\ Rows = {}
  BY DEF Signals, Rows
<1>2. EvaluationTime(0) \in Int /\ EvaluationTime(0) <= 0
  BY EvaluationTimes
<1>3. TypeOK
  <2>1. episode \in Seq(Episodes) /\ Len(episode) = 0 /\ outbox \in Seq(OutboxRows) /\ Len(outbox) = 0
    OBVIOUS
  <2>2. 0 <= MaxSignals /\ 0 <= MaxRows
    BY EngineAssumption
  <2>3. thread \in [Threads -> Cycles] /\ life \in [Hosts -> Lifecycles]
    BY NoCycleType, NewLifeType
  <2>4. alerts \in [Alerts -> Int]
    BY <1>2
  <2> QED BY <1>1, <2>1, <2>2, <2>3, <2>4 DEF TypeOK
<1>4. \A h : ActiveOf(h) = {}
  BY <1>1 DEF ActiveOf, ListActiveEpisodes
<1>5. OneActiveEpisode
  BY <1>4 DEF OneActiveEpisode
<1>6. MemoryInv
  <2>1. \A h \in Hosts : life[h] = NewHostLifecycle /\ life[h].state = "normal"
    BY DEF NewHostLifecycle
  <2>2. \A h \in Hosts : Sane(life[h]) /\ Agrees(h) /\ ~Unread(h)
    BY <1>4, <2>1, NewLifeType DEF Agrees, Unread, Alerting
  <2> QED BY <1>1, <2>2 DEF MemoryInv, MemoryFollowsStore, ListActiveEpisodes
<1>7. \A t \in Threads : thread[t].pc = "idle"
  BY DEF NoCycle
<1>8. GateInv /\ OrderInv
  BY <1>1, <1>7 DEF GateInv, Busy, Holds, OrderInv
<1>9. TimeInv
  BY <1>1, <1>2, <1>7 DEF TimeInv, Evaluates, ListActiveEpisodes
<1>10. AlertInv
  BY <1>1 DEF AlertInv
<1> QED BY <1>3, <1>5, <1>6, <1>8, <1>9, <1>10 DEF Inv

LEMMA StutterInv ==
  ASSUME Inv, UNCHANGED vars
  PROVE  Inv'
<1> USE DEF vars
<1>1. Signals' = Signals /\ Rows' = Rows /\ ListActiveEpisodes' = ListActiveEpisodes
      /\ \A h : ActiveOf(h)' = ActiveOf(h)
  BY ActiveSame DEF Rows
<1>2. TypeOK' /\ OneActiveEpisode'
  BY <1>1 DEF Inv, TypeOK, OneActiveEpisode
<1>3. MemoryInv'
  BY <1>1 DEF Inv, MemoryInv, MemoryFollowsStore, Sane, Agrees, Unread
<1>4. GateInv'
  BY <1>1 DEF Inv, GateInv, Busy, Holds
<1>5. OrderInv'
  BY <1>1 DEF Inv, OrderInv, Sent, Holds, WarningOf
<1>6. TimeInv' /\ AlertInv'
  BY <1>1 DEF Inv, TimeInv, Evaluates, AlertInv, Active
<1> QED BY <1>2, <1>3, <1>4, <1>5, <1>6 DEF Inv

LEMMA NextInv ==
  ASSUME Inv, Next
  PROVE  Inv'
BY TypeStep, OneActiveStep, MemoryStep, GateStep, OrderStep, TimeStep, AlertStep DEF Inv

\* The inductive invariant holds in every state the engine can reach.
THEOREM InductiveInvariant == Spec => []Inv
<1>1. Init => Inv
  BY InitInv
<1>2. Inv /\ [Next]_vars => Inv'
  BY NextInv, StutterInv
<1> QED BY <1>1, <1>2, PTL DEF Spec

\* Every variable keeps its type: no outbox row or restored state machine is
\* ever built from a severity the episode no longer has.
THEOREM TypeCorrect == Spec => []TypeOK
<1>1. Inv => TypeOK
  BY DEF Inv
<1> QED BY <1>1, InductiveInvariant, PTL

\* At most one active episode of a host, for any number of hosts, cycles,
\* failed commits and restarts.
THEOREM AtMostOneEpisode == Spec => []OneActiveEpisode
<1>1. Inv => OneActiveEpisode
  BY DEF Inv
<1> QED BY <1>1, InductiveInvariant, PTL

\* While the daemon is up, the state machine of every host whose last commit did
\* not fail says what the store says.
THEOREM MemoryIsStore == Spec => []MemoryFollowsStore
<1>1. Inv => MemoryFollowsStore
  BY DEF Inv, MemoryInv
<1> QED BY <1>1, InductiveInvariant, PTL

\* A fire_critical is POSTed only after the resolve_warning of its transition
\* was POSTed and settled.
THEOREM EscalationInOrder == Spec => []EscalationOrder
<1>1. Inv => EscalationOrder
  <2> SUFFICES ASSUME Inv, NEW r \in posted, outbox[r].kind = "fire_critical"
               PROVE  \E q \in posted :
                        /\ outbox[q].signal = outbox[r].signal
                        /\ outbox[q].revision = outbox[r].revision
                        /\ outbox[q].kind = "resolve_warning" /\ outbox[q].status \in Settled
    BY DEF EscalationOrder
  <2>1. r \in Rows /\ Sent(r)
    BY DEF Inv, TypeOK, Sent
  <2>2. PICK q \in Rows : WarningOf(q, r) /\ outbox[q].status \in Settled
    BY <2>1 DEF Inv, OrderInv
  <2>3. q \in posted
    BY <2>2 DEF Inv, OrderInv
  <2> QED BY <2>2, <2>3 DEF WarningOf
<1> QED BY <1>1, InductiveInvariant, PTL

\* No alert of a resolved episode outlives its resolve by more than the horizon.
THEOREM ResolvedAlertsExpire == Spec => []StaleAlertsExpire
<1>1. Inv => StaleAlertsExpire
  <2> SUFFICES ASSUME Inv, NEW r \in Rows, outbox[r].kind = "resolve",
                      NEW a \in Alerts, a[1] = outbox[r].signal
               PROVE  alerts[a] <= EndsAt(outbox[r].ends)
    BY DEF StaleAlertsExpire
  <2>1. /\ outbox[r].signal \in Signals
        /\ outbox[r].ends = episode[outbox[r].signal].updated
    BY DEF Inv, AlertInv
  <2>2. alerts[a] <= EndsAt(episode[a[1]].updated)
    BY <2>1 DEF Inv, AlertInv
  <2> QED BY <2>1, <2>2
<1> QED BY <1>1, InductiveInvariant, PTL

\* The alert of an active episode never lapses between two cycles of a run
\* without a failure, for any constants of the engine whose horizon covers the
\* evaluation delay, an interval and the refresh window, as those of the code do.
THEOREM SteadyAlerts == Spec => []SteadyAlertKept
<1>1. Init => SteadyInv
  BY SteadyInit
<1>2. Inv /\ SteadyInv /\ [Next]_vars => SteadyInv'
  BY SteadyStep, SteadyStutter
<1>3. Inv /\ SteadyInv => SteadyAlertKept
  BY SteadyFires DEF Inv
<1> QED BY <1>1, <1>2, <1>3, InductiveInvariant, PTL DEF Spec

\* A row that was delivered or given up stays so.
THEOREM SettledStays == Spec => SettledForever
<1>1. Inv /\ [Next]_vars =>
        [\A r \in Rows : outbox[r].status \in Settled => outbox'[r].status = outbox[r].status]_vars
  BY OutboxStep DEF Inv, SettledKept
<1> QED BY <1>1, InductiveInvariant, PTL DEF Spec, SettledForever
=============================================================================
