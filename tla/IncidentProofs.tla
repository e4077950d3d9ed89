--------------------------- MODULE IncidentProofs ---------------------------
(***************************************************************************)
(* IncidentController for any numbers of incidents, identities and runs,   *)
(* any limits and any number of events, crashes and store faults: incident *)
(* rows, run rows and workers stay consistent.                             *)
(***************************************************************************)
EXTENDS IncidentController, SequenceTheorems, FiniteSetTheorems, TLAPS

USE IncidentAssumption

LEMMA NoWorkerType == NoWorker \in Workers /\ NoWorker.step = "none"
BY DEF NoWorker, Workers

LEMMA NoListing == << >> \in Seq(Listed)
BY EmptySeq

\* updated_at is a relation on the rows.
LEMMA TouchType ==
  ASSUME older \subseteq Ids \X Ids, NEW S \in SUBSET Ids, Touch(S)
  PROVE  older' \subseteq Ids \X Ids
BY DEF Touch

\* Parts of the state an action leaves alone keep their types.
LEMMA UnchangedType ==
  /\ IncidentsOK /\ UNCHANGED incidentVars => IncidentsOK'
  /\ RunsOK /\ UNCHANGED runVars => RunsOK'
  /\ SchedulerOK /\ UNCHANGED <<up, passVars>> => SchedulerOK'
  /\ HistoryOK /\ UNCHANGED <<boundVars, historyVars>> => HistoryOK'
<1>1. IncidentsOK /\ UNCHANGED incidentVars => IncidentsOK'
  BY DEF IncidentsOK, incidentVars
<1>2. RunsOK /\ UNCHANGED runVars => RunsOK'
  BY DEF RunsOK, runVars
<1>3. SchedulerOK /\ UNCHANGED <<up, passVars>> => SchedulerOK'
  BY DEF SchedulerOK, passVars
<1>4. HistoryOK /\ UNCHANGED <<boundVars, historyVars>> => HistoryOK'
  BY DEF HistoryOK, boundVars, historyVars
<1>5. QED
  BY <1>1, <1>2, <1>3, <1>4

\* The listing names rows.
LEMMA ListedRows ==
  ASSUME SchedulerOK
  PROVE  \A a \in DOMAIN listed : listed[a] \in Listed /\ listed[a].id \in Ids
<1>1. listed \in [1..Len(listed) -> Listed] /\ DOMAIN listed = 1..Len(listed)
  BY LenProperties DEF SchedulerOK
<1>2. QED
  BY <1>1 DEF Listed

-----------------------------------------------------------------------------
(* Events *)

\* What an event may do to the rows: create one for an identity without an
\* active row, or keep, resolve or re-open an active one; never touch a row
\* that a run is working on except to resolve it.
EventEffect ==
  /\ IncidentsOK' /\ HistoryOK'
  /\ \A i \in Ids :
       \/ status'[i] = status[i] /\ ident'[i] = ident[i]
       \/ status[i] = "NONE" /\ status'[i] = "RESOLVED_EXTERNAL" /\ ident'[i] \in Identities
       \/ /\ status[i] = "NONE" /\ status'[i] = "OPEN" /\ ident'[i] \in Identities
          /\ \A j \in Ids \ {i} : status'[j] = status[j] /\ ident'[j] = ident[j]
          /\ \A j \in Ids : Active(j) => ident[j] # ident'[i]
       \/ ident'[i] = ident[i] /\ Active(i) /\ status'[i] = "RESOLVED_EXTERNAL"
       \/ /\ ident'[i] = ident[i] /\ status[i] \in {"DIAGNOSED", "AGENT_FAILED"}
          /\ status'[i] = "OPEN"

LEMMA UpdateEffect ==
  ASSUME ControllerInv, NEW i \in Ids, NEW s \in {"firing", "resolved"}, NEW b \in Bodies,
         Active(i), UpdateIncident(i, s, b), events' \in Nat, crashes' \in Nat,
         faults' \in Nat, miscounted' \in BOOLEAN
  PROVE  EventEffect
<1> DEFINE reopen == s # "resolved" /\ status[i] \in {"DIAGNOSED", "AGENT_FAILED"}
<1>0. IncidentsOK /\ HistoryOK
  BY DEF ControllerInv, TypeOK
<1>1. older' \subseteq Ids \X Ids
  BY <1>0, TouchType DEF UpdateIncident, IncidentsOK
<1>2. CASE UNCHANGED <<status, body, waiting, attempts, failures, lost, ident>>
  BY <1>0, <1>1, <1>2 DEF EventEffect, IncidentsOK, HistoryOK
<1>3. CASE /\ body' = [body EXCEPT ![i] = b]
           /\ status' = [status EXCEPT ![i] = IF s = "resolved" THEN "RESOLVED_EXTERNAL"
                                              ELSE IF reopen THEN "OPEN" ELSE @]
           /\ waiting' = [waiting EXCEPT ![i] = @ /\ ~reopen]
           /\ attempts' = [attempts EXCEPT ![i] = IF reopen THEN 0 ELSE @]
           /\ failures' = [failures EXCEPT ![i] = IF reopen THEN 0 ELSE @]
           /\ lost' = [lost EXCEPT ![i] = IF reopen THEN 0 ELSE @]
           /\ UNCHANGED ident
  <2>1. IncidentsOK'
    BY <1>0, <1>1, <1>3 DEF IncidentsOK, Statuses
  <2>2. HistoryOK'
    BY <1>0, <1>3 DEF HistoryOK
  <2>3. QED
    BY <1>0, <1>3, <2>1, <2>2 DEF EventEffect, IncidentsOK
<1>4. QED
  BY <1>2, <1>3 DEF UpdateIncident

LEMMA CreateEffect ==
  ASSUME ControllerInv, NEW e \in Identities, NEW s \in {"firing", "resolved"},
         NEW b \in Bodies, ~(\E i \in Ids : ident[i] = e /\ Active(i)),
         CreateIncident(e, s, b), events' \in Nat, crashes' \in Nat,
         faults' \in Nat, miscounted' \in BOOLEAN
  PROVE  EventEffect
<1>0. IncidentsOK /\ HistoryOK
  BY DEF ControllerInv, TypeOK
<1> DEFINE i == CHOOSE j \in Ids : status[j] = "NONE"
<1>1. i \in Ids /\ status[i] = "NONE"
  BY DEF CreateIncident
<1>2. /\ status' = [status EXCEPT ![i] = IF s = "resolved" THEN "RESOLVED_EXTERNAL" ELSE "OPEN"]
      /\ ident' = [ident EXCEPT ![i] = e]
      /\ body' = [body EXCEPT ![i] = b]
      /\ Touch({i}) /\ UNCHANGED <<waiting, attempts, failures, lost>>
  BY DEF CreateIncident
<1> HIDE DEF i
<1>3. older' \subseteq Ids \X Ids
  BY <1>0, <1>1, <1>2, TouchType DEF IncidentsOK
<1>4. IncidentsOK'
  BY <1>0, <1>1, <1>2, <1>3 DEF IncidentsOK, Statuses
<1>5. HistoryOK'
  BY <1>0, <1>2 DEF HistoryOK
<1>6. QED
  BY <1>0, <1>1, <1>2, <1>4, <1>5 DEF EventEffect, IncidentsOK

LEMMA IngestInv ==
  ASSUME ControllerInv, NEW e \in Identities, NEW s \in {"firing", "resolved"},
         NEW b \in Bodies, IngestEvent(e, s, b)
  PROVE  ControllerInv'
<1>0. IncidentsOK /\ RunsOK /\ SchedulerOK /\ HistoryOK
  BY DEF ControllerInv, TypeOK
<1>1. UNCHANGED <<runState, runOf, up, listed, busy, worker, crashes, faults, miscounted>>
  BY DEF IngestEvent, runVars, passVars
<1>2. events' \in Nat /\ crashes' \in Nat /\ faults' \in Nat /\ miscounted' \in BOOLEAN
  BY <1>0, <1>1 DEF IngestEvent, HistoryOK
<1>3. EventEffect
  BY <1>2, UpdateEffect, CreateEffect DEF IngestEvent
<1>4. TypeOK'
  BY <1>0, <1>1, <1>3, UnchangedType DEF TypeOK, EventEffect, runVars, passVars
<1>5. OneActiveIncident'
  BY <1>3 DEF EventEffect, ControllerInv, OneActiveIncident, Active
<1>6. RunsMatchIncidents'
  BY <1>1, <1>3 DEF EventEffect, ControllerInv, RunsMatchIncidents, ActiveRuns, RunActive,
                    InFlight, Active
<1>7. WorkersHoldRuns'
  BY <1>1 DEF ControllerInv, WorkersHoldRuns
<1>8. RowsExist'
  <2>1. \A i \in Ids : status[i] # "NONE" => status'[i] # "NONE"
    BY <1>3 DEF EventEffect
  <2>2. \A i \in Ids : status'[i] # "NONE" => ident'[i] \in Identities
    BY <1>3 DEF EventEffect, ControllerInv, RowsExist, Active
  <2>3. QED
    BY <1>0, <1>1, <2>1, <2>2, ListedRows DEF ControllerInv, RowsExist
<1>9. QED
  BY <1>4, <1>5, <1>6, <1>7, <1>8 DEF ControllerInv

-----------------------------------------------------------------------------
(* The scheduler's pass *)

\* Steps that leave rows and runs alone and start or stop workers that hold no
\* run preserve the invariant.
LEMMA PassInv ==
  ASSUME ControllerInv, UNCHANGED <<status, ident, runState, runOf>>,
         TypeOK', RowsExist',
         \A i \in Ids : worker'[i] = worker[i] \/ worker'[i].step \in {"none", "enqueue"},
         ~up' => \A i \in Ids : worker'[i] = NoWorker
  PROVE  ControllerInv'
<1>1. OneActiveIncident' /\ RunsMatchIncidents'
  BY DEF ControllerInv, OneActiveIncident, Active, RunsMatchIncidents, ActiveRuns, RunActive
<1>2. WorkersHoldRuns'
  BY DEF ControllerInv, WorkersHoldRuns
<1>3. QED
  BY <1>1, <1>2 DEF ControllerInv

LEMMA BackoffInv ==
  ASSUME ControllerInv, NEW i \in Ids, BackoffElapses(i)
  PROVE  ControllerInv'
<1>0. IncidentsOK /\ RunsOK /\ SchedulerOK /\ HistoryOK
  BY DEF ControllerInv, TypeOK
<1>1. UNCHANGED <<status, ident, body, attempts, older, runState, runOf, up, listed, busy, worker>>
      /\ UNCHANGED <<boundVars, historyVars>>
  BY DEF BackoffElapses, runVars, passVars
<1>2. IncidentsOK'
  BY <1>0, <1>1 DEF BackoffElapses, IncidentsOK
<1>3. TypeOK'
  BY <1>0, <1>1, <1>2, UnchangedType DEF TypeOK, runVars, passVars
<1>4. ~up' => \A j \in Ids : worker'[j] = NoWorker
  BY <1>1 DEF ControllerInv, WorkersHoldRuns
<1>5. RowsExist'
  BY <1>1 DEF ControllerInv, RowsExist
<1>6. QED
  BY <1>1, <1>3, <1>4, <1>5, PassInv

LEMMA PassStartInv ==
  ASSUME ControllerInv, PassStart
  PROVE  ControllerInv'
<1>0. IncidentsOK /\ RunsOK /\ SchedulerOK /\ HistoryOK
  BY DEF ControllerInv, TypeOK
<1>1. up /\ busy' = {} /\ UNCHANGED <<incidentVars, runVars, up, worker, boundVars, historyVars>>
  BY DEF PassStart
<1>a. PICK n \in Nat : \E t \in [1..n -> Eligible] :
        listed' = [a \in 1..n |-> [id |-> t[a], attempts |-> attempts[t[a]]]]
  BY DEF PassStart
<1>2. PICK t \in [1..n -> Eligible] :
        listed' = [a \in 1..n |-> [id |-> t[a], attempts |-> attempts[t[a]]]]
  BY <1>a
<1>3. \A a \in 1..n : [id |-> t[a], attempts |-> attempts[t[a]]] \in Listed
  BY <1>0 DEF Eligible, IncidentsOK, Listed
<1>4. listed' \in Seq(Listed)
  BY <1>2, <1>3
<1>5. SchedulerOK'
  BY <1>0, <1>1, <1>4 DEF SchedulerOK
<1>6. TypeOK'
  BY <1>0, <1>1, <1>5, UnchangedType DEF TypeOK
<1>7. \A a \in DOMAIN listed' : status[listed'[a].id] # "NONE"
  BY <1>2 DEF Eligible
<1>8. RowsExist'
  BY <1>1, <1>7 DEF ControllerInv, RowsExist, incidentVars
<1>9. QED
  BY <1>1, <1>6, <1>8, PassInv DEF incidentVars, runVars

LEMMA LaunchInv ==
  ASSUME ControllerInv, LaunchOrSkip
  PROVE  ControllerInv'
<1>0. IncidentsOK /\ RunsOK /\ SchedulerOK /\ HistoryOK
  BY DEF ControllerInv, TypeOK
<1> DEFINE i == Head(listed).id
           launch == [step |-> "enqueue", run |-> NoRun, attempts |-> Head(listed).attempts]
           h == HostOf[ident[i]]
<1>1. up /\ UNCHANGED <<incidentVars, runVars, up, events, crashes, failures, lost>>
      /\ listed # << >> /\ listed' = Tail(listed)
  BY DEF LaunchOrSkip
<1>2. Head(listed) \in Listed /\ Tail(listed) \in Seq(Listed)
  BY <1>0, <1>1, HeadTailProperties DEF SchedulerOK
<1>3. i \in Ids /\ launch \in Workers /\ launch.step = "enqueue"
  BY <1>2 DEF Listed, Workers
<1>4. worker' = [worker EXCEPT ![i] = launch] \/ worker' = worker
  BY DEF LaunchOrSkip
<1>a. faults' \in {faults, faults + 1} /\ miscounted' \in {miscounted, TRUE}
  BY DEF LaunchOrSkip
<1>5. faults' \in Nat /\ miscounted' \in BOOLEAN
  <2>1. faults' \in Nat
    BY <1>0, <1>a DEF HistoryOK
  <2>2. miscounted \in BOOLEAN
    BY <1>0 DEF HistoryOK
  <2>3. miscounted' \in BOOLEAN
    BY <1>a, <2>2, Zenon
  <2>4. QED
    BY <2>1, <2>3
<1>b. status[i] # "NONE" /\ ident[i] \in Identities
  BY <1>0, <1>1, <1>3, HeadTailProperties DEF ControllerInv, RowsExist, SchedulerOK
<1>6. busy' \in {busy, busy \cup {h}} /\ (h = NoHost => busy' = busy)
  BY DEF LaunchOrSkip
<1>c. h \in Hosts \cup {NoHost}
  BY <1>b
<1>7. busy' \subseteq Hosts
  BY <1>0, <1>6, <1>c DEF SchedulerOK
<1> HIDE DEF launch, i, h
<1>8. SchedulerOK'
  BY <1>0, <1>1, <1>2, <1>3, <1>4, <1>7 DEF SchedulerOK
<1>9. HistoryOK'
  BY <1>0, <1>1, <1>5 DEF HistoryOK
<1>10. TypeOK'
  BY <1>0, <1>1, <1>8, <1>9, UnchangedType DEF TypeOK
<1>11. \A j \in Ids : worker'[j] = worker[j] \/ worker'[j].step \in {"none", "enqueue"}
  BY <1>0, <1>3, <1>4 DEF SchedulerOK
<1>12. \A a \in DOMAIN listed' : status[listed'[a].id] # "NONE"
  <2>1. \A a \in DOMAIN Tail(listed) : a + 1 \in DOMAIN listed /\ Tail(listed)[a] = listed[a + 1]
    BY <1>0, <1>1, HeadTailProperties DEF SchedulerOK
  <2>2. QED
    BY <1>1, <2>1 DEF ControllerInv, RowsExist
<1>13. RowsExist'
  BY <1>0, <1>1, <1>3, <1>4, <1>b, <1>12 DEF ControllerInv, RowsExist, SchedulerOK, incidentVars
<1>14. QED
  BY <1>1, <1>10, <1>11, <1>13, PassInv DEF incidentVars, runVars

-----------------------------------------------------------------------------
(* Workers *)

LEMMA StoreFaultInv ==
  ASSUME ControllerInv, NEW i \in Ids, StoreFault(i)
  PROVE  ControllerInv'
<1>0. IncidentsOK /\ RunsOK /\ SchedulerOK /\ HistoryOK
  BY DEF ControllerInv, TypeOK
<1>1. UNCHANGED <<incidentVars, runVars, up, listed, busy, events, crashes, historyVars>>
      /\ worker' = [worker EXCEPT ![i] = NoWorker] /\ faults' = faults + 1
  BY DEF StoreFault, StopWorker
<1>2. SchedulerOK' /\ HistoryOK'
  BY <1>0, <1>1, NoWorkerType DEF SchedulerOK, HistoryOK, historyVars
<1>3. TypeOK'
  BY <1>0, <1>1, <1>2, UnchangedType DEF TypeOK
<1>4. \A j \in Ids : worker'[j] = worker[j] \/ worker'[j] = NoWorker
  BY <1>0, <1>1 DEF SchedulerOK
<1>5. ~up' => \A j \in Ids : worker'[j] = NoWorker
  BY <1>1, <1>4 DEF ControllerInv, WorkersHoldRuns
<1>6. RowsExist'
  BY <1>1, <1>4, NoWorkerType DEF ControllerInv, RowsExist, incidentVars
<1>7. QED
  BY <1>1, <1>3, <1>4, <1>5, <1>6, NoWorkerType, PassInv DEF incidentVars, runVars

\* A fresh run is queued together with its incident.
LEMMA EnqueueInv ==
  ASSUME ControllerInv, NEW i \in Ids, EnqueueRun(i)
  PROVE  ControllerInv'
<1>0. IncidentsOK /\ RunsOK /\ SchedulerOK /\ HistoryOK /\ worker[i] \in Workers
  BY DEF ControllerInv, TypeOK, SchedulerOK
<1>1. UNCHANGED <<ident, body, up, listed, busy, boundVars, historyVars>>
      /\ worker[i].step = "enqueue"
  BY DEF EnqueueRun
<1>2. up
  BY <1>1, NoWorkerType DEF ControllerInv, WorkersHoldRuns, SchedulerOK
<1>3. CASE ~EnqueueAllowed(i)
  <2>1. worker' = [worker EXCEPT ![i] = NoWorker]
        /\ UNCHANGED <<runState, runOf, status, waiting, attempts, older>>
    BY <1>3 DEF EnqueueRun, StopWorker, runVars
  <2>2. SchedulerOK'
    BY <1>0, <1>1, <2>1, NoWorkerType DEF SchedulerOK
  <2>3. TypeOK'
    BY <1>0, <1>1, <2>1, <2>2, UnchangedType DEF TypeOK, incidentVars, runVars
  <2>4. \A j \in Ids : worker'[j] = worker[j] \/ worker'[j] = NoWorker
    BY <1>0, <2>1 DEF SchedulerOK
  <2>5. RowsExist'
    BY <1>1, <2>1, <2>4, NoWorkerType DEF ControllerInv, RowsExist
  <2>6. QED
    BY <1>1, <1>2, <2>1, <2>3, <2>4, <2>5, NoWorkerType, PassInv
<1>4. CASE EnqueueAllowed(i)
  <2> DEFINE r == CHOOSE q \in RunIds : ~RunActive(q)
             w == [worker[i] EXCEPT !.step = "start", !.run = r]
  <2>1. r \in RunIds /\ ~RunActive(r)
    BY <1>4 DEF EnqueueRun
  <2>2. /\ runState' = [runState EXCEPT ![r] = "QUEUED"]
        /\ runOf' = [runOf EXCEPT ![r] = i]
        /\ worker' = [worker EXCEPT ![i].step = "start", ![i].run = r]
        /\ status' = [status EXCEPT ![i] = "QUEUED"]
        /\ waiting' = [waiting EXCEPT ![i] = FALSE]
        /\ attempts' = [attempts EXCEPT ![i] = @ + 1]
        /\ Touch({i})
    BY <1>4 DEF EnqueueRun
  <2> HIDE DEF r
  <2>3. w \in Workers /\ w.step = "start" /\ w.run = r
    BY <1>0, <2>1 DEF Workers
  <2>4. worker' = [worker EXCEPT ![i] = w]
    BY <1>0, <2>2 DEF SchedulerOK
  <2> HIDE DEF w
  <2>5. older' \subseteq Ids \X Ids
    BY <1>0, <2>2, TouchType DEF IncidentsOK
  <2>6. IncidentsOK'
    BY <1>0, <1>1, <2>2, <2>5 DEF IncidentsOK, Statuses, InFlight
  <2>7. RunsOK'
    BY <1>0, <2>1, <2>2 DEF RunsOK, InFlight
  <2>8. SchedulerOK'
    BY <1>0, <1>1, <2>3, <2>4 DEF SchedulerOK
  <2>9. TypeOK'
    BY <1>0, <1>1, <2>6, <2>7, <2>8, UnchangedType DEF TypeOK
  <2>10. /\ status'[i] = "QUEUED" /\ \A j \in Ids \ {i} : status'[j] = status[j]
         /\ runState'[r] = "QUEUED" /\ runOf'[r] = i
         /\ \A q \in RunIds \ {r} : runState'[q] = runState[q] /\ runOf'[q] = runOf[q]
         /\ worker'[i] = w /\ \A j \in Ids \ {i} : worker'[j] = worker[j]
    BY <1>0, <2>1, <2>2, <2>4 DEF IncidentsOK, RunsOK, SchedulerOK
  <2>11. OneActiveIncident'
    BY <1>1, <1>4, <2>10 DEF ControllerInv, OneActiveIncident, Active, EnqueueAllowed
  <2>12. \A q \in RunIds \ {r} : RunActive(q) => runOf[q] # i
    BY <1>4 DEF EnqueueAllowed, HasActiveRun
  <2>13. RunsMatchIncidents'
    <3>1. ASSUME NEW j \in Ids, status'[j] \in InFlight
          PROVE  \E q \in RunIds : runOf'[q] = j /\ runState'[q] = status'[j]
      <4>1. CASE j = i
        BY <2>1, <2>10, <4>1
      <4>2. CASE j # i
        <5>1. PICK q \in RunIds : runOf[q] = j /\ runState[q] = status[j]
          BY <2>10, <3>1, <4>2 DEF ControllerInv, RunsMatchIncidents
        <5>2. q # r
          BY <2>1, <2>10, <3>1, <4>2, <5>1 DEF RunActive
        <5>3. QED
          BY <2>10, <4>2, <5>1, <5>2
      <4>3. QED
        BY <4>1, <4>2
    <3>2. ASSUME NEW q \in ActiveRuns'
          PROVE  runOf'[q] \in Ids /\ status'[runOf'[q]] \in {runState'[q], "RESOLVED_EXTERNAL"}
      <4>1. q \in RunIds /\ (q # r => RunActive(q))
        BY <2>10 DEF ActiveRuns, RunActive
      <4>2. CASE q = r
        BY <2>10, <4>2
      <4>3. CASE q # r
        BY <2>10, <2>12, <4>1, <4>3 DEF ControllerInv, RunsMatchIncidents, ActiveRuns
      <4>4. QED
        BY <4>2, <4>3
    <3>3. ASSUME NEW p \in ActiveRuns', NEW q \in ActiveRuns', runOf'[p] = runOf'[q]
          PROVE  p = q
      <4>1. /\ p \in RunIds /\ (p # r => RunActive(p))
            /\ q \in RunIds /\ (q # r => RunActive(q))
        BY <2>10 DEF ActiveRuns, RunActive
      <4>2. QED
        BY <2>10, <2>12, <3>3, <4>1 DEF ControllerInv, RunsMatchIncidents, ActiveRuns
    <3>4. QED
      BY <3>1, <3>2, <3>3 DEF RunsMatchIncidents
  <2>14. WorkersHoldRuns'
    <3>1. \A j \in Ids \ {i} : worker[j].step \in {"start", "diagnose"} => worker[j].run # r
      BY <2>1 DEF ControllerInv, WorkersHoldRuns, RunActive, InFlight
    <3>2. QED
      BY <1>1, <1>2, <2>1, <2>3, <2>10, <3>1 DEF ControllerInv, WorkersHoldRuns
  <2>15. RowsExist'
    <3>1. \A j \in Ids : status[j] # "NONE" => status'[j] # "NONE"
      BY <2>10
    <3>2. ident[i] \in Identities
      BY <1>1 DEF ControllerInv, RowsExist
    <3>3. QED
      BY <1>0, <1>1, <2>10, <3>1, <3>2, ListedRows DEF ControllerInv, RowsExist
  <2>16. QED
    BY <2>9, <2>11, <2>13, <2>14, <2>15 DEF ControllerInv
<1>5. QED
  BY <1>3, <1>4

\* MoveIncident changes one row, and not a terminal one.
LEMMA MoveEffect ==
  ASSUME IncidentsOK, NEW i \in Ids, NEW to \in Statuses, MoveIncident(i, to)
  PROVE  /\ status' \in [Ids -> Statuses] /\ older' \subseteq Ids \X Ids
         /\ status'[i] = IF status[i] = "RESOLVED_EXTERNAL" THEN status[i] ELSE to
         /\ \A j \in Ids \ {i} : status'[j] = status[j]
<1>1. CASE status[i] = "RESOLVED_EXTERNAL"
  BY <1>1 DEF MoveIncident, IncidentsOK
<1>2. CASE status[i] # "RESOLVED_EXTERNAL"
  <2>1. status' = [status EXCEPT ![i] = to] /\ Touch({i})
    BY <1>2 DEF MoveIncident
  <2>2. older' \subseteq Ids \X Ids
    BY <2>1, TouchType DEF IncidentsOK
  <2>3. QED
    BY <1>2, <2>1, <2>2 DEF IncidentsOK
<1>3. QED
  BY <1>1, <1>2

\* A worker moves its own run and, unless it is terminal, its own incident:
\* to the next in-flight state together, or out of flight together.
LEMMA RunStep ==
  ASSUME ControllerInv, TypeOK', NEW i \in Ids, NEW to \in Statuses,
         NEW runTo \in InFlight \cup {"done"},
         worker[i].step \in {"start", "diagnose"},
         runState' = [runState EXCEPT ![worker[i].run] = runTo],
         MoveIncident(i, to), to # "NONE", to # "RESOLVED_EXTERNAL",
         runTo \in InFlight => to = runTo,
         runTo = "done" => to \notin InFlight,
         UNCHANGED <<ident, runOf, up, listed>>,
         \A j \in Ids \ {i} : worker'[j] = worker[j],
         \/ runTo = "done" /\ worker'[i] = NoWorker
         \/ /\ runTo = "INVESTIGATING"
            /\ worker'[i].step = "diagnose" /\ worker'[i].run = worker[i].run
  PROVE  ControllerInv'
<1> DEFINE r == worker[i].run
<1>0. IncidentsOK /\ RunsOK /\ SchedulerOK
  BY DEF ControllerInv, TypeOK
<1>1. r \in RunIds /\ runOf[r] = i /\ RunActive(r) /\ up
  BY NoWorkerType DEF ControllerInv, WorkersHoldRuns, RunActive, InFlight, TypeOK, SchedulerOK
<1>2. status[i] \in InFlight \cup {"RESOLVED_EXTERNAL"}
  BY <1>1 DEF ControllerInv, RunsMatchIncidents, ActiveRuns, RunActive
<1>3. /\ status'[i] = IF status[i] = "RESOLVED_EXTERNAL" THEN status[i] ELSE to
      /\ \A j \in Ids \ {i} : status'[j] = status[j]
  BY <1>0, MoveEffect
<1>4. runState'[r] = runTo /\ \A q \in RunIds \ {r} : runState'[q] = runState[q]
  BY <1>0, <1>1 DEF RunsOK
<1>5. \A q \in RunIds \ {r} : RunActive(q) => runOf[q] # i
  BY <1>1 DEF ControllerInv, RunsMatchIncidents, ActiveRuns
<1>6. OneActiveIncident'
  BY <1>2, <1>3 DEF ControllerInv, OneActiveIncident, Active, InFlight
<1>7. RunsMatchIncidents'
  <2>1. ASSUME NEW j \in Ids, status'[j] \in InFlight
        PROVE  \E q \in RunIds : runOf'[q] = j /\ runState'[q] = status'[j]
    <3>1. CASE j = i
      BY <1>1, <1>3, <1>4, <2>1, <3>1 DEF InFlight
    <3>2. CASE j # i
      <4>1. PICK q \in RunIds : runOf[q] = j /\ runState[q] = status[j]
        BY <1>3, <2>1, <3>2 DEF ControllerInv, RunsMatchIncidents
      <4>2. q # r
        BY <1>1, <3>2, <4>1
      <4>3. QED
        BY <1>3, <1>4, <3>2, <4>1, <4>2
    <3>3. QED
      BY <3>1, <3>2
  <2>2. ASSUME NEW q \in ActiveRuns'
        PROVE  runOf'[q] \in Ids /\ status'[runOf'[q]] \in {runState'[q], "RESOLVED_EXTERNAL"}
    <3>1. q \in RunIds /\ runState'[q] \in InFlight
      BY DEF ActiveRuns, RunActive
    <3>2. CASE q = r
      BY <1>1, <1>3, <1>4, <3>1, <3>2 DEF InFlight
    <3>3. CASE q # r
      <4>1. q \in ActiveRuns /\ runOf[q] # i
        BY <1>4, <1>5, <3>1, <3>3 DEF ActiveRuns, RunActive
      <4>2. runOf[q] \in Ids /\ status[runOf[q]] \in {runState[q], "RESOLVED_EXTERNAL"}
        BY <4>1 DEF ControllerInv, RunsMatchIncidents
      <4>3. QED
        BY <1>3, <1>4, <3>1, <3>3, <4>1, <4>2
    <3>4. QED
      BY <3>2, <3>3
  <2>3. ActiveRuns' \subseteq ActiveRuns
    BY <1>1, <1>4 DEF ActiveRuns, RunActive
  <2>4. QED
    BY <2>1, <2>2, <2>3 DEF RunsMatchIncidents, ControllerInv
<1>8. WorkersHoldRuns'
  <2>1. \A j \in Ids \ {i} : worker[j].step \in {"start", "diagnose"} =>
          worker[j].run \in RunIds \ {r}
    BY <1>1 DEF ControllerInv, WorkersHoldRuns
  <2>2. QED
    BY <1>1, <1>4, <2>1, NoWorkerType DEF ControllerInv, WorkersHoldRuns
<1>9. RowsExist'
  <2>1. \A j \in Ids : status[j] # "NONE" => status'[j] # "NONE"
    BY <1>2, <1>3 DEF InFlight
  <2>2. ident[i] \in Identities /\ status[i] # "NONE"
    BY <1>2 DEF ControllerInv, RowsExist, InFlight
  <2>3. QED
    BY <1>0, <1>3, <2>1, <2>2, ListedRows DEF ControllerInv, RowsExist
<1>10. QED
  BY <1>6, <1>7, <1>8, <1>9 DEF ControllerInv

LEMMA StartRunInv ==
  ASSUME ControllerInv, NEW i \in Ids, StartRun(i)
  PROVE  ControllerInv'
<1>0. IncidentsOK /\ RunsOK /\ SchedulerOK /\ HistoryOK /\ worker[i] \in Workers
  BY DEF ControllerInv, TypeOK, SchedulerOK
<1> DEFINE w == [worker[i] EXCEPT !.step = "diagnose"]
<1>1. w \in Workers /\ w.step = "diagnose" /\ w.run = worker[i].run
  BY <1>0 DEF Workers
<1>2. worker' = [worker EXCEPT ![i] = w]
  BY <1>0 DEF StartRun, SchedulerOK
<1> HIDE DEF w
<1>3. "INVESTIGATING" \in Statuses /\ "INVESTIGATING" \in InFlight
  BY DEF Statuses, InFlight
<1>4. IncidentsOK'
  BY <1>0, <1>3, MoveEffect DEF StartRun, IncidentsOK
<1>5. RunsOK' /\ SchedulerOK'
  BY <1>0, <1>1, <1>2, <1>3 DEF StartRun, RunsOK, SchedulerOK
<1>6. TypeOK'
  BY <1>0, <1>4, <1>5, UnchangedType DEF TypeOK, StartRun
<1>7. /\ worker'[i] = w /\ \A j \in Ids \ {i} : worker'[j] = worker[j]
  BY <1>0, <1>1, <1>2 DEF SchedulerOK
<1>8. QED
  BY <1>1, <1>3, <1>6, <1>7, RunStep DEF StartRun

LEMMA CompleteInv ==
  ASSUME ControllerInv, NEW i \in Ids, CompleteRunDiagnosed(i)
  PROVE  ControllerInv'
<1>0. IncidentsOK /\ RunsOK /\ SchedulerOK /\ HistoryOK
  BY DEF ControllerInv, TypeOK
<1>1. "DIAGNOSED" \in Statuses /\ "DIAGNOSED" \notin InFlight /\ "done" \notin InFlight
  BY DEF Statuses, InFlight
<1>2. IncidentsOK'
  BY <1>0, <1>1, MoveEffect DEF CompleteRunDiagnosed, IncidentsOK
<1>3. RunsOK' /\ SchedulerOK'
  BY <1>0, NoWorkerType DEF CompleteRunDiagnosed, StopWorker, RunsOK, SchedulerOK
<1>4. TypeOK'
  BY <1>0, <1>2, <1>3, UnchangedType DEF TypeOK, CompleteRunDiagnosed
<1>5. worker'[i] = NoWorker /\ \A j \in Ids \ {i} : worker'[j] = worker[j]
  BY <1>0 DEF CompleteRunDiagnosed, StopWorker, SchedulerOK
<1>6. QED
  BY <1>1, <1>4, <1>5, RunStep DEF CompleteRunDiagnosed

LEMMA FailInv ==
  ASSUME ControllerInv, NEW i \in Ids, FailRunAndMaybeRetry(i)
  PROVE  ControllerInv'
<1>0. IncidentsOK /\ RunsOK /\ SchedulerOK /\ HistoryOK
  BY DEF ControllerInv, TypeOK
<1> DEFINE retried == worker[i].attempts + 1 < MaxDispatchAttempts
           to == IF retried THEN "OPEN" ELSE "AGENT_FAILED"
<1>1. to \in Statuses /\ to \notin InFlight /\ to # "NONE" /\ to # "RESOLVED_EXTERNAL"
      /\ "done" \notin InFlight
  BY DEF Statuses, InFlight
<1>2. /\ MoveIncident(i, to)
      /\ waiting' = [waiting EXCEPT ![i] =
           IF status[i] = "RESOLVED_EXTERNAL" THEN @ ELSE retried]
  BY DEF FailRunAndMaybeRetry
<1>3. retried \in BOOLEAN
  OBVIOUS
<1> HIDE DEF retried, to
<1>4. waiting' \in [Ids -> BOOLEAN]
  BY <1>0, <1>2, <1>3 DEF IncidentsOK
<1>5. IncidentsOK'
  BY <1>0, <1>1, <1>2, <1>4, MoveEffect DEF FailRunAndMaybeRetry, IncidentsOK
<1>6. RunsOK' /\ SchedulerOK'
  BY <1>0, NoWorkerType DEF FailRunAndMaybeRetry, StopWorker, RunsOK, SchedulerOK
<1>7. HistoryOK'
  BY <1>0 DEF FailRunAndMaybeRetry, HistoryOK, boundVars
<1>8. TypeOK'
  BY <1>5, <1>6, <1>7 DEF TypeOK
<1>9. worker'[i] = NoWorker /\ \A j \in Ids \ {i} : worker'[j] = worker[j]
  BY <1>0 DEF FailRunAndMaybeRetry, StopWorker, SchedulerOK
<1>10. QED
  BY <1>1, <1>2, <1>8, <1>9, RunStep DEF FailRunAndMaybeRetry

-----------------------------------------------------------------------------
(* Restart *)

LEMMA CrashInv ==
  ASSUME ControllerInv, Crash
  PROVE  ControllerInv'
<1>0. IncidentsOK /\ RunsOK /\ SchedulerOK /\ HistoryOK
  BY DEF ControllerInv, TypeOK
<1>1. /\ up' = FALSE /\ listed' = << >> /\ busy' = {} /\ crashes' = crashes + 1
      /\ worker' = [i \in Ids |-> NoWorker]
      /\ UNCHANGED <<incidentVars, runVars, events, faults, historyVars>>
  BY DEF Crash
<1>2. SchedulerOK'
  BY <1>1, NoWorkerType, NoListing DEF SchedulerOK
<1>3. HistoryOK'
  BY <1>0, <1>1 DEF HistoryOK, historyVars
<1>4. TypeOK'
  BY <1>0, <1>1, <1>2, <1>3, UnchangedType DEF TypeOK
<1>5. RowsExist'
  BY <1>1, NoWorkerType DEF ControllerInv, RowsExist, incidentVars
<1>6. QED
  BY <1>1, <1>4, <1>5, NoWorkerType, PassInv DEF incidentVars, runVars

LEMMA RecoverInv ==
  ASSUME ControllerInv, RecoverInFlightRuns
  PROVE  ControllerInv'
<1> DEFINE reopened == {i \in Ids : HasActiveRun(i) /\ status[i] # "RESOLVED_EXTERNAL"}
<1>0. IncidentsOK /\ RunsOK /\ SchedulerOK /\ HistoryOK
  BY DEF ControllerInv, TypeOK
<1>1. /\ ~up /\ up' = TRUE
      /\ status' = [i \in Ids |-> IF i \in reopened THEN "OPEN" ELSE status[i]]
      /\ waiting' = [i \in Ids |-> waiting[i] /\ i \notin reopened]
      /\ Touch(reopened)
      /\ runState' = [r \in RunIds |-> "done"]
      /\ lost' = [i \in Ids |-> IF HasActiveRun(i) THEN lost[i] + 1 ELSE lost[i]]
      /\ UNCHANGED <<ident, body, attempts, runOf, passVars, boundVars, failures, miscounted>>
  BY DEF RecoverInFlightRuns
<1>2. \A i \in reopened : status[i] \in InFlight
  BY DEF ControllerInv, RunsMatchIncidents, HasActiveRun, ActiveRuns, RunActive
<1>3. \A i \in Ids \ reopened : status[i] \notin InFlight
  BY DEF ControllerInv, RunsMatchIncidents, HasActiveRun, RunActive, InFlight
<1>4. reopened \subseteq Ids
  OBVIOUS
<1> HIDE DEF reopened
<1>5. older' \subseteq Ids \X Ids
  BY <1>0, <1>1, <1>4, TouchType DEF IncidentsOK
<1>6. IncidentsOK'
  <2>1. status' \in [Ids -> Statuses] /\ waiting' \in [Ids -> BOOLEAN]
    BY <1>0, <1>1 DEF IncidentsOK, Statuses
  <2>2. QED
    BY <1>0, <1>1, <1>5, <2>1 DEF IncidentsOK
<1>7. RunsOK' /\ SchedulerOK'
  BY <1>0, <1>1 DEF RunsOK, SchedulerOK, passVars
<1>8. HistoryOK'
  BY <1>0, <1>1 DEF HistoryOK, boundVars
<1>9. TypeOK'
  BY <1>6, <1>7, <1>8 DEF TypeOK
<1>10. \A i \in Ids : IF i \in reopened THEN status'[i] = "OPEN" ELSE status'[i] = status[i]
  BY <1>1
<1>11. OneActiveIncident'
  BY <1>1, <1>2, <1>10 DEF ControllerInv, OneActiveIncident, Active, InFlight
<1>12. RunsMatchIncidents'
  BY <1>1, <1>3, <1>10 DEF RunsMatchIncidents, ActiveRuns, RunActive, InFlight
<1>13. WorkersHoldRuns'
  BY <1>1, NoWorkerType DEF ControllerInv, WorkersHoldRuns, passVars
<1>14. RowsExist'
  <2>1. \A i \in Ids : status[i] # "NONE" <=> status'[i] # "NONE"
    BY <1>2, <1>10 DEF InFlight
  <2>2. QED
    BY <1>0, <1>1, <2>1, ListedRows DEF ControllerInv, RowsExist, passVars
<1>15. QED
  BY <1>9, <1>11, <1>12, <1>13, <1>14 DEF ControllerInv

-----------------------------------------------------------------------------
(* A pass and the runs of its workers *)

\* What a pass still means to do: incidents listed and not looked at, and
\* workers that have not enqueued yet.
Enqueuing == {i \in Ids : worker[i].step = "enqueue"}
Pending(i) == i \in Enqueuing \/ \E a \in DOMAIN listed : listed[a].id = i

\* A pass looks at an incident once, and starts its worker only then.
ListingInv ==
  /\ ~up => listed = << >>
  /\ \A a, b \in DOMAIN listed : listed[a].id = listed[b].id => a = b
  /\ \A a \in DOMAIN listed : worker[listed[a].id].step = "none"

RunsOn(h) == {r \in ActiveRuns : HostOf[ident[runOf[r]]] = h}
EnqueuingOn(h) == {i \in Enqueuing : HostOf[ident[i]] = h}

\* The budget of a pass covers what it has not enqueued yet, and a host it has
\* sent a worker to is marked busy.
GlobalBound == Cardinality(ActiveRuns) + Cardinality(Enqueuing) + Len(listed) <= MaxConcurrentRuns
HostBound(h) ==
  /\ Cardinality(RunsOn(h)) + Cardinality(EnqueuingOn(h)) <= MaxRunsPerHost
  /\ EnqueuingOn(h) # {} => h \in busy
BoundInv == GlobalBound /\ (miscounted \/ \A h \in Hosts : HostBound(h))

\* How an incident's attempts come about: each is a failure, a run a restart
\* gave up, or the run in flight, and a worker knows the count it was listed with.
Open(i) == Pending(i) \/ status[i] = "OPEN" \/ status[i] \in InFlight
ActiveCount(i) == IF HasActiveRun(i) THEN 1 ELSE 0
Counts(i) ==
  /\ status[i] = "NONE" => attempts[i] = 0 /\ failures[i] = 0 /\ lost[i] = 0
  /\ Open(i) \/ status[i] = "AGENT_FAILED" =>
       attempts[i] = failures[i] + lost[i] + ActiveCount(i)
  /\ Open(i) => failures[i] < MaxDispatchAttempts
  /\ status[i] = "AGENT_FAILED" =>
       attempts[i] >= MaxDispatchAttempts /\ failures[i] <= MaxDispatchAttempts
  /\ Pending(i) => status[i] \in {"OPEN", "RESOLVED_EXTERNAL"}
  /\ i \in Enqueuing => worker[i].attempts = attempts[i]
  /\ worker[i].step \in {"start", "diagnose"} => attempts[i] = worker[i].attempts + 1
BudgetInv ==
  /\ \A i \in Ids : Counts(i)
  /\ \A a \in DOMAIN listed : listed[a].attempts = attempts[listed[a].id]

\* What a pass keeps, on top of the rows' consistency.
SchedulerInv == ListingInv /\ BoundInv /\ BudgetInv /\ ActiveRunsOwned
FullInv == ControllerInv /\ SchedulerInv

LEMMA FiniteRuns ==
  ASSUME NEW S \in SUBSET RunIds
  PROVE  IsFiniteSet(S) /\ Cardinality(S) \in Nat
BY FS_Subset, FS_CardinalityType

LEMMA FiniteIds ==
  ASSUME NEW S \in SUBSET Ids
  PROVE  IsFiniteSet(S) /\ Cardinality(S) \in Nat
BY FS_Subset, FS_CardinalityType

\* The counts the bounds are about are numbers, in either state.
LEMMA CountTypes ==
  /\ Cardinality(ActiveRuns) \in Nat /\ Cardinality(Enqueuing) \in Nat
  /\ \A h : Cardinality(RunsOn(h)) \in Nat /\ Cardinality(EnqueuingOn(h)) \in Nat
<1>1. ActiveRuns \in SUBSET RunIds /\ Enqueuing \in SUBSET Ids
  BY DEF ActiveRuns, Enqueuing
<1>2. \A h : RunsOn(h) \in SUBSET RunIds /\ EnqueuingOn(h) \in SUBSET Ids
  BY DEF ActiveRuns, Enqueuing, RunsOn, EnqueuingOn
<1>3. QED
  BY <1>1, <1>2, FiniteRuns, FiniteIds

\* Every run that counts for a host belongs to a row, and rows keep their hosts.
LEMMA RunsHaveRows ==
  ASSUME ControllerInv
  PROVE  /\ \A r \in ActiveRuns : runOf[r] \in Ids /\ status[runOf[r]] # "NONE"
         /\ \A i \in Enqueuing : i \in Ids /\ status[i] # "NONE"
         /\ \A a \in DOMAIN listed : listed[a].id \in Ids /\ status[listed[a].id] # "NONE"
<1>1. ASSUME NEW r \in ActiveRuns PROVE runOf[r] \in Ids /\ status[runOf[r]] # "NONE"
  BY DEF ControllerInv, RunsMatchIncidents, ActiveRuns, RunActive, InFlight
<1>2. \A i \in Enqueuing : i \in Ids /\ status[i] # "NONE"
  BY DEF ControllerInv, RowsExist, Enqueuing
<1>3. \A a \in DOMAIN listed : listed[a].id \in Ids /\ status[listed[a].id] # "NONE"
  BY ListedRows DEF ControllerInv, TypeOK, RowsExist
<1>4. QED
  BY <1>1, <1>2, <1>3

\* Events change no pass and no run; they close rows, and start a new cycle only
\* for an incident whose investigation had ended.
CountEffect ==
  \A i \in Ids :
    \/ /\ attempts'[i] = attempts[i] /\ failures'[i] = failures[i] /\ lost'[i] = lost[i]
       /\ \/ status'[i] = status[i]
          \/ status[i] = "NONE" /\ status'[i] \in {"OPEN", "RESOLVED_EXTERNAL"}
          \/ Active(i) /\ status'[i] = "RESOLVED_EXTERNAL"
    \/ /\ status[i] \in {"DIAGNOSED", "AGENT_FAILED"} /\ status'[i] = "OPEN"
       /\ attempts'[i] = 0 /\ failures'[i] = 0 /\ lost'[i] = 0

LEMMA IngestCounts ==
  ASSUME ControllerInv, NEW e \in Identities, NEW s \in {"firing", "resolved"},
         NEW b \in Bodies, IngestEvent(e, s, b)
  PROVE  CountEffect
<1>0. IncidentsOK /\ HistoryOK
  BY DEF ControllerInv, TypeOK
<1>1. ASSUME NEW i \in Ids, Active(i), UpdateIncident(i, s, b)
      PROVE  CountEffect
  <2> DEFINE reopen == s # "resolved" /\ status[i] \in {"DIAGNOSED", "AGENT_FAILED"}
  <2>1. CASE UNCHANGED <<status, body, waiting, attempts, failures, lost>>
    BY <2>1 DEF CountEffect
  <2>2. CASE /\ status' = [status EXCEPT ![i] = IF s = "resolved" THEN "RESOLVED_EXTERNAL"
                                              ELSE IF reopen THEN "OPEN" ELSE @]
             /\ attempts' = [attempts EXCEPT ![i] = IF reopen THEN 0 ELSE @]
             /\ failures' = [failures EXCEPT ![i] = IF reopen THEN 0 ELSE @]
             /\ lost' = [lost EXCEPT ![i] = IF reopen THEN 0 ELSE @]
    BY <1>0, <1>1, <2>2 DEF CountEffect, IncidentsOK, HistoryOK
  <2>3. QED
    BY <1>1, <2>1, <2>2 DEF UpdateIncident
<1>2. ASSUME CreateIncident(e, s, b) PROVE CountEffect
  <2> DEFINE i == CHOOSE j \in Ids : status[j] = "NONE"
  <2>1. i \in Ids /\ status[i] = "NONE"
    BY <1>2 DEF CreateIncident
  <2>2. /\ status' = [status EXCEPT ![i] = IF s = "resolved" THEN "RESOLVED_EXTERNAL" ELSE "OPEN"]
        /\ UNCHANGED <<attempts, failures, lost>>
    BY <1>2 DEF CreateIncident
  <2> HIDE DEF i
  <2>3. QED
    BY <1>0, <2>1, <2>2 DEF CountEffect, IncidentsOK
<1>3. QED
  BY <1>1, <1>2 DEF IngestEvent

LEMMA IngestIdents ==
  ASSUME ControllerInv, NEW e \in Identities, NEW s \in {"firing", "resolved"},
         NEW b \in Bodies, IngestEvent(e, s, b)
  PROVE  \A i \in Ids : status[i] # "NONE" => ident'[i] = ident[i]
<1>0. IncidentsOK /\ RunsOK /\ SchedulerOK /\ HistoryOK
  BY DEF ControllerInv, TypeOK
<1>1. events' \in Nat /\ crashes' \in Nat /\ faults' \in Nat /\ miscounted' \in BOOLEAN
  BY <1>0 DEF IngestEvent, HistoryOK
<1>2. EventEffect
  BY <1>1, UpdateEffect, CreateEffect DEF IngestEvent
<1>3. QED
  BY <1>2 DEF EventEffect

LEMMA IngestScheduler ==
  ASSUME FullInv, NEW e \in Identities, NEW s \in {"firing", "resolved"},
         NEW b \in Bodies, IngestEvent(e, s, b)
  PROVE  SchedulerInv'
<1>0. ControllerInv /\ SchedulerInv
  BY DEF FullInv
<1>1. UNCHANGED <<runState, runOf, up, listed, busy, worker, crashes, faults, miscounted>>
  BY DEF IngestEvent, runVars, passVars
<1>2. CountEffect /\ \A i \in Ids : status[i] # "NONE" => ident'[i] = ident[i]
  BY <1>0, IngestCounts, IngestIdents
<1>3. ListingInv' /\ ActiveRunsOwned'
  BY <1>0, <1>1 DEF SchedulerInv, ListingInv, ActiveRunsOwned, ActiveRuns, RunActive
<1>4. ActiveRuns' = ActiveRuns /\ Enqueuing' = Enqueuing
  BY <1>1 DEF ActiveRuns, RunActive, Enqueuing
<1>5. ASSUME NEW h \in Hosts PROVE RunsOn(h)' = RunsOn(h) /\ EnqueuingOn(h)' = EnqueuingOn(h)
  BY <1>0, <1>1, <1>2, <1>4, RunsHaveRows DEF RunsOn, EnqueuingOn
<1>6. BoundInv'
  BY <1>0, <1>1, <1>4, <1>5 DEF SchedulerInv, BoundInv, GlobalBound, HostBound
<1>7. ASSUME NEW i \in Ids PROVE Counts(i)'
  <2>1. Counts(i)
    BY <1>0 DEF SchedulerInv, BudgetInv
  <2>2. Pending(i)' = Pending(i) /\ HasActiveRun(i)' = HasActiveRun(i)
    BY <1>1, <1>4 DEF Pending, HasActiveRun, RunActive
  <2>3. HasActiveRun(i) => status[i] \in InFlight \cup {"RESOLVED_EXTERNAL"}
    BY <1>0 DEF ControllerInv, RunsMatchIncidents, HasActiveRun, ActiveRuns, RunActive
  <2>4. worker[i].step \in {"start", "diagnose"} => HasActiveRun(i)
    BY <1>0 DEF ControllerInv, WorkersHoldRuns, HasActiveRun, RunActive, InFlight
  <2>5. CASE /\ status[i] \in {"DIAGNOSED", "AGENT_FAILED"} /\ status'[i] = "OPEN"
             /\ attempts'[i] = 0 /\ failures'[i] = 0 /\ lost'[i] = 0
    <3>1. ~HasActiveRun(i) /\ ~Pending(i) /\ i \notin Enqueuing
      BY <2>1, <2>3, <2>5 DEF Counts, Pending, InFlight
    <3>2. QED
      BY <1>1, <1>4, <2>2, <2>4, <2>5, <3>1 DEF Counts, Open, ActiveCount, InFlight
  <2>6. CASE /\ attempts'[i] = attempts[i] /\ failures'[i] = failures[i] /\ lost'[i] = lost[i]
             /\ \/ status'[i] = status[i]
                \/ status[i] = "NONE" /\ status'[i] \in {"OPEN", "RESOLVED_EXTERNAL"}
                \/ Active(i) /\ status'[i] = "RESOLVED_EXTERNAL"
    <3>1. CASE status'[i] = status[i]
      BY <1>1, <1>4, <2>1, <2>2, <2>6, <3>1 DEF Counts, Open, ActiveCount
    <3>2. CASE status[i] = "NONE" /\ status'[i] \in {"OPEN", "RESOLVED_EXTERNAL"}
      <4>1. ~HasActiveRun(i) /\ ~Pending(i) /\ i \notin Enqueuing
        BY <2>1, <2>3, <3>2 DEF Counts, Pending, InFlight
      <4>2. QED
        BY <1>1, <1>4, <2>1, <2>2, <2>4, <2>6, <3>2, <4>1 DEF Counts, Open, ActiveCount, InFlight
    <3>3. CASE Active(i) /\ status'[i] = "RESOLVED_EXTERNAL"
      BY <1>1, <1>4, <2>1, <2>2, <2>6, <3>3 DEF Counts, Open, ActiveCount, InFlight
    <3>4. QED
      BY <2>6, <3>1, <3>2, <3>3
  <2>7. QED
    BY <1>2, <2>5, <2>6 DEF CountEffect
<1>8. BudgetInv'
  <2>1. ASSUME NEW a \in DOMAIN listed PROVE listed[a].attempts = attempts'[listed[a].id]
    <3> DEFINE i == listed[a].id
    <3>1. i \in Ids /\ status[i] # "NONE"
      BY <1>0, RunsHaveRows
    <3>2. status[i] \in {"OPEN", "RESOLVED_EXTERNAL"}
      BY <1>0, <3>1 DEF SchedulerInv, BudgetInv, Counts, Pending
    <3>3. QED
      BY <1>0, <1>2, <3>1, <3>2 DEF CountEffect, SchedulerInv, BudgetInv
  <2>2. QED
    BY <1>1, <1>7, <2>1 DEF BudgetInv
<1>9. QED
  BY <1>3, <1>6, <1>8 DEF SchedulerInv

\* What the scheduler's invariant speaks of is left alone.
LEMMA QuietScheduler ==
  ASSUME SchedulerInv,
         UNCHANGED <<status, ident, attempts, runState, runOf, up, listed, busy, worker,
                     faults, failures, lost, miscounted>>
  PROVE  SchedulerInv'
<1>1. ListingInv' /\ ActiveRunsOwned'
  BY DEF SchedulerInv, ListingInv, ActiveRunsOwned, ActiveRuns, RunActive
<1>2. BoundInv'
  BY DEF SchedulerInv, BoundInv, GlobalBound, HostBound, RunsOn, EnqueuingOn, ActiveRuns,
         RunActive, Enqueuing
<1>3. BudgetInv'
  BY DEF SchedulerInv, BudgetInv, Counts, Open, Pending, ActiveCount, HasActiveRun, RunActive,
         Enqueuing
<1>4. QED
  BY <1>1, <1>2, <1>3 DEF SchedulerInv

\* A listing is within the budget and names each eligible incident once.
LEMMA PassStartScheduler ==
  ASSUME FullInv, PassStart
  PROVE  SchedulerInv'
<1>0. ControllerInv /\ SchedulerInv /\ IncidentsOK /\ SchedulerOK
  BY DEF FullInv, ControllerInv, TypeOK
<1>1. up /\ PassIdle /\ busy' = {}
      /\ UNCHANGED <<status, ident, attempts, runState, runOf, up, worker, faults,
                     failures, lost, miscounted>>
  BY DEF PassStart, incidentVars, runVars, boundVars, historyVars
<1>2. Cardinality(ActiveRuns) \in Nat
  BY CountTypes
<1> DEFINE budget == MaxConcurrentRuns - Cardinality(ActiveRuns)
<1>3. PICK n \in 1..budget : \E t \in [1..n -> Eligible] :
        /\ OldestFirst(t, budget)
        /\ listed' = [a \in 1..n |-> [id |-> t[a], attempts |-> attempts[t[a]]]]
  BY DEF PassStart
<1>4. PICK t \in [1..n -> Eligible] :
        /\ OldestFirst(t, budget)
        /\ listed' = [a \in 1..n |-> [id |-> t[a], attempts |-> attempts[t[a]]]]
  BY <1>3
<1>5. n \in Nat /\ n <= budget
  BY <1>2, <1>3
<1>6. DOMAIN listed' = 1..n /\ Len(listed') = n
      /\ \A a \in 1..n : listed'[a].id = t[a] /\ listed'[a].attempts = attempts[t[a]]
  BY <1>4, <1>5
<1>7. \A a, b \in 1..n : t[a] = t[b] => a = b
  <2>1. DOMAIN t = 1..n
    BY <1>4
  <2>2. \A a, b \in 1..n : a < b => t[a] # t[b]
    BY <1>4, <2>1 DEF OldestFirst
  <2>3. \A a, b \in 1..n : a < b \/ b < a \/ a = b
    BY <1>5
  <2>4. QED
    BY <2>2, <2>3
<1>8. \A a \in 1..n : t[a] \in Ids /\ status[t[a]] = "OPEN"
  BY <1>4 DEF Eligible
<1> HIDE DEF budget
<1>9. \A i \in Ids : worker[i].step = "none"
  BY <1>1 DEF PassIdle, Working
<1>10. ListingInv'
  BY <1>1, <1>6, <1>7, <1>8, <1>9 DEF ListingInv
<1>11. ActiveRunsOwned'
  BY <1>0, <1>1 DEF SchedulerInv, ActiveRunsOwned, ActiveRuns, RunActive
<1>12. ActiveRuns' = ActiveRuns /\ Enqueuing = {} /\ Enqueuing' = {}
  BY <1>1, <1>9 DEF ActiveRuns, RunActive, Enqueuing
<1>13. BoundInv'
  <2>1. GlobalBound'
    <3>1. Cardinality(Enqueuing') = 0
      BY <1>12, FS_EmptySet
    <3>2. Cardinality(ActiveRuns') + Cardinality(Enqueuing') + Len(listed') <= MaxConcurrentRuns
      BY <1>2, <1>5, <1>6, <1>12, <3>1 DEF budget
    <3>3. QED
      BY <3>2 DEF GlobalBound
  <2>2. ASSUME NEW h \in Hosts, HostBound(h) PROVE HostBound(h)'
    <3>1. RunsOn(h)' = RunsOn(h) /\ EnqueuingOn(h)' = EnqueuingOn(h) /\ EnqueuingOn(h) = {}
      BY <1>1, <1>12 DEF RunsOn, EnqueuingOn
    <3>2. QED
      BY <2>2, <3>1 DEF HostBound
  <2>3. QED
    BY <1>0, <1>1, <2>1, <2>2 DEF SchedulerInv, BoundInv
<1>14. ASSUME NEW i \in Ids PROVE Counts(i)'
  <2>1. Counts(i) /\ HasActiveRun(i)' = HasActiveRun(i)
    BY <1>0, <1>1 DEF SchedulerInv, BudgetInv, HasActiveRun, RunActive
  <2>2. Pending(i)' => status[i] = "OPEN"
    BY <1>6, <1>8, <1>12 DEF Pending
  <2>3. i \notin Enqueuing'
    BY <1>12
  <2>4. QED
    BY <1>1, <2>1, <2>2, <2>3 DEF Counts, Open, ActiveCount
<1>15. BudgetInv'
  BY <1>1, <1>6, <1>14 DEF BudgetInv
<1>16. QED
  BY <1>10, <1>11, <1>13, <1>15 DEF SchedulerInv

\* The rest of a listing, by the positions it had.
LEMMA TailListing ==
  ASSUME SchedulerOK, listed # << >>
  PROVE  /\ Len(Tail(listed)) = Len(listed) - 1 /\ Len(listed) \in Nat \ {0}
         /\ 1 \in DOMAIN listed /\ Head(listed) = listed[1]
         /\ \A a \in DOMAIN Tail(listed) :
              a + 1 \in DOMAIN listed /\ a + 1 # 1 /\ Tail(listed)[a] = listed[a + 1]
<1>1. listed \in Seq(Listed)
  BY DEF SchedulerOK
<1>2. QED
  BY <1>1, HeadTailProperties, LenProperties

\* A launched worker takes its incident's place in the budget, and its host is
\* marked busy for the rest of the pass.
LEMMA LaunchScheduler ==
  ASSUME FullInv, LaunchOrSkip
  PROVE  SchedulerInv'
<1>0. ControllerInv /\ SchedulerInv /\ IncidentsOK /\ RunsOK /\ SchedulerOK /\ HistoryOK
  BY DEF FullInv, ControllerInv, TypeOK
<1> DEFINE i == listed[1].id
           launch == [step |-> "enqueue", run |-> NoRun, attempts |-> listed[1].attempts]
           h == HostOf[ident[i]]
<1>1. /\ up /\ listed # << >> /\ listed' = Tail(listed)
      /\ UNCHANGED <<status, ident, attempts, runState, runOf, up, failures, lost>>
  BY DEF LaunchOrSkip, incidentVars, runVars
<1>2. /\ Len(listed') = Len(listed) - 1 /\ Len(listed) \in Nat \ {0}
      /\ 1 \in DOMAIN listed /\ Head(listed) = listed[1]
      /\ \A a \in DOMAIN listed' :
           a + 1 \in DOMAIN listed /\ a + 1 # 1 /\ listed'[a] = listed[a + 1]
  BY <1>0, <1>1, TailListing
<1>3. i \in Ids /\ status[i] # "NONE" /\ worker[i].step = "none"
  BY <1>0, <1>2, RunsHaveRows DEF SchedulerInv, ListingInv
<1>4. \/ worker' = worker /\ UNCHANGED <<busy, faults, miscounted>>
      \/ /\ worker' = [worker EXCEPT ![i] = launch]
         /\ \/ h = NoHost /\ UNCHANGED <<busy, faults, miscounted>>
            \/ /\ h # NoHost /\ ~(CountActiveRunsForHost(h) >= MaxRunsPerHost \/ h \in busy)
               /\ busy' = busy \cup {h} /\ UNCHANGED <<faults, miscounted>>
            \/ h # NoHost /\ faults' = faults + 1 /\ miscounted' = TRUE
  BY <1>2 DEF LaunchOrSkip
<1>5. launch.step = "enqueue" /\ launch.attempts = listed[1].attempts
  OBVIOUS
<1>6. \A a \in DOMAIN listed' : listed'[a].id # i
  BY <1>0, <1>2 DEF SchedulerInv, ListingInv
<1>7. \A a, b \in DOMAIN listed' : listed'[a].id = listed'[b].id => a = b
  <2> SUFFICES ASSUME NEW a \in DOMAIN listed', NEW b \in DOMAIN listed',
                      listed'[a].id = listed'[b].id
               PROVE  a = b
    OBVIOUS
  <2>1. listed'[a] = listed[a + 1] /\ listed'[b] = listed[b + 1]
        /\ a + 1 \in DOMAIN listed /\ b + 1 \in DOMAIN listed
    BY <1>2
  <2>2. a + 1 = b + 1
    BY <1>0, <2>1 DEF SchedulerInv, ListingInv
  <2>3. a \in Nat /\ b \in Nat
    <3>1. listed' \in Seq(Listed)
      BY <1>0, <1>1, HeadTailProperties DEF SchedulerOK
    <3>2. QED
      BY <3>1, LenProperties
  <2>4. QED
    BY <2>2, <2>3
<1> HIDE DEF i, launch, h
<1>9. \A j \in Ids \ {i} : worker'[j] = worker[j]
  BY <1>0, <1>4 DEF SchedulerOK
<1>10. worker'[i] \in {worker[i], launch}
  BY <1>0, <1>3, <1>4 DEF SchedulerOK
<1>8. ASSUME NEW j \in Ids, Pending(j)' PROVE Pending(j)
  <2>1. CASE j = i
    BY <1>2, <2>1 DEF Pending, i
  <2>2. CASE j # i /\ j \in Enqueuing'
    BY <1>9, <2>2 DEF Pending, Enqueuing
  <2>3. CASE \E a \in DOMAIN listed' : listed'[a].id = j
    BY <1>2, <2>3 DEF Pending
  <2>4. QED
    BY <1>8, <2>1, <2>2, <2>3 DEF Pending
<1>11. ListingInv'
  <2>1. \A a \in DOMAIN listed' : worker'[listed'[a].id].step = "none"
    <3>1. ASSUME NEW a \in DOMAIN listed' PROVE worker[listed'[a].id].step = "none" /\ listed'[a].id \in Ids
      BY <1>0, <1>2, RunsHaveRows DEF SchedulerInv, ListingInv
    <3>2. QED
      BY <1>6, <1>9, <3>1
  <2>2. QED
    BY <1>1, <1>7, <2>1 DEF ListingInv
<1>12. ActiveRunsOwned'
  <2>1. ActiveRuns' = ActiveRuns
    BY <1>1 DEF ActiveRuns, RunActive
  <2>2. faults' = 0 => faults = 0
    BY <1>0, <1>4 DEF HistoryOK
  <2>3. \A r \in ActiveRuns : runOf[r] \in Ids
    BY <1>0, RunsHaveRows
  <2>4. QED
    BY <1>0, <1>1, <1>3, <1>9, <2>1, <2>2, <2>3 DEF SchedulerInv, ActiveRunsOwned
<1>13. i \notin Enqueuing
  BY <1>3 DEF Enqueuing
<1>14. \/ worker' = worker /\ Enqueuing' = Enqueuing
       \/ worker'[i] = launch /\ Enqueuing' = Enqueuing \cup {i}
  BY <1>0, <1>3, <1>4, <1>5 DEF Enqueuing, SchedulerOK
<1>15. ActiveRuns' = ActiveRuns /\ \A g : RunsOn(g)' = RunsOn(g)
  BY <1>1 DEF ActiveRuns, RunActive, RunsOn
<1>16. Enqueuing \in SUBSET Ids /\ \A g : EnqueuingOn(g) \in SUBSET Ids
  BY DEF Enqueuing, EnqueuingOn
<1>17. BoundInv'
  <2>1. GlobalBound'
    <3>1. Cardinality(Enqueuing') <= Cardinality(Enqueuing) + 1
      <4>1. Cardinality(Enqueuing \cup {i}) = Cardinality(Enqueuing) + 1
        BY <1>13, <1>16, FiniteIds, FS_AddElement
      <4>2. Cardinality(Enqueuing) \in Nat
        BY CountTypes
      <4>3. Enqueuing' = Enqueuing \/ Enqueuing' = Enqueuing \cup {i}
        BY <1>14
      <4>4. CASE Enqueuing' = Enqueuing
        BY <4>2, <4>4
      <4>5. CASE Enqueuing' = Enqueuing \cup {i}
        BY <4>1, <4>2, <4>5
      <4>6. QED
        BY <4>3, <4>4, <4>5
    <3>2. Cardinality(Enqueuing') \in Nat
      BY <1>3, <1>14, <1>16, FiniteIds
    <3>3. GlobalBound
      BY <1>0 DEF SchedulerInv, BoundInv
    <3>4. QED
      BY <1>2, <1>15, <3>1, <3>2, <3>3, CountTypes DEF GlobalBound
  <2>2. ASSUME NEW g \in Hosts, miscounted' # TRUE PROVE HostBound(g)'
    <3>1. HostBound(g)
      BY <1>0, <1>4, <2>2 DEF SchedulerInv, BoundInv
    <3>2. CASE EnqueuingOn(g)' = EnqueuingOn(g)
      <4>1. busy \subseteq busy'
        BY <1>4, <2>2
      <4>2. QED
        BY <1>15, <3>1, <3>2, <4>1 DEF HostBound
    <3>3. CASE EnqueuingOn(g)' # EnqueuingOn(g)
      <4>a. EnqueuingOn(g)' = {j \in Enqueuing' : HostOf[ident[j]] = g}
        BY <1>1 DEF EnqueuingOn
      <4>b. Enqueuing' # Enqueuing
        BY <3>3, <4>a DEF EnqueuingOn
      <4>c. worker' # worker
        BY <4>b DEF Enqueuing
      <4>d. Enqueuing' = Enqueuing \cup {i}
        BY <1>14, <4>c
      <4>1. Enqueuing' = Enqueuing \cup {i} /\ g = h /\ worker' # worker
        BY <3>3, <4>a, <4>c, <4>d DEF EnqueuingOn, h
      <4>2. h # NoHost
        BY <4>1
      <4>3. ~(CountActiveRunsForHost(h) >= MaxRunsPerHost) /\ h \notin busy /\ h \in busy'
        BY <1>4, <2>2, <4>1, <4>2
      <4>4. EnqueuingOn(g) = {}
        BY <3>1, <4>1, <4>3 DEF HostBound
      <4>5. EnqueuingOn(g)' = {i}
        BY <1>1, <4>1, <4>4 DEF EnqueuingOn, h
      <4>6. Cardinality(EnqueuingOn(g)') = 1
        BY <4>5, FS_Singleton
      <4>7. Cardinality(RunsOn(g)) < MaxRunsPerHost
        BY <4>1, <4>3, CountTypes DEF CountActiveRunsForHost, RunsOn
      <4>8. QED
        BY <1>15, <4>1, <4>3, <4>6, <4>7, CountTypes DEF HostBound
    <3>4. QED
      BY <3>2, <3>3
  <2>3. QED
    BY <1>0, <2>1, <2>2 DEF BoundInv
<1>18. ASSUME NEW j \in Ids PROVE Counts(j)'
  <2>1. Counts(j) /\ HasActiveRun(j)' = HasActiveRun(j) /\ (Pending(j)' => Pending(j))
    BY <1>0, <1>1, <1>8 DEF SchedulerInv, BudgetInv, HasActiveRun, RunActive
  <2>2. j \in Enqueuing' => worker'[j].attempts = attempts[j]
    <3>1. CASE j # i
      BY <1>9, <2>1, <3>1 DEF Counts, Enqueuing
    <3>2. CASE j = i
      BY <1>0, <1>2, <1>3, <1>5, <1>10, <3>2 DEF Enqueuing, SchedulerInv, BudgetInv, i
    <3>3. QED
      BY <3>1, <3>2
  <2>3. worker'[j].step \in {"start", "diagnose"} => worker'[j] = worker[j]
    BY <1>3, <1>5, <1>9, <1>10
  <2>4. QED
    BY <1>1, <2>1, <2>2, <2>3 DEF Counts, Open, ActiveCount
<1>19. BudgetInv'
  BY <1>0, <1>1, <1>2, <1>18 DEF BudgetInv, SchedulerInv
<1>20. QED
  BY <1>11, <1>12, <1>17, <1>19 DEF SchedulerInv

\* A worker that stops without a run, or because the store failed under it.
LEMMA StopScheduler ==
  ASSUME FullInv, NEW i \in Ids, StopWorker(i),
         UNCHANGED <<status, ident, attempts, runState, runOf, up, listed, busy,
                     failures, lost, miscounted>>,
         worker[i].step # "none",
         faults' = 0 => faults = 0 /\ worker[i].step = "enqueue"
  PROVE  SchedulerInv'
<1>0. ControllerInv /\ SchedulerInv /\ IncidentsOK /\ RunsOK /\ SchedulerOK /\ HistoryOK
  BY DEF FullInv, ControllerInv, TypeOK
<1>1. worker'[i] = NoWorker /\ \A j \in Ids \ {i} : worker'[j] = worker[j]
  BY <1>0 DEF StopWorker, SchedulerOK
<1>2. \A j \in Ids : worker'[j] = worker[j] \/ worker'[j].step = "none"
  BY <1>1, NoWorkerType
<1>3. ListingInv'
  BY <1>0, <1>2, RunsHaveRows DEF SchedulerInv, ListingInv
<1>4. ActiveRuns' = ActiveRuns /\ \A g : RunsOn(g)' = RunsOn(g)
  BY DEF ActiveRuns, RunActive, RunsOn
<1>5. ActiveRunsOwned'
  <2> SUFFICES ASSUME up, faults' = 0, NEW r \in ActiveRuns
               PROVE  worker'[runOf[r]].step \in {"start", "diagnose"} /\ worker'[runOf[r]].run = r
    BY <1>4 DEF ActiveRunsOwned
  <2>1. worker[runOf[r]].step \in {"start", "diagnose"} /\ worker[runOf[r]].run = r
    BY <1>0 DEF SchedulerInv, ActiveRunsOwned
  <2>2. runOf[r] \in Ids \ {i}
    BY <1>0, <2>1, RunsHaveRows
  <2>3. QED
    BY <1>1, <2>1, <2>2
<1>6. Enqueuing' \subseteq Enqueuing /\ Enqueuing \subseteq Ids
  BY <1>2 DEF Enqueuing
<1>7. Cardinality(Enqueuing') <= Cardinality(Enqueuing) /\ Cardinality(Enqueuing') \in Nat
  BY <1>6, FiniteIds, FS_Subset
<1>8. ASSUME NEW g \in Hosts
      PROVE  /\ Cardinality(EnqueuingOn(g)') <= Cardinality(EnqueuingOn(g))
             /\ Cardinality(EnqueuingOn(g)') \in Nat /\ (EnqueuingOn(g)' # {} => EnqueuingOn(g) # {})
  <2>1. EnqueuingOn(g)' \subseteq EnqueuingOn(g) /\ EnqueuingOn(g) \subseteq Ids
    BY <1>6 DEF EnqueuingOn
  <2>2. QED
    BY <2>1, FiniteIds, FS_Subset
<1>9. GlobalBound'
  <2>1. GlobalBound /\ Len(listed) \in Nat
    BY <1>0, LenProperties DEF SchedulerInv, BoundInv, SchedulerOK
  <2>2. QED
    BY <1>4, <1>7, <2>1, CountTypes DEF GlobalBound
<1>10. ASSUME NEW g \in Hosts, HostBound(g) PROVE HostBound(g)'
  BY <1>4, <1>8, <1>10, CountTypes DEF HostBound
<1>11. BoundInv'
  BY <1>0, <1>9, <1>10 DEF SchedulerInv, BoundInv
<1>12. ASSUME NEW j \in Ids PROVE Counts(j)'
  <2>1. Counts(j) /\ HasActiveRun(j)' = HasActiveRun(j)
    BY <1>0 DEF SchedulerInv, BudgetInv, HasActiveRun, RunActive
  <2>2. Pending(j)' => Pending(j)
    BY <1>6 DEF Pending
  <2>3. worker'[j] = worker[j] \/ worker'[j].step = "none"
    BY <1>2
  <2>4. j \in Enqueuing' => j \in Enqueuing /\ worker'[j] = worker[j]
    BY <1>2, <1>6 DEF Enqueuing
  <2>5. QED
    BY <2>1, <2>2, <2>3, <2>4 DEF Counts, Open, ActiveCount
<1>13. BudgetInv'
  BY <1>0, <1>12 DEF SchedulerInv, BudgetInv
<1>14. QED
  BY <1>3, <1>5, <1>11, <1>13 DEF SchedulerInv

\* The run a worker inserts takes the worker's place in both bounds, and is the
\* attempt it counts.
LEMMA EnqueueScheduler ==
  ASSUME FullInv, NEW i \in Ids, EnqueueRun(i)
  PROVE  SchedulerInv'
<1>0. ControllerInv /\ SchedulerInv /\ IncidentsOK /\ RunsOK /\ SchedulerOK /\ HistoryOK
      /\ worker[i] \in Workers
  BY DEF FullInv, ControllerInv, TypeOK, SchedulerOK
<1>1. UNCHANGED <<ident, up, listed, busy, faults, failures, lost, miscounted>>
      /\ worker[i].step = "enqueue"
  BY DEF EnqueueRun, boundVars, historyVars
<1>2. CASE ~EnqueueAllowed(i)
  BY <1>1, <1>2, StopScheduler DEF EnqueueRun, runVars
<1>3. CASE EnqueueAllowed(i)
  <2> DEFINE r == CHOOSE q \in RunIds : ~RunActive(q)
             w == [worker[i] EXCEPT !.step = "start", !.run = r]
  <2>1. r \in RunIds /\ ~RunActive(r)
    BY <1>3 DEF EnqueueRun
  <2>2. /\ runState' = [runState EXCEPT ![r] = "QUEUED"]
        /\ runOf' = [runOf EXCEPT ![r] = i]
        /\ worker' = [worker EXCEPT ![i].step = "start", ![i].run = r]
        /\ status' = [status EXCEPT ![i] = "QUEUED"]
        /\ attempts' = [attempts EXCEPT ![i] = @ + 1]
    BY <1>3 DEF EnqueueRun
  <2> HIDE DEF r
  <2>3. w.step = "start" /\ w.run = r /\ w.attempts = worker[i].attempts
    BY <1>0 DEF Workers
  <2>4. worker' = [worker EXCEPT ![i] = w]
    BY <1>0, <2>2 DEF SchedulerOK
  <2> HIDE DEF w
  <2>5. /\ status'[i] = "QUEUED" /\ \A j \in Ids \ {i} : status'[j] = status[j]
        /\ attempts'[i] = attempts[i] + 1 /\ \A j \in Ids \ {i} : attempts'[j] = attempts[j]
        /\ runState'[r] = "QUEUED" /\ runOf'[r] = i
        /\ \A q \in RunIds \ {r} : runState'[q] = runState[q] /\ runOf'[q] = runOf[q]
        /\ worker'[i] = w /\ \A j \in Ids \ {i} : worker'[j] = worker[j]
    BY <1>0, <2>1, <2>2, <2>4 DEF IncidentsOK, RunsOK, SchedulerOK
  <2>6. ActiveRuns' = ActiveRuns \cup {r} /\ r \notin ActiveRuns
    BY <2>1, <2>5 DEF ActiveRuns, RunActive, InFlight
  <2>7. Enqueuing' = Enqueuing \ {i} /\ i \in Enqueuing
    BY <1>1, <2>3, <2>5 DEF Enqueuing
  <2>8. \A a \in DOMAIN listed : listed[a].id \in Ids \ {i}
    BY <1>0, <1>1, RunsHaveRows DEF SchedulerInv, ListingInv
  <2>9. ListingInv'
    BY <1>0, <1>1, <2>5, <2>8 DEF SchedulerInv, ListingInv
  <2>10. ActiveRunsOwned'
    <3> SUFFICES ASSUME up', faults' = 0, NEW q \in ActiveRuns'
                 PROVE  /\ worker'[runOf'[q]].step \in {"start", "diagnose"}
                        /\ worker'[runOf'[q]].run = q
      BY DEF ActiveRunsOwned
    <3>1. CASE q = r
      BY <2>3, <2>5, <3>1
    <3>2. CASE q # r
      <4>1. q \in ActiveRuns /\ q \in RunIds \ {r}
        BY <2>6, <3>2 DEF ActiveRuns
      <4>2. worker[runOf[q]].step \in {"start", "diagnose"} /\ worker[runOf[q]].run = q
        BY <1>0, <1>1, <4>1 DEF SchedulerInv, ActiveRunsOwned
      <4>3. runOf[q] \in Ids \ {i}
        BY <1>0, <1>1, <4>1, <4>2, RunsHaveRows
      <4>4. QED
        BY <2>5, <4>1, <4>2, <4>3
    <3>3. QED
      BY <3>1, <3>2
  <2>11. IsFiniteSet(ActiveRuns) /\ IsFiniteSet(Enqueuing)
    BY FiniteRuns, FiniteIds DEF ActiveRuns, Enqueuing
  <2>12. GlobalBound'
    <3>1. Cardinality(ActiveRuns') = Cardinality(ActiveRuns) + 1
      BY <2>6, <2>11, FS_AddElement
    <3>2. Cardinality(Enqueuing') = Cardinality(Enqueuing) - 1
      BY <2>7, <2>11, FS_RemoveElement
    <3>3. GlobalBound /\ Len(listed) \in Nat
      BY <1>0, LenProperties DEF SchedulerInv, BoundInv, SchedulerOK
    <3>4. QED
      BY <1>1, <3>1, <3>2, <3>3, CountTypes DEF GlobalBound
  <2>13. ASSUME NEW g \in Hosts, HostBound(g) PROVE HostBound(g)'
    <3>1. IsFiniteSet(RunsOn(g)) /\ IsFiniteSet(EnqueuingOn(g))
      BY FiniteRuns, FiniteIds DEF ActiveRuns, Enqueuing, RunsOn, EnqueuingOn
    <3>2. EnqueuingOn(g)' = EnqueuingOn(g) \ {i}
      BY <1>1, <2>7 DEF EnqueuingOn
    <3>a. RunsOn(g)' = {q \in ActiveRuns' : HostOf[ident[runOf'[q]]] = g}
      BY <1>1 DEF RunsOn
    <3>b. \A q \in ActiveRuns : runOf'[q] = runOf[q]
      BY <2>5, <2>6 DEF ActiveRuns
    <3>3. CASE HostOf[ident[i]] = g
      <4>1. RunsOn(g)' = RunsOn(g) \cup {r} /\ r \notin RunsOn(g)
        BY <2>5, <2>6, <3>3, <3>a, <3>b DEF RunsOn
      <4>2. Cardinality(RunsOn(g)') = Cardinality(RunsOn(g)) + 1
        BY <3>1, <4>1, FS_AddElement
      <4>3. i \in EnqueuingOn(g)
        BY <2>7, <3>3 DEF EnqueuingOn
      <4>4. Cardinality(EnqueuingOn(g)') = Cardinality(EnqueuingOn(g)) - 1
        BY <3>1, <3>2, <4>3, FS_RemoveElement
      <4>5. Cardinality(RunsOn(g)') + Cardinality(EnqueuingOn(g)') <= MaxRunsPerHost
        BY <2>13, <4>2, <4>4, CountTypes DEF HostBound
      <4>6. EnqueuingOn(g)' # {} => g \in busy'
        BY <1>1, <2>13, <3>2 DEF HostBound
      <4>7. QED
        BY <4>5, <4>6 DEF HostBound
    <3>4. CASE HostOf[ident[i]] # g
      <4>1. RunsOn(g)' = RunsOn(g)
        BY <2>5, <2>6, <3>4, <3>a, <3>b DEF RunsOn
      <4>2. EnqueuingOn(g)' = EnqueuingOn(g)
        BY <3>2, <3>4 DEF EnqueuingOn
      <4>3. QED
        BY <1>1, <2>13, <4>1, <4>2 DEF HostBound
    <3>5. QED
      BY <3>3, <3>4
  <2>14. BoundInv'
    BY <1>0, <1>1, <2>12, <2>13 DEF SchedulerInv, BoundInv
  <2>15. ASSUME NEW j \in Ids PROVE Counts(j)'
    <3>1. Counts(j)
      BY <1>0 DEF SchedulerInv, BudgetInv
    <3>2. CASE j = i
      <4>1. ~Pending(i)' /\ i \notin Enqueuing'
        BY <1>1, <2>7, <2>8 DEF Pending
      <4>2. HasActiveRun(i)' /\ ~HasActiveRun(i)
        BY <1>3, <2>1, <2>5, <2>6 DEF HasActiveRun, ActiveRuns, RunActive, InFlight, EnqueueAllowed
      <4>3. /\ attempts[i] = failures[i] + lost[i] /\ failures[i] < MaxDispatchAttempts
            /\ worker[i].attempts = attempts[i]
        <5>1. Pending(i)
          BY <2>7 DEF Pending
        <5>2. failures[i] \in Nat /\ lost[i] \in Nat
          BY <1>0 DEF HistoryOK
        <5>3. QED
          BY <2>7, <3>1, <3>2, <4>2, <5>1, <5>2 DEF Counts, Open, ActiveCount
      <4>4. failures[i] \in Nat /\ lost[i] \in Nat
        BY <1>0 DEF HistoryOK
      <4>5. QED
        BY <1>1, <2>3, <2>5, <3>2, <4>1, <4>2, <4>3, <4>4
           DEF Counts, Open, ActiveCount, InFlight
    <3>3. CASE j # i
      <4>1. HasActiveRun(j)' = HasActiveRun(j)
        BY <2>1, <2>5, <3>3 DEF HasActiveRun, RunActive
      <4>2. (Pending(j)' <=> Pending(j)) /\ (j \in Enqueuing' <=> j \in Enqueuing)
        BY <1>1, <2>7, <3>3 DEF Pending
      <4>3. QED
        BY <1>1, <2>5, <3>1, <3>3, <4>1, <4>2 DEF Counts, Open, ActiveCount
    <3>4. QED
      BY <3>2, <3>3
  <2>16. BudgetInv'
    BY <1>0, <1>1, <2>5, <2>8, <2>15 DEF SchedulerInv, BudgetInv
  <2>17. QED
    BY <2>9, <2>10, <2>14, <2>16 DEF SchedulerInv
<1>4. QED
  BY <1>2, <1>3

\* A worker moves its own run, and no other run or row.
LEMMA RunScheduler ==
  ASSUME FullInv, NEW i \in Ids, NEW to \in Statuses, NEW runTo \in InFlight \cup {"done"},
         worker[i].step \in {"start", "diagnose"},
         runState' = [runState EXCEPT ![worker[i].run] = runTo],
         MoveIncident(i, to),
         UNCHANGED <<ident, attempts, runOf, up, listed, busy, faults, lost, miscounted>>,
         \A j \in Ids \ {i} : worker'[j] = worker[j] /\ failures'[j] = failures[j],
         \/ runTo = "done" /\ worker'[i] = NoWorker
         \/ /\ runTo = "INVESTIGATING"
            /\ worker'[i].step = "diagnose" /\ worker'[i].run = worker[i].run
  PROVE  /\ ListingInv' /\ BoundInv' /\ ActiveRunsOwned'
         /\ \A j \in Ids \ {i} : Counts(j)'
         /\ HasActiveRun(i) /\ ~Pending(i)' /\ i \notin Enqueuing'
         /\ HasActiveRun(i)' <=> runTo \in InFlight
         /\ status[i] \in InFlight \cup {"RESOLVED_EXTERNAL"}
         /\ status'[i] = IF status[i] = "RESOLVED_EXTERNAL" THEN status[i] ELSE to
<1> DEFINE r == worker[i].run
<1>0. ControllerInv /\ SchedulerInv /\ IncidentsOK /\ RunsOK /\ SchedulerOK /\ HistoryOK
  BY DEF FullInv, ControllerInv, TypeOK
<1>1. r \in RunIds /\ runOf[r] = i /\ RunActive(r)
  BY <1>0 DEF ControllerInv, WorkersHoldRuns, RunActive, InFlight
<1>2. status[i] \in InFlight \cup {"RESOLVED_EXTERNAL"}
  BY <1>0, <1>1 DEF ControllerInv, RunsMatchIncidents, ActiveRuns, RunActive
<1>3. /\ status'[i] = IF status[i] = "RESOLVED_EXTERNAL" THEN status[i] ELSE to
      /\ \A j \in Ids \ {i} : status'[j] = status[j]
  BY <1>0, MoveEffect
<1>4. runState'[r] = runTo /\ \A q \in RunIds \ {r} : runState'[q] = runState[q]
  BY <1>0, <1>1 DEF RunsOK
<1>5. \A q \in RunIds \ {r} : RunActive(q) => runOf[q] # i
  BY <1>0, <1>1 DEF ControllerInv, RunsMatchIncidents, ActiveRuns
<1>6. worker'[i].step # "enqueue" /\ worker[i].step # "none"
  BY NoWorkerType
<1> HIDE DEF r
<1>7. ActiveRuns' \subseteq ActiveRuns /\ ActiveRuns \subseteq RunIds
  BY <1>1, <1>4 DEF ActiveRuns, RunActive
<1>8. Enqueuing' = Enqueuing /\ i \notin Enqueuing
  BY <1>6 DEF Enqueuing
<1>9. \A a \in DOMAIN listed : listed[a].id \in Ids \ {i}
  BY <1>0, <1>6, RunsHaveRows DEF SchedulerInv, ListingInv
<1>10. ListingInv'
  BY <1>0, <1>9 DEF SchedulerInv, ListingInv
<1>11. ActiveRunsOwned'
  <2> SUFFICES ASSUME up, faults = 0, NEW q \in ActiveRuns'
               PROVE  worker'[runOf[q]].step \in {"start", "diagnose"} /\ worker'[runOf[q]].run = q
    BY DEF ActiveRunsOwned
  <2>1. q \in ActiveRuns /\ q \in RunIds /\ runState'[q] \in InFlight
    BY <1>7 DEF ActiveRuns, RunActive
  <2>2. CASE q = r
    BY <1>1, <1>4, <2>1, <2>2 DEF InFlight, r
  <2>3. CASE q # r
    <3>1. runOf[q] \in Ids \ {i}
      BY <1>0, <1>5, <2>1, <2>3, RunsHaveRows DEF ActiveRuns
    <3>2. QED
      BY <1>0, <2>1, <3>1 DEF SchedulerInv, ActiveRunsOwned
  <2>4. QED
    BY <2>2, <2>3
<1>12. Cardinality(ActiveRuns') <= Cardinality(ActiveRuns) /\ Cardinality(ActiveRuns') \in Nat
  BY <1>7, FiniteRuns, FS_Subset
<1>13. GlobalBound'
  <2>1. GlobalBound /\ Len(listed) \in Nat
    BY <1>0, LenProperties DEF SchedulerInv, BoundInv, SchedulerOK
  <2>2. QED
    BY <1>8, <1>12, <2>1, CountTypes DEF GlobalBound
<1>14. ASSUME NEW g \in Hosts, HostBound(g) PROVE HostBound(g)'
  <2>1. RunsOn(g)' \subseteq RunsOn(g) /\ RunsOn(g) \subseteq RunIds
    BY <1>7 DEF RunsOn
  <2>2. Cardinality(RunsOn(g)') <= Cardinality(RunsOn(g)) /\ Cardinality(RunsOn(g)') \in Nat
    BY <2>1, FiniteRuns, FS_Subset
  <2>3. EnqueuingOn(g)' = EnqueuingOn(g)
    BY <1>8 DEF EnqueuingOn
  <2>4. QED
    BY <1>14, <2>2, <2>3, CountTypes DEF HostBound
<1>15. BoundInv'
  BY <1>0, <1>13, <1>14 DEF SchedulerInv, BoundInv
<1>16. ASSUME NEW j \in Ids \ {i} PROVE Counts(j)'
  <2>1. Counts(j)
    BY <1>0 DEF SchedulerInv, BudgetInv
  <2>2. HasActiveRun(j)' = HasActiveRun(j)
    BY <1>1, <1>4, <1>5 DEF HasActiveRun, RunActive
  <2>3. Pending(j)' = Pending(j)
    BY <1>8 DEF Pending
  <2>4. QED
    BY <1>3, <1>8, <2>1, <2>2, <2>3 DEF Counts, Open, ActiveCount
<1>17. HasActiveRun(i) /\ ~Pending(i)'
  BY <1>1, <1>8, <1>9 DEF HasActiveRun, Pending
<1>18. HasActiveRun(i)' <=> runTo \in InFlight
  BY <1>1, <1>4, <1>5 DEF HasActiveRun, RunActive
<1>19. QED
  BY <1>2, <1>3, <1>8, <1>10, <1>11, <1>15, <1>16, <1>17, <1>18

LEMMA StartScheduler ==
  ASSUME FullInv, NEW i \in Ids, StartRun(i)
  PROVE  SchedulerInv'
<1>0. ControllerInv /\ SchedulerInv /\ SchedulerOK /\ worker[i] \in Workers
  BY DEF FullInv, ControllerInv, TypeOK, SchedulerOK
<1>1. /\ worker[i].step = "start"
      /\ runState' = [runState EXCEPT ![worker[i].run] = "INVESTIGATING"]
      /\ MoveIncident(i, "INVESTIGATING")
      /\ UNCHANGED <<ident, attempts, runOf, up, listed, busy, faults, failures, lost, miscounted>>
  BY DEF StartRun, boundVars, historyVars
<1>2. /\ worker'[i].step = "diagnose" /\ worker'[i].run = worker[i].run
      /\ worker'[i].attempts = worker[i].attempts
      /\ \A j \in Ids \ {i} : worker'[j] = worker[j]
  BY <1>0 DEF StartRun, SchedulerOK, Workers
<1>3. "INVESTIGATING" \in Statuses /\ "INVESTIGATING" \in InFlight
  BY DEF Statuses, InFlight
<1>4. /\ ListingInv' /\ BoundInv' /\ ActiveRunsOwned'
      /\ \A j \in Ids \ {i} : Counts(j)'
      /\ HasActiveRun(i) /\ ~Pending(i)' /\ i \notin Enqueuing'
      /\ HasActiveRun(i)'
      /\ status[i] \in InFlight \cup {"RESOLVED_EXTERNAL"}
      /\ status'[i] = IF status[i] = "RESOLVED_EXTERNAL" THEN status[i] ELSE "INVESTIGATING"
  BY <1>1, <1>2, <1>3, RunScheduler
<1>5. Counts(i)
  BY <1>0 DEF SchedulerInv, BudgetInv
<1>6. Counts(i)'
  BY <1>1, <1>2, <1>4, <1>5 DEF Counts, Open, ActiveCount, InFlight
<1>7. BudgetInv'
  BY <1>0, <1>1, <1>4, <1>6 DEF SchedulerInv, BudgetInv
<1>8. QED
  BY <1>4, <1>7 DEF SchedulerInv

LEMMA CompleteScheduler ==
  ASSUME FullInv, NEW i \in Ids, CompleteRunDiagnosed(i)
  PROVE  SchedulerInv'
<1>0. ControllerInv /\ SchedulerInv /\ SchedulerOK
  BY DEF FullInv, ControllerInv, TypeOK
<1>1. /\ worker[i].step = "diagnose"
      /\ runState' = [runState EXCEPT ![worker[i].run] = "done"]
      /\ MoveIncident(i, "DIAGNOSED")
      /\ UNCHANGED <<ident, attempts, runOf, up, listed, busy, faults, failures, lost, miscounted>>
  BY DEF CompleteRunDiagnosed, boundVars, historyVars
<1>2. worker'[i] = NoWorker /\ \A j \in Ids \ {i} : worker'[j] = worker[j]
  BY <1>0 DEF CompleteRunDiagnosed, StopWorker, SchedulerOK
<1>3. "DIAGNOSED" \in Statuses /\ "done" \notin InFlight
  BY DEF Statuses, InFlight
<1>4. /\ ListingInv' /\ BoundInv' /\ ActiveRunsOwned'
      /\ \A j \in Ids \ {i} : Counts(j)'
      /\ ~Pending(i)' /\ i \notin Enqueuing'
      /\ status'[i] \in {"RESOLVED_EXTERNAL", "DIAGNOSED"}
  BY <1>1, <1>2, <1>3, RunScheduler
<1>6. Counts(i)'
  BY <1>2, <1>4, NoWorkerType DEF Counts, Open, InFlight
<1>7. BudgetInv'
  BY <1>0, <1>1, <1>4, <1>6 DEF SchedulerInv, BudgetInv
<1>8. QED
  BY <1>4, <1>7 DEF SchedulerInv

\* The attempt that fails is the one its worker was listed for: the incident is
\* given up exactly when the attempts reach the limit.
LEMMA FailScheduler ==
  ASSUME FullInv, NEW i \in Ids, FailRunAndMaybeRetry(i)
  PROVE  SchedulerInv'
<1>0. ControllerInv /\ SchedulerInv /\ SchedulerOK /\ HistoryOK /\ IncidentsOK
      /\ worker[i] \in Workers
  BY DEF FullInv, ControllerInv, TypeOK, SchedulerOK
<1> DEFINE retried == worker[i].attempts + 1 < MaxDispatchAttempts
           to == IF retried THEN "OPEN" ELSE "AGENT_FAILED"
<1>1. /\ worker[i].step = "diagnose"
      /\ runState' = [runState EXCEPT ![worker[i].run] = "done"]
      /\ MoveIncident(i, to)
      /\ UNCHANGED <<ident, attempts, runOf, up, listed, busy, faults, lost, miscounted>>
  BY DEF FailRunAndMaybeRetry, boundVars
<1>2. worker'[i] = NoWorker /\ \A j \in Ids \ {i} : worker'[j] = worker[j]
  BY <1>0 DEF FailRunAndMaybeRetry, StopWorker, SchedulerOK
<1>3. to \in Statuses /\ "done" \notin InFlight
  BY DEF Statuses, InFlight
<1>a. to = "OPEN" => worker[i].attempts + 1 < MaxDispatchAttempts
  OBVIOUS
<1>b. to # "OPEN" => to = "AGENT_FAILED" /\ ~(worker[i].attempts + 1 < MaxDispatchAttempts)
  OBVIOUS
<1> HIDE DEF to, retried
<1>4. failures'[i] = failures[i] + 1 /\ \A j \in Ids \ {i} : failures'[j] = failures[j]
  BY <1>0 DEF FailRunAndMaybeRetry, HistoryOK
<1>5. /\ ListingInv' /\ BoundInv' /\ ActiveRunsOwned'
      /\ \A j \in Ids \ {i} : Counts(j)'
      /\ HasActiveRun(i) /\ ~Pending(i)' /\ i \notin Enqueuing' /\ ~HasActiveRun(i)'
      /\ status[i] \in InFlight \cup {"RESOLVED_EXTERNAL"}
      /\ status'[i] = IF status[i] = "RESOLVED_EXTERNAL" THEN status[i] ELSE to
  BY <1>1, <1>2, <1>3, <1>4, RunScheduler
<1>6. /\ failures[i] \in Nat /\ lost[i] \in Nat /\ attempts[i] \in Nat
      /\ worker[i].attempts \in Nat
  BY <1>0 DEF HistoryOK, IncidentsOK, Workers
<1>7. attempts[i] = worker[i].attempts + 1
  BY <1>0, <1>1 DEF SchedulerInv, BudgetInv, Counts
<1>8. Counts(i)'
  <2>1. CASE status[i] = "RESOLVED_EXTERNAL"
    BY <1>2, <1>5, <2>1, NoWorkerType DEF Counts, Open, InFlight
  <2>2. CASE status[i] \in InFlight
    <3>1. attempts[i] = failures[i] + lost[i] + 1 /\ failures[i] < MaxDispatchAttempts
      BY <1>0, <1>5, <2>2 DEF SchedulerInv, BudgetInv, Counts, Open, ActiveCount
    <3>2. attempts'[i] = failures'[i] + lost'[i] + 0
      BY <1>1, <1>4, <1>6, <3>1
    <3>3. status'[i] = to
      BY <1>5, <2>2 DEF InFlight
    <3>4. CASE to = "OPEN"
      <4>1. failures'[i] < MaxDispatchAttempts
        BY <1>4, <1>6, <1>7, <1>a, <3>1, <3>4
      <4>2. QED
        BY <1>2, <1>5, <3>2, <3>3, <3>4, <4>1, NoWorkerType DEF Counts, Open, ActiveCount
    <3>5. CASE to # "OPEN"
      <4>1. failures'[i] <= MaxDispatchAttempts /\ attempts'[i] >= MaxDispatchAttempts
        BY <1>1, <1>4, <1>6, <1>7, <1>b, <3>1, <3>5
      <4>2. QED
        BY <1>2, <1>5, <1>b, <3>2, <3>3, <3>5, <4>1, NoWorkerType
           DEF Counts, Open, ActiveCount, InFlight
    <3>6. QED
      BY <3>4, <3>5
  <2>3. QED
    BY <1>5, <2>1, <2>2
<1>9. BudgetInv'
  BY <1>0, <1>1, <1>5, <1>8 DEF SchedulerInv, BudgetInv
<1>10. QED
  BY <1>5, <1>9 DEF SchedulerInv

LEMMA StoreFaultScheduler ==
  ASSUME FullInv, NEW i \in Ids, StoreFault(i)
  PROVE  SchedulerInv'
<1>1. faults \in Nat
  BY DEF FullInv, ControllerInv, TypeOK, HistoryOK
<1>2. /\ StopWorker(i) /\ worker[i].step # "none" /\ faults' = faults + 1
      /\ UNCHANGED <<status, ident, attempts, runState, runOf, up, listed, busy,
                     failures, lost, miscounted>>
  BY DEF StoreFault, incidentVars, runVars, historyVars
<1>3. faults' # 0
  BY <1>1, <1>2
<1>4. QED
  BY <1>2, <1>3, StopScheduler

LEMMA CrashScheduler ==
  ASSUME FullInv, Crash
  PROVE  SchedulerInv'
<1>0. ControllerInv /\ SchedulerInv /\ SchedulerOK /\ RunsOK
  BY DEF FullInv, ControllerInv, TypeOK
<1>1. /\ up' = FALSE /\ listed' = << >>
      /\ worker' = [i \in Ids |-> NoWorker]
      /\ UNCHANGED <<status, ident, attempts, runState, runOf, faults, failures, lost, miscounted>>
  BY DEF Crash, incidentVars, runVars, historyVars
<1>2. \A i \in Ids : worker'[i].step = "none"
  BY <1>1, NoWorkerType
<1>3. Enqueuing' = {} /\ DOMAIN listed' = {} /\ Len(listed') = 0
  BY <1>1, <1>2 DEF Enqueuing
<1>4. ListingInv' /\ ActiveRunsOwned'
  BY <1>1, <1>3 DEF ListingInv, ActiveRunsOwned
<1>5. ActiveRuns' = ActiveRuns
  BY <1>1 DEF ActiveRuns, RunActive
<1>6. GlobalBound'
  <2>1. GlobalBound /\ Len(listed) \in Nat
    BY <1>0, LenProperties DEF SchedulerInv, BoundInv, SchedulerOK
  <2>2. Cardinality(Enqueuing') = 0
    BY <1>3, FS_EmptySet
  <2>3. QED
    BY <1>3, <1>5, <2>1, <2>2, CountTypes DEF GlobalBound
<1>7. ASSUME NEW g \in Hosts, HostBound(g) PROVE HostBound(g)'
  <2>1. RunsOn(g)' = RunsOn(g) /\ EnqueuingOn(g)' = {}
    BY <1>1, <1>3, <1>5 DEF RunsOn, EnqueuingOn
  <2>2. Cardinality(EnqueuingOn(g)') = 0
    BY <2>1, FS_EmptySet
  <2>3. QED
    BY <1>7, <2>1, <2>2, CountTypes DEF HostBound
<1>8. BoundInv'
  BY <1>0, <1>1, <1>6, <1>7 DEF SchedulerInv, BoundInv
<1>9. ASSUME NEW i \in Ids PROVE Counts(i)'
  <2>1. Counts(i) /\ HasActiveRun(i)' = HasActiveRun(i)
    BY <1>0, <1>1 DEF SchedulerInv, BudgetInv, HasActiveRun, RunActive
  <2>2. ~Pending(i)' /\ i \notin Enqueuing'
    BY <1>3 DEF Pending
  <2>3. QED
    BY <1>1, <1>2, <2>1, <2>2 DEF Counts, Open, ActiveCount
<1>10. BudgetInv'
  BY <1>3, <1>9 DEF BudgetInv
<1>11. QED
  BY <1>4, <1>8, <1>10 DEF SchedulerInv

\* A restart gives up every run, and each was an attempt of its incident.
LEMMA RecoverScheduler ==
  ASSUME FullInv, RecoverInFlightRuns
  PROVE  SchedulerInv'
<1> DEFINE reopened == {i \in Ids : HasActiveRun(i) /\ status[i] # "RESOLVED_EXTERNAL"}
<1>0. ControllerInv /\ SchedulerInv /\ SchedulerOK /\ RunsOK /\ HistoryOK
  BY DEF FullInv, ControllerInv, TypeOK
<1>1. /\ ~up
      /\ status' = [i \in Ids |-> IF i \in reopened THEN "OPEN" ELSE status[i]]
      /\ runState' = [r \in RunIds |-> "done"]
      /\ lost' = [i \in Ids |-> IF HasActiveRun(i) THEN lost[i] + 1 ELSE lost[i]]
      /\ UNCHANGED <<ident, attempts, runOf, listed, busy, worker, faults, failures, miscounted>>
  BY DEF RecoverInFlightRuns, passVars, boundVars
<1>2. \A i \in Ids : worker[i].step = "none"
  BY <1>0, <1>1, NoWorkerType DEF ControllerInv, WorkersHoldRuns
<1>3. listed = << >> /\ DOMAIN listed = {} /\ Len(listed) = 0
  BY <1>0, <1>1 DEF SchedulerInv, ListingInv
<1>4. ActiveRuns' = {} /\ Enqueuing' = {}
  BY <1>1, <1>2 DEF ActiveRuns, RunActive, InFlight, Enqueuing
<1>5. ListingInv' /\ ActiveRunsOwned'
  BY <1>1, <1>3, <1>4 DEF ListingInv, ActiveRunsOwned
<1>6. BoundInv'
  <2>1. \A g : RunsOn(g)' = {} /\ EnqueuingOn(g)' = {}
    BY <1>4 DEF RunsOn, EnqueuingOn
  <2>2. Cardinality(ActiveRuns') = 0 /\ Cardinality(Enqueuing') = 0 /\ Len(listed') = 0
    BY <1>1, <1>3, <1>4, FS_EmptySet
  <2>3. GlobalBound'
    BY <2>2 DEF GlobalBound
  <2>4. ASSUME NEW g \in Hosts PROVE HostBound(g)'
    <3>1. Cardinality(RunsOn(g)') = 0 /\ Cardinality(EnqueuingOn(g)') = 0
      BY <2>1, FS_EmptySet
    <3>2. QED
      BY <2>1, <3>1 DEF HostBound
  <2>5. QED
    BY <2>3, <2>4 DEF BoundInv
<1>7. ASSUME NEW i \in Ids PROVE Counts(i)'
  <2>1. Counts(i) /\ ~HasActiveRun(i)'
    BY <1>0, <1>4 DEF SchedulerInv, BudgetInv, HasActiveRun, ActiveRuns
  <2>2. ~Pending(i)' /\ i \notin Enqueuing'
    BY <1>1, <1>3, <1>4 DEF Pending
  <2>3. failures[i] \in Nat /\ lost[i] \in Nat
    BY <1>0 DEF HistoryOK
  <2>4. HasActiveRun(i) => status[i] \in InFlight \cup {"RESOLVED_EXTERNAL"}
    BY <1>0 DEF ControllerInv, RunsMatchIncidents, HasActiveRun, ActiveRuns, RunActive
  <2>5. CASE HasActiveRun(i) /\ status[i] # "RESOLVED_EXTERNAL"
    <3>1. status'[i] = "OPEN" /\ lost'[i] = lost[i] + 1
      BY <1>1, <2>5
    <3>2. attempts[i] = failures[i] + lost[i] + 1 /\ failures[i] < MaxDispatchAttempts
      BY <2>1, <2>4, <2>5 DEF Counts, Open, ActiveCount
    <3>3. QED
      BY <1>1, <1>2, <2>1, <2>2, <2>3, <3>1, <3>2 DEF Counts, Open, ActiveCount
  <2>6. CASE HasActiveRun(i) /\ status[i] = "RESOLVED_EXTERNAL"
    <3>1. status'[i] = "RESOLVED_EXTERNAL"
      BY <1>1, <2>6
    <3>2. QED
      BY <1>1, <1>2, <2>2, <3>1 DEF Counts, Open, InFlight
  <2>7. CASE ~HasActiveRun(i)
    <3>1. status'[i] = status[i] /\ lost'[i] = lost[i]
      BY <1>1, <2>7
    <3>2. QED
      BY <1>1, <1>2, <2>1, <2>2, <2>7, <3>1 DEF Counts, Open, ActiveCount
  <2>8. QED
    BY <2>5, <2>6, <2>7
<1>8. BudgetInv'
  BY <1>1, <1>3, <1>7 DEF BudgetInv
<1>9. QED
  BY <1>5, <1>6, <1>8 DEF SchedulerInv

-----------------------------------------------------------------------------
(* The theorems *)

LEMMA Initially == Init => ControllerInv
<1> SUFFICES ASSUME Init PROVE ControllerInv
  OBVIOUS
<1>1. IncidentsOK /\ RunsOK
  BY DEF Init, IncidentsOK, RunsOK, Statuses
<1>2. SchedulerOK /\ HistoryOK
  BY NoWorkerType, NoListing DEF Init, SchedulerOK, HistoryOK
<1>3. OneActiveIncident /\ RunsMatchIncidents
  BY DEF Init, OneActiveIncident, Active, RunsMatchIncidents, ActiveRuns, RunActive, InFlight
<1>4. WorkersHoldRuns /\ RowsExist
  BY NoWorkerType DEF Init, WorkersHoldRuns, RowsExist
<1>5. QED
  BY <1>1, <1>2, <1>3, <1>4 DEF ControllerInv, TypeOK

LEMMA Inductive == ControllerInv /\ [Next]_vars => ControllerInv'
<1> SUFFICES ASSUME ControllerInv, [Next]_vars PROVE ControllerInv'
  OBVIOUS
<1>1. CASE UNCHANGED vars
  <2>0. IncidentsOK /\ RunsOK /\ SchedulerOK /\ HistoryOK
    BY DEF ControllerInv, TypeOK
  <2>1. UNCHANGED <<incidentVars, runVars, up, passVars, boundVars, historyVars>>
    BY <1>1 DEF vars
  <2>2. TypeOK'
    BY <2>0, <2>1, UnchangedType DEF TypeOK
  <2>3. RowsExist' /\ (~up' => \A i \in Ids : worker'[i] = NoWorker)
    BY <2>1 DEF ControllerInv, RowsExist, WorkersHoldRuns, incidentVars, passVars
  <2>4. QED
    BY <2>1, <2>2, <2>3, PassInv DEF incidentVars, runVars, passVars
<1>2. QED
  BY <1>1, IngestInv, PassStartInv, LaunchInv, EnqueueInv, StartRunInv, CompleteInv, FailInv,
     BackoffInv, StoreFaultInv, CrashInv, RecoverInv DEF Next, Worker

\* Rows, runs and workers stay consistent, whatever events arrive between the
\* steps of a pass and wherever the process or the store fails.
THEOREM Invariance == Spec => []ControllerInv
<1>1. Init => ControllerInv
  BY Initially
<1>2. ControllerInv /\ [Next]_vars => ControllerInv'
  BY Inductive
<1>3. QED
  BY <1>1, <1>2, PTL DEF Spec

\* An identity never has two active incidents (IngestEvent, EnqueueRun).
THEOREM ActiveIncidentUnique == Spec => []OneActiveIncident
<1>1. ControllerInv => OneActiveIncident
  BY DEF ControllerInv
<1>2. QED
  BY <1>1, Invariance, PTL

\* An incident is in flight exactly when it has its one run in that state; no
\* incident waits for a run that is not there (EnqueueRun to
\* RecoverInFlightRuns).
THEOREM RunsAgree == Spec => []RunsMatchIncidents
<1>1. ControllerInv => RunsMatchIncidents
  BY DEF ControllerInv
<1>2. QED
  BY <1>1, Invariance, PTL

LEMMA SchedulerInitially == Init => SchedulerInv
<1> SUFFICES ASSUME Init PROVE SchedulerInv
  OBVIOUS
<1>1. \A i \in Ids : worker[i].step = "none"
  BY NoWorkerType DEF Init
<1>2. listed = << >> /\ DOMAIN listed = {} /\ Len(listed) = 0
  BY DEF Init
<1>3. ActiveRuns = {} /\ Enqueuing = {}
  BY <1>1 DEF Init, ActiveRuns, RunActive, InFlight, Enqueuing
<1>4. ListingInv /\ ActiveRunsOwned
  BY <1>2, <1>3 DEF ListingInv, ActiveRunsOwned
<1>5. GlobalBound
  <2>1. Cardinality(ActiveRuns) = 0 /\ Cardinality(Enqueuing) = 0
    BY <1>3, FS_EmptySet
  <2>2. QED
    BY <1>2, <2>1 DEF GlobalBound
<1>6. ASSUME NEW g \in Hosts PROVE HostBound(g)
  <2>1. RunsOn(g) = {} /\ EnqueuingOn(g) = {}
    BY <1>3 DEF RunsOn, EnqueuingOn
  <2>2. Cardinality(RunsOn(g)) = 0 /\ Cardinality(EnqueuingOn(g)) = 0
    BY <2>1, FS_EmptySet
  <2>3. QED
    BY <2>1, <2>2 DEF HostBound
<1>7. BudgetInv
  <2>1. \A i \in Ids : ~Pending(i) /\ i \notin Enqueuing
    BY <1>2, <1>3 DEF Pending
  <2>2. QED
    BY <1>1, <1>2, <2>1 DEF Init, BudgetInv, Counts, Open, InFlight
<1>8. QED
  BY <1>4, <1>5, <1>6, <1>7 DEF SchedulerInv, BoundInv

LEMMA SchedulerInductive == FullInv /\ [Next]_vars => SchedulerInv'
<1> SUFFICES ASSUME FullInv, [Next]_vars PROVE SchedulerInv'
  OBVIOUS
<1>1. CASE UNCHANGED vars
  BY <1>1, QuietScheduler DEF FullInv, vars, incidentVars, runVars, passVars, boundVars, historyVars
<1>2. ASSUME NEW i \in Ids, BackoffElapses(i) PROVE SchedulerInv'
  BY <1>2, QuietScheduler DEF FullInv, BackoffElapses, runVars, passVars, boundVars, historyVars
<1>3. QED
  BY <1>1, <1>2, IngestScheduler, PassStartScheduler, LaunchScheduler, EnqueueScheduler,
     StartScheduler, CompleteScheduler, FailScheduler, StoreFaultScheduler, CrashScheduler,
     RecoverScheduler DEF Next, Worker

\* What a pass lists, launches and counts stays within the configured limits and
\* is never counted twice, whatever happens to rows and runs meanwhile.
THEOREM SchedulerInvariance == Spec => []FullInv
<1>1. Init => FullInv
  BY Initially, SchedulerInitially DEF FullInv
<1>2. FullInv /\ [Next]_vars => FullInv'
  BY Inductive, SchedulerInductive DEF FullInv
<1>3. QED
  BY <1>1, <1>2, PTL DEF Spec

\* There are never more than maxConcurrentRuns runs, nor more than maxRunsPerHost
\* of one host unless a per-host count failed (Scheduler.RunOnce).
THEOREM ConcurrencyIsBounded == Spec => []ConcurrencyBounded
<1>1. FullInv => ConcurrencyBounded
  <2> SUFFICES ASSUME FullInv PROVE ConcurrencyBounded
    OBVIOUS
  <2>1. listed \in Seq(Listed) /\ BoundInv
    BY DEF FullInv, SchedulerInv, ControllerInv, TypeOK, SchedulerOK
  <2>2. Len(listed) \in Nat
    BY <2>1, LenProperties
  <2>3. Cardinality(ActiveRuns) <= MaxConcurrentRuns
    BY <2>1, <2>2, CountTypes DEF BoundInv, GlobalBound
  <2>4. ASSUME NEW h \in Hosts, HostBound(h) PROVE CountActiveRunsForHost(h) <= MaxRunsPerHost
    <3>1. CountActiveRunsForHost(h) = Cardinality(RunsOn(h))
      BY DEF CountActiveRunsForHost, RunsOn
    <3>2. QED
      BY <2>4, <3>1, CountTypes DEF HostBound
  <2>5. QED
    BY <2>1, <2>3, <2>4 DEF BoundInv, ConcurrencyBounded
<1>2. QED
  BY <1>1, SchedulerInvariance, PTL

\* While the process runs and the store has not failed, every active run has its
\* live worker (RunOnce, dispatchOne): no run is orphaned by an ordinary exit.
THEOREM RunsAreOwned == Spec => []ActiveRunsOwned
<1>1. FullInv => ActiveRunsOwned
  BY DEF FullInv, SchedulerInv
<1>2. QED
  BY <1>1, SchedulerInvariance, PTL

\* An incident that no restart has interrupted is given up at exactly the last
\* failure of its budget (FailRunAndMaybeRetry).
THEOREM GivenUpAfterBudget == Spec => []FailedAfterBudget
<1>1. FullInv => FailedAfterBudget
  <2> SUFFICES ASSUME FullInv, NEW i \in Ids, status[i] = "AGENT_FAILED", lost[i] = 0
               PROVE  failures[i] = MaxDispatchAttempts
    BY DEF FailedAfterBudget
  <2>1. ~HasActiveRun(i)
    BY DEF FullInv, ControllerInv, RunsMatchIncidents, HasActiveRun, ActiveRuns, RunActive, InFlight
  <2>2. failures[i] \in Nat /\ lost[i] \in Nat
    BY DEF FullInv, ControllerInv, TypeOK, HistoryOK
  <2>3. Counts(i)
    BY DEF FullInv, SchedulerInv, BudgetInv
  <2>4. QED
    BY <2>1, <2>2, <2>3, IncidentAssumption DEF Counts, ActiveCount
<1>2. QED
  BY <1>1, SchedulerInvariance, PTL
=============================================================================
