-------------------------- MODULE DecommissionProofs --------------------------
(***************************************************************************)
(* Proofs about Decommission for any number of processes, plans, edits and *)
(* teardown steps, and for any fault budget.                               *)
(*                                                                         *)
(* The inductive invariant says who holds the lock, what a holder knows of *)
(* hosts.yml (its snapshot, with or without the host), that a positive     *)
(* verdict stays true, and that no record of a retirement exists while a   *)
(* finalizer could still put the host back.                                *)
(***************************************************************************)
EXTENDS Decommission, TLAPS

\* What is left of the components the host's roles select: those are in every
\* plan, a component of References only in some.
RoleResidue == {s \in Residue : Comp[s] \notin References}

Recorded == retired \/ \E i \in PlanIds : plan[i].status = "completed"

\* A finalizer holds the lock, and only one process is such a finalizer.
LockInv == \A p \in Procs : proc[p].pc \in Locked <=> lock = p

\* What was verified gone stays gone.
CleanInv == \A p \in Procs : proc[p].clean => RoleResidue = {}

\* hosts.yml under a finalizer is its snapshot, before or after the removal.
SnapInv ==
    \A p \in Procs : proc[p].pc \in Locked =>
        /\ proc[p].clean
        /\ Target \in proc[p].snap.hosts /\ acked \subseteq proc[p].snap.hosts
        /\ proc[p].pc \in {"hostvars", "hosts"} => hosts = proc[p].snap.hosts
        /\ proc[p].pc \in Removed => hosts = proc[p].snap.hosts \ {Target}
        /\ proc[p].pc = "restore" =>
               hosts = proc[p].snap.hosts \/ hosts = proc[p].snap.hosts \ {Target}

\* Nothing is recorded before the files are written for good.
NotYetRecorded ==
    \A p \in Procs : proc[p].pc \in Locked \ {"retire"} => ~Recorded

GoneInv == Target \notin hosts => RoleResidue = {}
RecordInv == Recorded => Target \notin hosts

IInv == /\ TypeOK /\ LockInv /\ CleanInv /\ SnapInv /\ NotYetRecorded
        /\ GoneInv /\ RecordInv /\ NoSilentRemoval /\ EditsKept

----------------------------------------------------------------------------
LEMMA HashTypes == TypeOK => CurrentHash \in Hashes /\ NoHash \in Hashes
  BY DEF TypeOK, CurrentHash, Hashes, NoHash, Declared

LEMMA NewProcType == NewProc \in Commands
  BY DEF NewProc, Commands, Phases, Hashes, NoHash

LEMMA PlannedSteps == \A d : Planned(d) \subseteq Steps
  BY DEF Planned

LEMMA EndTypes ==
    ASSUME TypeOK, NEW p \in Procs, End(p)
    PROVE  /\ proc' \in [Procs -> Commands]
           /\ lock' \in Procs \cup {None}
  BY NewProcType DEF TypeOK, End

LEMMA GotoTypes ==
    ASSUME TypeOK, NEW p \in Procs, NEW pc \in Phases, Goto(p, pc)
    PROVE  proc' \in [Procs -> Commands]
  BY DEF TypeOK, Commands, Goto

LEMMA PhaseNames ==
    /\ {"idle", "read", "regen", "derive", "fresh", "run", "rederive", "save", "lock"} \subseteq Phases
    /\ {"hostvars", "hosts", "inventory", "complete", "retire", "restore"} \subseteq Phases
  BY DEF Phases, Locked

LEMMA InitTypes == Init => TypeOK
<1> SUFFICES ASSUME Init PROVE TypeOK
  OBVIOUS
<1>1. plan \in [PlanIds -> Rows]
  BY DEF Init, NewPlan, Rows, NoHash, Hashes
<1>2. proc \in [Procs -> Commands]
  BY NewProcType DEF Init
<1>3. hosts \subseteq Names /\ acked \subseteq Edits /\ undone \subseteq Steps
  BY DEF Init, Names
<1>4. faults \in 0 .. MaxFaults
  BY HostAssumption DEF Init
<1> QED
  BY <1>1, <1>2, <1>3, <1>4 DEF Init, TypeOK

LEMMA FaultTypes == ASSUME TypeOK, CanFault PROVE faults + 1 \in 0 .. MaxFaults
  BY HostAssumption DEF TypeOK, CanFault

LEMMA CommandTypes ==
    ASSUME TypeOK, NEW p \in Procs,
           \/ RegenRead(p) \/ RegenWrite(p) \/ PlanStart(p) \/ SavePlan(p)
           \/ \E i \in PlanIds : ApplyStart(p, i)
    PROVE  TypeOK'
<1>1. CASE RegenRead(p)
  <2>1. [proc[p] EXCEPT !.pc = "regen", !.read = hosts] \in Commands
    BY PhaseNames DEF TypeOK, Commands
  <2>2. proc' \in [Procs -> Commands]
    BY <1>1, <2>1 DEF RegenRead, TypeOK
  <2> QED BY <1>1, <2>2 DEF RegenRead, TypeOK, workspace, records
<1>2. CASE RegenWrite(p)
  <2>1. CASE proc[p].cmd = "plan"
    BY <1>2, <2>1, GotoTypes, PhaseNames DEF RegenWrite, TypeOK, records
  <2>2. CASE proc[p].cmd = "apply"
    BY <1>2, <2>2, GotoTypes, PhaseNames DEF RegenWrite, TypeOK, records
  <2>3. CASE proc[p].cmd \notin {"plan", "apply"}
    BY <1>2, <2>3, EndTypes DEF RegenWrite, TypeOK, records
  <2> QED BY <2>1, <2>2, <2>3
<1>3. CASE PlanStart(p)
  <2>1. [proc[p] EXCEPT !.pc = "read", !.cmd = "plan"] \in Commands
    BY PhaseNames DEF TypeOK, Commands
  <2>2. proc' \in [Procs -> Commands]
    BY <1>3, <2>1 DEF PlanStart, TypeOK
  <2> QED BY <1>3, <2>2 DEF PlanStart, TypeOK, workspace, records
<1>4. CASE SavePlan(p)
  <2>1. plan' \in [PlanIds -> Rows]
    <3>1. Resolvable \in BOOLEAN
      BY DEF Resolvable
    <3>2. [status |-> "executable", hash |-> CurrentHash, named |-> Resolvable] \in Rows
      BY <3>1, HashTypes DEF Rows
    <3> QED BY <1>4, <3>2 DEF SavePlan, TypeOK
  <2> QED BY <1>4, <2>1, EndTypes DEF SavePlan, TypeOK, workspace
<1>5. ASSUME NEW i \in PlanIds, ApplyStart(p, i) PROVE TypeOK'
  <2> DEFINE cmd == IF plan[i].status = "completed" THEN "replay" ELSE "apply"
  <2>1. [proc[p] EXCEPT !.pc = "read", !.id = i, !.hash = plan[i].hash,
                        !.named = plan[i].named, !.cmd = cmd] \in Commands
    BY PhaseNames DEF TypeOK, Commands, Rows
  <2>2. proc' \in [Procs -> Commands]
    BY <1>5, <2>1 DEF ApplyStart, TypeOK
  <2> QED BY <1>5, <2>2 DEF ApplyStart, TypeOK, workspace, records
<1> QED BY <1>1, <1>2, <1>3, <1>4, <1>5

LEMMA CleanupTypes ==
    ASSUME TypeOK, NEW p \in Procs,
           \/ Freshness(p) \/ RunStep(p) \/ StepWithoutEffect(p) \/ CollectVerifications(p)
           \/ Rederive(p) \/ SavePostCleanup(p)
    PROVE  TypeOK'
<1>1. CASE Freshness(p)
  <2>1. CASE IsFresh(p)
    <3>1. [proc[p] EXCEPT !.pc = "run", !.todo = Planned(proc[p].hash.declared)] \in Commands
      BY PhaseNames, PlannedSteps DEF TypeOK, Commands
    <3>2. proc' \in [Procs -> Commands]
      BY <1>1, <2>1, <3>1 DEF Freshness, TypeOK
    <3> QED BY <1>1, <2>1, <3>2 DEF Freshness, TypeOK, workspace, records
  <2>2. CASE ~IsFresh(p)
    BY <1>1, <2>2, EndTypes DEF Freshness, TypeOK, workspace, records
  <2> QED BY <2>1, <2>2
<1>2. CASE RunStep(p)
  BY <1>2 DEF RunStep, TypeOK, Commands, workspace, records
<1>3. CASE StepWithoutEffect(p)
  BY <1>3, FaultTypes DEF StepWithoutEffect, TypeOK, Commands, workspace, records
<1>4. CASE CollectVerifications(p)
  <2> DEFINE clean == Residue \cap Planned(proc[p].hash.declared) = {}
  <2>1. [proc[p] EXCEPT !.pc = "rederive", !.clean = clean] \in Commands
    BY PhaseNames DEF TypeOK, Commands
  <2>2. proc' \in [Procs -> Commands]
    BY <1>4, <2>1 DEF CollectVerifications, TypeOK
  <2> QED BY <1>4, <2>2 DEF CollectVerifications, TypeOK, workspace, records
<1>5. CASE Rederive(p)
  <2>1. CASE Target \in hosts /\ Bound(p)
    <3>1. [proc[p] EXCEPT !.pc = "save", !.hash = CurrentHash] \in Commands
      BY PhaseNames, HashTypes DEF TypeOK, Commands
    <3>2. proc' \in [Procs -> Commands]
      BY <1>5, <2>1, <3>1 DEF Rederive, TypeOK
    <3> QED BY <1>5, <2>1, <3>2 DEF Rederive, TypeOK, workspace, records
  <2>2. CASE ~(Target \in hosts /\ Bound(p))
    BY <1>5, <2>2, EndTypes DEF Rederive, TypeOK, workspace, records
  <2> QED BY <2>1, <2>2
<1>6. CASE SavePostCleanup(p)
  <2>1. plan' \in [PlanIds -> Rows]
    BY <1>6 DEF SavePostCleanup, TypeOK, Rows, Commands
  <2> QED BY <1>6, <2>1, GotoTypes, PhaseNames DEF SavePostCleanup, TypeOK, workspace
<1> QED BY <1>1, <1>2, <1>3, <1>4, <1>5, <1>6

LEMMA FinalizeTypes ==
    ASSUME TypeOK, NEW p \in Procs,
           \/ FinalizeBegin(p) \/ RemoveHostVars(p) \/ WriteHosts(p) \/ WriteInventory(p)
           \/ WriteFails(p) \/ Restore(p) \/ RestoreFails(p) \/ SaveCompleted(p)
           \/ SaveRetired(p) \/ RecordFails(p) \/ Abort(p)
    PROVE  TypeOK'
<1>0. proc[p].snap \in Hashes /\ proc[p].hash \in Hashes /\ proc[p].named \in BOOLEAN
  BY DEF TypeOK, Commands
<1>1. CASE FinalizeBegin(p)
  <2>1. CASE lock = None /\ IsFresh(p) /\ proc[p].clean
    <3>1. [proc[p] EXCEPT !.pc = "hostvars", !.snap = CurrentHash] \in Commands
      BY PhaseNames, HashTypes DEF TypeOK, Commands
    <3>2. proc' \in [Procs -> Commands]
      BY <1>1, <2>1, <3>1 DEF FinalizeBegin, TypeOK
    <3> QED BY <1>1, <2>1, <3>2 DEF FinalizeBegin, TypeOK, workspace, records
  <2>2. CASE ~(lock = None /\ IsFresh(p) /\ proc[p].clean)
    BY <1>1, <2>2, EndTypes DEF FinalizeBegin, TypeOK, workspace, records
  <2> QED BY <2>1, <2>2
<1>2. CASE RemoveHostVars(p)
  BY <1>2, GotoTypes, PhaseNames, FaultTypes DEF RemoveHostVars, TypeOK, records
<1>3. CASE WriteHosts(p)
  BY <1>0, <1>3, GotoTypes, PhaseNames DEF WriteHosts, TypeOK, records, Hashes
<1>4. CASE WriteInventory(p)
  BY <1>4, GotoTypes, PhaseNames DEF WriteInventory, TypeOK, workspace, records
<1>5. CASE WriteFails(p)
  BY <1>5, GotoTypes, PhaseNames, FaultTypes DEF WriteFails, TypeOK, workspace, records
<1>6. CASE Restore(p)
  BY <1>0, <1>6, EndTypes DEF Restore, TypeOK, records, Hashes
<1>7. CASE SaveCompleted(p)
  <2>1. plan' \in [PlanIds -> Rows]
    BY <1>0, <1>7 DEF SaveCompleted, TypeOK, Rows
  <2> QED BY <1>7, <2>1, GotoTypes, PhaseNames DEF SaveCompleted, TypeOK, workspace
<1>8. CASE SaveRetired(p)
  BY <1>8, EndTypes DEF SaveRetired, TypeOK, workspace
<1>9. CASE Abort(p)
  BY <1>9, EndTypes, FaultTypes DEF Abort, TypeOK, Gaps, workspace, records
<1>10. CASE RestoreFails(p)
  BY <1>0, <1>10, EndTypes DEF RestoreFails, TypeOK, Gaps, records, Hashes
<1>11. CASE RecordFails(p)
  BY <1>11, EndTypes, FaultTypes DEF RecordFails, TypeOK, Gaps, workspace, records
<1> QED BY <1>1, <1>2, <1>3, <1>4, <1>5, <1>6, <1>7, <1>8, <1>9, <1>10, <1>11

LEMMA EditTypes == ASSUME TypeOK, NEW e \in Edits, EditSession(e) PROVE TypeOK'
  BY DEF EditSession, TypeOK, Names, records

----------------------------------------------------------------------------
LEMMA InitInv == Init => IInv
<1> SUFFICES ASSUME Init PROVE IInv
  OBVIOUS
<1>1. \A p \in Procs : proc[p].pc = "idle" /\ ~proc[p].clean
  BY DEF Init, NewProc
<1>2. ~Recorded
  BY DEF Init, Recorded, NewPlan
<1>3. LockInv
  BY <1>1, HostAssumption DEF Init, LockInv, Locked
<1>4. CleanInv /\ SnapInv /\ NotYetRecorded
  BY <1>1 DEF CleanInv, SnapInv, NotYetRecorded, Locked
<1>5. Target \in hosts /\ acked = {}
  BY DEF Init
<1> QED
  BY <1>2, <1>3, <1>4, <1>5, InitTypes
  DEF IInv, GoneInv, RecordInv, NoSilentRemoval, EditsKept

\* Teardown steps only take residue away.
LEMMA ResidueShrinks ==
    ASSUME undone' \subseteq undone, RoleResidue = {}
    PROVE  RoleResidue' = {}
  BY DEF RoleResidue, Residue, Verified

\* A step outside the finalizer: it leaves hosts.yml alone, keeps out of the
\* lock, and claims a clean host only when it is.
Quiet(p) ==
    /\ hosts' = hosts /\ acked' = acked /\ undone' \subseteq undone
    /\ retired' = retired /\ lock' = lock /\ gap \subseteq gap'
    /\ Recorded' => Recorded
    /\ \A q \in Procs \ {p} : proc'[q] = proc[q]
    /\ proc[p].pc \notin Locked /\ proc'[p].pc \notin Locked
    /\ proc'[p].clean => proc[p].clean \/ RoleResidue = {}

LEMMA QuietInv ==
    ASSUME IInv, TypeOK', NEW p \in Procs, Quiet(p)
    PROVE  IInv'
<1> USE DEF Quiet
<1>1. LockInv'
  BY DEF IInv, LockInv
<1>2. CleanInv'
  BY ResidueShrinks DEF IInv, CleanInv
<1>3. SnapInv'
  <2> SUFFICES ASSUME NEW q \in Procs, proc'[q].pc \in Locked
               PROVE  proc'[q] = proc[q] /\ q # p
    BY DEF IInv, SnapInv
  <2> QED OBVIOUS
<1>4. NotYetRecorded'
  BY DEF IInv, NotYetRecorded
<1>5. GoneInv'
  BY ResidueShrinks DEF IInv, GoneInv
<1>6. RecordInv'
  BY DEF IInv, RecordInv
<1>7. NoSilentRemoval'
  BY DEF IInv, NoSilentRemoval, Removed, Locked
<1>8. EditsKept'
  BY DEF IInv, EditsKept
<1> QED
  BY <1>1, <1>2, <1>3, <1>4, <1>5, <1>6, <1>7, <1>8 DEF IInv

\* A command outside the finalizer that returns leaves the lock as it is.
LEMMA EndOutside ==
    ASSUME IInv, NEW p \in Procs, proc[p].pc \notin Locked, End(p)
    PROVE  /\ lock' = lock
           /\ \A q \in Procs \ {p} : proc'[q] = proc[q]
           /\ proc'[p].pc \notin Locked /\ ~proc'[p].clean
<1>1. lock # p
  BY DEF IInv, LockInv
<1>2. proc' = [proc EXCEPT ![p] = NewProc] /\ proc \in [Procs -> Commands]
  BY DEF End, IInv, TypeOK
<1> QED
  BY <1>1, <1>2 DEF End, NewProc, Locked

LEMMA CommandInv ==
    ASSUME IInv, NEW p \in Procs,
           \/ RegenRead(p) \/ RegenWrite(p) \/ PlanStart(p) \/ SavePlan(p)
           \/ \E i \in PlanIds : ApplyStart(p, i)
    PROVE  IInv'
<1>0. proc \in [Procs -> Commands] /\ TypeOK
  BY DEF IInv, TypeOK
<1>t. TypeOK'
  BY <1>0, CommandTypes
<1>1. CASE RegenRead(p)
  <2>1. Quiet(p)
    BY <1>0, <1>1 DEF RegenRead, Quiet, Recorded, Locked, workspace, records, Commands
  <2> QED BY <1>t, <2>1, QuietInv
<1>2. CASE RegenWrite(p)
  <2>1. proc[p].pc \notin Locked
    BY <1>2 DEF RegenWrite, Locked
  <2>2. CASE \E pc \in {"derive", "fresh"} : Goto(p, pc) /\ UNCHANGED lock
    <3>1. Quiet(p)
      BY <1>0, <1>2, <2>1, <2>2 DEF RegenWrite, Goto, Quiet, Recorded, Locked, records, Commands
    <3> QED BY <1>t, <3>1, QuietInv
  <2>3. CASE End(p)
    <3>1. Quiet(p)
      BY <1>2, <2>1, <2>3, EndOutside DEF RegenWrite, Quiet, Recorded, records
    <3> QED BY <1>t, <3>1, QuietInv
  <2> QED BY <1>2, <2>2, <2>3 DEF RegenWrite
<1>3. CASE PlanStart(p)
  <2>1. Quiet(p)
    BY <1>0, <1>3 DEF PlanStart, Quiet, Recorded, Locked, workspace, records, Commands
  <2> QED BY <1>t, <2>1, QuietInv
<1>4. CASE SavePlan(p)
  <2>1. proc[p].pc \notin Locked /\ End(p)
    BY <1>4 DEF SavePlan, Locked
  <2>2. \A i \in PlanIds : plan'[i].status = "completed" => plan[i].status = "completed"
    BY <1>0, <1>4 DEF SavePlan, TypeOK
  <2>3. Recorded' => Recorded
    BY <1>4, <2>2 DEF SavePlan, Recorded
  <2>4. Quiet(p)
    BY <1>4, <2>1, <2>3, EndOutside DEF SavePlan, Quiet, workspace
  <2> QED BY <1>t, <2>4, QuietInv
<1>5. ASSUME NEW i \in PlanIds, ApplyStart(p, i) PROVE IInv'
  <2> DEFINE cmd == IF plan[i].status = "completed" THEN "replay" ELSE "apply"
             rec == [proc[p] EXCEPT !.pc = "read", !.id = i, !.hash = plan[i].hash,
                                    !.named = plan[i].named, !.cmd = cmd]
  <2>0. proc' = [proc EXCEPT ![p] = rec]
    BY <1>0, <1>5 DEF ApplyStart
  <2>1. proc'[p].pc = "read" /\ proc'[p].clean = proc[p].clean
    <3>1. proc[p] \in Commands
      BY <1>0
    <3>2. rec.pc = "read" /\ rec.clean = proc[p].clean
      BY <3>1 DEF Commands
    <3> QED BY <1>0, <2>0, <3>2
  <2>2. \A q \in Procs \ {p} : proc'[q] = proc[q]
    BY <1>0, <1>5 DEF ApplyStart
  <2>3. Quiet(p)
    BY <1>5, <2>1, <2>2 DEF ApplyStart, Quiet, Recorded, Locked, workspace, records
  <2> QED BY <1>t, <2>3, QuietInv
<1> QED BY <1>1, <1>2, <1>3, <1>4, <1>5

\* The verdict covers every component a role selects.
LEMMA VerdictCovers ==
    ASSUME NEW d, Residue \cap Planned(d) = {}, undone \subseteq Steps
    PROVE  RoleResidue = {}
  BY DEF RoleResidue, Residue, Planned

LEMMA CleanupInv ==
    ASSUME IInv, NEW p \in Procs,
           \/ Freshness(p) \/ RunStep(p) \/ StepWithoutEffect(p) \/ CollectVerifications(p)
           \/ Rederive(p) \/ SavePostCleanup(p)
    PROVE  IInv'
<1>0. proc \in [Procs -> Commands] /\ TypeOK
  BY DEF IInv, TypeOK
<1>t. TypeOK'
  BY <1>0, CleanupTypes
<1>1. CASE Freshness(p)
  <2>1. CASE IsFresh(p)
    <3>1. Quiet(p)
      BY <1>0, <1>1, <2>1 DEF Freshness, Quiet, Recorded, Locked, workspace, records, Commands
    <3> QED BY <1>t, <3>1, QuietInv
  <2>2. CASE ~IsFresh(p)
    <3>1. proc[p].pc \notin Locked /\ End(p)
      BY <1>1, <2>2 DEF Freshness, Locked
    <3>2. Quiet(p)
      BY <1>1, <3>1, EndOutside DEF Freshness, Quiet, Recorded, workspace, records
    <3> QED BY <1>t, <3>2, QuietInv
  <2> QED BY <2>1, <2>2
<1>2. CASE RunStep(p)
  <2>1. Quiet(p)
    BY <1>0, <1>2 DEF RunStep, Quiet, Recorded, Locked, workspace, records, Commands
  <2> QED BY <1>t, <2>1, QuietInv
<1>3. CASE StepWithoutEffect(p)
  <2>1. Quiet(p)
    BY <1>0, <1>3 DEF StepWithoutEffect, Quiet, Recorded, Locked, workspace, records, Commands
  <2> QED BY <1>t, <2>1, QuietInv
<1>4. CASE CollectVerifications(p)
  <2>1. proc'[p].clean => RoleResidue = {}
    <3>1. proc'[p].clean = (Residue \cap Planned(proc[p].hash.declared) = {})
      BY <1>0, <1>4 DEF CollectVerifications, Commands
    <3> QED BY <1>0, <3>1, VerdictCovers DEF TypeOK
  <2>2. proc'[p].pc = "rederive" /\ \A q \in Procs \ {p} : proc'[q] = proc[q]
    BY <1>0, <1>4 DEF CollectVerifications, Commands
  <2>3. Quiet(p)
    BY <1>4, <2>1, <2>2
    DEF CollectVerifications, Quiet, Recorded, Locked, workspace, records
  <2> QED BY <1>t, <2>3, QuietInv
<1>5. CASE Rederive(p)
  <2>1. CASE Target \in hosts /\ Bound(p)
    <3>1. Quiet(p)
      BY <1>0, <1>5, <2>1 DEF Rederive, Quiet, Recorded, Locked, workspace, records, Commands
    <3> QED BY <1>t, <3>1, QuietInv
  <2>2. CASE ~(Target \in hosts /\ Bound(p))
    <3>1. proc[p].pc \notin Locked /\ End(p)
      BY <1>5, <2>2 DEF Rederive, Locked
    <3>2. Quiet(p)
      BY <1>5, <3>1, EndOutside DEF Rederive, Quiet, Recorded, workspace, records
    <3> QED BY <1>t, <3>2, QuietInv
  <2> QED BY <2>1, <2>2
<1>6. CASE SavePostCleanup(p)
  <2>1. \A i \in PlanIds : plan'[i].status = "completed" => plan[i].status = "completed"
    BY <1>0, <1>6 DEF SavePostCleanup, TypeOK
  <2>2. Recorded' => Recorded
    BY <1>6, <2>1 DEF SavePostCleanup, Recorded
  <2>3. Quiet(p)
    BY <1>0, <1>6, <2>2 DEF SavePostCleanup, Goto, Quiet, Locked, workspace, Commands
  <2> QED BY <1>t, <2>3, QuietInv
<1> QED BY <1>1, <1>2, <1>3, <1>4, <1>5, <1>6

----------------------------------------------------------------------------
\* Only one process is in the finalizer.
LEMMA OneHolder ==
    ASSUME IInv, NEW p \in Procs, proc[p].pc \in Locked
    PROVE  lock = p /\ \A q \in Procs \ {p} : proc[q].pc \notin Locked
  BY DEF IInv, LockInv

\* A finalizer that returns, or is killed, gives the lock up.
LEMMA EndInside ==
    ASSUME IInv, NEW p \in Procs, proc[p].pc \in Locked, End(p)
    PROVE  /\ \A q \in Procs : proc'[q].pc \notin Locked /\ q # lock'
           /\ \A q \in Procs : proc'[q].clean => proc[q].clean
<1>1. lock = p /\ \A q \in Procs \ {p} : proc[q].pc \notin Locked
  BY OneHolder
<1>2. proc' = [proc EXCEPT ![p] = NewProc] /\ proc \in [Procs -> Commands] /\ lock' = None
  BY <1>1 DEF End, IInv, TypeOK
<1> QED
  BY <1>1, <1>2, HostAssumption DEF NewProc, Locked

\* The facts about processes hold once the finalizer has returned.
LEMMA ReturnInv ==
    ASSUME IInv, NEW p \in Procs, proc[p].pc \in Locked, End(p), undone' = undone
    PROVE  LockInv' /\ CleanInv' /\ SnapInv' /\ NotYetRecorded'
<1>1. RoleResidue' = RoleResidue
  BY DEF RoleResidue, Residue, Verified
<1> QED
  BY <1>1, EndInside DEF LockInv, CleanInv, SnapInv, NotYetRecorded, IInv

LEMMA BeginInv == ASSUME IInv, NEW p \in Procs, FinalizeBegin(p) PROVE IInv'
<1>0. proc \in [Procs -> Commands] /\ TypeOK /\ TypeOK'
  BY FinalizeTypes DEF IInv, TypeOK
<1>1. CASE lock = None /\ IsFresh(p) /\ proc[p].clean
  <2>1. /\ proc'[p].pc = "hostvars" /\ proc'[p].clean /\ proc'[p].snap.hosts = hosts
        /\ \A q \in Procs \ {p} : proc'[q] = proc[q]
    BY <1>0, <1>1 DEF FinalizeBegin, Commands, CurrentHash
  <2>2. lock' = p /\ UNCHANGED <<hosts, acked, undone, plan, retired, gap>>
    BY <1>1 DEF FinalizeBegin, workspace, records
  <2>3. \A q \in Procs : proc[q].pc \notin Locked
    BY <1>1, HostAssumption DEF IInv, LockInv
  <2>4. Target \in hosts /\ ~Recorded
    BY <1>1 DEF IsFresh, IInv, RecordInv
  <2>5. LockInv'
    BY <2>1, <2>2, <2>3 DEF LockInv, Locked
  <2>6. RoleResidue' = RoleResidue /\ (Recorded' <=> Recorded)
    BY <2>2 DEF RoleResidue, Residue, Verified, Recorded
  <2>7. CleanInv'
    BY <1>1, <2>1, <2>6 DEF IInv, CleanInv
  <2>8. SnapInv'
    BY <2>1, <2>2, <2>3, <2>4 DEF SnapInv, IInv, EditsKept, Locked, Removed
  <2>9. NotYetRecorded' /\ GoneInv' /\ RecordInv' /\ NoSilentRemoval' /\ EditsKept'
    BY <2>2, <2>4, <2>6
    DEF IInv, NotYetRecorded, GoneInv, RecordInv, NoSilentRemoval, EditsKept
  <2> QED BY <1>0, <2>5, <2>7, <2>8, <2>9 DEF IInv
<1>2. CASE ~(lock = None /\ IsFresh(p) /\ proc[p].clean)
  <2>1. proc[p].pc \notin Locked /\ End(p)
    BY <1>2 DEF FinalizeBegin, Locked
  <2>2. Quiet(p)
    BY <2>1, EndOutside DEF FinalizeBegin, Quiet, Recorded, workspace, records
  <2> QED BY <1>0, <2>2, QuietInv
<1> QED BY <1>1, <1>2

\* A step of the finalizer to its next phase.
Advance(p, from, to) ==
    /\ proc[p].pc \in from /\ Goto(p, to)
    /\ UNCHANGED <<acked, undone, lock, gap>>

LEMMA AdvanceInv ==
    ASSUME IInv, NEW p \in Procs, NEW from \in SUBSET Locked, NEW to \in Locked,
           Advance(p, from, to)
    PROVE  /\ LockInv' /\ CleanInv'
           /\ \A q \in Procs : proc'[q].pc \in Locked => q = p
           /\ proc'[p].pc = to /\ proc'[p].clean /\ proc'[p].snap = proc[p].snap
           /\ RoleResidue' = {}
<1>0. proc \in [Procs -> Commands]
  BY DEF IInv, TypeOK
<1>1. proc[p].pc \in Locked
  BY DEF Advance
<1>2. lock = p /\ \A q \in Procs \ {p} : proc[q].pc \notin Locked
  BY <1>1, OneHolder
<1>3. /\ proc'[p].pc = to /\ proc'[p].clean = proc[p].clean /\ proc'[p].snap = proc[p].snap
      /\ \A q \in Procs \ {p} : proc'[q] = proc[q]
  BY <1>0 DEF Advance, Goto, Commands
<1>4. proc[p].clean
  BY <1>1 DEF IInv, SnapInv
<1>5. RoleResidue = {}
  BY <1>4 DEF IInv, CleanInv
<1>6. RoleResidue' = {}
  BY <1>5, ResidueShrinks DEF Advance
<1>7. LockInv'
  BY <1>2, <1>3 DEF LockInv, Advance
<1>8. CleanInv'
  BY <1>6 DEF CleanInv
<1> QED BY <1>2, <1>3, <1>4, <1>6, <1>7, <1>8

LEMMA WriteInv ==
    ASSUME IInv, NEW p \in Procs,
           RemoveHostVars(p) \/ WriteHosts(p) \/ WriteInventory(p) \/ WriteFails(p)
    PROVE  IInv'
<1>0. TypeOK'
  BY FinalizeTypes DEF IInv
<1> DEFINE from == {"hostvars", "hosts", "inventory"}
           next == IF RemoveHostVars(p) THEN "hosts" ELSE
                   IF WriteHosts(p) THEN "inventory" ELSE
                   IF WriteInventory(p) THEN "complete" ELSE "restore"
<1>1. Advance(p, from, next) /\ next \in Locked /\ from \in SUBSET Locked
  BY DEF Advance, Locked, RemoveHostVars, WriteHosts, WriteInventory, WriteFails,
         workspace, records
<1>2. /\ LockInv' /\ CleanInv'
      /\ \A q \in Procs : proc'[q].pc \in Locked => q = p
      /\ proc'[p].pc = next /\ proc'[p].clean /\ proc'[p].snap = proc[p].snap
      /\ RoleResidue' = {}
  <2> HIDE DEF next, from
  <2> QED BY <1>1, AdvanceInv
<1>3. /\ proc[p].pc \in from /\ from \subseteq Locked
      /\ Target \in proc[p].snap.hosts /\ acked \subseteq proc[p].snap.hosts
      /\ proc[p].pc \in {"hostvars", "hosts"} => hosts = proc[p].snap.hosts
      /\ proc[p].pc = "inventory" => hosts = proc[p].snap.hosts \ {Target}
  BY <1>1 DEF Advance, IInv, SnapInv, Removed
<1>4. acked' = acked /\ Target \notin acked
  BY <1>1, HostAssumption DEF Advance, IInv, TypeOK
<1>5. ~Recorded /\ ~Recorded'
  <2>1. ~Recorded
    BY <1>3 DEF IInv, NotYetRecorded
  <2>2. UNCHANGED <<plan, retired>>
    BY DEF RemoveHostVars, WriteHosts, WriteInventory, WriteFails, records
  <2> QED BY <2>1, <2>2 DEF Recorded
<1>6. /\ next = "hosts" => hosts' = proc[p].snap.hosts
      /\ next \in {"inventory", "complete"} => hosts' = proc[p].snap.hosts \ {Target}
      /\ next = "restore" => hosts' = proc[p].snap.hosts \/ hosts' = proc[p].snap.hosts \ {Target}
  BY <1>3 DEF RemoveHostVars, WriteHosts, WriteInventory, WriteFails, workspace, records
<1>7. next \in {"hosts", "inventory", "complete", "restore"}
  OBVIOUS
<1> HIDE DEF next, from
<1>8. SnapInv'
  BY <1>2, <1>3, <1>4, <1>6, <1>7 DEF SnapInv, Removed
<1>9. NotYetRecorded' /\ RecordInv' /\ GoneInv'
  BY <1>2, <1>5 DEF NotYetRecorded, RecordInv, GoneInv
<1>10. NoSilentRemoval'
  <2>1. CASE next = "hosts"
    BY <1>3, <1>6, <2>1 DEF NoSilentRemoval
  <2>2. CASE next # "hosts"
    BY <1>2, <1>7, <2>2 DEF NoSilentRemoval, Removed
  <2> QED BY <2>1, <2>2
<1>11. EditsKept'
  BY <1>3, <1>4, <1>6, <1>7 DEF EditsKept
<1> QED BY <1>0, <1>2, <1>8, <1>9, <1>10, <1>11 DEF IInv

LEMMA RestoreInv == ASSUME IInv, NEW p \in Procs, Restore(p) PROVE IInv'
<1>1. TypeOK'
  BY FinalizeTypes DEF IInv
<1>2. proc[p].pc \in Locked \ {"retire"} /\ End(p) /\ UNCHANGED <<acked, undone, plan, retired>>
  BY DEF Restore, Locked, records
<1>3. LockInv' /\ CleanInv' /\ SnapInv' /\ NotYetRecorded'
  BY <1>2, ReturnInv
<1>4. Target \in hosts' /\ acked' \subseteq hosts'
  BY <1>2 DEF Restore, IInv, SnapInv
<1>5. ~Recorded'
  BY <1>2 DEF IInv, NotYetRecorded, Recorded
<1> QED
  BY <1>1, <1>3, <1>4, <1>5 DEF IInv, GoneInv, RecordInv, NoSilentRemoval, EditsKept

\* The finalizer returns after a restore that failed.
LEMMA RestoreFailsInv == ASSUME IInv, NEW p \in Procs, RestoreFails(p) PROVE IInv'
<1>1. TypeOK'
  BY FinalizeTypes DEF IInv
<1>2. proc[p].pc \in Locked \ {"retire"} /\ End(p) /\ UNCHANGED <<acked, undone, plan, retired>>
  BY DEF RestoreFails, Locked, records
<1>3. LockInv' /\ CleanInv' /\ SnapInv' /\ NotYetRecorded'
  BY <1>2, ReturnInv
<1>4. RoleResidue' = {}
  <2>1. RoleResidue = {}
    BY <1>2 DEF IInv, SnapInv, CleanInv
  <2> QED BY <1>2, <2>1, ResidueShrinks
<1>5. acked' \subseteq hosts'
  <2>1. acked \subseteq proc[p].snap.hosts
    BY <1>2 DEF IInv, SnapInv
  <2> QED BY <1>2, <2>1 DEF RestoreFails, IInv, EditsKept
<1>6. ~Recorded'
  BY <1>2 DEF IInv, NotYetRecorded, Recorded
<1>7. NoSilentRemoval'
  BY DEF RestoreFails, NoSilentRemoval
<1> QED
  BY <1>1, <1>3, <1>4, <1>5, <1>6, <1>7 DEF IInv, GoneInv, RecordInv, EditsKept

LEMMA CompletedInv == ASSUME IInv, NEW p \in Procs, SaveCompleted(p) PROVE IInv'
<1>0. TypeOK'
  BY FinalizeTypes DEF IInv
<1> DEFINE from == {"complete"}
<1>1. Advance(p, from, "retire") /\ "retire" \in Locked /\ from \in SUBSET Locked
  BY DEF Advance, Locked, SaveCompleted, workspace
<1>2. /\ LockInv' /\ CleanInv'
      /\ \A q \in Procs : proc'[q].pc \in Locked => q = p
      /\ proc'[p].pc = "retire" /\ proc'[p].clean /\ proc'[p].snap = proc[p].snap
      /\ RoleResidue' = {}
  <2> HIDE DEF from
  <2> QED BY <1>1, AdvanceInv
<1>3. /\ hosts' = hosts /\ acked' = acked
      /\ Target \in proc[p].snap.hosts /\ acked \subseteq proc[p].snap.hosts
      /\ hosts = proc[p].snap.hosts \ {Target}
  BY DEF SaveCompleted, IInv, SnapInv, Removed, Locked, workspace
<1>4. SnapInv'
  BY <1>2, <1>3 DEF SnapInv, Removed
<1>5. NotYetRecorded' /\ GoneInv'
  BY <1>2 DEF NotYetRecorded, GoneInv
<1>6. RecordInv' /\ NoSilentRemoval'
  BY <1>2, <1>3 DEF RecordInv, NoSilentRemoval, Removed
<1>7. EditsKept'
  BY <1>3 DEF IInv, EditsKept
<1> QED BY <1>0, <1>2, <1>4, <1>5, <1>6, <1>7 DEF IInv

LEMMA RetiredInv == ASSUME IInv, NEW p \in Procs, SaveRetired(p) PROVE IInv'
<1>1. TypeOK'
  BY FinalizeTypes DEF IInv
<1>2. proc[p].pc = "retire" /\ End(p) /\ UNCHANGED <<hosts, acked, undone, plan>> /\ retired'
  BY DEF SaveRetired, workspace
<1>3. LockInv' /\ CleanInv' /\ SnapInv' /\ NotYetRecorded'
  BY <1>2, ReturnInv DEF Locked
<1>4. Target \notin hosts
  BY <1>2 DEF IInv, SnapInv, Removed, Locked
<1>5. RoleResidue' = RoleResidue
  BY <1>2 DEF RoleResidue, Residue, Verified
<1> QED
  BY <1>1, <1>2, <1>3, <1>4, <1>5 DEF IInv, GoneInv, RecordInv, NoSilentRemoval, EditsKept

\* The finalizer returns the store's error.
LEMMA RecordFailsInv == ASSUME IInv, NEW p \in Procs, RecordFails(p) PROVE IInv'
<1>1. TypeOK'
  BY FinalizeTypes DEF IInv
<1>2. proc[p].pc \in Locked /\ End(p) /\ UNCHANGED <<hosts, acked, undone, plan, retired>>
  BY DEF RecordFails, Locked, workspace, records
<1>3. LockInv' /\ CleanInv' /\ SnapInv' /\ NotYetRecorded'
  BY <1>2, ReturnInv
<1>4. RoleResidue' = RoleResidue /\ (Recorded' <=> Recorded)
  BY <1>2 DEF RoleResidue, Residue, Verified, Recorded
<1>5. NoSilentRemoval'
  BY DEF RecordFails, NoSilentRemoval
<1> QED BY <1>1, <1>2, <1>3, <1>4, <1>5 DEF IInv, GoneInv, RecordInv, EditsKept

LEMMA AbortInv == ASSUME IInv, NEW p \in Procs, Abort(p) PROVE IInv'
<1>1. TypeOK'
  BY FinalizeTypes DEF IInv
<1>2. End(p) /\ UNCHANGED <<hosts, acked, undone, plan, retired>>
  BY DEF Abort, workspace, records
<1>3. CASE proc[p].pc \notin Locked
  <2>1. Quiet(p)
    BY <1>2, <1>3, EndOutside DEF Abort, Quiet, Recorded
  <2> QED BY <1>1, <2>1, QuietInv
<1>4. CASE proc[p].pc \in Locked
  <2>1. LockInv' /\ CleanInv' /\ SnapInv' /\ NotYetRecorded'
    BY <1>2, <1>4, ReturnInv
  <2>2. RoleResidue' = RoleResidue /\ (Recorded' <=> Recorded)
    BY <1>2 DEF RoleResidue, Residue, Verified, Recorded
  <2>3. NoSilentRemoval'
    BY <1>2, <1>4 DEF Abort, NoSilentRemoval
  <2> QED BY <1>1, <1>2, <2>1, <2>2, <2>3 DEF IInv, GoneInv, RecordInv, EditsKept
<1> QED BY <1>3, <1>4

LEMMA EditInv == ASSUME IInv, NEW e \in Edits, EditSession(e) PROVE IInv'
<1>1. TypeOK'
  BY EditTypes DEF IInv
<1>2. /\ hosts' = hosts \cup {e} /\ acked' = acked \cup {e} /\ e # Target
      /\ lock = None /\ UNCHANGED <<undone, plan, retired, lock, proc, gap>>
  BY HostAssumption DEF EditSession, records
<1>3. \A q \in Procs : proc[q].pc \notin Locked
  BY <1>2, HostAssumption DEF IInv, LockInv
<1>4. RoleResidue' = RoleResidue /\ (Recorded' <=> Recorded)
  BY <1>2 DEF RoleResidue, Residue, Verified, Recorded
<1>5. LockInv' /\ CleanInv' /\ SnapInv' /\ NotYetRecorded'
  BY <1>2, <1>3, <1>4 DEF IInv, LockInv, CleanInv, SnapInv, NotYetRecorded
<1>6. GoneInv' /\ RecordInv' /\ NoSilentRemoval' /\ EditsKept'
  BY <1>2, <1>4 DEF IInv, GoneInv, RecordInv, NoSilentRemoval, EditsKept
<1> QED BY <1>1, <1>5, <1>6 DEF IInv

LEMMA StutterInv == IInv /\ UNCHANGED vars => IInv'
<1> SUFFICES ASSUME IInv, UNCHANGED vars PROVE IInv'
  OBVIOUS
<1>1. UNCHANGED <<hosts, hostVars, undone, plan, retired, lock, proc, acked, faults, gap>>
  BY DEF vars
<1>2. RoleResidue' = RoleResidue /\ (Recorded' <=> Recorded)
  BY <1>1 DEF RoleResidue, Residue, Verified, Recorded
<1>3. TypeOK' /\ LockInv' /\ CleanInv' /\ SnapInv'
  BY <1>1, <1>2 DEF IInv, TypeOK, LockInv, CleanInv, SnapInv
<1>4. NotYetRecorded' /\ GoneInv' /\ RecordInv' /\ NoSilentRemoval' /\ EditsKept'
  BY <1>1, <1>2 DEF IInv, NotYetRecorded, GoneInv, RecordInv, NoSilentRemoval, EditsKept
<1> QED BY <1>3, <1>4 DEF IInv

LEMMA NextInv == IInv /\ [Next]_vars => IInv'
<1> SUFFICES ASSUME IInv, Next PROVE IInv'
  BY StutterInv
<1>1. ASSUME NEW p \in Procs,
             \/ PlanStart(p) \/ (\E i \in PlanIds : ApplyStart(p, i)) \/ Proceed(p)
             \/ StepWithoutEffect(p) \/ WriteFails(p) \/ RestoreFails(p) \/ RecordFails(p)
             \/ Abort(p)
      PROVE  IInv'
  BY <1>1, CommandInv, CleanupInv, BeginInv, WriteInv, RestoreInv, RestoreFailsInv,
     CompletedInv, RetiredInv, RecordFailsInv, AbortInv DEF Proceed
<1>2. ASSUME NEW e \in Edits, EditSession(e) PROVE IInv'
  BY <1>2, EditInv
<1> QED BY <1>1, <1>2 DEF Next

\* The invariant holds in every state of every decommission, whichever commands
\* overlap, fail or are killed and whatever edit sessions do meanwhile.
THEOREM Invariance == Spec => []IInv
  BY InitInv, NextInv, PTL DEF Spec

----------------------------------------------------------------------------
\* The files, the store, the lock and every process keep their types.
THEOREM DecommissionTypes == Spec => []TypeOK
<1>1. IInv => TypeOK
  BY DEF IInv
<1> QED BY <1>1, Invariance, PTL

\* The host leaves hosts.yml only once nothing is left that a verifier of one
\* of its roles' components looks at, whatever the workspace files refer to.
THEOREM RolesCleanBeforeRemoval == Spec => [](Target \notin hosts => RoleResidue = {})
<1>1. IInv => (Target \notin hosts => RoleResidue = {})
  BY DEF IInv, GoneInv
<1> QED BY <1>1, Invariance, PTL

\* A host no reference-driven component concerns is removed with no residue.
THEOREM CleanBeforeRemoval ==
    ASSUME References = {} PROVE Spec => []ZeroResidueBeforeRemoval
<1>1. RoleResidue = Residue
  BY DEF RoleResidue
<1>2. IInv => ZeroResidueBeforeRemoval
  BY <1>1 DEF IInv, GoneInv, ZeroResidueBeforeRemoval
<1> QED BY <1>2, Invariance, PTL

\* A completed plan or a retired marker means that such a host is gone and clean.
THEOREM ReceiptsTrue == ASSUME References = {} PROVE Spec => []ReceiptMeansGone
<1>1. RoleResidue = Residue
  BY DEF RoleResidue
<1>2. IInv => ReceiptMeansGone
  BY <1>1 DEF IInv, GoneInv, RecordInv, Recorded, ReceiptMeansGone
<1> QED BY <1>2, Invariance, PTL

\* Removed and unrecorded: only while a finalizer is at work, or after one was
\* killed, or returned because the store refused the record or because the
\* restore after a failed write failed too.  A failed write alone never does it.
THEOREM RemovalRecorded == Spec => []NoSilentRemoval
<1>1. IInv => NoSilentRemoval
  BY DEF IInv
<1> QED BY <1>1, Invariance, PTL

\* No acknowledged edit of hosts.yml is lost to a finalizer or its rollback.
THEOREM NoEditLost == Spec => []EditsKept
<1>1. IInv => EditsKept
  BY DEF IInv
<1> QED BY <1>1, Invariance, PTL

=============================================================================
