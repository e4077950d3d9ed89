----------------------------- MODULE Decommission -----------------------------
(***************************************************************************)
(* Host decommissioning (internal/decommission and its commands in         *)
(* cmd/pilot/cmd): a plan of one host's retirement is derived and stored;  *)
(* apply and resume re-derive it, run every component's teardown steps,    *)
(* verify the live systems, and only then remove the host from hosts.yml   *)
(* under the workspace lock that edit sessions take too.  Several commands *)
(* run at once, any of them may fail or be killed at any step, and nothing *)
(* records how far a run came: the next one inspects the live systems.     *)
(***************************************************************************)
EXTENDS Naturals, FiniteSets

CONSTANTS
    Procs,       \* pilot processes
    PlanIds,     \* bound: plans kept in the store
    Target,      \* the host being retired
    Edits,       \* hosts that edit sessions add to hosts.yml
    Steps,       \* teardown steps, numbered in teardown order
    Comp,        \* the component each step belongs to
    Kind,        \* "local": on the host; "file": in a workspace file; "central": in a control plane
    References,  \* components planned only while a workspace file names the host
    Client,      \* the freeipa-client component
    ShortName,   \* the inventory names the host without its domain
    MaxFaults,   \* bound: failures, kills and steps that succeed without effect
    None

Kinds == {"local", "file", "central"}

ASSUME HostAssumption ==
    /\ Target \notin Edits
    /\ None \notin Procs \cup PlanIds
    /\ MaxFaults \in Nat
    /\ ShortName \in BOOLEAN

ASSUME StepsAssumption ==
    /\ Steps \subseteq Nat
    /\ Kind \in [Steps -> Kinds]
    /\ DOMAIN Comp = Steps
    /\ \E s \in Steps : Comp[s] \notin References    \* the host has a role

VARIABLES
    hosts,      \* the hosts in hosts.yml
    hostVars,   \* host_vars/<Target>.yml exists
    undone,     \* the steps whose effect is not in place
    plan,       \* the store's plan rows
    retired,    \* the store's retired_hosts marker
    lock,       \* the holder of .pilot/edit.lock
    proc,       \* each process's command
    acked,      \* edits whose session was told they are written
    faults,     \* faults so far
    gap         \* why a finalizer left a removed host unrecorded

vars == <<hosts, hostVars, undone, plan, retired, lock, proc, acked, faults, gap>>
workspace == <<hosts, hostVars, acked>>
records == <<plan, retired>>

Names == {Target} \cup Edits
Hashes == [hosts : SUBSET Names, declared : SUBSET Steps, hostVars : BOOLEAN]
NoHash == [hosts |-> {}, declared |-> {}, hostVars |-> FALSE]

Locked == {"hostvars", "hosts", "inventory", "complete", "retire", "restore"}
Removed == {"inventory", "complete", "retire"}
Phases == {"idle", "read", "regen", "derive", "fresh", "run", "rederive", "save", "lock"}
            \cup Locked

Commands == [pc : Phases, cmd : {"none", "plan", "apply", "replay"},
             id : PlanIds \cup {None}, hash : Hashes, named : BOOLEAN, todo : SUBSET Steps,
             clean : BOOLEAN, snap : Hashes, read : SUBSET Names]
Rows == [status : {"none", "executable", "completed"}, hash : Hashes, named : BOOLEAN]
Gaps == {"killed", "record", "restore"}

NewProc == [pc |-> "idle", cmd |-> "none", id |-> None, hash |-> NoHash, named |-> FALSE,
            todo |-> {}, clean |-> FALSE, snap |-> NoHash, read |-> {}]
NewPlan == [status |-> "none", hash |-> NoHash, named |-> FALSE]

----------------------------------------------------------------------------
\* The workspace files that still name the host.
Declared == {s \in undone : Kind[s] = "file"}

\* computePlanHash: what a plan is bound to, in what a model of one host tells apart.
CurrentHash == [hosts |-> hosts, declared |-> Declared, hostVars |-> hostVars]

\* PlanHost: the steps of the components a plan with these references selects.
Planned(declared) ==
    {s \in Steps : Comp[s] \notin References \/ \E f \in declared : Comp[f] = Comp[s]}

\* Verify looks at a component's central state where it has some, at the host
\* only where it has none.
Verified(s) ==
    \/ Kind[s] = "central"
    \/ Kind[s] = "local" /\ \A t \in Steps : Comp[t] = Comp[s] => Kind[t] # "central"

Residue == {s \in undone : Verified(s)}

Goto(p, pc) == proc' = [proc EXCEPT ![p].pc = pc]

\* A command returns, or its process is gone: the kernel drops the lock.
End(p) ==
    /\ proc' = [proc EXCEPT ![p] = NewProc]
    /\ lock' = IF lock = p THEN None ELSE lock

CanFault == faults < MaxFaults

TypeOK ==
    /\ hosts \subseteq Names /\ acked \subseteq Edits
    /\ hostVars \in BOOLEAN /\ retired \in BOOLEAN /\ gap \subseteq Gaps
    /\ undone \subseteq Steps
    /\ plan \in [PlanIds -> Rows]
    /\ lock \in Procs \cup {None}
    /\ proc \in [Procs -> Commands]
    /\ faults \in 0 .. MaxFaults

\* The host is in service: every component is installed and declared.
Init ==
    /\ hosts = {Target} /\ hostVars \in BOOLEAN
    /\ undone = Steps
    /\ plan = [i \in PlanIds |-> NewPlan] /\ retired = FALSE
    /\ lock = None /\ proc = [p \in Procs |-> NewProc]
    /\ acked = {} /\ faults = 0 /\ gap = {}

----------------------------------------------------------------------------
\* autoRegenerateInventoryFromHosts: every command first regenerates
\* inventory.yml and a missing host_vars file from hosts.yml, without the lock.
RegenRead(p) ==
    /\ proc[p].pc = "read"
    /\ proc' = [proc EXCEPT ![p].pc = "regen", ![p].read = hosts]
    /\ UNCHANGED <<workspace, undone, records, lock, faults, gap>>

RegenWrite(p) ==
    /\ proc[p].pc = "regen"
    /\ hostVars' = (hostVars \/ Target \in proc[p].read)
    /\ CASE proc[p].cmd = "plan" -> Goto(p, "derive") /\ UNCHANGED lock
         [] proc[p].cmd = "apply" -> Goto(p, "fresh") /\ UNCHANGED lock
         [] OTHER -> End(p)
    /\ UNCHANGED <<hosts, acked, undone, records, faults, gap>>

\* `pilot host decommission plan`.
PlanStart(p) ==
    /\ proc[p].pc = "idle"
    /\ proc' = [proc EXCEPT ![p].pc = "read", ![p].cmd = "plan"]
    /\ UNCHANGED <<workspace, undone, records, lock, faults, gap>>

\* A slot for a new plan: never used, or its plan is stale and nobody runs it.
Free(i) ==
    /\ plan[i].status # "completed"
    /\ ~(plan[i].status = "executable" /\ plan[i].hash = CurrentHash)
    /\ \A q \in Procs : proc[q].id # i

\* A new plan holds the host's FQDN when the inventory has it, or when the
\* directory still holds the host object to ask for it.
Resolvable == ~ShortName \/ \E s \in undone : Comp[s] = Client /\ Kind[s] = "central"

SavePlan(p) ==
    /\ proc[p].pc = "derive"
    /\ \/ /\ Target \in hosts
          /\ \E i \in PlanIds : Free(i) /\ plan' =
                 [plan EXCEPT ![i] = [status |-> "executable", hash |-> CurrentHash,
                                      named |-> Resolvable]]
       \/ /\ Target \notin hosts \/ \A i \in PlanIds : ~Free(i)
          /\ UNCHANGED plan
    /\ End(p)
    /\ UNCHANGED <<workspace, undone, retired, faults, gap>>

\* `apply`, and `resume`, which also asks for an earlier approval of the stored
\* hash.  A completed plan only returns its receipt.
ApplyStart(p, i) ==
    /\ proc[p].pc = "idle"
    /\ plan[i].status # "none"
    /\ proc' = [proc EXCEPT ![p].pc = "read", ![p].id = i, ![p].hash = plan[i].hash, ![p].named = plan[i].named,
                    ![p].cmd = IF plan[i].status = "completed" THEN "replay" ELSE "apply"]
    /\ UNCHANGED <<workspace, undone, records, lock, faults, gap>>

----------------------------------------------------------------------------
\* bindPreviousRetirement: a plan of a FreeIPA client is derived again only for
\* the FQDN and the inventory its predecessor holds.
Bound(p) ==
    (\E s \in Steps : Comp[s] = Client) => proc[p].named /\ hosts = proc[p].hash.hosts

\* CheckFreshness against the plan the process last stored or loaded.
IsFresh(p) == Target \in hosts /\ Bound(p) /\ CurrentHash = proc[p].hash

\* Apply: CheckFreshness before anything is executed.
Freshness(p) ==
    /\ proc[p].pc = "fresh"
    /\ IF IsFresh(p)
         THEN /\ proc' = [proc EXCEPT ![p].pc = "run",
                                      ![p].todo = Planned(proc[p].hash.declared)]
              /\ UNCHANGED lock
         ELSE End(p)
    /\ UNCHANGED <<workspace, undone, records, faults, gap>>

\* The reconciler deletes from a control plane only what the workspace file no
\* longer declares.
Effective(s) ==
    Kind[s] = "central" => \A f \in Declared : Comp[f] # Comp[s]

\* Executor.Run: Inspect the next step, and Execute it unless it has converged.
NextStep(p, s) == s \in proc[p].todo /\ \A t \in proc[p].todo : s <= t

\* Mutant: a converge step is inspected in the workspace file its reconciler
\* reads, not in the live system.
BuggyConverged(s) ==
    s \notin undone \/ (Kind[s] = "central" /\ \A f \in Declared : Comp[f] # Comp[s])

Converged(s) == s \notin undone

RunStep(p) ==
    /\ proc[p].pc = "run"
    /\ \E s \in proc[p].todo :
         /\ NextStep(p, s)
         /\ undone' = IF ~Converged(s) /\ Effective(s) THEN undone \ {s} ELSE undone
         /\ proc' = [proc EXCEPT ![p].todo = @ \ {s}]
    /\ UNCHANGED <<workspace, records, lock, faults, gap>>

\* A playbook that exits 0 without having had its effect.
StepWithoutEffect(p) ==
    /\ proc[p].pc = "run" /\ CanFault
    /\ \E s \in proc[p].todo :
         /\ NextStep(p, s) /\ ~Converged(s) /\ Kind[s] # "file"
         /\ proc' = [proc EXCEPT ![p].todo = @ \ {s}]
    /\ faults' = faults + 1
    /\ UNCHANGED <<workspace, undone, records, lock, gap>>

\* Mutant: steps that ended without an error count as verified.
BuggyCollectVerifications(p) ==
    /\ proc[p].pc = "run" /\ proc[p].todo = {}
    /\ proc' = [proc EXCEPT ![p].pc = "rederive", ![p].clean = TRUE]
    /\ UNCHANGED <<workspace, undone, records, lock, faults, gap>>

\* collectVerifications: the live state of the executed plan's components,
\* evaluated by EvaluateVerifications.
CollectVerifications(p) ==
    /\ proc[p].pc = "run" /\ proc[p].todo = {}
    /\ proc' = [proc EXCEPT ![p].pc = "rederive",
                            ![p].clean = (Residue \cap Planned(proc[p].hash.declared) = {})]
    /\ UNCHANGED <<workspace, undone, records, lock, faults, gap>>

\* Apply derives the plan once more, since its own steps made the first stale ...
Rederive(p) ==
    /\ proc[p].pc = "rederive"
    /\ IF Target \in hosts /\ Bound(p)
         THEN /\ proc' = [proc EXCEPT ![p].pc = "save", ![p].hash = CurrentHash]
              /\ UNCHANGED lock
         ELSE End(p)
    /\ UNCHANGED <<workspace, undone, records, faults, gap>>

\* ... and stores it under the same id, whatever the row holds by now, with the
\* FQDN it was loaded with (retainPlanFQDN).
SavePostCleanup(p) ==
    /\ proc[p].pc = "save"
    /\ plan' = [plan EXCEPT ![proc[p].id] =
                    [status |-> "executable", hash |-> proc[p].hash, named |-> proc[p].named]]
    /\ Goto(p, "lock")
    /\ UNCHANGED <<workspace, undone, retired, lock, faults, gap>>

----------------------------------------------------------------------------
\* Mutant: hosts.yml is rewritten without taking the lock.
BuggyFinalizeBegin(p) ==
    /\ proc[p].pc = "lock"
    /\ IF lock = None /\ IsFresh(p) /\ proc[p].clean
         THEN /\ proc' = [proc EXCEPT ![p].pc = "hostvars", ![p].snap = CurrentHash]
              /\ UNCHANGED lock
         ELSE End(p)
    /\ UNCHANGED <<workspace, undone, records, faults, gap>>

\* Finalize: the lock (never waited for), freshness, the verdict, the snapshot.
FinalizeBegin(p) ==
    /\ proc[p].pc = "lock"
    /\ IF lock = None /\ IsFresh(p) /\ proc[p].clean
         THEN /\ lock' = p
              /\ proc' = [proc EXCEPT ![p].pc = "hostvars", ![p].snap = CurrentHash]
         ELSE End(p)
    /\ UNCHANGED <<workspace, undone, records, faults, gap>>

\* removeHostVarsFileIfPresent: a failure is not reported.
RemoveHostVars(p) ==
    /\ proc[p].pc = "hostvars"
    /\ \/ hostVars' = FALSE /\ UNCHANGED faults
       \/ CanFault /\ faults' = faults + 1 /\ UNCHANGED hostVars
    /\ Goto(p, "hosts")
    /\ UNCHANGED <<hosts, acked, undone, records, lock, gap>>

\* writeFinalizedWorkspace: hosts.yml, then inventory.yml.
WriteHosts(p) ==
    /\ proc[p].pc = "hosts"
    /\ hosts' = proc[p].snap.hosts \ {Target}
    /\ Goto(p, "inventory")
    /\ UNCHANGED <<hostVars, acked, undone, records, lock, faults, gap>>

WriteInventory(p) ==
    /\ proc[p].pc = "inventory"
    /\ Goto(p, "complete")
    /\ UNCHANGED <<workspace, undone, records, lock, faults, gap>>

\* Mutant: the error of the write is dropped.
BuggyWriteFails(p) ==
    /\ proc[p].pc \in {"hosts", "inventory"} /\ CanFault
    /\ Goto(p, "complete") /\ faults' = faults + 1
    /\ UNCHANGED <<workspace, undone, records, lock, gap>>

\* Either write fails, or the lint before them: the snapshot is written back.
WriteFails(p) ==
    /\ proc[p].pc \in {"hosts", "inventory"} /\ CanFault
    /\ Goto(p, "restore") /\ faults' = faults + 1
    /\ UNCHANGED <<workspace, undone, records, lock, gap>>

\* Mutant: the error is returned before the snapshot is written back.
BuggyRestore(p) ==
    /\ proc[p].pc = "restore"
    /\ End(p)
    /\ UNCHANGED <<workspace, undone, records, faults, gap>>

Restore(p) ==
    /\ proc[p].pc = "restore"
    /\ hosts' = proc[p].snap.hosts /\ hostVars' = proc[p].snap.hostVars
    /\ End(p)
    /\ UNCHANGED <<acked, undone, records, faults, gap>>

\* What failed the write fails the restore as well, at hosts.yml or at a file
\* after it: the error is returned, and the rest stays as it is.
RestoreFails(p) ==
    /\ proc[p].pc = "restore"
    /\ hosts' \in {hosts, proc[p].snap.hosts}
    /\ End(p)
    /\ gap' = gap \cup {g \in {"restore"} : Target \notin hosts'}
    /\ UNCHANGED <<hostVars, acked, undone, records, faults>>

\* The completed plan with its receipt, then the retired_hosts marker.
SaveCompleted(p) ==
    /\ proc[p].pc = "complete"
    /\ plan' = [plan EXCEPT ![proc[p].id] =
                    [status |-> "completed", hash |-> proc[p].hash, named |-> proc[p].named]]
    /\ Goto(p, "retire")
    /\ UNCHANGED <<workspace, undone, retired, lock, faults, gap>>

SaveRetired(p) ==
    /\ proc[p].pc = "retire"
    /\ retired' = TRUE
    /\ End(p)
    /\ UNCHANGED <<workspace, undone, plan, faults, gap>>

\* The store refuses the plan or the marker: the error is returned, and the host
\* stays removed.
RecordFails(p) ==
    /\ proc[p].pc \in {"complete", "retire"} /\ CanFault
    /\ End(p)
    /\ gap' = gap \cup {"record"} /\ faults' = faults + 1
    /\ UNCHANGED <<workspace, undone, records>>

----------------------------------------------------------------------------
\* A command returns an error from a step before it writes hosts.yml, or its
\* process is killed, at that step or at any other.
Abort(p) ==
    /\ proc[p].pc # "idle" /\ CanFault
    /\ End(p)
    /\ gap' = gap \cup {g \in {"killed"} : proc[p].pc \in Locked /\ Target \notin hosts}
    /\ faults' = faults + 1
    /\ UNCHANGED <<workspace, undone, records>>

\* pilot_edit_apply adds a host: reads and writes hosts.yml under the lock.  The
\* interactive editor, which takes no lock, is not modelled.
EditSession(e) ==
    /\ e \notin acked /\ lock = None
    /\ hosts' = hosts \cup {e} /\ acked' = acked \cup {e}
    /\ UNCHANGED <<hostVars, undone, records, lock, proc, faults, gap>>

----------------------------------------------------------------------------
Proceed(p) ==
    \/ RegenRead(p) \/ RegenWrite(p) \/ SavePlan(p) \/ Freshness(p) \/ RunStep(p)
    \/ CollectVerifications(p) \/ Rederive(p) \/ SavePostCleanup(p) \/ FinalizeBegin(p)
    \/ RemoveHostVars(p) \/ WriteHosts(p) \/ WriteInventory(p) \/ Restore(p)
    \/ SaveCompleted(p) \/ SaveRetired(p)

Next ==
    \/ \E p \in Procs :
         \/ PlanStart(p) \/ (\E i \in PlanIds : ApplyStart(p, i)) \/ Proceed(p)
         \/ StepWithoutEffect(p) \/ WriteFails(p) \/ RestoreFails(p) \/ RecordFails(p)
         \/ Abort(p)
    \/ \E e \in Edits : EditSession(e)

Spec == Init /\ [][Next]_vars

\* Operators keep planning, and keep applying a plan that is current as they start.
ApplyCurrent(p) ==
    \E i \in PlanIds : plan[i].hash = CurrentHash /\ ApplyStart(p, i)

FairSpec ==
    /\ Spec
    /\ \A p \in Procs : WF_vars(Proceed(p)) /\ SF_vars(PlanStart(p)) /\ SF_vars(ApplyCurrent(p))
----------------------------------------------------------------------------
\* INV-1 and INV-11: the host leaves hosts.yml only after everything a
\* verifier looks at is gone, whichever runs failed, overlapped or were
\* re-planned on the way, and although playbooks may succeed without effect.
ZeroResidueBeforeRemoval == Target \notin hosts => Residue = {}

\* A host that is gone from hosts.yml is marked retired, or a finalizer is at
\* work on it, or one of three things kept a finalizer from it: a kill, a store
\* that refused the record, a restore that failed after a failed write.  A write
\* that fails alone always puts the host back.  The comment of Finalize claims
\* more ("any failure after mutation starts restores the exact pre-mutation file
\* bytes before returning"): the errors of SavePlan and SaveRetiredHost are
\* returned with the host removed, and so is that of restoreWorkspaceFiles.
NoSilentRemoval ==
    Target \notin hosts =>
        retired \/ gap # {} \/ \E p \in Procs : proc[p].pc \in Removed \cup {"restore"}

\* A completed plan, which is all a repeated apply looks at, and the retired
\* marker both mean that the host is gone and was verified clean.
ReceiptMeansGone ==
    (retired \/ \E i \in PlanIds : plan[i].status = "completed") =>
        Target \notin hosts /\ Residue = {}

\* A finalizer writes back, and restores, only the hosts.yml it read under the
\* lock: no edit that a session which takes the lock was told is written is
\* lost.  (The interactive `pilot edit` saves hosts.yml without the lock and has
\* no such promise.)
EditsKept == acked \subseteq hosts

\* INV-9: however its runs fail, a decommission that operators keep planning
\* and applying reaches finalization, if the inventory holds the host's FQDN.
\* With ShortName it need not: a run killed after the directory has deleted the
\* host object, and before it has stored its second plan, leaves a host whose
\* every new plan is refused as stale (bindPreviousRetirement).
EventuallyRemoved == <>(Target \notin hosts)
=============================================================================
