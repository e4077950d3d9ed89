------------------------------ MODULE RosterApply ------------------------------
(***************************************************************************)
(* pilot_edit_apply on the rosters of a workspace (cmd/pilot/cmd,          *)
(* edit_workspace_apply.go and edit_workspace_backup.go): an apply runs a  *)
(* scenario's steps against its .vault/ rosters while other roster         *)
(* commands write the same files, and a failed scenario is rolled back by  *)
(* undoing exactly the writes its journal recorded.  The rollback exists   *)
(* only in memory: a crashed apply is not rolled back.                     *)
(***************************************************************************)
EXTENDS RosterWrite, FiniteSets

CONSTANTS
    Sessions,   \* applies of one pilot process (pilot mcp)
    Others,     \* other roster commands, each a process of its own
    Vault,      \* the rosters among the managed files of each apply's workspace
    Steps,      \* bound: steps of each scenario
    MaxLinks    \* bound: hard links made while the system runs

ASSUME ActorsAreTheWriters ==
    /\ Actors = Sessions \cup Others
    /\ Sessions \cap Others = {}
    /\ Vault \in [Sessions -> SUBSET Names]
    /\ Steps \in [Sessions -> Nat]
    /\ \A s \in Sessions : \A k \in 1 .. Steps[s] : <<s, k>> \in Changes
    /\ \A p \in Others : <<p, 1>> \in Changes

VARIABLES
    app,        \* each apply's progress and what it remembers
    journal,    \* each apply's RosterJournal
    acked,      \* changes whose writer was told they are made, with the name used
    links       \* the hard links made so far, each with the applies then running

vars == <<dir, data, side, ilock, op, app, journal, acked, links>>

Ended == {"committed", "rolledback", "left", "error", "refused", "crashed"}

NewApp == [phase |-> "idle", snap |-> <<>>, last |-> <<>>, touched |-> {}, step |-> 0,
           wrote |-> {}, now |-> <<>>, files |-> {}, file |-> {}, kept |-> {}, left |-> {}]

Keys == Names \cup Inodes

\* behind are the journals registered before this one: the first in order records.
NewJournal == [state |-> "closed", keys |-> {}, behind |-> {}, writes |-> [k \in Keys |-> <<>>]]

\* managedFileEntries, restricted to the rosters: what each name holds now.
Entries(s) == [n \in Vault[s] |-> Content(n)]

\* Once it has ended an apply keeps its outcome only.
End(s, phase) ==
    /\ app' = [app EXCEPT ![s] = [NewApp EXCEPT !.phase = phase]]
    /\ journal' = [journal EXCEPT ![s] = NewJournal]

----------------------------------------------------------------------------
\* The journal of internal/inventory/roster_journal.go.
Watches(t, n, key) == n \in Vault[t] \/ key \in journal[t].keys

\* The keys of the rosters in the snapshot, as the journal is opened.
WatchedKeys(s) == {FileKey(n) : n \in {m \in Vault[s] : app[s].snap[m] # Absent}}

\* overlap: two applies claim one roster, by name or as the same file.
Overlaps(s, t) == Vault[s] \cap Vault[t] # {} \/ WatchedKeys(s) \cap journal[t].keys # {}

\* beginJournaledRosterWrite: the first journal registered in the writer's
\* process that records a write to the roster it has locked.  Another process
\* has no journal.
Records(t, p) == /\ p \in Sessions
                 /\ journal[t].state = "open"
                 /\ Watches(t, op[p].name, LockKey(op[p]))

Recorder(p, t) ==
    IF t = None THEN \A u \in Sessions : ~Records(u, p)
                ELSE Records(t, p) /\ \A u \in journal[t].behind : ~Records(u, p)

\* journaledRosterWrite.finish.
Record(p, failed) ==
    LET t == op[p].rec
        w == [before |-> op[p].before, after |-> op[p].want, failed |-> failed]
    IN IF t # None /\ journal[t].state = "open"
         THEN journal' = [journal EXCEPT ![t].writes[LockKey(op[p])] = Append(@, w)]
         ELSE UNCHANGED journal

----------------------------------------------------------------------------
\* An operation's steps, with the journal's part of them.
ChangeOf(p) == <<p, IF p \in Sessions THEN app[p].step + 1 ELSE 1>>

LockStep(p) ==
    /\ \/ TakeSidecars(p) \/ SidecarsHeld(p) \/ LockInode(p) \/ InodeHeld(p)
       \/ Abandon(p)
       \/ \E t \in Sessions \cup {None} :
            Recorder(p, t) /\ (ReadRoster(p, ChangeOf(p), t) \/ CheckRestore(p, t))
       \/ CheckRemove(p)
    /\ UNCHANGED <<app, journal, acked, links>>

WriteStep(p) ==
    /\ \/ OpenRefused(p) \/ OpenFailed(p)
       \/ BeginInPlace(p) \/ BeginReplace(p) \/ RenameRefused(p)
    /\ UNCHANGED <<app, journal, acked, links>>

\* A write that succeeds is acknowledged to a command at once, and to an apply's
\* caller only when the apply commits.
WriteDone(p) ==
    /\ Install(p) \/ EndInPlace(p)
    /\ Record(p, FALSE)
    /\ acked' = IF p \in Others THEN acked \cup {<<ChangeOf(p), op[p].name>>} ELSE acked
    /\ app' = IF p \in Sessions /\ op[p].kind = "edit"
                THEN [app EXCEPT ![p].wrote = @ \cup {<<ChangeOf(p), op[p].name>>}]
                ELSE app
    /\ UNCHANGED <<links>>

WritePartly(p) ==
    /\ FailInPlace(p)
    /\ Record(p, TRUE)
    /\ UNCHANGED <<app, acked, links>>

\* Any other roster command: one edit.
Command(p) ==
    /\ op[p] = NoOp
    /\ \E n \in Names : Start(p, "edit", n, Absent, Absent)
    /\ UNCHANGED <<dir, data, side, ilock, app, journal, acked, links>>

----------------------------------------------------------------------------
\* applyEditScenario: the snapshot, then the journal.
Snapshot(s) ==
    /\ app[s].phase = "idle"
    /\ app' = [app EXCEPT ![s].phase = "snapped", ![s].snap = Entries(s)]
    /\ UNCHANGED <<dir, data, side, ilock, op, journal, acked, links>>

\* The claims another open or stopped journal of the process holds.
Claimed(s) == \E t \in Sessions \ {s} : journal[t].state # "closed" /\ Overlaps(s, t)

OpenJournal(s) ==
    /\ app[s].phase = "snapped"
    /\ ~Claimed(s)
    /\ app' = [app EXCEPT ![s].phase = "ready"]
    /\ journal' = [journal EXCEPT ![s] = [NewJournal EXCEPT
                       !.state = "open",
                       !.keys = WatchedKeys(s),
                       !.behind = {t \in Sessions : journal[t].state # "closed"}]]
    /\ UNCHANGED <<dir, data, side, ilock, op, acked, links>>

JournalBusy(s) ==
    /\ app[s].phase = "snapped"
    /\ Claimed(s)
    /\ End(s, "refused")
    /\ UNCHANGED <<dir, data, side, ilock, op, acked, links>>

\* A step: what the rosters hold as it begins (BeforeStep), perhaps one edit.
BeginStep(s) ==
    /\ app[s].phase = "ready" /\ app[s].step < Steps[s]
    /\ app' = [app EXCEPT ![s].phase = "step", ![s].last = Entries(s)]
    /\ (\E n \in Vault[s] : Start(s, "edit", n, Absent, Absent)) \/ UNCHANGED op
    /\ UNCHANGED <<dir, data, side, ilock, journal, acked, links>>

\* noteSessionWrites: the rosters that changed while the step ran, by anyone.
Touched(s) == app[s].touched \cup {n \in Vault[s] : Content(n) # app[s].last[n]}

EndStep(s) ==
    /\ app[s].phase = "step"
    /\ op[s].pc \in {"none", "ok"}
    /\ app' = [app EXCEPT ![s].phase = "ready", ![s].touched = Touched(s),
                          ![s].step = @ + 1, ![s].last = <<>>]
    /\ op' = [op EXCEPT ![s] = NoOp]
    /\ UNCHANGED <<dir, data, side, ilock, journal, acked, links>>

FailStep(s) ==
    /\ app[s].phase = "step"
    /\ op[s].pc \in Results \cup {"none"}
    /\ app' = [app EXCEPT ![s].phase = "failed", ![s].touched = Touched(s), ![s].last = <<>>]
    /\ op' = [op EXCEPT ![s] = NoOp]
    /\ UNCHANGED <<dir, data, side, ilock, journal, acked, links>>

Commit(s) ==
    /\ app[s].phase = "ready"
    /\ acked' = acked \cup app[s].wrote
    /\ End(s, "committed")
    /\ UNCHANGED <<dir, data, side, ilock, op, links>>

----------------------------------------------------------------------------
\* The journal is closed, not stopped, before the rollback writes.
BuggyBeginRollback(s) ==
    LET known == {n \in Vault[s] : Content(n) # Absent \/ app[s].snap[n] # Absent} IN
    /\ app[s].phase \in {"failed", "ready"}
    /\ journal' = [journal EXCEPT ![s].state = "closed"]
    /\ app' = [app EXCEPT ![s].phase = "rolling", ![s].now = Entries(s),
                 ![s].files = {[key |-> FileKey(n), rels |-> {m \in known : FileKey(m) = FileKey(n)}] :
                                 n \in known}]
    /\ UNCHANGED <<dir, data, side, ilock, op, acked, links>>

\* restoreManagedFiles, after a failed step or when the workspace fails its last
\* validation: recording stops, the claim stays; the names are grouped into files
\* by the key they have now.
BeginRollback(s) ==
    LET known == {n \in Vault[s] : Content(n) # Absent \/ app[s].snap[n] # Absent} IN
    /\ app[s].phase \in {"failed", "ready"}
    /\ journal' = [journal EXCEPT ![s].state = "stopped"]
    /\ app' = [app EXCEPT ![s].phase = "rolling", ![s].now = Entries(s),
                 ![s].files = {[key |-> FileKey(n), rels |-> {m \in known : FileKey(m) = FileKey(n)}] :
                                 n \in known}]
    /\ UNCHANGED <<dir, data, side, ilock, op, acked, links>>

\* The names of one file hold the same bytes: any of them speaks for it.
Held(entries, f) == LET n == CHOOSE m \in f.rels : entries[m] # Absent
                    IN IF \E m \in f.rels : entries[m] # Absent THEN entries[n] ELSE Absent

\* The chain of the apply's writes is not checked.
BuggyBroken(ws) == \E i \in DOMAIN ws : ws[i].failed

\* Another process wrote the roster between two of the apply's writes, or a
\* write left it unknown.
Broken(ws) == \/ \E i \in DOMAIN ws : ws[i].failed
              \/ \E i \in DOMAIN ws \ {1} : ws[i].before # ws[i - 1].after

\* A roster the apply created is written back like any other.
BuggyVerdict(s, f) ==
    LET before == Held(app[s].snap, f)
        after == Held(app[s].now, f)
        ws == journal[s].writes[f.key]
    IN CASE before = after -> "nothing"
         [] before # after /\ ws = <<>> /\ f.rels \cap app[s].touched = {} -> "keep"
         [] before # after /\ ws = <<>> /\ f.rels \cap app[s].touched # {} -> "leave"
         [] before # after /\ ws # <<>> /\ (Broken(ws) \/ after = Absent) -> "leave"
         [] OTHER -> "restore"

\* restoreRosterFile's cases.
Verdict(s, f) ==
    LET before == Held(app[s].snap, f)
        after == Held(app[s].now, f)
        ws == journal[s].writes[f.key]
    IN CASE before = after -> "nothing"
         [] before # after /\ ws = <<>> /\ f.rels \cap app[s].touched = {} -> "keep"
         [] before # after /\ ws = <<>> /\ f.rels \cap app[s].touched # {} -> "leave"
         [] before # after /\ ws # <<>> /\ (Broken(ws) \/ after = Absent) -> "leave"
         [] OTHER -> IF ws[1].before = Absent THEN "remove" ELSE "restore"

\* What the roster held before the apply's first write was another writer's.
FoundChanged(s, f) == journal[s].writes[f.key][1].before # Held(app[s].snap, f)

LeaveAlone(s) ==
    /\ app[s].phase = "rolling"
    /\ \E f \in app[s].files :
         /\ Verdict(s, f) \in {"nothing", "keep", "leave"}
         /\ app' = [app EXCEPT ![s].files = @ \ {f},
                      ![s].kept = IF Verdict(s, f) = "keep" THEN @ \cup f.rels ELSE @,
                      ![s].left = IF Verdict(s, f) = "leave" THEN @ \cup f.rels ELSE @]
    /\ UNCHANGED <<dir, data, side, ilock, op, journal, acked, links>>

\* What the last write replaced is put back, not what the first one did.
BuggyUndo(s) ==
    /\ app[s].phase = "rolling"
    /\ \E f \in app[s].files : \E n \in f.rels :
         LET ws == journal[s].writes[f.key] IN
         /\ Verdict(s, f) \in {"restore", "remove"}
         /\ app' = [app EXCEPT ![s].phase = "undoing", ![s].files = @ \ {f}, ![s].file = {f}]
         /\ Start(s, Verdict(s, f), n, ws[Len(ws)].before, ws[Len(ws)].after)
    /\ UNCHANGED <<dir, data, side, ilock, journal, acked, links>>

Undo(s) ==
    /\ app[s].phase = "rolling"
    /\ \E f \in app[s].files : \E n \in f.rels :
         LET ws == journal[s].writes[f.key] IN
         /\ Verdict(s, f) \in {"restore", "remove"}
         /\ app' = [app EXCEPT ![s].phase = "undoing", ![s].files = @ \ {f}, ![s].file = {f}]
         /\ Start(s, Verdict(s, f), n, ws[1].before, ws[Len(ws)].after)
    /\ UNCHANGED <<dir, data, side, ilock, journal, acked, links>>

Undone(s) ==
    /\ app[s].phase = "undoing"
    /\ op[s].pc \in {"ok", "changed", "refused"}
    /\ \E f \in app[s].file :
         app' = [app EXCEPT ![s].phase = "rolling", ![s].file = {},
                   ![s].left = IF op[s].pc # "ok" THEN @ \cup f.rels ELSE @,
                   ![s].kept = IF op[s].pc = "ok" /\ FoundChanged(s, f) THEN @ \cup f.rels ELSE @]
    /\ op' = [op EXCEPT ![s] = NoOp]
    /\ UNCHANGED <<dir, data, side, ilock, journal, acked, links>>

UndoFailed(s) ==
    /\ app[s].phase = "undoing"
    /\ op[s].pc \in {"failed", "partly"}
    /\ op' = [op EXCEPT ![s] = NoOp]
    /\ End(s, "error")
    /\ UNCHANGED <<dir, data, side, ilock, acked, links>>

\* The rosters not kept must be as the snapshot had them (revisionWith).
EndRollback(s) ==
    /\ app[s].phase = "rolling" /\ app[s].files = {}
    /\ End(s, CASE app[s].left # {} -> "left"
                [] app[s].left = {} /\ (\A n \in Vault[s] \ app[s].kept : Content(n) = app[s].snap[n])
                     -> "rolledback"
                [] OTHER -> "error")
    /\ UNCHANGED <<dir, data, side, ilock, op, acked, links>>

----------------------------------------------------------------------------
Link(m, n) ==
    /\ Cardinality(links) < MaxLinks
    /\ AddLink(m, n)
    /\ links' = links \cup {[name |-> n, during |->
                    {s \in Sessions : app[s].phase \notin Ended \cup {"idle"}}]}
    /\ UNCHANGED <<app, journal, acked>>

\* The process ends mid-way: the kernel drops its flocks, what it had begun to
\* write in place stays as it is, and every apply it runs ends with it.
Crash ==
    LET dead == {t \in Sessions : app[t].phase \notin Ended} IN
    /\ \E s \in Sessions : app[s].phase \notin Ended \cup {"idle"}
    /\ side' = [n \in Names |-> IF side[n] \in dead THEN None ELSE side[n]]
    /\ ilock' = [i \in Inodes |-> IF ilock[i] \in dead THEN None ELSE ilock[i]]
    /\ op' = [p \in Actors |-> IF p \in dead THEN NoOp ELSE op[p]]
    /\ app' = [t \in Sessions |-> IF t \in dead THEN [NewApp EXCEPT !.phase = "crashed"] ELSE app[t]]
    /\ journal' = [t \in Sessions |-> IF t \in dead THEN NewJournal ELSE journal[t]]
    /\ UNCHANGED <<dir, data, acked, links>>

CrashCommand(p) ==
    /\ op[p].pc \in {"lock"} \cup Locked
    /\ Die(p)
    /\ UNCHANGED <<dir, data, app, journal, acked, links>>

\* Everyone has finished.
Idle ==
    /\ \A s \in Sessions : app[s].phase \in Ended
    /\ \A p \in Others : op[p].pc \in Results
    /\ UNCHANGED vars

Init ==
    /\ dir \in [Names -> Inodes \cup {None}]
    /\ data = [i \in Inodes |-> IF \E n \in Names : dir[n] = i THEN [torn |-> FALSE, has |-> {}]
                                                                     ELSE Absent]
    /\ side = [n \in Names |-> None]
    /\ ilock = [i \in Inodes |-> None]
    /\ op = [p \in Actors |-> NoOp]
    /\ app = [s \in Sessions |-> NewApp]
    /\ journal = [s \in Sessions |-> NewJournal]
    /\ acked = {}
    /\ links = {}

SessionStep(s) ==
    \/ Snapshot(s) \/ OpenJournal(s) \/ JournalBusy(s)
    \/ BeginStep(s) \/ EndStep(s) \/ FailStep(s) \/ Commit(s)
    \/ BeginRollback(s) \/ LeaveAlone(s) \/ Undo(s) \/ Undone(s) \/ UndoFailed(s) \/ EndRollback(s)

Next ==
    \/ \E p \in Actors : LockStep(p) \/ WriteStep(p) \/ WriteDone(p) \/ WritePartly(p)
    \/ \E p \in Others : Command(p) \/ CrashCommand(p)
    \/ \E s \in Sessions : SessionStep(s)
    \/ Crash
    \/ \E m, n \in Names : Link(m, n)
    \/ Idle

Spec == Init /\ [][Next]_vars

----------------------------------------------------------------------------
Phases == Ended \cup {"idle", "snapped", "ready", "step", "failed", "rolling", "undoing"}

Writes == [before : Contents, after : Bytes, failed : BOOLEAN]

Files(s) == [key : Keys, rels : SUBSET Vault[s]]

Snapshots(s) == [Vault[s] -> Contents]

AppType(s) == [phase : Phases, snap : {<<>>} \cup Snapshots(s),
               last : {<<>>} \cup Snapshots(s), now : {<<>>} \cup Snapshots(s),
               touched : SUBSET Vault[s], step : 0 .. Steps[s], wrote : SUBSET (Changes \X Names),
               files : SUBSET Files(s), file : SUBSET Files(s),
               kept : SUBSET Vault[s], left : SUBSET Vault[s]]

\* What an apply keeps, by the phases it keeps it in.
AppTypeOK(s, a) ==
    /\ a \in AppType(s)
    /\ a.phase \notin Ended \cup {"idle"} => a.snap \in Snapshots(s)
    /\ a.phase = "step" => a.last \in Snapshots(s) /\ a.step < Steps[s]
    /\ a.phase \in {"rolling", "undoing"} => a.now \in Snapshots(s)

JournalType == [state : {"closed", "open", "stopped"}, keys : SUBSET Keys,
                behind : SUBSET Sessions, writes : [Keys -> Seq(Writes)]]

TypeOK ==
    /\ FileTypeOK
    /\ DOMAIN app = Sessions /\ \A s \in Sessions : AppTypeOK(s, app[s])
    /\ journal \in [Sessions -> JournalType]
    /\ acked \subseteq Changes \X Names
    /\ links \subseteq [name : Names, during : SUBSET Sessions]

\* No hard link was made while an apply ran.
NoLinkDuringApply == \A l \in links : l.during = {}

\* A change whose writer was told it is made stays in the roster under the name
\* it was made through: no other writer overwrites it and no apply's rollback
\* undoes it.  Only a write in place that is cut short can hide it.  It holds of
\* another process's change whatever links are made, and of an apply's own unless
\* a roster gained a name while an apply ran: the first journal that watches the
\* file then takes the write for its apply's, whose rollback undoes it.
NoLostUpdate ==
    \A a \in acked : a[1][1] \in Others \/ NoLinkDuringApply =>
        LET c == Content(a[2]) IN c # Absent /\ (Torn(c) \/ a[1] \in c.has)

\* Whether some roster of s's workspace holds a change s made.
HoldsOwn(s) == \E n \in Vault[s] : Content(n) # Absent /\ ~Torn(Content(n)) /\ \E c \in Content(n).has : c[1] = s

\* An apply that reports a clean rollback has left none of its own changes in its
\* rosters, whoever wrote them meanwhile, unless a roster gained a name while an
\* apply ran: its key then changes, and changes back when another apply's
\* rollback removes the other name, so that one roster's writes are journalled
\* under two keys.
RollbackUndoesOwn ==
    NoLinkDuringApply => \A s \in Sessions : app[s].phase = "rolledback" => ~HoldsOwn(s)

\* Every write a journal holds is its own apply's (each added a change of that
\* apply to what it found), and never another apply's rollback, unless a roster
\* gained a name while an apply ran.
JournalOwnWrites ==
    NoLinkDuringApply => \A s \in Sessions, k \in Keys : \A i \in DOMAIN journal[s].writes[k] :
      LET w == journal[s].writes[k][i] IN
      \E c \in w.after.has : c[1] = s /\ (w.before = Absent \/ c \notin w.before.has)
=============================================================================
