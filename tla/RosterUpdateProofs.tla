---------------------------- MODULE RosterUpdateProofs ----------------------------
(***************************************************************************)
(* Proofs about what RosterApply's writers leave in the rosters: no        *)
(* acknowledged change is lost, a journal holds its own apply's writes     *)
(* only, and a clean rollback leaves none of its apply's changes.  Steps   *)
(* are first sorted by what they do to an operation, to the files and to   *)
(* an apply; each part of the invariant is then shown for these kinds of   *)
(* step.                                                                   *)
(***************************************************************************)
EXTENDS RosterProofs, SequenceTheorems

Storing == {"open", "replace", "inplace"}
Recording == {"ready", "step", "failed"}
Rolling == {"rolling", "undoing"}
Running == Recording \cup Rolling

----------------------------------------------------------------------------
(* The invariant *)

\* A journal records while its apply runs steps, and keeps its claim until the
\* rollback has ended; an operation of an apply belongs to its phase; the claims
\* of two applies do not meet.
StatesInv ==
    \A s \in Sessions : /\ journal[s].state = "open" <=> app[s].phase \in Recording
                        /\ journal[s].state = "stopped" <=> app[s].phase \in Rolling
OpOf(s, o) ==
    o.pc \in Active => /\ o.name \in Vault[s]
                       /\ app[s].phase = IF o.kind = "edit" THEN "step" ELSE "undoing"
ControlInv ==
    /\ StatesInv
    /\ \A s \in Sessions : OpOf(s, op[s])
    /\ \A p \in Others : op[p].kind = "edit" /\ op[p].rec = None
    /\ \A s \in Sessions : journal[s].keys \cap Names \subseteq Vault[s]
    /\ \A s, t \in Sessions : s # t /\ app[s].phase \in Running /\ app[t].phase \in Running =>
         Vault[s] \cap Vault[t] = {} /\ journal[s].keys \cap journal[t].keys = {}

----------------------------------------------------------------------------
(* Kinds of steps *)

\* The operation has ended, or there is none.
Quiet(o) == /\ o.pc \notin Active /\ o.kind = "edit" /\ o.ident = None /\ o.rec = None
            /\ o.want = Absent /\ o.expect = Absent /\ o.before = Absent
Alike(o, u) == /\ u.name = o.name /\ u.kind = o.kind /\ u.expect = o.expect
Only(p) == \A q \in Actors : q # p => op'[q] = op[q]
AppsStay == UNCHANGED <<app, journal, acked, links>>

\* It takes a lock, opens the file to replace it, or begins to write in place.
Locks(p) ==
    /\ op[p].pc \in {"lock", "inode"} /\ op'[p].pc \in {"inode", "held"} /\ data' = data
    /\ op'[p].pc = "inode" => op[p].pc = "lock" /\ op'[p].ident = op[p].ident
    /\ op'[p].pc = "held" => op'[p].ident = IF NeedsInodeLock(dir[op[p].name]) THEN dir[op[p].name]
                                                                               ELSE op[p].ident
Prepares(p) ==
    /\ op[p].pc = "open" /\ op'[p].pc = "replace" /\ data' = data
    /\ op'[p].fd = dir[op[p].name] /\ ~Linked(dir[op[p].name])
Tears(p) ==
    /\ op[p].pc \in {"open", "replace"} /\ op'[p].pc = "inplace"
    /\ dir[op[p].name] \in Inodes /\ ~GainedLink(p)
    /\ data' = [data EXCEPT ![dir[op[p].name]] = Tear(op[p].want)]
\* An operation goes on with what it has in hand.
Goes(p) ==
    /\ Locks(p) \/ Prepares(p) \/ Tears(p)
    /\ op[p].pc \in Active /\ op'[p].pc \in Active /\ Alike(op[p], op'[p])
    /\ op'[p].want = op[p].want /\ op'[p].before = op[p].before /\ op'[p].rec = op[p].rec
    /\ op'[p].pc \in Storing <=> op[p].pc \in Storing
    /\ \/ op'[p].ident = op[p].ident
       \/ op[p].pc \notin Storing /\ op'[p].ident = dir[op[p].name] /\ NeedsInodeLock(dir[op[p].name])
    /\ dir' = dir /\ AppsStay
    /\ data' = data \/ (op[p].pc \in Storing /\ \E i \in Inodes : data' = [data EXCEPT ![i] = Tear(op[p].want)])
\* It reads the roster and knows what to write.
Reads(p) ==
    LET cur == Content(op[p].name) IN
    /\ op[p].pc = "held" /\ op'[p].pc = "open" /\ Alike(op[p], op'[p])
    /\ op'[p].ident = op[p].ident /\ op'[p].before = cur
    /\ op'[p].rec \in Sessions \cup {None} /\ Recorder(p, op'[p].rec)
    /\ \/ op[p].kind = "edit" /\ ~Torn(cur) /\ op'[p].want = With(cur, ChangeOf(p))
       \/ op[p].kind = "restore" /\ cur = op[p].expect /\ op'[p].want = op[p].want
    /\ dir' = dir /\ data' = data /\ AppsStay
\* It ends without a write.
Stops(p) ==
    /\ Quiet(op'[p]) /\ op[p].pc \in Active /\ dir' = dir /\ data' = data /\ AppsStay
    /\ op'[p].pc = "ok" => Content(op[p].name) = op[p].want
    /\ op[p].pc = "inplace" => p \in Others
\* It removes the roster.
Removes(p) ==
    LET d == [dir EXCEPT ![op[p].name] = None] IN
    /\ Quiet(op'[p]) /\ op[p].pc = "held" /\ op[p].kind = "remove"
    /\ Content(op[p].name) = op[p].expect
    /\ dir' = d /\ data' = Kept(d, data) /\ AppsStay
\* Its write is in the roster.
Installs(p) ==
    \E i \in Inodes :
      LET d == [dir EXCEPT ![op[p].name] = i] IN
      /\ FreeInode(i) /\ dir' = d /\ data' = Kept(d, [data EXCEPT ![i] = op[p].want])
Stores(p) ==
    /\ Quiet(op'[p]) /\ op[p].pc \in Storing
    /\ \/ Installs(p) /\ (op[p].pc = "replace" \/ (op[p].pc = "open" /\ dir[op[p].name] = None))
       \/ op[p].pc = "inplace" /\ dir' = dir /\ data' = [data EXCEPT ![op[p].fd] = op[p].want]
    /\ Record(p, FALSE)
    /\ acked' = IF p \in Others THEN acked \cup {<<ChangeOf(p), op[p].name>>} ELSE acked
    /\ app' = IF p \in Sessions /\ op[p].kind = "edit"
                THEN [app EXCEPT ![p].wrote = @ \cup {<<ChangeOf(p), op[p].name>>}]
                ELSE app
    /\ links' = links
\* Its write in place was cut short.
Breaks(p) ==
    /\ Quiet(op'[p]) /\ op'[p].pc # "ok" /\ op[p].pc \in Storing /\ dir' = dir /\ data' = data
    /\ Record(p, TRUE) /\ UNCHANGED <<app, acked, links>>

LEMMA QuietNoOp == ASSUME NEW r, r \notin Active PROVE Quiet([NoOp EXCEPT !.pc = r])
BY DEF Quiet, NoOp

LEMMA QuietFinish ==
  ASSUME IInv, NEW p \in Actors, NEW r \in Results, Finish(p, r)
  PROVE  Quiet(op'[p]) /\ Only(p) /\ op'[p].pc = r
<1>1. op \in [Actors -> OpType]
  BY DEF IInv, FileInv, FileTypeOK
<1>2. op' = [op EXCEPT ![p] = [NoOp EXCEPT !.pc = r]]
  BY DEF Finish
<1>3. r \notin Active
  BY DEF Results, Active, Locked
<1>4. op'[p] = [NoOp EXCEPT !.pc = r] /\ Only(p)
  BY <1>1, <1>2 DEF Only
<1>5. op'[p].pc = r
  BY <1>4 DEF NoOp
<1> QED BY <1>3, <1>4, <1>5, QuietNoOp

\* What a step of an operation is.
LEMMA LockShape ==
  ASSUME IInv, NEW p \in Actors, LockStep(p)
  PROVE  Only(p) /\ (Goes(p) \/ Reads(p) \/ Stops(p) \/ Removes(p))
<1>0. op \in [Actors -> OpType] /\ AppsStay
  BY DEF IInv, FileInv, FileTypeOK, LockStep, AppsStay
<1>1. ASSUME TakeSidecars(p) \/ LockInode(p) PROVE Only(p) /\ Goes(p)
  <2>1. op[p].pc \in Active /\ op'[p].pc \in Active /\ op[p].pc \notin Storing /\ op'[p].pc \notin Storing
    BY <1>0, <1>1 DEF TakeSidecars, LockInode, Active, Locked, Storing, OpType
  <2>2. Only(p) /\ Alike(op[p], op'[p]) /\ op'[p].want = op[p].want /\ op'[p].before = op[p].before
        /\ op'[p].rec = op[p].rec /\ dir' = dir /\ data' = data
    BY <1>0, <1>1 DEF TakeSidecars, LockInode, Only, Alike, OpType
  <2>3. op'[p].ident = op[p].ident \/ (op'[p].ident = dir[op[p].name] /\ NeedsInodeLock(dir[op[p].name]))
    BY <1>0, <1>1 DEF TakeSidecars, LockInode, OpType
  <2>4. Locks(p)
    BY <1>0, <1>1, <2>2 DEF TakeSidecars, LockInode, Locks, OpType
  <2> QED BY <1>0, <2>1, <2>2, <2>3, <2>4 DEF Goes
<1>2. ASSUME SidecarsHeld(p) \/ InodeHeld(p) \/ Abandon(p) PROVE Only(p) /\ Stops(p)
  <2>1. /\ op[p].pc \in Active /\ Finish(p, "refused") /\ "refused" \in Results /\ dir' = dir /\ data' = data
        /\ op[p].pc # "inplace"
    BY <1>2 DEF SidecarsHeld, InodeHeld, Abandon, Active, Locked, Results
  <2> QED BY <1>0, <2>1, QuietFinish DEF Stops
<1>3. ASSUME NEW t \in Sessions \cup {None}, Recorder(p, t), ReadRoster(p, ChangeOf(p), t)
      PROVE Only(p) /\ Reads(p)
  BY <1>0, <1>3 DEF ReadRoster, Reads, Only, Alike, OpType
<1>4. ASSUME NEW t \in Sessions \cup {None}, Recorder(p, t), CheckRestore(p, t)
      PROVE Only(p) /\ (Reads(p) \/ Stops(p))
  <2>1. dir' = dir /\ data' = data /\ op[p].pc \in Active /\ op[p].pc = "held" /\ op[p].kind = "restore"
    BY <1>4 DEF CheckRestore, Active, Locked
  <2>2. CASE \E r \in Results : Finish(p, r) /\ (r = "ok" => Content(op[p].name) = op[p].want)
    BY <1>0, <2>1, <2>2, QuietFinish DEF Stops
  <2>3. CASE /\ Content(op[p].name) = op[p].expect
             /\ op' = [op EXCEPT ![p].pc = "open", ![p].before = Content(op[p].name), ![p].rec = t]
    BY <1>0, <1>4, <2>1, <2>3 DEF Reads, Only, Alike, OpType
  <2> QED BY <1>4, <2>2, <2>3 DEF CheckRestore, Results
<1>5. ASSUME CheckRemove(p) PROVE Only(p) /\ (Removes(p) \/ Stops(p))
  <2>1. op[p].pc \in Active /\ op[p].pc = "held" /\ op[p].kind = "remove"
    BY <1>5 DEF CheckRemove, Active, Locked
  <2>2. PICK r \in Results : Finish(p, r) /\ (Content(op[p].name) # op[p].expect => r # "ok")
    BY <1>5 DEF CheckRemove, Results
  <2>3. Quiet(op'[p]) /\ Only(p) /\ op'[p].pc = r
    BY <2>2, QuietFinish
  <2> QED BY <1>0, <1>5, <2>1, <2>2, <2>3 DEF CheckRemove, Removes, Stops
<1> QED BY <1>1, <1>2, <1>3, <1>4, <1>5 DEF LockStep

LEMMA WriteShape ==
  ASSUME IInv, NEW p \in Actors, WriteStep(p)
  PROVE  Only(p) /\ (Goes(p) \/ Stops(p))
<1>0. op \in [Actors -> OpType] /\ AppsStay
  BY DEF IInv, FileInv, FileTypeOK, WriteStep, AppsStay
<1>1. ASSUME OpenRefused(p) \/ OpenFailed(p) PROVE Only(p) /\ Stops(p)
  <2>1. /\ op[p].pc \in Active /\ op[p].pc # "inplace" /\ dir' = dir /\ data' = data
        /\ \E r \in Results \ {"ok"} : Finish(p, r)
    BY <1>1 DEF OpenRefused, OpenFailed, Active, Locked, Results
  <2> QED BY <1>0, <2>1, QuietFinish DEF Stops
<1>2. ASSUME BeginInPlace(p) \/ BeginReplace(p) \/ RenameRefused(p) PROVE Only(p) /\ Goes(p)
  <2>1. op[p].pc \in Active /\ op'[p].pc \in Active /\ op[p].pc \in Storing /\ op'[p].pc \in Storing
    BY <1>0, <1>2 DEF BeginInPlace, BeginReplace, RenameRefused, Active, Locked, Storing, OpType
  <2>2. Only(p) /\ Alike(op[p], op'[p]) /\ op'[p].want = op[p].want /\ op'[p].before = op[p].before
        /\ op'[p].rec = op[p].rec /\ op'[p].ident = op[p].ident /\ dir' = dir
    BY <1>0, <1>2 DEF BeginInPlace, BeginReplace, RenameRefused, Only, Alike, OpType
  <2>3. dir[op[p].name] \in Inodes \cup {None}
    BY <2>1, OpFacts DEF IInv, Active
  <2>4. op[p].pc = "replace" => op[p].fd \in Inodes
    BY DEF IInv, FileInv, WritesOwned, Writing
  <2>5. data' = data \/ \E i \in Inodes : data' = [data EXCEPT ![i] = Tear(op[p].want)]
    BY <1>2, <2>3, <2>4 DEF BeginInPlace, BeginReplace, RenameRefused
  <2>6. Prepares(p) \/ Tears(p)
    <3>1. CASE BeginReplace(p)
      BY <1>0, <3>1 DEF BeginReplace, Prepares, OpType
    <3>2. CASE BeginInPlace(p)
      BY <1>0, <2>3, <3>2 DEF BeginInPlace, Tears, OpType
    <3>3. CASE RenameRefused(p)
      <4>1. op[p].fd = dir[op[p].name] /\ op[p].fd \in Inodes /\ (Linked(op[p].fd) => op[p].ident = op[p].fd)
        BY <3>3 DEF RenameRefused, IInv, FileInv, WritesOwned, Writing
      <4>2. ~GainedLink(p)
        BY <4>1, DistinctMarks DEF GainedLink
      <4> QED BY <1>0, <3>3, <4>1, <4>2 DEF RenameRefused, Tears, OpType
    <3> QED BY <1>2, <3>1, <3>2, <3>3
  <2> QED BY <1>0, <2>1, <2>2, <2>5, <2>6 DEF Goes
<1> QED BY <1>1, <1>2 DEF WriteStep

LEMMA DoneShape ==
  ASSUME IInv, NEW p \in Actors
  PROVE  /\ WriteDone(p) => Only(p) /\ Stores(p)
         /\ WritePartly(p) => Only(p) /\ Breaks(p)
<1>1. ASSUME WriteDone(p) PROVE Only(p) /\ Stores(p)
  <2>1. op[p].pc \in Storing /\ Finish(p, "ok") /\ "ok" \in Results
    BY <1>1 DEF WriteDone, Install, EndInPlace, Storing, Results
  <2>2. \/ Installs(p) /\ (op[p].pc = "replace" \/ (op[p].pc = "open" /\ dir[op[p].name] = None))
        \/ op[p].pc = "inplace" /\ dir' = dir /\ data' = [data EXCEPT ![op[p].fd] = op[p].want]
    BY <1>1 DEF WriteDone, Install, EndInPlace, Installs
  <2> QED BY <1>1, <2>1, <2>2, QuietFinish DEF WriteDone, Stores
<1>2. ASSUME WritePartly(p) PROVE Only(p) /\ Breaks(p)
  <2>1. op[p].pc \in Storing /\ Finish(p, "partly") /\ "partly" \in Results /\ dir' = dir /\ data' = data
    BY <1>2 DEF WritePartly, FailInPlace, Storing, Results
  <2> QED BY <1>2, <2>1, QuietFinish DEF WritePartly, Breaks
<1> QED BY <1>1, <1>2

\* A command or an apply starts an operation.
Starts(p) ==
    /\ op'[p].pc = "lock" /\ op'[p].ident = None /\ op'[p].rec = None /\ op'[p].before = Absent
StartsEdit(p) == /\ Starts(p) /\ op'[p].kind = "edit" /\ op'[p].want = Absent /\ op'[p].expect = Absent
StartsUndo(s) ==
    /\ Starts(s) /\ op'[s].kind \in {"restore", "remove"}
    /\ \E k \in Keys : LET ws == journal[s].writes[k] IN
         /\ ws # <<>> /\ ~Broken(ws)
         /\ op'[s].want = ws[1].before /\ op'[s].expect = ws[Len(ws)].after
         /\ op'[s].kind = "remove" => ws[1].before = Absent

\* A command begins or dies.
Comes(p) == /\ Quiet(op[p]) /\ StartsEdit(p) /\ dir' = dir /\ data' = data /\ AppsStay

\* Steps of an apply leave the files and the other applies alone.
Alone(s) ==
    /\ Only(s) /\ UNCHANGED <<dir, data, side, ilock, links>>
    /\ \A t \in Sessions : t # s => app'[t] = app[t] /\ journal'[t] = journal[t]
Snaps(s) ==
    /\ app[s].phase = "idle" /\ app'[s].phase = "snapped" /\ app'[s].snap = Entries(s)
    /\ app'[s].step = app[s].step /\ app'[s].wrote = app[s].wrote
    /\ UNCHANGED <<op, journal, acked>>
Opens(s) ==
    /\ app[s].phase = "snapped" /\ app'[s].phase = "ready" /\ ~Claimed(s)
    /\ app'[s].step = app[s].step /\ app'[s].wrote = app[s].wrote
    /\ journal'[s].state = "open" /\ journal'[s].keys = WatchedKeys(s)
    /\ \A k \in Keys : journal'[s].writes[k] = <<>>
    /\ UNCHANGED <<op, acked>>
Closes(s) ==
    /\ app[s].phase \notin Ended \cup {"step"}
    /\ app[s].phase = "undoing" => Quiet(op'[s])
    /\ app'[s].phase \in Ended /\ app'[s].wrote = {} /\ journal'[s] = NewJournal
    /\ op'[s] = op[s] \/ Quiet(op'[s])
    /\ \/ acked' = acked
       \/ app[s].phase = "ready" /\ app'[s].phase = "committed" /\ acked' = acked \cup app[s].wrote
\* An apply on its way from one phase to the next.
Turns(s, from, to) ==
    /\ app[s].phase \in from /\ app'[s].phase = to
Moves(s) ==
    /\ journal'[s].keys = journal[s].keys /\ journal'[s].writes = journal[s].writes
    /\ app'[s].wrote = app[s].wrote /\ acked' = acked
    /\ \/ /\ Turns(s, {"ready"}, "step") /\ (op'[s] = op[s] \/ (StartsEdit(s) /\ op'[s].name \in Vault[s]))
          /\ app'[s].step = app[s].step /\ journal'[s].state = journal[s].state
       \/ /\ Turns(s, {"step"}, "ready") /\ Quiet(op'[s])
          /\ app'[s].step = app[s].step + 1 /\ journal'[s].state = journal[s].state
       \/ /\ Turns(s, {"step"}, "failed") /\ Quiet(op'[s])
          /\ journal'[s].state = journal[s].state
       \/ /\ Turns(s, {"ready", "failed"}, "rolling") /\ op'[s] = op[s] /\ journal'[s].state = "stopped"
       \/ /\ Turns(s, {"rolling"}, "rolling") /\ op'[s] = op[s] /\ journal'[s].state = journal[s].state
       \/ /\ Turns(s, {"rolling"}, "undoing") /\ StartsUndo(s) /\ op'[s].name \in Vault[s]
          /\ journal'[s].state = journal[s].state
       \/ /\ Turns(s, {"undoing"}, "rolling") /\ Quiet(op'[s]) /\ journal'[s].state = journal[s].state

LEMMA QuietForget ==
  ASSUME IInv, NEW p \in Actors, op' = [op EXCEPT ![p] = NoOp]
  PROVE  Quiet(op'[p]) /\ Only(p)
<1>1. op \in [Actors -> OpType]
  BY DEF IInv, FileInv, FileTypeOK
<1>2. "none" \notin Active /\ NoOp = [NoOp EXCEPT !.pc = "none"]
  BY DEF NoOp, Active, Locked
<1>3. Quiet(NoOp)
  BY <1>2, QuietNoOp
<1> QED BY <1>1, <1>3 DEF Only

LEMMA StartFacts ==
  ASSUME IInv, NEW p \in Actors, NEW kind, NEW n, NEW want, NEW expect, Start(p, kind, n, want, expect)
  PROVE  /\ Only(p) /\ Starts(p)
         /\ op'[p].kind = kind /\ op'[p].name = n /\ op'[p].want = want /\ op'[p].expect = expect
<1>1. op \in [Actors -> OpType]
  BY DEF IInv, FileInv, FileTypeOK
<1>2. op'[p] = [NoOp EXCEPT !.pc = "lock", !.kind = kind, !.name = n, !.want = want, !.expect = expect]
      /\ Only(p)
  BY <1>1 DEF Start, Only
<1> QED BY <1>2 DEF NoOp, Starts

LEMMA CommandShape ==
  ASSUME IInv, NEW p \in Others
  PROVE  /\ Command(p) => Only(p) /\ Comes(p)
         /\ CrashCommand(p) => Only(p) /\ Stops(p)
<1>0. p \in Actors
  BY ActorsAreTheWriters
<1>1. ASSUME Command(p) PROVE Only(p) /\ Comes(p)
  <2>1. PICK n \in Names : Start(p, "edit", n, Absent, Absent)
    BY <1>1 DEF Command
  <2>2. Quiet(op[p])
    <3>1. "none" \notin Active /\ NoOp = [NoOp EXCEPT !.pc = "none"]
      BY DEF NoOp, Active, Locked
    <3> QED BY <1>1, <3>1, QuietNoOp DEF Command
  <2>3. Only(p) /\ StartsEdit(p)
    BY <1>0, <2>1, StartFacts DEF StartsEdit
  <2> QED BY <1>1, <2>2, <2>3 DEF Command, Comes, AppsStay
<1>2. ASSUME CrashCommand(p) PROVE Only(p) /\ Stops(p)
  <2>1. op' = [op EXCEPT ![p] = NoOp] /\ op[p].pc \in Active /\ dir' = dir /\ data' = data /\ AppsStay
    BY <1>2 DEF CrashCommand, Die, Active, AppsStay
  <2>2. op'[p].pc # "ok"
    BY <1>0, <2>1 DEF NoOp, IInv, FileInv, FileTypeOK
  <2> QED BY <1>0, <2>1, <2>2, QuietForget DEF Stops
<1> QED BY <1>1, <1>2

\* app' and journal' for a step that touches one apply.
LEMMA AppIs ==
  ASSUME IInv, NEW s \in Sessions, NEW a, app' = [app EXCEPT ![s] = a]
  PROVE  app'[s] = a /\ \A t \in Sessions : t # s => app'[t] = app[t]
BY DEF IInv, AppsOK

LEMMA JournalIs ==
  ASSUME IInv, NEW s \in Sessions, NEW j, journal' = [journal EXCEPT ![s] = j]
  PROVE  journal'[s] = j /\ \A t \in Sessions : t # s => journal'[t] = journal[t]
BY DEF IInv, JournalsOK

LEMMA SnapShape ==
  ASSUME IInv, NEW s \in Sessions, Snapshot(s)
  PROVE  Alone(s) /\ Snaps(s)
<1>1. app[s] \in AppType(s) /\ DOMAIN app = Sessions
  BY DEF IInv, AppsOK, AppTypeOK
<1>2. app' = [app EXCEPT ![s] = [app[s] EXCEPT !.phase = "snapped", !.snap = Entries(s)]]
  BY <1>1 DEF Snapshot
<1>3. /\ app'[s] = [app[s] EXCEPT !.phase = "snapped", !.snap = Entries(s)]
      /\ \A t \in Sessions : t # s => app'[t] = app[t]
  BY <1>1, <1>2
<1>4. app'[s].phase = "snapped" /\ app'[s].snap = Entries(s) /\ app'[s].step = app[s].step /\ app'[s].wrote = app[s].wrote
  BY <1>1, <1>3 DEF AppType
<1> QED BY <1>3, <1>4 DEF Snapshot, Snaps, Alone, Only

LEMMA OpenShape ==
  ASSUME IInv, NEW s \in Sessions, OpenJournal(s)
  PROVE  Alone(s) /\ Opens(s)
<1> DEFINE keys == WatchedKeys(s)
           behind == {t \in Sessions : journal[t].state # "closed"}
           j == [NewJournal EXCEPT !.state = "open", !.keys = keys, !.behind = behind]
<1>1. app[s] \in AppType(s) /\ DOMAIN app = Sessions
  BY DEF IInv, AppsOK, AppTypeOK
<1>2. app' = [app EXCEPT ![s] = [app[s] EXCEPT !.phase = "ready"]] /\ journal' = [journal EXCEPT ![s] = j]
  BY <1>1 DEF OpenJournal
<1> HIDE DEF keys, behind
<1>3. j.state = "open" /\ j.keys = keys /\ \A k \in Keys : j.writes[k] = <<>>
  BY DEF NewJournal
<1> HIDE DEF j
<1>4. journal'[s] = j /\ \A t \in Sessions : t # s => journal'[t] = journal[t]
  BY <1>2, JournalIs
<1>5. /\ app'[s] = [app[s] EXCEPT !.phase = "ready"]
      /\ \A t \in Sessions : t # s => app'[t] = app[t]
  BY <1>1, <1>2
<1>6. app'[s].phase = "ready" /\ app'[s].step = app[s].step /\ app'[s].wrote = app[s].wrote
  BY <1>1, <1>5 DEF AppType
<1> QED BY <1>3, <1>4, <1>5, <1>6 DEF OpenJournal, Opens, Alone, Only, keys

LEMMA CloseShape ==
  ASSUME IInv, NEW s \in Sessions, JournalBusy(s) \/ Commit(s) \/ EndRollback(s) \/ UndoFailed(s)
  PROVE  Alone(s) /\ Closes(s)
<1>0. s \in Actors
  BY SessionsAct
<1>1. PICK phase \in Ended : End(s, phase) /\ (Commit(s) => phase = "committed")
  BY DEF JournalBusy, Commit, EndRollback, UndoFailed, Ended
<1>2. /\ app'[s] = [NewApp EXCEPT !.phase = phase] /\ journal'[s] = NewJournal
      /\ \A t \in Sessions : t # s => app'[t] = app[t] /\ journal'[t] = journal[t]
  BY <1>1 DEF End, IInv, AppsOK, JournalsOK
<1>3. app'[s].phase = phase /\ app'[s].wrote = {}
  BY <1>2 DEF NewApp
<1>4. /\ Only(s) /\ (op'[s] = op[s] \/ Quiet(op'[s])) /\ (app[s].phase = "undoing" => Quiet(op'[s]))
      /\ UNCHANGED <<dir, data, side, ilock, links>>
  <2>1. CASE UndoFailed(s)
    BY <1>0, <2>1, QuietForget DEF UndoFailed
  <2>2. CASE JournalBusy(s) \/ Commit(s) \/ EndRollback(s)
    BY <2>2 DEF JournalBusy, Commit, EndRollback, Only
  <2> QED BY <2>1, <2>2
<1>5. app[s].phase \notin Ended \cup {"step"}
  BY DEF JournalBusy, Commit, EndRollback, UndoFailed, Ended
<1>6. \/ acked' = acked
      \/ app[s].phase = "ready" /\ app'[s].phase = "committed" /\ acked' = acked \cup app[s].wrote
  BY <1>1, <1>3 DEF JournalBusy, Commit, EndRollback, UndoFailed
<1> QED BY <1>1, <1>2, <1>3, <1>4, <1>5, <1>6 DEF Alone, Closes

\* The parts of an apply that the invariant is about, in an updated record.
LEMMA MoveShape ==
  ASSUME IInv, NEW s \in Sessions,
         \/ BeginStep(s) \/ EndStep(s) \/ FailStep(s) \/ BeginRollback(s) \/ LeaveAlone(s)
         \/ Undo(s) \/ Undone(s)
  PROVE  Alone(s) /\ Moves(s)
<1>0. s \in Actors /\ app[s] \in AppType(s) /\ DOMAIN app = Sessions /\ journal[s] \in JournalType
  BY SessionsAct DEF IInv, AppsOK, AppTypeOK, JournalsOK
<1>1. CASE BeginStep(s)
  <2>1. app' = [app EXCEPT ![s] = [app[s] EXCEPT !.phase = "step", !.last = Entries(s)]]
    BY <1>0, <1>1 DEF BeginStep
  <2>2. /\ app'[s] = [app[s] EXCEPT !.phase = "step", !.last = Entries(s)]
        /\ \A t \in Sessions : t # s => app'[t] = app[t]
    BY <1>0, <2>1
  <2>3. app'[s].phase = "step" /\ app'[s].step = app[s].step /\ app'[s].wrote = app[s].wrote
    BY <1>0, <2>2 DEF AppType
  <2>4. Only(s) /\ (op'[s] = op[s] \/ (StartsEdit(s) /\ op'[s].name \in Vault[s]))
    <3>1. CASE UNCHANGED op
      BY <3>1 DEF Only
    <3>2. ASSUME NEW n \in Vault[s], Start(s, "edit", n, Absent, Absent)
          PROVE  Only(s) /\ StartsEdit(s) /\ op'[s].name \in Vault[s]
      BY <1>0, <3>2, StartFacts DEF StartsEdit
    <3> QED BY <1>1, <3>1, <3>2 DEF BeginStep
  <2> QED BY <1>1, <2>2, <2>3, <2>4 DEF BeginStep, Alone, Moves, Turns
<1>2. CASE EndStep(s) \/ FailStep(s)
  <2>0. \A t \in Sessions : t # s => app'[t] = app[t]
    BY <1>0, <1>2 DEF EndStep, FailStep
  <2>1. Quiet(op'[s]) /\ Only(s)
    BY <1>0, <1>2, QuietForget DEF EndStep, FailStep
  <2>2. CASE EndStep(s)
    <3> DEFINE touched == Touched(s)
               next == app[s].step + 1
    <3>1. app'[s] = [app[s] EXCEPT !.phase = "ready", !.touched = touched, !.step = next, !.last = <<>>]
      BY <1>0, <2>2 DEF EndStep
    <3> HIDE DEF touched, next
    <3>2. app'[s].phase = "ready" /\ app'[s].step = next /\ app'[s].wrote = app[s].wrote
      BY <1>0, <3>1 DEF AppType
    <3> QED BY <2>0, <2>1, <2>2, <3>2 DEF EndStep, Alone, Moves, Turns, next
  <2>3. CASE FailStep(s)
    <3> DEFINE touched == Touched(s)
    <3>1. app'[s] = [app[s] EXCEPT !.phase = "failed", !.touched = touched, !.last = <<>>]
      BY <1>0, <2>3 DEF FailStep
    <3> HIDE DEF touched
    <3>2. app'[s].phase = "failed" /\ app'[s].wrote = app[s].wrote
      BY <1>0, <3>1 DEF AppType
    <3> QED BY <2>0, <2>1, <2>3, <3>2 DEF FailStep, Alone, Moves, Turns
  <2> QED BY <1>2, <2>2, <2>3
<1>3. CASE BeginRollback(s)
  <2>1. PICK files : app' = [app EXCEPT ![s].phase = "rolling", ![s].now = Entries(s), ![s].files = files]
    BY <1>3 DEF BeginRollback
  <2>2. /\ app'[s] = [app[s] EXCEPT !.phase = "rolling", !.now = Entries(s), !.files = files]
        /\ \A t \in Sessions : t # s => app'[t] = app[t]
    BY <1>0, <2>1
  <2>3. app'[s].phase = "rolling" /\ app'[s].wrote = app[s].wrote
    BY <1>0, <2>2 DEF AppType
  <2>4. journal' = [journal EXCEPT ![s] = [journal[s] EXCEPT !.state = "stopped"]]
    BY <1>0, <1>3 DEF BeginRollback, IInv, JournalsOK
  <2>5. /\ journal'[s] = [journal[s] EXCEPT !.state = "stopped"]
        /\ \A t \in Sessions : t # s => journal'[t] = journal[t]
    BY <2>4, JournalIs
  <2>6. journal'[s].state = "stopped" /\ journal'[s].keys = journal[s].keys /\ journal'[s].writes = journal[s].writes
    BY <1>0, <2>5 DEF JournalType
  <2> QED BY <1>3, <2>2, <2>3, <2>5, <2>6 DEF BeginRollback, Alone, Only, Moves, Turns
<1>4. CASE LeaveAlone(s)
  <2>1. PICK f \in app[s].files :
          app' = [app EXCEPT ![s].files = @ \ {f},
                    ![s].kept = IF Verdict(s, f) = "keep" THEN @ \cup f.rels ELSE @,
                    ![s].left = IF Verdict(s, f) = "leave" THEN @ \cup f.rels ELSE @]
    BY <1>4 DEF LeaveAlone
  <2> DEFINE files == app[s].files \ {f}
             kept == IF Verdict(s, f) = "keep" THEN app[s].kept \cup f.rels ELSE app[s].kept
             left == IF Verdict(s, f) = "leave" THEN app[s].left \cup f.rels ELSE app[s].left
  <2>2. /\ app'[s] = [app[s] EXCEPT !.files = files, !.kept = kept, !.left = left]
        /\ \A t \in Sessions : t # s => app'[t] = app[t]
    BY <1>0, <2>1
  <2> HIDE DEF files, kept, left
  <2>3. app'[s].phase = app[s].phase /\ app'[s].wrote = app[s].wrote
    BY <1>0, <2>2 DEF AppType
  <2> QED BY <1>4, <2>2, <2>3 DEF LeaveAlone, Alone, Only, Moves, Turns
<1>5. CASE Undo(s)
  <2>1. PICK f \in app[s].files : \E n \in f.rels :
          LET ws == journal[s].writes[f.key] IN
          /\ Verdict(s, f) \in {"restore", "remove"}
          /\ app' = [app EXCEPT ![s].phase = "undoing", ![s].files = @ \ {f}, ![s].file = {f}]
          /\ Start(s, Verdict(s, f), n, ws[1].before, ws[Len(ws)].after)
    BY <1>5 DEF Undo
  <2> DEFINE ws == journal[s].writes[f.key]
  <2>2. PICK n \in f.rels : Start(s, Verdict(s, f), n, ws[1].before, ws[Len(ws)].after)
    BY <2>1
  <2>3. f.key \in Keys /\ n \in Vault[s]
    BY <1>0 DEF AppType, Files
  <2>4. /\ app'[s] = [app[s] EXCEPT !.phase = "undoing", !.files = @ \ {f}, !.file = {f}]
        /\ \A t \in Sessions : t # s => app'[t] = app[t]
    BY <1>0, <2>1
  <2>5. app'[s].phase = "undoing" /\ app'[s].wrote = app[s].wrote
    BY <1>0, <2>4 DEF AppType
  <2>6. Verdict(s, f) \in {"restore", "remove"}
    BY <2>1
  <2>7. ws # <<>> /\ ~Broken(ws)
    BY <2>6 DEF Verdict
  <2>8. Verdict(s, f) = "remove" => ws[1].before = Absent
    BY <2>6, <2>7 DEF Verdict
  <2> HIDE DEF ws
  <2>9. /\ Only(s) /\ Starts(s) /\ op'[s].kind = Verdict(s, f) /\ op'[s].name = n
        /\ op'[s].want = ws[1].before /\ op'[s].expect = ws[Len(ws)].after
    BY <1>0, <2>2, StartFacts
  <2>10. StartsUndo(s)
    BY <2>3, <2>6, <2>7, <2>8, <2>9 DEF StartsUndo, ws
  <2> QED BY <1>5, <2>3, <2>4, <2>5, <2>9, <2>10 DEF Undo, Alone, Moves, Turns
<1>6. CASE Undone(s)
  <2>1. PICK f \in app[s].file :
          app' = [app EXCEPT ![s].phase = "rolling", ![s].file = {},
                    ![s].left = IF op[s].pc # "ok" THEN @ \cup f.rels ELSE @,
                    ![s].kept = IF op[s].pc = "ok" /\ FoundChanged(s, f) THEN @ \cup f.rels ELSE @]
    BY <1>6 DEF Undone
  <2> DEFINE left == IF op[s].pc # "ok" THEN app[s].left \cup f.rels ELSE app[s].left
             kept == IF op[s].pc = "ok" /\ FoundChanged(s, f) THEN app[s].kept \cup f.rels ELSE app[s].kept
  <2>2. /\ app'[s] = [app[s] EXCEPT !.phase = "rolling", !.file = {}, !.left = left, !.kept = kept]
        /\ \A t \in Sessions : t # s => app'[t] = app[t]
    BY <1>0, <2>1
  <2> HIDE DEF left, kept
  <2>3. app'[s].phase = "rolling" /\ app'[s].wrote = app[s].wrote
    BY <1>0, <2>2 DEF AppType
  <2>4. Quiet(op'[s]) /\ Only(s)
    BY <1>0, <1>6, QuietForget DEF Undone
  <2> QED BY <1>6, <2>2, <2>3, <2>4 DEF Undone, Alone, Moves, Turns
<1> QED BY <1>1, <1>2, <1>3, <1>4, <1>5, <1>6

\* The process dies, with every apply it runs.
Dies ==
    /\ UNCHANGED <<dir, data, acked, links>>
    /\ \A p \in Actors : op'[p] = op[p] \/ Quiet(op'[p])
    /\ \A p \in Others : op'[p] = op[p]
    /\ \A s \in Sessions :
         \/ /\ app'[s] = app[s] /\ journal'[s] = journal[s] /\ app[s].phase \in Ended
            /\ op'[s] = op[s]
         \/ /\ app[s].phase \notin Ended /\ app'[s].phase = "crashed" /\ app'[s].wrote = {}
            /\ journal'[s] = NewJournal /\ Quiet(op'[s])

LEMMA CrashShape == ASSUME IInv, Crash PROVE Dies
<1> DEFINE dead == {t \in Sessions : app[t].phase \notin Ended}
           gone == [NewApp EXCEPT !.phase = "crashed"]
<1>1. /\ op' = [p \in Actors |-> IF p \in dead THEN NoOp ELSE op[p]]
      /\ app' = [t \in Sessions |-> IF t \in dead THEN gone ELSE app[t]]
      /\ journal' = [t \in Sessions |-> IF t \in dead THEN NewJournal ELSE journal[t]]
      /\ UNCHANGED <<dir, data, acked, links>>
  BY DEF Crash
<1>2. gone.phase = "crashed" /\ gone.wrote = {}
  BY DEF NewApp
<1>3. Quiet(NoOp)
  <2>1. "none" \notin Active /\ NoOp = [NoOp EXCEPT !.pc = "none"]
    BY DEF NoOp, Active, Locked
  <2> QED BY <2>1, QuietNoOp
<1> HIDE DEF gone
<1> QED BY <1>1, <1>2, <1>3, ActorsAreTheWriters DEF Dies

\* Every step is of one of these kinds.
Kinds ==
    \/ \E p \in Actors : /\ Only(p)
                         /\ Goes(p) \/ Reads(p) \/ Stops(p) \/ Removes(p) \/ Stores(p) \/ Breaks(p)
    \/ \E p \in Others : Only(p) /\ Comes(p)
    \/ \E s \in Sessions : /\ SessionStep(s) /\ Alone(s)
                           /\ Snaps(s) \/ Opens(s) \/ Closes(s) \/ Moves(s)
    \/ Dies
    \/ \E m, n \in Names : Link(m, n)
    \/ UNCHANGED vars

LEMMA StepKinds == ASSUME IInv, [Next]_vars PROVE Kinds
<1>1. ASSUME NEW p \in Actors, LockStep(p) \/ WriteStep(p) \/ WriteDone(p) \/ WritePartly(p)
      PROVE  Only(p) /\ (Goes(p) \/ Reads(p) \/ Stops(p) \/ Removes(p) \/ Stores(p) \/ Breaks(p))
  BY <1>1, LockShape, WriteShape, DoneShape
<1>2. ASSUME NEW p \in Others, Command(p) \/ CrashCommand(p)
      PROVE  p \in Actors /\ Only(p) /\ (Comes(p) \/ Stops(p))
  BY <1>2, CommandShape, ActorsAreTheWriters
<1>3. ASSUME NEW s \in Sessions, SessionStep(s)
      PROVE  SessionStep(s) /\ Alone(s) /\ (Snaps(s) \/ Opens(s) \/ Closes(s) \/ Moves(s))
  BY <1>3, SnapShape, OpenShape, CloseShape, MoveShape DEF SessionStep
<1>4. Crash => Dies
  BY CrashShape
<1> QED BY <1>1, <1>2, <1>3, <1>4 DEF Next, Idle, Kinds

----------------------------------------------------------------------------
(* What the kinds of steps leave alone *)

\* What a write adds to the journals.
WriteOf(p, failed) == [before |-> op[p].before, after |-> op[p].want, failed |-> failed]
LEMMA RecordFacts ==
  ASSUME IInv, NEW p \in Actors, op[p].pc \in Storing, NEW failed \in BOOLEAN, Record(p, failed)
  PROVE  \A t \in Sessions :
           /\ journal'[t].state = journal[t].state /\ journal'[t].keys = journal[t].keys
           /\ \A k \in Keys : \/ journal'[t].writes[k] = journal[t].writes[k]
                              \/ /\ t = op[p].rec /\ k = LockKey(op[p])
                                 /\ journal'[t].writes[k] = Append(journal[t].writes[k], WriteOf(p, failed))
           /\ t = op[p].rec /\ journal[t].state = "open" =>
                journal'[t].writes[LockKey(op[p])] # <<>>
<1> DEFINE t == op[p].rec
           k == LockKey(op[p])
           w == WriteOf(p, failed)
<1>1. op[p] \in OpType /\ op[p].name \in Names
  BY OpFacts DEF IInv, Storing, Locked
<1>2. k \in Keys
  BY <1>1 DEF OpType, LockKey, Keys
<1>3. journal \in [Sessions -> JournalType]
  BY DEF IInv, JournalsOK
<1>4. CASE t \in Sessions /\ journal' = [journal EXCEPT ![t].writes[k] = Append(@, w)]
  <2>1. journal[t] \in JournalType
    BY <1>3, <1>4
  <2> DEFINE ws == Append(journal[t].writes[k], w)
             j == [journal[t] EXCEPT !.writes[k] = ws]
  <2>2. journal' = [journal EXCEPT ![t] = j]
    BY <1>4
  <2> HIDE DEF ws, k
  <2>3. j.state = journal[t].state /\ j.keys = journal[t].keys
    BY <2>1 DEF JournalType
  <2>4. \A l \in Keys : j.writes[l] = IF l = k THEN ws ELSE journal[t].writes[l]
    BY <2>1, <1>2 DEF JournalType
  <2> HIDE DEF j
  <2>5. journal'[t] = j /\ \A u \in Sessions : u # t => journal'[u] = journal[u]
    BY <1>3, <1>4, <2>2
  <2>6. ws # <<>>
    <3>1. PICK old \in Seq(Writes) : old = journal[t].writes[k]
      BY <2>1, <1>2 DEF JournalType
    <3>2. PICK v : v = w
      OBVIOUS
    <3>3. Len(Append(old, v)) = Len(old) + 1 /\ Len(old) \in Nat
      OBVIOUS
    <3>4. Append(old, v) # <<>>
      BY <3>3
    <3> QED BY <3>1, <3>2, <3>4 DEF ws
  <2> QED BY <1>2, <2>3, <2>4, <2>5, <2>6 DEF ws, k
<1>5. CASE journal' = journal /\ ~(t \in Sessions /\ journal[t].state = "open")
  BY <1>5
<1>6. \/ journal' = journal /\ ~(t \in Sessions /\ journal[t].state = "open")
      \/ t \in Sessions /\ journal' = [journal EXCEPT ![t].writes[k] = Append(@, w)]
  <2>1. t \in Sessions => t # None
    BY SessionsAct, DistinctMarks
  <2> QED BY <1>3, <2>1 DEF Record, WriteOf
<1> QED BY <1>4, <1>5, <1>6

\* What a step of an operation keeps of the applies.
LEMMA WriterFrame ==
  ASSUME IInv, NEW p \in Actors,
         Goes(p) \/ Reads(p) \/ Stops(p) \/ Removes(p) \/ Stores(p) \/ Breaks(p)
  PROVE  /\ op[p].pc \in Active /\ links' = links
         /\ \A t \in Sessions : /\ app'[t].phase = app[t].phase /\ app'[t].snap = app[t].snap
                                /\ app'[t].step = app[t].step
                                /\ journal'[t].state = journal[t].state /\ journal'[t].keys = journal[t].keys
         /\ op'[p].pc \in Active => Alike(op[p], op'[p])
         /\ op'[p].pc \in Active => Goes(p) \/ Reads(p)
         /\ op'[p].pc \notin Active => Quiet(op'[p])
<1>1. op[p].pc \in Active /\ links' = links
  BY DEF Goes, Reads, Stops, Removes, Stores, Breaks, Active, Locked, Storing, AppsStay
<1>2. CASE Goes(p) \/ Reads(p) \/ Stops(p) \/ Removes(p)
  <2>1. app' = app /\ journal' = journal
    BY <1>2 DEF Goes, Reads, Stops, Removes, AppsStay
  <2> QED BY <1>1, <1>2, <2>1 DEF Goes, Reads, Stops, Removes, Quiet, Active, Locked
<1>3. CASE Stores(p) \/ Breaks(p)
  <2>1. op[p].pc \in Storing /\ Quiet(op'[p]) /\ \E b \in BOOLEAN : Record(p, b)
    BY <1>3 DEF Stores, Breaks
  <2>2. \A t \in Sessions : journal'[t].state = journal[t].state /\ journal'[t].keys = journal[t].keys
    BY <2>1, RecordFacts
  <2>3. \A t \in Sessions : app'[t].phase = app[t].phase /\ app'[t].snap = app[t].snap /\ app'[t].step = app[t].step
    <3>1. CASE app' = app
      BY <3>1
    <3>2. CASE p \in Sessions /\ app' = [app EXCEPT ![p].wrote = @ \cup {<<ChangeOf(p), op[p].name>>}]
      <4> DEFINE wrote == app[p].wrote \cup {<<ChangeOf(p), op[p].name>>}
      <4>1. app[p] \in AppType(p) /\ DOMAIN app = Sessions
        BY <3>2 DEF IInv, AppsOK, AppTypeOK
      <4>2. app'[p] = [app[p] EXCEPT !.wrote = wrote] /\ \A t \in Sessions : t # p => app'[t] = app[t]
        BY <3>2, <4>1
      <4> HIDE DEF wrote
      <4>3. app'[p].phase = app[p].phase /\ app'[p].snap = app[p].snap /\ app'[p].step = app[p].step
        BY <4>1, <4>2 DEF AppType
      <4> QED BY <4>2, <4>3
    <3> QED BY <1>3, <3>1, <3>2 DEF Stores, Breaks
  <2> QED BY <1>1, <2>1, <2>2, <2>3 DEF Quiet
<1> QED BY <1>2, <1>3

----------------------------------------------------------------------------
(* ControlInv is kept *)

LEMMA WriterControl ==
  ASSUME IInv, ControlInv, NEW p \in Actors, Only(p),
         Goes(p) \/ Reads(p) \/ Stops(p) \/ Removes(p) \/ Stores(p) \/ Breaks(p)
  PROVE  ControlInv'
<1>1. /\ op[p].pc \in Active
      /\ \A t \in Sessions : /\ app'[t].phase = app[t].phase
                             /\ journal'[t].state = journal[t].state /\ journal'[t].keys = journal[t].keys
      /\ op'[p].pc \in Active => Alike(op[p], op'[p])
      /\ op'[p].pc \in Active => Goes(p) \/ Reads(p)
      /\ op'[p].pc \notin Active => Quiet(op'[p])
  BY WriterFrame
<1>2. StatesInv'
  BY <1>1 DEF ControlInv, StatesInv
<1>3. ASSUME NEW s \in Sessions PROVE OpOf(s, op[s])'
  <2>1. s \in Actors
    BY SessionsAct
  <2> QED BY <1>1, <2>1 DEF ControlInv, OpOf, Only, Alike
<1>4. ASSUME NEW q \in Others PROVE op'[q].kind = "edit" /\ op'[q].rec = None
  <2>1. q \in Actors /\ q \notin Sessions /\ op[q].kind = "edit" /\ op[q].rec = None
    BY ActorsAreTheWriters DEF ControlInv
  <2>2. CASE q = p /\ op'[p].pc \in Active
    BY <1>1, <2>1, <2>2 DEF Goes, Reads, Alike, Recorder, Records
  <2> QED BY <1>1, <2>1, <2>2 DEF Only, Quiet
<1> QED BY <1>1, <1>2, <1>3, <1>4 DEF ControlInv

\* The keys of a new journal do not meet those of another.
LEMMA OpensApart ==
  ASSUME IInv, ControlInv, NEW s \in Sessions, Opens(s), NEW t \in Sessions, t # s,
         app[t].phase \in Running
  PROVE  Vault[s] \cap Vault[t] = {} /\ WatchedKeys(s) \cap journal[t].keys = {}
<1>1. journal[t].state # "closed"
  BY DEF ControlInv, StatesInv, Running, Recording, Rolling
<1> QED BY <1>1 DEF Opens, Claimed, Overlaps

LEMMA WatchedNames ==
  ASSUME IInv, NEW s \in Sessions
  PROVE  WatchedKeys(s) \cap Names \subseteq Vault[s]
<1>1. \A n \in Names : dir[n] \in Inodes \cup {None}
  BY DEF IInv, FileInv, FileTypeOK
<1>2. Vault[s] \subseteq Names
  BY ActorsAreTheWriters
<1> QED BY <1>1, <1>2, DistinctMarks DEF WatchedKeys, FileKey

LEMMA ApplyControl ==
  ASSUME IInv, ControlInv, NEW s \in Sessions, Alone(s), Snaps(s) \/ Opens(s) \/ Closes(s) \/ Moves(s)
  PROVE  ControlInv'
<1>0. s \in Actors /\ s \notin Others
  BY ActorsAreTheWriters
<1>1. /\ journal[s].state = "open" <=> app[s].phase \in Recording
      /\ journal[s].state = "stopped" <=> app[s].phase \in Rolling
  BY DEF ControlInv, StatesInv
<1>2. \A t \in Sessions : t # s => app'[t] = app[t] /\ journal'[t] = journal[t] /\ op'[t] = op[t]
  BY SessionsAct DEF Alone, Only
<1>3. /\ journal'[s].state = "open" <=> app'[s].phase \in Recording
      /\ journal'[s].state = "stopped" <=> app'[s].phase \in Rolling
  <2>1. CASE Snaps(s)
    BY <1>1, <2>1 DEF Snaps, Recording, Rolling
  <2>2. CASE Opens(s)
    BY <2>2 DEF Opens, Recording, Rolling
  <2>3. CASE Closes(s)
    BY <2>3 DEF Closes, NewJournal, Recording, Rolling, Ended
  <2>4. CASE Moves(s)
    BY <1>1, <2>4 DEF Moves, Turns, Recording, Rolling
  <2> QED BY <2>1, <2>2, <2>3, <2>4
<1>4. StatesInv'
  BY <1>2, <1>3 DEF ControlInv, StatesInv
<1>5. OpOf(s, op[s])'
  <2>0. OpOf(s, op[s])
    BY DEF ControlInv
  <2>1. CASE Snaps(s) \/ Opens(s)
    BY <2>0, <2>1 DEF OpOf, Snaps, Opens
  <2>2. CASE Closes(s)
    BY <2>0, <2>2 DEF OpOf, Closes, Quiet
  <2>3. CASE Moves(s)
    BY <2>0, <2>3 DEF OpOf, Moves, Turns, Quiet, StartsEdit, StartsUndo
  <2> QED BY <2>1, <2>2, <2>3
<1>6. \A t \in Sessions : OpOf(t, op[t])'
  BY <1>2, <1>5 DEF ControlInv, OpOf
<1>7. \A p \in Others : op'[p].kind = "edit" /\ op'[p].rec = None
  BY <1>0, ActorsAreTheWriters DEF Alone, Only, ControlInv
<1>8. journal'[s].keys = journal[s].keys \/ journal'[s].keys = {} \/ (Opens(s) /\ journal'[s].keys = WatchedKeys(s))
  BY DEF Snaps, Opens, Closes, Moves, NewJournal
<1>9. \A t \in Sessions : journal'[t].keys \cap Names \subseteq Vault[t]
  BY <1>2, <1>8, WatchedNames DEF ControlInv
<1>10. ASSUME NEW t \in Sessions, t # s, app'[s].phase \in Running, app[t].phase \in Running
       PROVE  Vault[s] \cap Vault[t] = {} /\ journal'[s].keys \cap journal[t].keys = {}
  <2>1. CASE Opens(s)
    BY <1>10, <2>1, OpensApart DEF Opens
  <2>2. CASE Moves(s)
    <3>1. app[s].phase \in Running /\ journal'[s].keys = journal[s].keys
      BY <2>2 DEF Moves, Turns, Running, Recording, Rolling
    <3> QED BY <1>10, <3>1 DEF ControlInv
  <2>3. CASE Snaps(s) \/ Closes(s)
    BY <1>10, <2>3 DEF Snaps, Closes, Running, Recording, Rolling, Ended
  <2> QED BY <2>1, <2>2, <2>3
<1>11. ASSUME NEW t \in Sessions, NEW u \in Sessions, t # u, app'[t].phase \in Running, app'[u].phase \in Running
       PROVE  Vault[t] \cap Vault[u] = {} /\ journal'[t].keys \cap journal'[u].keys = {}
  <2>1. CASE t # s /\ u # s
    BY <1>2, <1>11, <2>1 DEF ControlInv
  <2>2. CASE t = s
    BY <1>2, <1>10, <1>11, <2>2
  <2>3. CASE u = s
    BY <1>2, <1>10, <1>11, <2>3
  <2> QED BY <2>1, <2>2, <2>3
<1> QED BY <1>4, <1>6, <1>7, <1>9, <1>11 DEF ControlInv

LEMMA DiesControl ==
  ASSUME IInv, ControlInv, Dies
  PROVE  ControlInv'
<1>1. ASSUME NEW s \in Sessions
      PROVE  \/ app'[s] = app[s] /\ journal'[s] = journal[s] /\ op'[s] = op[s]
             \/ /\ app'[s].phase \notin Running /\ Quiet(op'[s])
                /\ journal'[s].state = "closed" /\ journal'[s].keys = {}
  BY DEF Dies, NewJournal, Running, Recording, Rolling
<1>2. StatesInv'
  BY <1>1 DEF ControlInv, StatesInv, Running
<1>3. \A s \in Sessions : OpOf(s, op[s])'
  BY <1>1 DEF ControlInv, OpOf, Quiet
<1>4. \A p \in Others : op'[p].kind = "edit" /\ op'[p].rec = None
  BY DEF Dies, ControlInv
<1> QED BY <1>1, <1>2, <1>3, <1>4 DEF ControlInv

LEMMA ControlStep ==
  ASSUME IInv, ControlInv, Kinds
  PROVE  ControlInv'
<1>1. ASSUME NEW p \in Others, Only(p), Comes(p) PROVE ControlInv'
  <2>1. p \in Actors /\ p \notin Sessions /\ Others \subseteq Actors
    BY ActorsAreTheWriters
  <2>2. app' = app /\ journal' = journal /\ \A s \in Sessions : op'[s] = op[s]
    BY <1>1, <2>1, SessionsAct DEF Only, Comes, AppsStay
  <2>3. \A q \in Others : op'[q].kind = "edit" /\ op'[q].rec = None
    BY <1>1, <2>1 DEF Only, Comes, StartsEdit, Starts, ControlInv
  <2> QED BY <2>2, <2>3 DEF ControlInv, StatesInv, OpOf
<1>2. ASSUME UNCHANGED <<app, journal, op>> PROVE ControlInv'
  BY <1>2 DEF ControlInv, StatesInv, OpOf
<1>3. (\E m, n \in Names : Link(m, n)) \/ UNCHANGED vars => UNCHANGED <<app, journal, op>>
  BY DEF Link, AddLink, vars
<1> QED BY <1>1, <1>2, <1>3, WriterControl, ApplyControl, DiesControl DEF Kinds

----------------------------------------------------------------------------
(* Claims *)

\* As long as no roster gains a name while an apply runs, the claim of an apply
\* covers every hard-linked roster of its workspace, also by its inode, and so no
\* journal records another apply's write.
LinksClaimed(s) ==
    \A n \in Vault[s] : dir[n] # None /\ Linked(dir[n]) =>
      /\ app[s].phase \in Running => dir[n] \in journal[s].keys
      /\ app[s].phase = "snapped" => app[s].snap[n] # Absent
OpClaimed(s) ==
    /\ op[s].pc \in Active /\ op[s].ident # None => op[s].ident \in journal[s].keys
    /\ op[s].rec # None => op[s].rec = s /\ op[s].kind = "edit"
ClaimInv == NoLinkDuringApply => \A s \in Sessions : LinksClaimed(s) /\ OpClaimed(s)

\* No step forgets a link.
LEMMA LinksStay == ASSUME Kinds PROVE links \subseteq links' /\ (NoLinkDuringApply' => NoLinkDuringApply)
<1>1. links \subseteq links'
  BY DEF Kinds, Goes, Reads, Stops, Removes, Stores, Breaks, Comes, AppsStay, Alone, Dies, Link, vars
<1> QED BY <1>1 DEF NoLinkDuringApply

\* Two names of one file were two names of it before.
OldLinks ==
    \A m, n \in Names : m # n /\ dir'[n] # None /\ dir'[m] = dir'[n] => dir'[m] = dir[m] /\ dir'[n] = dir[n]

LEMMA NoNewLinks ==
  ASSUME IInv, NEW p \in Actors, Goes(p) \/ Reads(p) \/ Stops(p) \/ Removes(p) \/ Stores(p) \/ Breaks(p)
  PROVE  OldLinks
<1>0. dir \in [Names -> Inodes \cup {None}]
  BY DEF IInv, FileInv, FileTypeOK
<1>1. CASE dir' = dir
  BY <1>1 DEF OldLinks
<1>2. CASE Removes(p)
  BY <1>0, <1>2 DEF Removes, OldLinks
<1>3. CASE Installs(p)
  BY <1>0, <1>3 DEF Installs, FreeInode, OldLinks
<1> QED BY <1>1, <1>2, <1>3 DEF Goes, Reads, Stops, Stores, Breaks

\* A journal that records a write of an apply is the apply's own.
LEMMA OwnRecorder ==
  ASSUME IInv, ControlInv, NEW p \in Sessions, LinksClaimed(p), OpClaimed(p), op[p].pc \in Active,
         NEW t \in Sessions, Records(t, p)
  PROVE  t = p /\ op[p].kind = "edit"
<1>1. /\ app[p].phase = IF op[p].kind = "edit" THEN "step" ELSE "undoing"
      /\ op[p].name \in Vault[p]
  BY DEF ControlInv, OpOf
<1>2. app[t].phase \in Recording /\ Watches(t, op[p].name, LockKey(op[p]))
  BY DEF Records, ControlInv, StatesInv
<1>3. CASE t # p
  <2>1. Vault[p] \cap Vault[t] = {} /\ journal[p].keys \cap journal[t].keys = {}
    BY <1>1, <1>2, <1>3 DEF ControlInv, Running, Rolling, Recording
  <2>2. op[p].name \in Names
    BY <1>1, ActorsAreTheWriters
  <2>3. op[p].name \notin journal[t].keys
    BY <1>1, <2>1, <2>2 DEF ControlInv
  <2>4. op[p].ident # None => op[p].ident \notin journal[t].keys
    BY <2>1 DEF OpClaimed
  <2> QED BY <1>1, <1>2, <2>1, <2>3, <2>4 DEF Watches, LockKey
<1>4. CASE t = p
  BY <1>1, <1>2, <1>4 DEF Recording
<1> QED BY <1>3, <1>4

LEMMA WriterClaim ==
  ASSUME IInv, ControlInv, ClaimInv, NoLinkDuringApply, NEW p \in Actors, Only(p),
         Goes(p) \/ Reads(p) \/ Stops(p) \/ Removes(p) \/ Stores(p) \/ Breaks(p),
         NEW s \in Sessions
  PROVE  LinksClaimed(s)' /\ OpClaimed(s)'
<1>0. LinksClaimed(s) /\ OpClaimed(s) /\ s \in Actors /\ Vault[s] \subseteq Names
  BY SessionsAct, ActorsAreTheWriters DEF ClaimInv
<1>1. /\ op[p].pc \in Active
      /\ \A t \in Sessions : /\ app'[t].phase = app[t].phase /\ app'[t].snap = app[t].snap
                             /\ journal'[t].keys = journal[t].keys
      /\ op'[p].pc \in Active => Goes(p) \/ Reads(p)
      /\ op'[p].pc \notin Active => Quiet(op'[p])
  BY WriterFrame
<1>2. LinksClaimed(s)'
  <2>1. OldLinks
    BY NoNewLinks
  <2> SUFFICES ASSUME NEW n \in Vault[s], dir'[n] # None, Linked(dir[n])'
               PROVE  /\ app[s].phase \in Running => dir'[n] \in journal[s].keys
                      /\ app[s].phase = "snapped" => app[s].snap[n] # Absent
    BY <1>1 DEF LinksClaimed
  <2>2. PICK m \in Names : m # n /\ dir'[m] = dir'[n]
    BY DEF Linked
  <2>3. n \in Names /\ dir'[n] = dir[n] /\ dir[m] = dir[n]
    BY <1>0, <2>1, <2>2 DEF OldLinks
  <2>4. Linked(dir[n])
    BY <2>2, <2>3 DEF Linked
  <2> QED BY <1>0, <2>3, <2>4 DEF LinksClaimed
<1>3. OpClaimed(s)'
  <2>1. CASE s # p
    BY <1>0, <1>1, <2>1 DEF Only, OpClaimed
  <2>2. CASE s = p /\ Quiet(op'[p])
    BY <2>2 DEF OpClaimed, Quiet
  <2>3. CASE s = p /\ Goes(p)
    <3>1. op'[s].rec = op[s].rec /\ op'[s].kind = op[s].kind
      BY <2>3 DEF Goes, Alike
    <3>2. CASE op'[s].ident = op[s].ident
      BY <1>0, <1>1, <2>3, <3>1, <3>2 DEF OpClaimed
    <3>3. CASE op'[s].ident = dir[op[s].name] /\ NeedsInodeLock(dir[op[s].name])
      <4>1. op[s].name \in Vault[s] /\ app[s].phase \in {"step", "undoing"}
        BY <1>1, <2>3 DEF ControlInv, OpOf
      <4>2. dir[op[s].name] \in journal[s].keys
        BY <1>0, <3>3, <4>1 DEF LinksClaimed, NeedsInodeLock, Running, Recording, Rolling
      <4> QED BY <1>0, <1>1, <3>1, <3>3, <4>2 DEF OpClaimed
    <3> QED BY <2>3, <3>2, <3>3 DEF Goes
  <2>4. CASE s = p /\ Reads(p)
    <3>1. op'[s].ident = op[s].ident /\ op'[s].kind = op[s].kind /\ op[s].pc \in Active
      BY <1>1, <2>4 DEF Reads, Alike
    <3>2. op'[s].rec # None => op'[s].rec \in Sessions /\ Records(op'[s].rec, s)
      BY <2>4 DEF Reads, Recorder
    <3>3. ASSUME NEW t \in Sessions, Records(t, s) PROVE t = s /\ op[s].kind = "edit"
      BY <1>0, <3>1, <3>3, OwnRecorder
    <3>4. op'[s].rec # None => op'[s].rec = s /\ op[s].kind = "edit"
      BY <3>2, <3>3
    <3> QED BY <1>0, <1>1, <3>1, <3>4 DEF OpClaimed
  <2> QED BY <1>1, <2>1, <2>2, <2>3, <2>4
<1> QED BY <1>2, <1>3

LEMMA ApplyClaim ==
  ASSUME IInv, ControlInv, ClaimInv, NoLinkDuringApply, NEW s \in Sessions, Alone(s),
         Snaps(s) \/ Opens(s) \/ Closes(s) \/ Moves(s), NEW t \in Sessions
  PROVE  LinksClaimed(t)' /\ OpClaimed(t)'
<1>0. LinksClaimed(t) /\ OpClaimed(t) /\ t \in Actors /\ Vault[t] \subseteq Names /\ dir' = dir /\ data' = data
  BY SessionsAct, ActorsAreTheWriters DEF ClaimInv, Alone
<1>1. CASE t # s
  <2>1. app'[t] = app[t] /\ journal'[t] = journal[t] /\ op'[t] = op[t]
    BY <1>0, <1>1 DEF Alone, Only
  <2> QED BY <1>0, <2>1 DEF LinksClaimed, OpClaimed, Linked
<1>2. CASE t = s
  <2>1. CASE Snaps(s)
    <3>1. \A n \in Vault[s] : dir[n] # None => Entries(s)[n] # Absent
      BY <1>0, <1>2 DEF Entries, Content, IInv, FileInv, FileTypeOK
    <3>2. LinksClaimed(s)'
      BY <1>0, <2>1, <3>1 DEF LinksClaimed, Snaps, Running, Recording, Rolling
    <3>3. OpClaimed(s)'
      BY <1>0, <1>2, <2>1 DEF OpClaimed, Snaps
    <3> QED BY <1>2, <3>2, <3>3
  <2>2. CASE Opens(s)
    <3>1. ASSUME NEW n \in Vault[s], dir[n] # None, Linked(dir[n]) PROVE dir[n] \in WatchedKeys(s)
      <4>1. app[s].snap[n] # Absent /\ FileKey(n) = dir[n]
        BY <1>0, <1>2, <2>2, <3>1 DEF LinksClaimed, FileKey, Opens
      <4> QED BY <4>1 DEF WatchedKeys
    <3>2. LinksClaimed(s)'
      BY <1>0, <2>2, <3>1 DEF LinksClaimed, Opens, Linked
    <3>3. op'[s] = op[s] /\ op[s].pc \notin Active
      BY <2>2 DEF Opens, ControlInv, OpOf
    <3>4. OpClaimed(s)'
      BY <1>0, <1>2, <3>3 DEF OpClaimed
    <3> QED BY <1>2, <3>2, <3>4
  <2>3. CASE Closes(s)
    <3>1. LinksClaimed(s)'
      BY <2>3 DEF LinksClaimed, Closes, Ended, Running, Recording, Rolling
    <3>2. Quiet(op'[s]) \/ (op'[s] = op[s] /\ op[s].pc \notin Active)
      BY <2>3 DEF Closes, ControlInv, OpOf
    <3>3. OpClaimed(s)'
      BY <1>0, <1>2, <3>2 DEF OpClaimed, Quiet
    <3> QED BY <1>2, <3>1, <3>3
  <2>4. CASE Moves(s)
    <3>1. app[s].phase \in Running /\ journal'[s].keys = journal[s].keys /\ app'[s].phase # "snapped"
      BY <2>4 DEF Moves, Turns, Running, Recording, Rolling
    <3>2. LinksClaimed(s)'
      BY <1>0, <1>2, <3>1 DEF LinksClaimed, Linked
    <3>3. OpClaimed(s)'
      BY <1>0, <1>2, <2>4, <3>1 DEF OpClaimed, Moves, Quiet, StartsEdit, StartsUndo, Starts
    <3> QED BY <1>2, <3>2, <3>3
  <2> QED BY <2>1, <2>2, <2>3, <2>4
<1> QED BY <1>1, <1>2

LEMMA ClaimStep ==
  ASSUME IInv, ControlInv, ClaimInv, Kinds
  PROVE  ClaimInv'
<1> SUFFICES ASSUME NoLinkDuringApply', NEW s \in Sessions PROVE LinksClaimed(s)' /\ OpClaimed(s)'
  BY DEF ClaimInv
<1>0. NoLinkDuringApply /\ LinksClaimed(s) /\ OpClaimed(s) /\ s \in Actors /\ Vault[s] \subseteq Names
  BY LinksStay, SessionsAct, ActorsAreTheWriters DEF ClaimInv
<1>1. ASSUME NEW p \in Others, Only(p), Comes(p) PROVE LinksClaimed(s)' /\ OpClaimed(s)'
  <2>1. s # p
    BY ActorsAreTheWriters
  <2>2. app' = app /\ journal' = journal /\ op'[s] = op[s] /\ dir' = dir
    BY <1>0, <1>1, <2>1 DEF Only, Comes, AppsStay
  <2> QED BY <1>0, <2>2 DEF LinksClaimed, OpClaimed, Linked
<1>2. CASE UNCHANGED vars
  BY <1>0, <1>2 DEF LinksClaimed, OpClaimed, Linked, vars
<1>3. CASE Dies
  <2>1. CASE app'[s] = app[s] /\ journal'[s] = journal[s] /\ op'[s] = op[s]
    BY <1>0, <1>3, <2>1 DEF Dies, LinksClaimed, OpClaimed, Linked
  <2>2. CASE app'[s].phase = "crashed" /\ Quiet(op'[s])
    BY <2>2 DEF LinksClaimed, OpClaimed, Quiet, Running, Recording, Rolling
  <2> QED BY <1>3, <2>1, <2>2 DEF Dies
<1>4. ASSUME NEW m \in Names, NEW n \in Names, Link(m, n) PROVE LinksClaimed(s)' /\ OpClaimed(s)'
  <2>1. app' = app /\ journal' = journal /\ op' = op
    BY <1>4 DEF Link, AddLink
  <2>2. app[s].phase \in Ended \cup {"idle"}
    <3> DEFINE during == {t \in Sessions : app[t].phase \notin Ended \cup {"idle"}}
               l == [name |-> n, during |-> during]
    <3>1. l \in links'
      BY <1>4 DEF Link
    <3>2. l.during = {}
      BY <3>1 DEF NoLinkDuringApply
    <3> QED BY <3>2
  <2>3. LinksClaimed(s)'
    BY <2>1, <2>2 DEF LinksClaimed, Running, Recording, Rolling, Ended
  <2> QED BY <1>0, <2>1, <2>3 DEF OpClaimed
<1> QED BY <1>0, <1>1, <1>2, <1>3, <1>4, WriterClaim, ApplyClaim DEF Kinds

----------------------------------------------------------------------------
(* What an apply's operations do to the changes of others *)

\* The changes that s has no business with: those of other commands and, as
\* long as claims exclude each other, those of other applies.
Spared(s) == {ch \in Changes : ch[1] \in Others \/ (NoLinkDuringApply /\ ch[1] # s)}
Same(S, c, d) == \A ch \in S : ch \in ChangesIn(c) <=> ch \in ChangesIn(d)

\* A write of an apply, an undo of writes and a chain of recorded writes change
\* none of them; no operation expects or writes torn bytes.
Untorn(o) == ~Torn(o.want) /\ ~Torn(o.expect) /\ ~Torn(o.before)
OpSpares(S, o) ==
    /\ o.pc \in Active /\ o.kind # "edit" => Same(S, o.want, o.expect)
    /\ o.pc \in Storing => Same(S, o.before, o.want)
    /\ o.pc \in Active /\ o.kind = "remove" => o.want = Absent
ChainSpares(S, ws) ==
    /\ \A i \in DOMAIN ws : ~Torn(ws[i].before) /\ ~Torn(ws[i].after)
    /\ ws # <<>> /\ ~Broken(ws) => Same(S, ws[1].before, ws[Len(ws)].after)
ContentInv ==
    /\ \A p \in Actors : Untorn(op[p])
    /\ \A s \in Sessions : OpSpares(Spared(s), op[s])
    /\ \A s \in Sessions, k \in Keys : ChainSpares(Spared(s), journal[s].writes[k])

LEMMA SparesFewer ==
  ASSUME NEW S, NEW T, T \subseteq S
  PROVE  /\ \A c, d : Same(S, c, d) => Same(T, c, d)
         /\ \A o : OpSpares(S, o) => OpSpares(T, o)
         /\ \A ws : ChainSpares(S, ws) => ChainSpares(T, ws)
<1>1. \A c, d : Same(S, c, d) => Same(T, c, d)
  BY DEF Same
<1> QED BY <1>1 DEF OpSpares, ChainSpares

LEMMA SameJoins ==
  ASSUME NEW S, NEW b, NEW c, NEW d, Same(S, b, c), Same(S, c, d)
  PROVE  Same(S, b, d)
BY DEF Same

LEMMA QuietSpares ==
  ASSUME NEW S, NEW o, Quiet(o)
  PROVE  Untorn(o) /\ OpSpares(S, o)
<1>1. o.pc \notin Storing
  BY DEF Quiet, Storing, Active, Locked
<1> QED BY <1>1 DEF Quiet, Untorn, OpSpares, Torn

LEMMA ChainGrows ==
  ASSUME NEW S, NEW ws \in Seq(Writes), NEW w \in Writes, ChainSpares(S, ws),
         ~Torn(w.before), ~Torn(w.after), Same(S, w.before, w.after)
  PROVE  ChainSpares(S, Append(ws, w))
<1> DEFINE xs == Append(ws, w)
<1>1. /\ xs \in Seq(Writes) /\ Len(xs) = Len(ws) + 1 /\ xs[Len(xs)] = w /\ DOMAIN xs = 1 .. Len(ws) + 1
      /\ DOMAIN ws = 1 .. Len(ws) /\ Len(ws) \in Nat /\ \A i \in 1 .. Len(ws) : xs[i] = ws[i]
  BY AppendProperties
<1> HIDE DEF xs
<1>2. \A i \in DOMAIN xs : ~Torn(xs[i].before) /\ ~Torn(xs[i].after)
  <2> SUFFICES ASSUME NEW i \in 1 .. Len(ws) + 1 PROVE ~Torn(xs[i].before) /\ ~Torn(xs[i].after)
    BY <1>1
  <2>1. CASE i = Len(ws) + 1
    BY <1>1, <2>1
  <2>2. CASE i # Len(ws) + 1
    <3>1. i \in DOMAIN ws /\ xs[i] = ws[i]
      BY <1>1, <2>2
    <3> QED BY <3>1 DEF ChainSpares
  <2> QED BY <2>1, <2>2
<1>3. ASSUME ~Broken(xs) PROVE Same(S, xs[1].before, xs[Len(xs)].after)
  <2>1. CASE ws = <<>>
    <3>1. Len(ws) = 0 /\ xs[1] = w
      BY <1>1, <2>1
    <3> QED BY <1>1, <3>1
  <2>2. CASE ws # <<>>
    <3>1. Len(ws) >= 1
      BY <1>1, <2>2, EmptySeq
    <3>2. xs[1] = ws[1] /\ xs[Len(ws)] = ws[Len(ws)]
      BY <1>1, <3>1
    <3>3. Len(ws) + 1 \in DOMAIN xs \ {1} /\ (Len(ws) + 1) - 1 = Len(ws)
      BY <1>1, <3>1
    <3>4. w.before = ws[Len(ws)].after
      BY <1>1, <1>3, <3>2, <3>3 DEF Broken
    <3>5. ~Broken(ws)
      <4>1. ASSUME NEW i \in DOMAIN ws PROVE ~ws[i].failed
        BY <1>1, <1>3, <4>1 DEF Broken
      <4>2. ASSUME NEW i \in DOMAIN ws \ {1} PROVE ws[i].before = ws[i - 1].after
        <5>1. i \in DOMAIN xs \ {1} /\ i - 1 \in 1 .. Len(ws) /\ i \in 1 .. Len(ws)
          BY <1>1, <4>2
        <5> QED BY <1>1, <1>3, <5>1 DEF Broken
      <4> QED BY <4>1, <4>2 DEF Broken
    <3>6. Same(S, ws[1].before, ws[Len(ws)].after)
      BY <2>2, <3>5 DEF ChainSpares
    <3> QED BY <1>1, <3>2, <3>4, <3>6, SameJoins
  <2> QED BY <2>1, <2>2
<1> QED BY <1>2, <1>3 DEF ChainSpares, xs

\* What a write hands to the journal that records it.
LEMMA RecordSpares ==
  ASSUME IInv, ControlInv, ClaimInv, ContentInv, NEW p \in Actors, op[p].pc \in Storing,
         NEW failed \in BOOLEAN, Record(p, failed), NEW t \in Sessions, NEW k \in Keys
  PROVE  ChainSpares(Spared(t), journal'[t].writes[k])
<1>1. ChainSpares(Spared(t), journal[t].writes[k]) /\ Untorn(op[p])
  BY DEF ContentInv
<1>2. CASE journal'[t].writes[k] = journal[t].writes[k]
  BY <1>1, <1>2
<1>3. CASE t = op[p].rec /\ journal'[t].writes[k] = Append(journal[t].writes[k], WriteOf(p, failed))
  <2> DEFINE w == WriteOf(p, failed)
  <2>1. op[p] \in OpType /\ op[p].want # Absent
    BY OpFacts DEF IInv, Storing, Locked
  <2>2. w \in Writes /\ w.before = op[p].before /\ w.after = op[p].want
    BY <2>1 DEF OpType, Writes, Contents, WriteOf
  <2>3. journal[t].writes[k] \in Seq(Writes)
    BY DEF IInv, JournalsOK, JournalType
  <2>4. p \in Sessions
    <3>1. p \in Others => op[p].rec = None
      BY DEF ControlInv
    <3>2. t # None
      BY SessionsAct, DistinctMarks
    <3> QED BY <1>3, <3>1, <3>2, ActorsAreTheWriters
  <2>5. NoLinkDuringApply => t = p
    <3>1. t # None
      BY SessionsAct, DistinctMarks
    <3> QED BY <1>3, <2>4, <3>1 DEF ClaimInv, OpClaimed
  <2>6. Spared(t) \subseteq Spared(p)
    BY <2>5 DEF Spared
  <2>7. Same(Spared(p), w.before, w.after)
    BY <2>2, <2>4 DEF ContentInv, OpSpares
  <2>8. Same(Spared(t), w.before, w.after)
    BY <2>6, <2>7, SparesFewer
  <2>9. ~Torn(w.before) /\ ~Torn(w.after)
    BY <1>1, <2>2 DEF Untorn
  <2> HIDE DEF w
  <2>10. ChainSpares(Spared(t), Append(journal[t].writes[k], w))
    BY <1>1, <2>2, <2>3, <2>8, <2>9, ChainGrows
  <2> QED BY <1>3, <2>10 DEF w
<1> QED BY <1>2, <1>3, RecordFacts

LEMMA SparedStays ==
  ASSUME Kinds, NEW s
  PROVE  Spared(s)' \subseteq Spared(s)
BY LinksStay DEF Spared

\* What p reads and means to write.
LEMMA ReadSpares ==
  ASSUME IInv, ControlInv, ContentInv, NEW p \in Actors, Reads(p)
  PROVE  Untorn(op'[p]) /\ (p \in Sessions => OpSpares(Spared(p), op'[p]))
<1> DEFINE cur == Content(op[p].name)
<1>0. Untorn(op[p]) /\ (p \in Sessions => OpSpares(Spared(p), op[p]))
  BY DEF ContentInv
<1>1. /\ op[p].pc = "held" /\ op'[p].pc = "open" /\ op'[p].kind = op[p].kind /\ op'[p].expect = op[p].expect
      /\ op'[p].before = cur
  BY DEF Reads, Alike
<1>2. CASE op[p].kind = "edit" /\ ~Torn(cur) /\ op'[p].want = With(cur, ChangeOf(p))
  <2>0. With(cur, ChangeOf(p)) # Absent
    <3>1. op[p].pc \in {"lock"} \cup Locked
      BY <1>1 DEF Locked
    <3>2. op[p].name \in Names
      BY <3>1, OpFacts DEF IInv
    <3>3. cur \in Contents
      BY <3>2 DEF Content, Contents, IInv, FileInv, FileTypeOK
    <3>4. ChangeOf(p) \in Changes
      BY <1>2, <3>1, ChangeType DEF Active
    <3> QED BY <3>3, <3>4, BytesType
  <2>1. ~Torn(op'[p].want) /\ ChangesIn(op'[p].want) = ChangesIn(cur) \cup {ChangeOf(p)}
    BY <1>2, <2>0 DEF Torn, With, ChangesIn
  <2>2. Untorn(op'[p])
    BY <1>0, <1>1, <1>2, <2>1 DEF Untorn
  <2>3. ASSUME p \in Sessions PROVE OpSpares(Spared(p), op'[p])
    <3>1. ChangeOf(p)[1] = p /\ p \notin Others
      BY <2>3, ActorsAreTheWriters DEF ChangeOf
    <3>2. ChangeOf(p) \notin Spared(p)
      BY <3>1 DEF Spared
    <3>3. Same(Spared(p), op'[p].before, op'[p].want)
      BY <1>1, <2>1, <3>2 DEF Same
    <3> QED BY <1>1, <1>2, <3>3 DEF OpSpares
  <2> QED BY <2>2, <2>3
<1>3. CASE op[p].kind = "restore" /\ cur = op[p].expect /\ op'[p].want = op[p].want
  <2>1. Untorn(op'[p])
    BY <1>0, <1>1, <1>3 DEF Untorn
  <2>2. ASSUME p \in Sessions PROVE OpSpares(Spared(p), op'[p])
    <3>1. Same(Spared(p), op[p].want, op[p].expect)
      BY <1>0, <1>1, <1>3, <2>2 DEF OpSpares, Active, Locked
    <3> QED BY <1>1, <1>3, <3>1 DEF OpSpares, Same
  <2> QED BY <2>1, <2>2
<1> QED BY <1>2, <1>3 DEF Reads

LEMMA WriterContent ==
  ASSUME IInv, ControlInv, ClaimInv, ContentInv, NEW p \in Actors, Only(p),
         Goes(p) \/ Reads(p) \/ Stops(p) \/ Removes(p) \/ Stores(p) \/ Breaks(p)
  PROVE  /\ \A q \in Actors : Untorn(op'[q])
         /\ \A s \in Sessions : OpSpares(Spared(s), op'[s])
         /\ \A s \in Sessions, k \in Keys : ChainSpares(Spared(s), journal'[s].writes[k])
<1>0. (\A q \in Actors : Untorn(op[q])) /\ (\A s \in Sessions : OpSpares(Spared(s), op[s]))
  BY DEF ContentInv
<1>1. (op'[p].pc \in Active => Goes(p) \/ Reads(p)) /\ (op'[p].pc \notin Active => Quiet(op'[p]))
  BY WriterFrame
<1>2. Untorn(op'[p]) /\ (p \in Sessions => OpSpares(Spared(p), op'[p]))
  <2>1. CASE Goes(p)
    BY <1>0, <2>1 DEF Goes, Alike, Untorn, OpSpares
  <2>2. CASE Reads(p)
    BY <2>2, ReadSpares
  <2>3. CASE Quiet(op'[p])
    BY <2>3, QuietSpares
  <2> QED BY <1>1, <2>1, <2>2, <2>3
<1>3. ASSUME NEW s \in Sessions, NEW k \in Keys PROVE ChainSpares(Spared(s), journal'[s].writes[k])
  <2>1. CASE journal' = journal
    BY <2>1 DEF ContentInv
  <2>2. CASE Stores(p) \/ Breaks(p)
    BY <2>2, RecordSpares DEF Stores, Breaks
  <2> QED BY <2>1, <2>2 DEF Goes, Reads, Stops, Removes, AppsStay
<1> QED BY <1>0, <1>2, <1>3, SessionsAct DEF Only

LEMMA ApplyContent ==
  ASSUME IInv, ControlInv, ContentInv, NEW s \in Sessions, Alone(s),
         Snaps(s) \/ Opens(s) \/ Closes(s) \/ Moves(s)
  PROVE  /\ \A q \in Actors : Untorn(op'[q])
         /\ \A t \in Sessions : OpSpares(Spared(t), op'[t])
         /\ \A t \in Sessions, k \in Keys : ChainSpares(Spared(t), journal'[t].writes[k])
<1>0. /\ \A q \in Actors : Untorn(op[q])
      /\ \A t \in Sessions : OpSpares(Spared(t), op[t])
      /\ \A t \in Sessions, k \in Keys : ChainSpares(Spared(t), journal[t].writes[k])
  BY DEF ContentInv
<1>1. op'[s] = op[s] \/ Quiet(op'[s]) \/ StartsEdit(s) \/ StartsUndo(s)
  BY DEF Snaps, Opens, Closes, Moves
<1>2. Untorn(op'[s]) /\ OpSpares(Spared(s), op'[s])
  <2>1. CASE op'[s] = op[s]
    BY <1>0, <2>1, SessionsAct
  <2>2. CASE Quiet(op'[s])
    BY <2>2, QuietSpares
  <2>3. CASE StartsEdit(s)
    BY <2>3 DEF StartsEdit, Starts, Untorn, OpSpares, Torn, Storing
  <2>4. CASE StartsUndo(s)
    <3>1. PICK k \in Keys :
            /\ journal[s].writes[k] # <<>> /\ ~Broken(journal[s].writes[k])
            /\ op'[s].want = journal[s].writes[k][1].before
            /\ op'[s].expect = journal[s].writes[k][Len(journal[s].writes[k])].after
            /\ op'[s].kind = "remove" => journal[s].writes[k][1].before = Absent
      BY <2>4 DEF StartsUndo
    <3>2. PICK ws \in Seq(Writes) : ws = journal[s].writes[k]
      BY DEF IInv, JournalsOK, JournalType
    <3>3. 1 \in DOMAIN ws /\ Len(ws) \in DOMAIN ws
      BY <3>1, <3>2, EmptySeq, LenProperties
    <3>4. ChainSpares(Spared(s), ws)
      BY <1>0, <3>2
    <3>5. ~Torn(op'[s].want) /\ ~Torn(op'[s].expect) /\ Same(Spared(s), op'[s].want, op'[s].expect)
      BY <3>1, <3>2, <3>3, <3>4 DEF ChainSpares
    <3>6. op'[s].pc = "lock" /\ op'[s].before = Absent
      BY <2>4 DEF StartsUndo, Starts
    <3> QED BY <3>1, <3>5, <3>6 DEF Untorn, OpSpares, Torn, Storing
  <2> QED BY <1>1, <2>1, <2>2, <2>3, <2>4
<1>3. ASSUME NEW t \in Sessions, NEW k \in Keys PROVE ChainSpares(Spared(t), journal'[t].writes[k])
  <2>1. CASE journal'[t].writes[k] = journal[t].writes[k]
    BY <1>0, <2>1
  <2>2. CASE journal'[t].writes[k] = <<>>
    BY <2>2 DEF ChainSpares
  <2>3. NewJournal.writes[k] = <<>>
    BY DEF NewJournal
  <2> QED BY <2>1, <2>2, <2>3 DEF Alone, Snaps, Opens, Closes, Moves
<1> QED BY <1>0, <1>2, <1>3, SessionsAct DEF Alone, Only

LEMMA ContentStep ==
  ASSUME IInv, ControlInv, ClaimInv, ContentInv, Kinds
  PROVE  ContentInv'
<1>0. /\ \A q \in Actors : Untorn(op[q])
      /\ \A t \in Sessions : OpSpares(Spared(t), op[t])
      /\ \A t \in Sessions, k \in Keys : ChainSpares(Spared(t), journal[t].writes[k])
  BY DEF ContentInv
<1>1. /\ \A q \in Actors : Untorn(op'[q])
      /\ \A t \in Sessions : OpSpares(Spared(t), op'[t])
      /\ \A t \in Sessions, k \in Keys : ChainSpares(Spared(t), journal'[t].writes[k])
  <2>1. ASSUME NEW p \in Others, Only(p), Comes(p)
        PROVE  /\ \A q \in Actors : Untorn(op'[q])
               /\ \A t \in Sessions : op'[t] = op[t]
               /\ journal' = journal
    <3>1. Untorn(op'[p]) /\ journal' = journal
      BY <2>1 DEF Comes, StartsEdit, Starts, Untorn, Torn, AppsStay
    <3>2. p \notin Sessions
      BY ActorsAreTheWriters
    <3> QED BY <1>0, <2>1, <3>1, <3>2, SessionsAct DEF Only
  <2>2. CASE Dies
    <3>1. \A q \in Actors : Untorn(op'[q])
      BY <1>0, <2>2, QuietSpares DEF Dies
    <3>2. \A t \in Sessions : OpSpares(Spared(t), op'[t])
      BY <1>0, <2>2, QuietSpares DEF Dies
    <3>3. ASSUME NEW t \in Sessions, NEW k \in Keys PROVE ChainSpares(Spared(t), journal'[t].writes[k])
      <4>1. CASE journal'[t] = journal[t]
        BY <1>0, <4>1
      <4>2. CASE journal'[t] = NewJournal
        BY <4>2 DEF ChainSpares, NewJournal
      <4> QED BY <2>2, <4>1, <4>2 DEF Dies
    <3> QED BY <3>1, <3>2, <3>3
  <2>3. (\E m, n \in Names : Link(m, n)) \/ UNCHANGED vars => UNCHANGED <<journal, op>>
    BY DEF Link, AddLink, vars
  <2> QED BY <1>0, <2>1, <2>2, <2>3, WriterContent, ApplyContent DEF Kinds
<1>2. ASSUME NEW t \in Sessions, NEW k \in Keys
      PROVE  OpSpares(Spared(t)', op'[t]) /\ ChainSpares(Spared(t)', journal'[t].writes[k])
  BY <1>1, SparedStays, SparesFewer
<1>3. \A t \in Sessions : OpSpares(Spared(t)', op'[t])
  BY <1>1, SparedStays, SparesFewer
<1> QED BY <1>1, <1>2, <1>3 DEF ContentInv

----------------------------------------------------------------------------
(* Promises *)

\* What has been promised: the acknowledged changes, and those an apply that may
\* still commit has made.  Of an apply's changes it counts as long as claims
\* exclude each other.
Promised(a) == a \in acked \/ \E s \in Sessions : app[s].phase \notin Rolling /\ a \in app[s].wrote
Counted == {a \in Changes \X Names : Promised(a) /\ (a[1][1] \in Others \/ NoLinkDuringApply)}

HasChange(c, ch) == c # Absent /\ (Torn(c) \/ ch \in c.has)
\* The names a write of operation o can reach.
Reaches(o, n) == n = o.name \/ (o.ident # None /\ dir[n] = o.ident)

\* The changes an apply has written are its own, and are acknowledged only with
\* its commit.
OwnersInv ==
    /\ \A s \in Sessions : \A a \in app[s].wrote : a[1][1] = s
    /\ \A a \in acked : \/ a[1][1] \in Others
                        \/ a[1][1] \in Sessions /\ app[a[1][1]].phase = "committed"
\* A promised change is in its roster, and in what is about to be written there.
HeldInv == \A a \in Counted : HasChange(Content(a[2]), a[1])
WantsInv ==
    \A p \in Actors : \A a \in Counted :
      op[p].pc \in Storing /\ Reaches(op[p], a[2]) => a[1] \in op[p].want.has
\* An edit writes its change.
MakesInv == \A p \in Actors : op[p].pc \in Storing /\ op[p].kind = "edit" => ChangeOf(p) \in op[p].want.has
PromiseInv == OwnersInv /\ HeldInv /\ WantsInv /\ MakesInv

New(p) == <<ChangeOf(p), op[p].name>>

\* What a successful write does to an apply's record.
LEMMA StoreApps ==
  ASSUME IInv, NEW p \in Actors, Stores(p), NEW t \in Sessions
  PROVE  /\ app'[t].phase = app[t].phase /\ app'[t].step = app[t].step
         /\ \/ app'[t].wrote = app[t].wrote
            \/ t = p /\ op[p].kind = "edit" /\ app'[t].wrote = app[t].wrote \cup {New(p)}
<1>1. CASE app' = app
  BY <1>1
<1>2. CASE p \in Sessions /\ op[p].kind = "edit" /\ app' = [app EXCEPT ![p].wrote = @ \cup {New(p)}]
  <2> DEFINE wrote == app[p].wrote \cup {New(p)}
  <2>1. app[p] \in AppType(p) /\ DOMAIN app = Sessions
    BY <1>2 DEF IInv, AppsOK, AppTypeOK
  <2>2. app'[p] = [app[p] EXCEPT !.wrote = wrote] /\ \A u \in Sessions : u # p => app'[u] = app[u]
    BY <1>2, <2>1
  <2> HIDE DEF wrote
  <2>3. app'[p].phase = app[p].phase /\ app'[p].step = app[p].step /\ app'[p].wrote = wrote
    BY <2>1, <2>2 DEF AppType
  <2> QED BY <1>2, <2>2, <2>3 DEF wrote
<1> QED BY <1>1, <1>2 DEF Stores, New

\* A change is promised when it is written, and at no other step.
LEMMA StoreCounts ==
  ASSUME IInv, NEW p \in Actors, Stores(p)
  PROVE  Counted' \subseteq Counted \cup {New(p)} /\ (New(p) \in Counted' \ Counted => op[p].kind = "edit" \/ p \in Others)
<1> SUFFICES ASSUME NEW a \in Changes \X Names, Promised(a)', a[1][1] \in Others \/ NoLinkDuringApply'
             PROVE  a \in Counted \/ (a = New(p) /\ (op[p].kind = "edit" \/ p \in Others))
  BY DEF Counted
<1>1. NoLinkDuringApply' => NoLinkDuringApply
  BY DEF Stores, NoLinkDuringApply
<1>2. CASE a \in acked'
  BY <1>1, <1>2 DEF Stores, New, Counted, Promised
<1>3. ASSUME NEW s \in Sessions, app'[s].phase \notin Rolling, a \in app'[s].wrote
      PROVE  a \in Counted \/ (a = New(p) /\ op[p].kind = "edit")
  <2>1. app[s].phase \notin Rolling /\ (a \in app[s].wrote \/ (a = New(p) /\ op[p].kind = "edit"))
    BY <1>3, StoreApps
  <2> QED BY <1>1, <2>1 DEF Counted, Promised
<1> QED BY <1>2, <1>3 DEF Promised

\* A step promises nothing new.
Promises == \A a \in Changes \X Names : Promised(a)' => Promised(a)

LEMMA PromisesCount ==
  ASSUME Kinds, Promises
  PROVE  Counted' \subseteq Counted
BY LinksStay DEF Counted, Promises

LEMMA ApplyPromises ==
  ASSUME IInv, NEW s \in Sessions, Alone(s), Snaps(s) \/ Opens(s) \/ Closes(s) \/ Moves(s)
  PROVE  Promises
<1> SUFFICES ASSUME NEW a \in Changes \X Names, Promised(a)' PROVE Promised(a)
  BY DEF Promises
<1>1. CASE a \in acked'
  BY <1>1 DEF Snaps, Opens, Closes, Moves, Promised, Rolling
<1>2. ASSUME NEW t \in Sessions, app'[t].phase \notin Rolling, a \in app'[t].wrote PROVE Promised(a)
  <2>1. CASE t # s
    BY <1>2, <2>1 DEF Alone, Promised
  <2>2. CASE t = s /\ (Snaps(s) \/ Opens(s))
    BY <1>2, <2>2 DEF Snaps, Opens, Promised, Rolling
  <2>3. CASE t = s /\ Closes(s)
    BY <1>2, <2>3 DEF Closes
  <2>4. CASE t = s /\ Moves(s)
    BY <1>2, <2>4 DEF Moves, Turns, Promised, Rolling
  <2> QED BY <2>1, <2>2, <2>3, <2>4
<1> QED BY <1>1, <1>2 DEF Promised

LEMMA OtherPromises ==
  ASSUME \/ \E p \in Actors : Goes(p) \/ Reads(p) \/ Stops(p) \/ Removes(p) \/ Breaks(p) \/ Comes(p)
         \/ Dies \/ (\E m, n \in Names : Link(m, n)) \/ UNCHANGED vars
  PROVE  Promises
<1>0. ASSUME app' = app, acked' = acked PROVE Promises
  BY <1>0 DEF Promises, Promised
<1>1. ASSUME NEW p, Goes(p) \/ Reads(p) \/ Stops(p) \/ Removes(p) \/ Breaks(p) \/ Comes(p) PROVE Promises
  BY <1>0, <1>1 DEF Goes, Reads, Stops, Removes, Breaks, Comes, AppsStay
<1>2. ASSUME Dies PROVE Promises
  BY <1>2 DEF Dies, Promises, Promised
<1>3. ASSUME NEW m, NEW n, Link(m, n) PROVE Promises
  BY <1>0, <1>3 DEF Link
<1>4. ASSUME UNCHANGED vars PROVE Promises
  BY <1>0, <1>4 DEF vars
<1> QED BY <1>1, <1>2, <1>3, <1>4

LEMMA OwnersStep ==
  ASSUME IInv, OwnersInv, Kinds
  PROVE  OwnersInv'
<1>0. ASSUME UNCHANGED <<app, acked>> PROVE OwnersInv'
  BY <1>0 DEF OwnersInv
<1>1. ASSUME NEW p \in Actors, Stores(p) PROVE OwnersInv'
  <2>1. New(p)[1][1] = p
    BY DEF New, ChangeOf
  <2>2. \A s \in Sessions : app'[s].phase = app[s].phase /\ \A a \in app'[s].wrote : a[1][1] = s
    BY <1>1, <2>1, StoreApps DEF OwnersInv
  <2>3. \A a \in acked' : a \in acked \/ (p \in Others /\ a = New(p))
    BY <1>1 DEF Stores, New
  <2> QED BY <2>1, <2>2, <2>3 DEF OwnersInv
<1>2. ASSUME NEW s \in Sessions, Alone(s), Snaps(s) \/ Opens(s) \/ Closes(s) \/ Moves(s) PROVE OwnersInv'
  <2>1. \A t \in Sessions : t # s => app'[t] = app[t]
    BY <1>2 DEF Alone
  <2>2. app'[s].wrote = app[s].wrote \/ app'[s].wrote = {}
    BY <1>2 DEF Snaps, Opens, Closes, Moves
  <2>3. app[s].phase # "committed"
    BY <1>2 DEF Snaps, Opens, Closes, Moves, Turns, Ended
  <2>4. \A a \in acked' : a \in acked \/ (a \in app[s].wrote /\ app'[s].phase = "committed")
    BY <1>2 DEF Snaps, Opens, Closes, Moves
  <2>5. \A a \in acked' : a[1][1] \in Others \/ (a[1][1] \in Sessions /\ app'[a[1][1]].phase = "committed")
    <3> SUFFICES ASSUME NEW a \in acked', a[1][1] \notin Others
                 PROVE  a[1][1] \in Sessions /\ app'[a[1][1]].phase = "committed"
      OBVIOUS
    <3>1. CASE a \in acked
      BY <2>1, <2>3, <3>1 DEF OwnersInv
    <3>2. CASE a \in app[s].wrote /\ app'[s].phase = "committed"
      BY <3>2 DEF OwnersInv
    <3> QED BY <2>4, <3>1, <3>2
  <2> QED BY <2>1, <2>2, <2>5 DEF OwnersInv
<1>3. ASSUME Dies PROVE OwnersInv'
  <2>1. \A t \in Sessions : \/ app'[t] = app[t]
                            \/ app[t].phase # "committed" /\ app'[t].wrote = {}
    BY <1>3 DEF Dies, Ended
  <2>2. acked' = acked
    BY <1>3 DEF Dies
  <2> QED BY <2>1, <2>2 DEF OwnersInv
<1>4. ASSUME NEW p, Goes(p) \/ Reads(p) \/ Stops(p) \/ Removes(p) \/ Breaks(p) \/ Comes(p) PROVE OwnersInv'
  BY <1>0, <1>4 DEF Goes, Reads, Stops, Removes, Breaks, Comes, AppsStay
<1>5. ASSUME NEW m, NEW n, Link(m, n) PROVE OwnersInv'
  BY <1>0, <1>5 DEF Link
<1>6. ASSUME UNCHANGED vars PROVE OwnersInv'
  BY <1>0, <1>6 DEF vars
<1> QED BY <1>1, <1>2, <1>3, <1>4, <1>5, <1>6 DEF Kinds

----------------------------------------------------------------------------
(* A promised change stays in its roster *)

LEMMA TearHolds ==
  ASSUME NEW c \in Contents, NEW ch
  PROVE  Tear(c) \in Bytes /\ HasChange(Tear(c), ch)
<1>1. ChangesIn(c) \in SUBSET Changes
  BY DEF Contents, Bytes, ChangesIn
<1>2. Tear(c) \in Bytes /\ Tear(c).torn
  BY <1>1 DEF Tear, Bytes
<1>3. Tear(c) # Absent
  BY <1>2, DistinctMarks DEF Bytes
<1> QED BY <1>2, <1>3 DEF HasChange, Torn

\* Whoever counts is in a roster.
LEMMA CountedNamed ==
  ASSUME HeldInv, NEW a \in Counted
  PROVE  a[1] \in Changes /\ a[2] \in Names /\ dir[a[2]] # None
<1>1. a \in Changes \X Names
  BY DEF Counted
<1>2. Content(a[2]) # Absent
  BY DEF HeldInv, HasChange
<1> QED BY <1>1, <1>2 DEF Content

\* A rollback has no business with a promised change.
LEMMA CountedSpared ==
  ASSUME OwnersInv, NEW p \in Sessions, app[p].phase = "undoing", NEW a \in Counted
  PROVE  a[1] \in Spared(p)
<1>1. a[1] \in Changes /\ Promised(a) /\ (a[1][1] \in Others \/ NoLinkDuringApply)
  BY DEF Counted
<1>2. a[1][1] # p \/ a[1][1] \in Others
  <2>1. CASE a \in acked
    BY <2>1 DEF OwnersInv
  <2>2. ASSUME NEW s \in Sessions, app[s].phase \notin Rolling, a \in app[s].wrote PROVE a[1][1] # p
    BY <2>2 DEF OwnersInv, Rolling
  <2> QED BY <1>1, <2>1, <2>2 DEF Promised
<1> QED BY <1>1, <1>2 DEF Spared

\* What an operation that has locked its roster finds there.
LEMMA FoundThere ==
  ASSUME IInv, HeldInv, NEW p \in Actors, op[p].pc \in Locked, NEW a \in Counted, Reaches(op[p], a[2])
  PROVE  HasChange(Content(op[p].name), a[1])
<1>1. op[p].ident # None => op[p].ident = dir[op[p].name]
  BY OpFacts DEF IInv
<1>2. Content(a[2]) = Content(op[p].name)
  BY <1>1 DEF Reaches, Content
<1> QED BY <1>2 DEF HeldInv

\* An undo finds a promised change in what it expects only if it leaves it.
LEMMA UndoKeeps ==
  ASSUME IInv, ControlInv, ContentInv, OwnersInv, HeldInv, NEW p \in Actors,
         op[p].pc = "held", op[p].kind # "edit", Content(op[p].name) = op[p].expect,
         NEW a \in Counted, Reaches(op[p], a[2])
  PROVE  a[1] \in ChangesIn(op[p].want)
<1>1. p \in Sessions
  BY ActorsAreTheWriters DEF ControlInv
<1>2. op[p].pc \in Active /\ op[p].pc \in Locked
  BY DEF Active, Locked
<1>3. app[p].phase = "undoing"
  BY <1>1, <1>2 DEF ControlInv, OpOf
<1>4. HasChange(op[p].expect, a[1]) /\ ~Torn(op[p].expect)
  BY <1>2, FoundThere DEF ContentInv, Untorn
<1>5. a[1] \in ChangesIn(op[p].expect)
  BY <1>4 DEF HasChange, ChangesIn
<1>6. a[1] \in Spared(p)
  BY <1>1, <1>3, CountedSpared
<1>7. Same(Spared(p), op[p].want, op[p].expect)
  BY <1>1, <1>2 DEF ContentInv, OpSpares
<1> QED BY <1>5, <1>6, <1>7 DEF Same

LEMMA RemoveHolds ==
  ASSUME IInv, ControlInv, ContentInv, OwnersInv, HeldInv, NEW p \in Actors, Removes(p), NEW a \in Counted
  PROVE  HasChange(Content(a[2])', a[1])
<1>1. op[p].pc \in {"lock"} \cup Locked /\ op[p].pc \in Active
  BY DEF Removes, Active, Locked
<1>2. a[2] \in Names /\ dir[a[2]] # None /\ HasChange(Content(a[2]), a[1])
  BY CountedNamed DEF HeldInv
<1>3. a[2] # op[p].name
  <2>1. op[p].kind = "remove" => p \in Sessions
    BY ActorsAreTheWriters DEF ControlInv
  <2>2. op[p].want = Absent
    BY <1>1, <2>1 DEF Removes, ContentInv, OpSpares
  <2> SUFFICES ASSUME a[2] = op[p].name PROVE FALSE
    OBVIOUS
  <2>3. a[1] \in ChangesIn(op[p].want)
    BY UndoKeeps DEF Removes, Reaches
  <2> QED BY <2>2, <2>3 DEF ChangesIn
<1>4. dir'[a[2]] = dir[a[2]]
  BY <1>2, <1>3 DEF Removes, IInv, FileInv, FileTypeOK
<1>5. dir[a[2]] \in Inodes
  BY <1>2 DEF IInv, FileInv, FileTypeOK
<1>6. data'[dir[a[2]]] = data[dir[a[2]]]
  BY <1>2, <1>3, <1>4, <1>5 DEF Removes, Kept
<1> QED BY <1>2, <1>4, <1>6 DEF Content

LEMMA InstallHolds ==
  ASSUME IInv, HeldInv, WantsInv, NEW p \in Actors, op[p].pc \in Storing, Installs(p), NEW a \in Counted
  PROVE  HasChange(Content(a[2])', a[1])
<1>1. op[p].name \in Names /\ op[p].want # Absent /\ op[p] \in OpType
  BY OpFacts DEF IInv, Storing, Locked
<1>2. a[2] \in Names /\ dir[a[2]] # None /\ HasChange(Content(a[2]), a[1])
  BY CountedNamed DEF HeldInv
<1>3. PICK i \in Inodes :
        /\ FreeInode(i) /\ dir' = [dir EXCEPT ![op[p].name] = i]
        /\ data' = Kept([dir EXCEPT ![op[p].name] = i], [data EXCEPT ![i] = op[p].want])
  BY DEF Installs
<1>4. /\ dir' \in [Names -> Inodes \cup {None}] /\ dir'[op[p].name] = i
      /\ \A n \in Names : n # op[p].name => dir'[n] = dir[n] /\ dir'[n] # i
  BY <1>1, <1>3 DEF IInv, FileInv, FileTypeOK, FreeInode
<1>5. \A n \in Names : dir'[n] \in Inodes => data'[dir'[n]] = [data EXCEPT ![i] = op[p].want][dir'[n]]
  BY <1>3 DEF Kept
<1>6. i # None
  BY DistinctMarks
<1>7. CASE a[2] = op[p].name
  <2>1. Content(a[2])' = op[p].want
    BY <1>1, <1>4, <1>5, <1>6, <1>7 DEF Content, IInv, FileInv, FileTypeOK
  <2>2. a[1] \in op[p].want.has
    BY <1>7 DEF WantsInv, Reaches
  <2> QED BY <1>1, <2>1, <2>2 DEF HasChange
<1>8. CASE a[2] # op[p].name
  <2>1. dir'[a[2]] = dir[a[2]] /\ dir[a[2]] \in Inodes /\ dir[a[2]] # i
    BY <1>2, <1>4, <1>8 DEF IInv, FileInv, FileTypeOK
  <2>2. data'[dir[a[2]]] = data[dir[a[2]]]
    BY <1>2, <1>5, <2>1 DEF IInv, FileInv, FileTypeOK
  <2> QED BY <1>2, <2>1, <2>2 DEF Content
<1> QED BY <1>7, <1>8

LEMMA InPlaceHolds ==
  ASSUME IInv, HeldInv, WantsInv, NEW p \in Actors, op[p].pc = "inplace", dir' = dir,
         data' = [data EXCEPT ![op[p].fd] = op[p].want], NEW a \in Counted
  PROVE  HasChange(Content(a[2])', a[1])
<1>1. op[p].name \in Names /\ op[p].want # Absent
  BY OpFacts DEF IInv, Locked
<1>2. a[2] \in Names /\ dir[a[2]] # None /\ HasChange(Content(a[2]), a[1])
  BY CountedNamed DEF HeldInv
<1>3. op[p].fd \in Inodes /\ op[p].fd = dir[op[p].name] /\ (Linked(op[p].fd) => op[p].ident = op[p].fd)
  BY DEF IInv, FileInv, WritesOwned, Writing
<1>4. CASE dir[a[2]] = op[p].fd
  <2>1. Reaches(op[p], a[2])
    BY <1>1, <1>2, <1>3, <1>4 DEF Reaches, Linked
  <2>2. a[1] \in op[p].want.has
    BY <2>1 DEF WantsInv, Storing
  <2>3. Content(a[2])' = op[p].want
    BY <1>2, <1>3, <1>4 DEF Content, IInv, FileInv, FileTypeOK
  <2> QED BY <1>1, <2>2, <2>3 DEF HasChange
<1>5. CASE dir[a[2]] # op[p].fd
  <2>1. Content(a[2])' = Content(a[2])
    BY <1>2, <1>5 DEF Content, IInv, FileInv, FileTypeOK
  <2> QED BY <1>2, <2>1
<1> QED BY <1>4, <1>5

\* The change just written is in the roster.
LEMMA NewHolds ==
  ASSUME IInv, MakesInv, NEW p \in Actors, Stores(p), op[p].kind = "edit", NEW n, n = op[p].name
  PROVE  HasChange(Content(n)', ChangeOf(p))
<1>1. op[p].name \in Names /\ op[p].want # Absent
  BY OpFacts DEF IInv, Stores, Storing, Locked
<1>2. ChangeOf(p) \in op[p].want.has
  BY DEF MakesInv, Stores
<1>3. data'[dir'[op[p].name]] = op[p].want /\ dir'[op[p].name] # None
  <2>1. CASE Installs(p)
    <3>1. PICK i \in Inodes :
            /\ dir' = [dir EXCEPT ![op[p].name] = i]
            /\ data' = Kept([dir EXCEPT ![op[p].name] = i], [data EXCEPT ![i] = op[p].want])
      BY <2>1 DEF Installs
    <3>2. dir'[op[p].name] = i /\ i # None
      BY <1>1, <3>1, DistinctMarks DEF IInv, FileInv, FileTypeOK
    <3>3. data'[i] = [data EXCEPT ![i] = op[p].want][i]
      BY <1>1, <3>1, <3>2 DEF Kept
    <3>4. data'[i] = op[p].want
      BY <3>3 DEF IInv, FileInv, FileTypeOK
    <3> QED BY <3>2, <3>4
  <2>2. CASE op[p].pc = "inplace" /\ dir' = dir /\ data' = [data EXCEPT ![op[p].fd] = op[p].want]
    <3>1. op[p].fd \in Inodes /\ op[p].fd = dir[op[p].name] /\ op[p].fd # None
      BY <2>2, DistinctMarks DEF IInv, FileInv, WritesOwned, Writing
    <3> QED BY <2>2, <3>1 DEF IInv, FileInv, FileTypeOK
  <2> QED BY <2>1, <2>2 DEF Stores
<1>4. Content(n)' = op[p].want
  BY <1>3 DEF Content
<1> QED BY <1>1, <1>2, <1>4 DEF HasChange

LEMMA HeldStep ==
  ASSUME IInv, ControlInv, ContentInv, PromiseInv, Kinds
  PROVE  HeldInv'
<1>0. OwnersInv /\ HeldInv /\ WantsInv /\ MakesInv
  BY DEF PromiseInv
<1>1. ASSUME Counted' \subseteq Counted, \A a \in Counted : HasChange(Content(a[2])', a[1]) PROVE HeldInv'
  BY <1>1 DEF HeldInv
<1>2. ASSUME Promises, dir' = dir, data' = data PROVE HeldInv'
  <2>1. \A n : Content(n)' = Content(n)
    BY <1>2 DEF Content
  <2>2. Counted' \subseteq Counted
    BY <1>2, PromisesCount
  <2> QED BY <1>0, <1>1, <2>1, <2>2 DEF HeldInv
<1>3. ASSUME NEW p \in Actors, Stores(p) PROVE HeldInv'
  <2>1. \A a \in Counted : HasChange(Content(a[2])', a[1])
    BY <1>0, <1>3, InstallHolds, InPlaceHolds DEF Stores
  <2>2. Counted' \subseteq Counted \cup {New(p)} /\ (New(p) \in Counted' \ Counted => op[p].kind = "edit" \/ p \in Others)
    BY <1>3, StoreCounts
  <2>3. p \in Others => op[p].kind = "edit"
    BY DEF ControlInv
  <2>4. New(p)[1] = ChangeOf(p) /\ New(p)[2] = op[p].name
    BY DEF New
  <2>6. ASSUME NEW a \in Counted' PROVE HasChange(Content(a[2])', a[1])
    <3>1. CASE a \in Counted
      BY <2>1, <3>1
    <3>2. CASE a \notin Counted
      <4>1. a = New(p) /\ op[p].kind = "edit"
        BY <2>2, <2>3, <2>6, <3>2
      <4>2. a[2] = op[p].name /\ a[1] = ChangeOf(p)
        BY <2>4, <4>1
      <4>3. HasChange(Content(a[2])', ChangeOf(p))
        BY <1>0, <1>3, <4>1, <4>2, NewHolds
      <4> QED BY <4>2, <4>3
    <3> QED BY <3>1, <3>2
  <2> QED BY <2>6 DEF HeldInv
<1>4. ASSUME NEW p \in Actors, Removes(p) PROVE HeldInv'
  <2>1. Counted' \subseteq Counted
    BY <1>4, OtherPromises, PromisesCount
  <2> QED BY <1>0, <1>1, <1>4, <2>1, RemoveHolds
<1>5. ASSUME NEW p \in Actors, Goes(p) PROVE HeldInv'
  <2>1. Counted' \subseteq Counted
    BY <1>5, OtherPromises, PromisesCount
  <2>2. CASE data' = data
    BY <1>2, <1>5, <2>2, OtherPromises DEF Goes
  <2>3. ASSUME NEW i \in Inodes, data' = [data EXCEPT ![i] = Tear(op[p].want)] PROVE HeldInv'
    <3>1. op[p].want \in Contents
      BY DEF IInv, FileInv, FileTypeOK, OpType
    <3>2. ASSUME NEW a \in Counted PROVE HasChange(Content(a[2])', a[1])
      <4>1. HasChange(Content(a[2]), a[1]) /\ dir[a[2]] # None /\ a[2] \in Names
        BY <1>0, CountedNamed DEF HeldInv
      <4>2. Content(a[2])' = Content(a[2]) \/ Content(a[2])' = Tear(op[p].want)
        BY <1>5, <2>3, <4>1 DEF Goes, Content, IInv, FileInv, FileTypeOK
      <4> QED BY <3>1, <4>1, <4>2, TearHolds
    <3> QED BY <1>1, <2>1, <3>2
  <2> QED BY <1>5, <2>2, <2>3 DEF Goes
<1>6. ASSUME NEW m \in Names, NEW n \in Names, Link(m, n) PROVE HeldInv'
  <2>1. Counted' \subseteq Counted
    BY <1>6, OtherPromises, PromisesCount
  <2>2. ASSUME NEW a \in Counted PROVE HasChange(Content(a[2])', a[1])
    <3>1. HasChange(Content(a[2]), a[1]) /\ dir[a[2]] # None /\ a[2] \in Names
      BY <1>0, CountedNamed DEF HeldInv
    <3>2. dir'[a[2]] = dir[a[2]] /\ data' = data
      BY <1>6, <3>1 DEF Link, AddLink, IInv, FileInv, FileTypeOK
    <3> QED BY <3>1, <3>2 DEF Content
  <2> QED BY <1>1, <2>1, <2>2
<1>7. ASSUME NEW p \in Actors, Reads(p) \/ Stops(p) \/ Breaks(p) \/ Comes(p) PROVE HeldInv'
  BY <1>2, <1>7, OtherPromises DEF Reads, Stops, Breaks, Comes
<1>8. ASSUME NEW s \in Sessions, Alone(s), Snaps(s) \/ Opens(s) \/ Closes(s) \/ Moves(s) PROVE HeldInv'
  BY <1>2, <1>8, ApplyPromises DEF Alone
<1>9. ASSUME Dies \/ UNCHANGED vars PROVE HeldInv'
  BY <1>2, <1>9, OtherPromises DEF Dies, vars
<1> QED BY <1>3, <1>4, <1>5, <1>6, <1>7, <1>8, <1>9, ActorsAreTheWriters DEF Kinds

----------------------------------------------------------------------------
(* What is about to be written keeps it *)

\* An operation that is storing was storing the same, or has just read.
LEMMA StoringBefore ==
  ASSUME IInv, ControlInv, Kinds, NEW q \in Actors, op'[q].pc \in Storing
  PROVE  /\ op'[q].name = op[q].name /\ op'[q].kind = op[q].kind /\ op'[q].ident = op[q].ident
         /\ ChangeOf(q)' = ChangeOf(q)
         /\ \/ op[q].pc \in Storing /\ op'[q].want = op[q].want /\ op'[q].before = op[q].before
            \/ Reads(q)
<1>0. op'[q].pc \in Active /\ ~Quiet(op'[q]) /\ op'[q].pc # "lock"
  BY DEF Storing, Active, Locked, Quiet
<1>1. ASSUME op'[q] = op[q], q \in Sessions => app'[q].step = app[q].step
      PROVE  /\ op'[q].name = op[q].name /\ op'[q].kind = op[q].kind /\ op'[q].ident = op[q].ident
             /\ ChangeOf(q)' = ChangeOf(q)
             /\ op[q].pc \in Storing /\ op'[q].want = op[q].want /\ op'[q].before = op[q].before
  BY <1>1 DEF ChangeOf
<1>2. ASSUME NEW p \in Actors, Only(p),
             Goes(p) \/ Reads(p) \/ Stops(p) \/ Removes(p) \/ Stores(p) \/ Breaks(p)
      PROVE  \/ op'[q] = op[q] /\ (q \in Sessions => app'[q].step = app[q].step)
             \/ q = p /\ (Goes(q) \/ Reads(q)) /\ (q \in Sessions => app'[q].step = app[q].step)
  BY <1>0, <1>2, WriterFrame DEF Only
<1>3. ASSUME NEW p \in Others, Only(p), Comes(p)
      PROVE  op'[q] = op[q] /\ (q \in Sessions => app'[q].step = app[q].step)
  BY <1>0, <1>3 DEF Only, Comes, StartsEdit, Starts, AppsStay
<1>4. ASSUME NEW s \in Sessions, Alone(s), Snaps(s) \/ Opens(s) \/ Closes(s) \/ Moves(s)
      PROVE  op'[q] = op[q] /\ (q \in Sessions => app'[q].step = app[q].step)
  <2>1. CASE q # s
    BY <1>4, <2>1 DEF Alone, Only
  <2>2. CASE q = s
    <3>1. op'[s] = op[s]
      BY <1>0, <1>4, <2>2 DEF Snaps, Opens, Closes, Moves, StartsEdit, StartsUndo, Starts
    <3>2. app[s].phase \in {"step", "undoing"}
      BY <1>0, <2>2, <3>1 DEF ControlInv, OpOf
    <3> QED BY <1>0, <1>4, <2>2, <3>2 DEF Snaps, Opens, Closes, Moves, Turns
  <2> QED BY <2>1, <2>2
<1>5. ASSUME Dies PROVE op'[q] = op[q] /\ (q \in Sessions => app'[q].step = app[q].step)
  BY <1>0, <1>5 DEF Dies
<1>6. ASSUME (\E m, n \in Names : Link(m, n)) \/ UNCHANGED vars
      PROVE  op'[q] = op[q] /\ (q \in Sessions => app'[q].step = app[q].step)
  BY <1>6 DEF Link, AddLink, vars
<1>7. ASSUME Goes(q) \/ Reads(q), q \in Sessions => app'[q].step = app[q].step
      PROVE  /\ op'[q].name = op[q].name /\ op'[q].kind = op[q].kind /\ op'[q].ident = op[q].ident
             /\ ChangeOf(q)' = ChangeOf(q)
             /\ \/ op[q].pc \in Storing /\ op'[q].want = op[q].want /\ op'[q].before = op[q].before
                \/ Reads(q)
  <2>1. ChangeOf(q)' = ChangeOf(q)
    BY <1>7 DEF ChangeOf
  <2> QED BY <1>7, <2>1 DEF Goes, Reads, Alike
<1> QED BY <1>1, <1>2, <1>3, <1>4, <1>5, <1>6, <1>7 DEF Kinds

\* What Reaches says of q after a step.
ReachesNext(q, n) == n = op'[q].name \/ (op'[q].ident # None /\ dir'[n] = op'[q].ident)

\* A step moves no name that a promise is about to the inode an operation holds.
LEMMA ReachesBefore ==
  ASSUME IInv, HeldInv, Kinds, NEW q \in Actors, op'[q].pc \in Storing,
         op'[q].name = op[q].name, op'[q].ident = op[q].ident,
         NEW a \in Counted, NEW n, n = a[2], ReachesNext(q, n)
  PROVE  Reaches(op[q], n)
<1>0. n \in Names /\ dir[n] # None /\ dir \in [Names -> Inodes \cup {None}]
  BY CountedNamed DEF IInv, FileInv, FileTypeOK
<1>1. n = op[q].name \/ (op[q].ident # None /\ dir'[n] = op[q].ident)
  BY DEF Reaches, ReachesNext
<1> SUFFICES ASSUME op[q].ident # None, dir'[n] = op[q].ident PROVE dir[n] = op[q].ident
  BY <1>1 DEF Reaches
<1>2. CASE dir' = dir
  BY <1>2
<1>3. ASSUME NEW p \in Actors, Removes(p) PROVE dir[n] = op[q].ident
  BY <1>0, <1>3 DEF Removes
<1>4. ASSUME NEW p \in Actors, Installs(p) PROVE dir[n] = op[q].ident
  BY <1>0, <1>4 DEF Installs, FreeInode
<1>5. ASSUME NEW m \in Names, NEW l \in Names, Link(m, l) PROVE dir[n] = op[q].ident
  BY <1>0, <1>5 DEF Link, AddLink
<1> QED BY <1>2, <1>3, <1>4, <1>5 DEF Kinds, Goes, Reads, Stops, Stores, Breaks, Comes, Alone, Dies, vars

\* What is promised anew is out of every other operation's reach.
LEMMA NewOutOfReach ==
  ASSUME IInv, NEW p \in Actors, Stores(p), NEW q \in Actors, q # p, op[q].pc \in Storing,
         op'[q].name = op[q].name, op'[q].ident = op[q].ident, NEW n, n = op[p].name
  PROVE  ~ReachesNext(q, n)
<1> SUFFICES ASSUME n = op[q].name \/ (op[q].ident # None /\ dir'[n] = op[q].ident) PROVE FALSE
  BY DEF Reaches, ReachesNext
<1>1. op[p].pc \in Locked /\ op[q].pc \in Locked /\ op[p].name \in Names /\ op[q].name \in Names
  BY OpFacts DEF Stores, Storing, Locked, IInv
<1>2. n # op[q].name
  BY <1>1 DEF IInv, FileInv, SidecarsOwned
<1>3. CASE Installs(p)
  BY <1>1, <1>2, <1>3 DEF Installs, FreeInode, IInv, FileInv, FileTypeOK
<1>4. CASE op[p].pc = "inplace" /\ dir' = dir
  <2>1. op[p].fd = dir[n] /\ (Linked(op[p].fd) => op[p].ident = op[p].fd)
    BY <1>4 DEF IInv, FileInv, WritesOwned, Writing
  <2>2. op[q].ident = dir[op[q].name] /\ ilock[op[q].ident] = q
    BY <1>2 DEF IInv, FileInv, InodesOwned
  <2>3. op[p].ident = op[q].ident
    BY <1>1, <1>2, <1>4, <2>1, <2>2 DEF Linked
  <2>4. ilock[op[p].ident] = p
    BY <1>2, <2>3 DEF IInv, FileInv, InodesOwned
  <2> QED BY <2>2, <2>3, <2>4
<1> QED BY <1>3, <1>4 DEF Stores

\* What an operation reads and goes on to write keeps every promised change.
LEMMA ReadKeepsPromised ==
  ASSUME IInv, ControlInv, ContentInv, OwnersInv, HeldInv, NEW p \in Actors, Reads(p),
         NEW a \in Counted, Reaches(op[p], a[2])
  PROVE  a[1] \in op'[p].want.has
<1> DEFINE cur == Content(op[p].name)
<1>0. op[p].pc = "held" /\ op[p].pc \in Locked
  BY DEF Reads, Locked
<1>1. HasChange(cur, a[1])
  BY <1>0, FoundThere
<1>2. CASE op[p].kind = "edit" /\ ~Torn(cur) /\ op'[p].want = With(cur, ChangeOf(p))
  BY <1>1, <1>2 DEF HasChange, With, ChangesIn
<1>3. CASE op[p].kind = "restore" /\ cur = op[p].expect /\ op'[p].want = op[p].want
  <2>1. a[1] \in ChangesIn(op[p].want)
    BY <1>0, <1>3, UndoKeeps
  <2> QED BY <1>3, <2>1 DEF ChangesIn
<1> QED BY <1>2, <1>3 DEF Reads

LEMMA WantsStep ==
  ASSUME IInv, ControlInv, ContentInv, PromiseInv, Kinds
  PROVE  WantsInv'
<1>0. OwnersInv /\ HeldInv /\ WantsInv
  BY DEF PromiseInv
<1> SUFFICES ASSUME NEW q \in Actors, NEW a \in Counted', op'[q].pc \in Storing,
                    NEW n, n = a[2], ReachesNext(q, n)
             PROVE  a[1] \in op'[q].want.has
  BY DEF WantsInv, Reaches, ReachesNext
<1>1. /\ op'[q].name = op[q].name /\ op'[q].ident = op[q].ident
      /\ (op[q].pc \in Storing /\ op'[q].want = op[q].want) \/ Reads(q)
  BY StoringBefore
<1>2. CASE a \in Counted
  <2>1. Reaches(op[q], n)
    BY <1>0, <1>1, <1>2, ReachesBefore
  <2>2. CASE op[q].pc \in Storing /\ op'[q].want = op[q].want
    BY <1>0, <1>2, <2>1, <2>2 DEF WantsInv
  <2>3. CASE Reads(q)
    BY <1>0, <1>2, <2>1, <2>3, ReadKeepsPromised
  <2> QED BY <1>1, <2>2, <2>3
<1>3. CASE a \notin Counted
  <2>1. ~Promises
    BY <1>3, PromisesCount
  <2>2. PICK p \in Actors : Only(p) /\ Stores(p)
    BY <2>1, ApplyPromises, OtherPromises, ActorsAreTheWriters DEF Kinds
  <2>3. a = New(p)
    BY <1>3, <2>2, StoreCounts
  <2>4. n = op[p].name
    BY <2>3 DEF New
  <2>5. q # p
    BY <2>2 DEF Stores, Quiet, Storing, Active, Locked
  <2>6. op[q].pc \in Storing
    BY <2>2, <2>5 DEF Only
  <2> QED BY <1>1, <2>2, <2>4, <2>5, <2>6, NewOutOfReach
<1> QED BY <1>2, <1>3

LEMMA MakesStep ==
  ASSUME IInv, ControlInv, MakesInv, Kinds
  PROVE  MakesInv'
<1> SUFFICES ASSUME NEW q \in Actors, op'[q].pc \in Storing, op'[q].kind = "edit"
             PROVE  ChangeOf(q)' \in op'[q].want.has
  BY DEF MakesInv
<1>1. /\ op'[q].kind = op[q].kind /\ ChangeOf(q)' = ChangeOf(q)
      /\ (op[q].pc \in Storing /\ op'[q].want = op[q].want) \/ Reads(q)
  BY StoringBefore
<1>2. Reads(q) => ChangeOf(q) \in op'[q].want.has
  BY <1>1 DEF Reads, With
<1> QED BY <1>1, <1>2 DEF MakesInv

----------------------------------------------------------------------------
(* No acknowledged change is lost *)

UpdateInv == IInv /\ ControlInv /\ ClaimInv /\ ContentInv /\ PromiseInv

LEMMA InitUpdate == Init => UpdateInv
<1> SUFFICES ASSUME Init PROVE UpdateInv
  OBVIOUS
<1>0. IInv
  BY InitIInv
<1>1. /\ \A p \in Actors : op[p] = NoOp
      /\ \A s \in Sessions : app[s] = NewApp /\ journal[s] = NewJournal
  BY DEF Init
<1>2. Quiet(NoOp) /\ NoOp.pc = "none"
  <2>1. "none" \notin Active /\ NoOp = [NoOp EXCEPT !.pc = "none"]
    BY DEF NoOp, Active, Locked
  <2>2. Quiet(NoOp)
    BY <2>1, QuietNoOp
  <2> QED BY <2>2 DEF NoOp
<1>3. NoOp.pc \notin Active /\ NoOp.pc \notin Storing /\ NoOp.kind = "edit" /\ NoOp.rec = None
  BY <1>2 DEF Quiet, Storing
<1>4. /\ NewApp.phase = "idle" /\ NewApp.wrote = {}
      /\ NewJournal.state = "closed" /\ NewJournal.keys = {} /\ \A k \in Keys : NewJournal.writes[k] = <<>>
  BY DEF NewApp, NewJournal
<1>5. ControlInv
  <2>1. StatesInv
    BY <1>1, <1>4 DEF StatesInv, Recording, Rolling
  <2> QED BY <1>1, <1>3, <1>4, <2>1, ActorsAreTheWriters DEF ControlInv, OpOf, Running, Recording, Rolling
<1>6. ClaimInv
  BY <1>1, <1>3, <1>4, SessionsAct DEF ClaimInv, LinksClaimed, OpClaimed, Running, Recording, Rolling
<1>7. ContentInv
  <2>1. \A p \in Actors : Untorn(op[p])
    BY <1>1, <1>2, QuietSpares
  <2>2. \A s \in Sessions : OpSpares(Spared(s), op[s])
    BY <1>1, <1>2, QuietSpares, SessionsAct
  <2>3. \A s \in Sessions, k \in Keys : ChainSpares(Spared(s), journal[s].writes[k])
    BY <1>1, <1>4 DEF ChainSpares
  <2> QED BY <2>1, <2>2, <2>3 DEF ContentInv
<1>8. PromiseInv
  <2>1. acked = {} /\ \A s \in Sessions : app[s].wrote = {}
    BY <1>1, <1>4 DEF Init
  <2>2. Counted = {}
    BY <2>1 DEF Counted, Promised
  <2> QED BY <1>1, <1>3, <2>1, <2>2 DEF PromiseInv, OwnersInv, HeldInv, WantsInv, MakesInv
<1> QED BY <1>0, <1>5, <1>6, <1>7, <1>8 DEF UpdateInv

LEMMA NextUpdate == UpdateInv /\ [Next]_vars => UpdateInv'
<1> SUFFICES ASSUME UpdateInv, [Next]_vars PROVE UpdateInv'
  OBVIOUS
<1>1. IInv /\ ControlInv /\ ClaimInv /\ ContentInv /\ PromiseInv /\ OwnersInv /\ MakesInv
  BY DEF UpdateInv, PromiseInv
<1>2. Kinds
  BY <1>1, StepKinds
<1>3. OwnersInv' /\ HeldInv' /\ WantsInv' /\ MakesInv'
  BY <1>1, <1>2, OwnersStep, HeldStep, WantsStep, MakesStep
<1> QED BY <1>1, <1>2, <1>3, NextIInv, ControlStep, ClaimStep, ContentStep DEF UpdateInv, PromiseInv

LEMMA UpdateKept == Spec => []UpdateInv
BY InitUpdate, NextUpdate, PTL DEF Spec

\* Whatever edits, applies, rollbacks, crashes and hard links interleave, a change
\* whose writer was told it is made is still in its roster (writeLockedRoster,
\* restoreRosterFile): every writer writes what it read under the lock with its
\* own change added, and a rollback puts back only rosters that hold exactly what
\* the apply's own unbroken chain of writes left.
THEOREM NoAcknowledgedLoss == Spec => []NoLostUpdate
<1>1. UpdateInv => NoLostUpdate
  <2> SUFFICES ASSUME UpdateInv, NEW a \in acked, a[1][1] \in Others \/ NoLinkDuringApply
               PROVE  HasChange(Content(a[2]), a[1])
    BY DEF NoLostUpdate, HasChange
  <2>1. a \in Changes \X Names
    BY DEF UpdateInv, IInv, AckedOK
  <2>2. a \in Counted
    BY <2>1 DEF Counted, Promised
  <2> QED BY <2>2 DEF UpdateInv, PromiseInv, HeldInv
<1> QED BY <1>1, UpdateKept, PTL

----------------------------------------------------------------------------
(* A journal holds its own apply's writes *)

\* The changes s has yet to make: those of later steps, and that of the step it
\* is in until the edit has read the roster.
Unused(s, j) ==
    \/ app[s].phase \in {"idle", "snapped", "ready"} /\ j > app[s].step
    \/ /\ app[s].phase = "step"
       /\ j > app[s].step + 1 \/ (op[s].pc \in Active \ Storing /\ j > app[s].step)
\* The change is in nothing that is, or may come to be, in a roster.
Fresh(ch) ==
    /\ \A i \in Inodes : ch \notin ChangesIn(data[i])
    /\ \A p \in Actors : ch \notin ChangesIn(op[p].want) /\ ch \notin ChangesIn(op[p].before)
    /\ \A t \in Sessions, k \in Keys : \A i \in DOMAIN journal[t].writes[k] :
         ch \notin ChangesIn(journal[t].writes[k][i].before)
FreshInv ==
    /\ \A s \in Sessions, j \in Nat : Unused(s, j) => Fresh(<<s, j>>)
    /\ \A s \in Sessions : op[s].pc \in Storing /\ op[s].kind = "edit" =>
         ChangeOf(s) \notin ChangesIn(op[s].before)

\* What has yet to be made had yet to be made before the step, and is not what an
\* edit now reading the roster will write.
LEMMA UnusedBefore ==
  ASSUME IInv, ControlInv, Kinds, NEW s \in Sessions, NEW j \in Nat, Unused(s, j)'
  PROVE  /\ Unused(s, j)
         /\ \A p \in Actors : Reads(p) /\ op[p].kind = "edit" => ChangeOf(p) # <<s, j>>
<1>0. s \in Actors /\ app[s].step \in Nat
  BY SessionsAct, ActorsAreTheWriters DEF IInv, AppsOK, AppTypeOK, AppType
<1>1. ASSUME app'[s].phase = app[s].phase, app'[s].step = app[s].step, op'[s] = op[s] PROVE Unused(s, j)
  BY <1>1 DEF Unused
<1>2. Unused(s, j)
  <2>1. ASSUME NEW p \in Actors, Only(p),
               Goes(p) \/ Reads(p) \/ Stops(p) \/ Removes(p) \/ Stores(p) \/ Breaks(p)
        PROVE  Unused(s, j)
    <3>1. app'[s].phase = app[s].phase /\ app'[s].step = app[s].step
      BY <2>1, WriterFrame
    <3>2. CASE s # p
      BY <1>0, <1>1, <2>1, <3>1, <3>2 DEF Only
    <3>3. CASE s = p
      <4>1. op[s].pc \in Active /\ (op'[s].pc \in Active \ Storing => op[s].pc \in Active \ Storing)
        BY <2>1, <3>3, WriterFrame DEF Goes, Reads, Storing
      <4> QED BY <1>0, <3>1, <4>1 DEF Unused
    <3> QED BY <3>2, <3>3
  <2>2. ASSUME NEW p \in Others, Only(p), Comes(p) PROVE Unused(s, j)
    BY <1>0, <1>1, <2>2, ActorsAreTheWriters DEF Only, Comes, AppsStay
  <2>3. ASSUME NEW t \in Sessions, Alone(t), Snaps(t) \/ Opens(t) \/ Closes(t) \/ Moves(t) PROVE Unused(s, j)
    <3>1. CASE s # t
      BY <1>0, <1>1, <2>3, <3>1 DEF Alone, Only
    <3>2. CASE s = t /\ (Snaps(s) \/ Opens(s))
      BY <3>2 DEF Snaps, Opens, Unused
    <3>3. CASE s = t /\ Closes(s)
      BY <3>3 DEF Closes, Unused, Ended
    <3>4. CASE s = t /\ Moves(s)
      <4>1. CASE Turns(s, {"ready"}, "step") /\ app'[s].step = app[s].step
        BY <1>0, <4>1 DEF Turns, Unused
      <4>2. CASE Turns(s, {"step"}, "ready") /\ app'[s].step = app[s].step + 1
        BY <1>0, <4>2 DEF Turns, Unused
      <4>3. CASE app'[s].phase \in {"failed", "rolling", "undoing"}
        BY <4>3 DEF Unused
      <4> QED BY <3>4, <4>1, <4>2, <4>3 DEF Moves, Turns
    <3> QED BY <2>3, <3>1, <3>2, <3>3, <3>4
  <2>4. ASSUME Dies PROVE Unused(s, j)
    BY <1>1, <2>4 DEF Dies, Unused
  <2>5. ASSUME (\E m, n \in Names : Link(m, n)) \/ UNCHANGED vars PROVE Unused(s, j)
    BY <1>1, <2>5 DEF Link, AddLink, vars
  <2> QED BY <2>1, <2>2, <2>3, <2>4, <2>5 DEF Kinds
<1>3. ASSUME NEW p \in Actors, Reads(p), op[p].kind = "edit", ChangeOf(p) = <<s, j>> PROVE FALSE
  <2>1. p = s /\ j = app[s].step + 1
    BY <1>3 DEF ChangeOf
  <2>2. op[s].pc \in Active /\ app' = app /\ op'[s].pc \in Storing
    BY <1>3, <2>1 DEF Reads, Active, Locked, Storing, AppsStay
  <2>3. app[s].phase = "step"
    BY <1>3, <2>1, <2>2 DEF ControlInv, OpOf
  <2> QED BY <1>0, <2>1, <2>2, <2>3 DEF Unused
<1> QED BY <1>2, <1>3

\* Only an edit that reads the roster brings a change in.
LEMMA FreshFiles ==
  ASSUME IInv, Kinds, NEW ch, Fresh(ch)
  PROVE  \A i \in Inodes : ch \notin ChangesIn(data'[i])
<1>0. ch \notin ChangesIn(Absent) /\ \A i \in Inodes : ch \notin ChangesIn(data[i])
  BY DEF Fresh, ChangesIn
<1>1. ASSUME NEW p \in Actors PROVE op[p].want \in Contents /\ ch \notin ChangesIn(op[p].want)
  BY DEF Fresh, IInv, FileInv, FileTypeOK, OpType
<1>2. ASSUME NEW p \in Actors PROVE ch \notin ChangesIn(Tear(op[p].want))
  <2>1. Tear(op[p].want) # Absent
    BY <1>1, TearHolds DEF HasChange
  <2> QED BY <1>1, <2>1 DEF Tear, ChangesIn
<1>3. CASE data' = data
  BY <1>0, <1>3
<1>4. ASSUME NEW p \in Actors, NEW i \in Inodes, NEW c, data' = [data EXCEPT ![i] = c], ch \notin ChangesIn(c)
      PROVE  \A l \in Inodes : ch \notin ChangesIn(data'[l])
  BY <1>0, <1>4 DEF IInv, FileInv, FileTypeOK
<1>5. ASSUME NEW p \in Actors, Goes(p) PROVE \A i \in Inodes : ch \notin ChangesIn(data'[i])
  BY <1>2, <1>3, <1>4, <1>5 DEF Goes
<1>6. ASSUME NEW p \in Actors, Removes(p) PROVE \A i \in Inodes : ch \notin ChangesIn(data'[i])
  BY <1>0, <1>6 DEF Removes, Kept
<1>7. ASSUME NEW p \in Actors, Stores(p) PROVE \A i \in Inodes : ch \notin ChangesIn(data'[i])
  <2>1. CASE Installs(p)
    <3>1. PICK i \in Inodes : data' = Kept([dir EXCEPT ![op[p].name] = i], [data EXCEPT ![i] = op[p].want])
      BY <2>1 DEF Installs
    <3>2. \A l \in Inodes : [data EXCEPT ![i] = op[p].want][l] \in {op[p].want, data[l]}
      BY DEF IInv, FileInv, FileTypeOK
    <3> QED BY <1>0, <1>1, <3>1, <3>2 DEF Kept
  <2>2. CASE op[p].pc = "inplace" /\ data' = [data EXCEPT ![op[p].fd] = op[p].want]
    <3>1. op[p].fd \in Inodes
      BY <2>2 DEF IInv, FileInv, WritesOwned, Writing
    <3> QED BY <1>1, <1>4, <2>2, <3>1
  <2> QED BY <1>7, <2>1, <2>2 DEF Stores
<1> QED BY <1>3, <1>5, <1>6, <1>7 DEF Kinds, Reads, Stops, Breaks, Comes, Alone, Dies, Link, AddLink, vars

LEMMA FreshContent ==
  ASSUME IInv, NEW ch, Fresh(ch), NEW n \in Names
  PROVE  ch \notin ChangesIn(Content(n))
<1>1. dir[n] \in Inodes \cup {None} /\ ch \notin ChangesIn(Absent)
  BY DEF IInv, FileInv, FileTypeOK, ChangesIn
<1> QED BY <1>1 DEF Content, Fresh

LEMMA FreshOps ==
  ASSUME IInv, Kinds, NEW ch, Fresh(ch),
         \A p \in Actors : Reads(p) /\ op[p].kind = "edit" => ChangeOf(p) # ch,
         NEW q \in Actors
  PROVE  ch \notin ChangesIn(op'[q].want) /\ ch \notin ChangesIn(op'[q].before)
<1>0. ch \notin ChangesIn(Absent) /\ ch \notin ChangesIn(op[q].want) /\ ch \notin ChangesIn(op[q].before)
  BY DEF Fresh, ChangesIn
<1>1. CASE op'[q] = op[q]
  BY <1>0, <1>1
<1>2. CASE Quiet(op'[q]) \/ StartsEdit(q)
  BY <1>0, <1>2 DEF Quiet, StartsEdit, Starts
<1>3. CASE Goes(q)
  BY <1>0, <1>3 DEF Goes
<1>4. CASE Reads(q)
  <2> DEFINE cur == Content(op[q].name)
  <2>0. op[q].name \in Names
    BY <1>4, OpFacts DEF Reads, Locked, IInv
  <2>1. ch \notin ChangesIn(cur) /\ op'[q].before = cur
    BY <1>4, <2>0, FreshContent DEF Reads
  <2>2. CASE op[q].kind = "edit" /\ op'[q].want = With(cur, ChangeOf(q))
    <3>1. ch # ChangeOf(q)
      BY <1>4, <2>2
    <3> HIDE DEF cur
    <3> QED BY <1>0, <2>1, <2>2, <3>1 DEF With, ChangesIn
  <2> QED BY <1>0, <1>4, <2>1, <2>2 DEF Reads
<1>5. CASE q \in Sessions /\ StartsUndo(q)
  <2>1. PICK k \in Keys :
          journal[q].writes[k] # <<>> /\ op'[q].want = journal[q].writes[k][1].before
    BY <1>5 DEF StartsUndo
  <2>2. PICK ws \in Seq(Writes) : ws = journal[q].writes[k]
    BY <1>5 DEF IInv, JournalsOK, JournalType
  <2>3. 1 \in DOMAIN ws
    BY <2>1, <2>2, EmptySeq, LenProperties
  <2> QED BY <1>0, <1>5, <2>1, <2>2, <2>3 DEF Fresh, StartsUndo, Starts
<1>6. \/ op'[q] = op[q] \/ Quiet(op'[q]) \/ StartsEdit(q) \/ Goes(q) \/ Reads(q)
      \/ (q \in Sessions /\ StartsUndo(q))
  <2>1. ASSUME NEW p \in Actors, Only(p),
               Goes(p) \/ Reads(p) \/ Stops(p) \/ Removes(p) \/ Stores(p) \/ Breaks(p)
        PROVE  op'[q] = op[q] \/ Quiet(op'[q]) \/ Goes(q) \/ Reads(q)
    BY <2>1 DEF Only, Stops, Removes, Stores, Breaks
  <2>2. ASSUME NEW p \in Others, Only(p), Comes(p) PROVE op'[q] = op[q] \/ StartsEdit(q)
    BY <2>2 DEF Only, Comes
  <2>3. ASSUME NEW s \in Sessions, Alone(s), Snaps(s) \/ Opens(s) \/ Closes(s) \/ Moves(s)
        PROVE  op'[q] = op[q] \/ Quiet(op'[q]) \/ StartsEdit(q) \/ (q \in Sessions /\ StartsUndo(q))
    BY <2>3 DEF Alone, Only, Snaps, Opens, Closes, Moves
  <2> QED BY <2>1, <2>2, <2>3 DEF Kinds, Dies, Link, AddLink, vars
<1> QED BY <1>1, <1>2, <1>3, <1>4, <1>5, <1>6

\* What a step does to a journal: it records a write, or keeps or forgets its own.
LEMMA JournalGrows ==
  ASSUME IInv, Kinds, NEW t \in Sessions, NEW k \in Keys
  PROVE  \/ journal'[t].writes[k] \in {journal[t].writes[k], <<>>}
         \/ \E p \in Actors, failed \in BOOLEAN :
              /\ op[p].pc \in Storing /\ t = op[p].rec /\ k = LockKey(op[p])
              /\ journal'[t].writes[k] = Append(journal[t].writes[k], WriteOf(p, failed))
<1>0. NewJournal.writes[k] = <<>>
  BY DEF NewJournal
<1>1. ASSUME NEW p \in Actors, Stores(p) \/ Breaks(p)
      PROVE  \/ journal'[t].writes[k] = journal[t].writes[k]
             \/ \E failed \in BOOLEAN :
                  /\ op[p].pc \in Storing /\ t = op[p].rec /\ k = LockKey(op[p])
                  /\ journal'[t].writes[k] = Append(journal[t].writes[k], WriteOf(p, failed))
  <2>1. PICK failed \in BOOLEAN : op[p].pc \in Storing /\ Record(p, failed)
    BY <1>1 DEF Stores, Breaks
  <2> QED BY <2>1, RecordFacts
<1>2. ASSUME NEW s \in Sessions, Alone(s), Snaps(s) \/ Opens(s) \/ Closes(s) \/ Moves(s)
      PROVE  journal'[t].writes[k] \in {journal[t].writes[k], <<>>}
  BY <1>0, <1>2 DEF Alone, Snaps, Opens, Closes, Moves
<1>3. ASSUME Dies PROVE journal'[t].writes[k] \in {journal[t].writes[k], <<>>}
  BY <1>0, <1>3 DEF Dies
<1>4. ASSUME journal' = journal PROVE journal'[t].writes[k] \in {journal[t].writes[k], <<>>}
  BY <1>4
<1> QED BY <1>1, <1>2, <1>3, <1>4 DEF Kinds, Goes, Reads, Stops, Removes, Comes, AppsStay, Link, vars

\* The writes in a journal after a step were there, or one is new.
LEMMA JournalWrites ==
  ASSUME IInv, Kinds, NEW t \in Sessions, NEW k \in Keys, NEW i \in DOMAIN journal'[t].writes[k]
  PROVE  \/ i \in DOMAIN journal[t].writes[k] /\ journal'[t].writes[k][i] = journal[t].writes[k][i]
         \/ \E p \in Actors, failed \in BOOLEAN :
              /\ op[p].pc \in Storing /\ t = op[p].rec
              /\ journal'[t].writes[k][i] = WriteOf(p, failed)
<1>1. CASE journal'[t].writes[k] \in {journal[t].writes[k], <<>>}
  BY <1>1
<1>2. ASSUME NEW p \in Actors, NEW failed \in BOOLEAN, op[p].pc \in Storing, t = op[p].rec,
             journal'[t].writes[k] = Append(journal[t].writes[k], WriteOf(p, failed))
      PROVE  \/ i \in DOMAIN journal[t].writes[k] /\ journal'[t].writes[k][i] = journal[t].writes[k][i]
             \/ journal'[t].writes[k][i] = WriteOf(p, failed)
  <2>1. PICK ws \in Seq(Writes) : ws = journal[t].writes[k]
    BY DEF IInv, JournalsOK, JournalType
  <2>2. PICK w : w = WriteOf(p, failed)
    OBVIOUS
  <2>3. i \in DOMAIN Append(ws, w)
    BY <1>2, <2>1, <2>2
  <2>4. (i \in DOMAIN ws /\ Append(ws, w)[i] = ws[i]) \/ Append(ws, w)[i] = w
    BY <2>1, <2>3
  <2> QED BY <1>2, <2>1, <2>2, <2>4
<1> QED BY <1>1, <1>2, JournalGrows

LEMMA FreshStep ==
  ASSUME IInv, ControlInv, FreshInv, Kinds
  PROVE  FreshInv'
<1>1. ASSUME NEW s \in Sessions, NEW j \in Nat, Unused(s, j)' PROVE Fresh(<<s, j>>)'
  <2> DEFINE ch == <<s, j>>
  <2>1. Unused(s, j) /\ \A p \in Actors : Reads(p) /\ op[p].kind = "edit" => ChangeOf(p) # ch
    BY <1>1, UnusedBefore
  <2>2. Fresh(ch)
    BY <2>1 DEF FreshInv
  <2> HIDE DEF ch
  <2>3. \A i \in Inodes : ch \notin ChangesIn(data'[i])
    BY <2>2, FreshFiles
  <2>4. \A q \in Actors : ch \notin ChangesIn(op'[q].want) /\ ch \notin ChangesIn(op'[q].before)
    BY <2>1, <2>2, FreshOps
  <2>5. ASSUME NEW t \in Sessions, NEW k \in Keys, NEW i \in DOMAIN journal'[t].writes[k]
        PROVE  ch \notin ChangesIn(journal'[t].writes[k][i].before)
    <3>1. CASE i \in DOMAIN journal[t].writes[k] /\ journal'[t].writes[k][i] = journal[t].writes[k][i]
      BY <2>2, <3>1 DEF Fresh
    <3>2. ASSUME NEW p \in Actors, NEW failed \in BOOLEAN, journal'[t].writes[k][i] = WriteOf(p, failed)
          PROVE  ch \notin ChangesIn(journal'[t].writes[k][i].before)
      <4>1. WriteOf(p, failed).before = op[p].before
        BY DEF WriteOf
      <4> QED BY <2>2, <3>2, <4>1 DEF Fresh
    <3> QED BY <2>5, <3>1, <3>2, JournalWrites
  <2>6. Fresh(ch)'
    BY <2>3, <2>4, <2>5 DEF Fresh, ch
  <2> QED BY <2>6 DEF ch
<1>2. ASSUME NEW s \in Sessions, op'[s].pc \in Storing, op'[s].kind = "edit"
      PROVE  ChangeOf(s)' \notin ChangesIn(op'[s].before)
  <2>0. s \in Actors /\ app[s].step \in Nat
    BY SessionsAct, ActorsAreTheWriters DEF IInv, AppsOK, AppTypeOK, AppType
  <2>1. /\ op'[s].kind = op[s].kind /\ ChangeOf(s)' = ChangeOf(s)
        /\ (op[s].pc \in Storing /\ op'[s].before = op[s].before) \/ Reads(s)
    BY <1>2, <2>0, StoringBefore
  <2>2. CASE Reads(s)
    <3>1. /\ op[s].pc \in Active \ Storing /\ op[s].pc \in {"lock"} \cup Locked
          /\ op'[s].before = Content(op[s].name)
      BY <2>2 DEF Reads, Active, Locked, Storing
    <3>2. app[s].phase = "step"
      BY <1>2, <2>1, <3>1 DEF ControlInv, OpOf
    <3>3. PICK j \in Nat : j = app[s].step + 1
      BY <2>0
    <3>4. Unused(s, j)
      BY <2>0, <3>1, <3>2, <3>3 DEF Unused
    <3>5. Fresh(<<s, j>>) /\ ChangeOf(s) = <<s, j>>
      BY <3>3, <3>4 DEF FreshInv, ChangeOf
    <3>6. op[s].name \in Names
      BY <2>0, <3>1, OpFacts DEF IInv
    <3> QED BY <2>1, <3>1, <3>5, <3>6, FreshContent
  <2> QED BY <1>2, <2>1, <2>2 DEF FreshInv
<1> QED BY <1>1, <1>2 DEF FreshInv

LEMMA InitFresh == Init => FreshInv
<1> SUFFICES ASSUME Init PROVE FreshInv
  OBVIOUS
<1>1. ChangesIn(Absent) = {} /\ ChangesIn([torn |-> FALSE, has |-> {}]) = {}
  BY DEF ChangesIn
<1>2. \A i \in Inodes : ChangesIn(data[i]) = {}
  BY <1>1 DEF Init
<1>3. \A p \in Actors : op[p].want = Absent /\ op[p].before = Absent /\ op[p].pc \notin Storing
  BY DEF Init, NoOp, Storing
<1>4. \A t \in Sessions, k \in Keys : journal[t].writes[k] = <<>>
  BY DEF Init, NewJournal
<1>5. \A ch : Fresh(ch)
  BY <1>1, <1>2, <1>3, <1>4 DEF Fresh
<1> QED BY <1>3, <1>5, SessionsAct DEF FreshInv

\* w is a write of s that added one of its changes.
OwnWrite(s, w) == \E c \in w.after.has : c[1] = s /\ (w.before = Absent \/ c \notin w.before.has)

LEMMA OwnWritesStep ==
  ASSUME UpdateInv, FreshInv, JournalOwnWrites, Kinds
  PROVE  JournalOwnWrites'
<1>0. IInv /\ ControlInv /\ ClaimInv /\ MakesInv
  BY DEF UpdateInv, PromiseInv
<1> SUFFICES ASSUME NoLinkDuringApply', NEW s \in Sessions, NEW k \in Keys,
                    NEW i \in DOMAIN journal'[s].writes[k]
             PROVE  OwnWrite(s, journal'[s].writes[k][i])
  BY DEF JournalOwnWrites, OwnWrite
<1>1. NoLinkDuringApply
  BY LinksStay
<1>2. CASE i \in DOMAIN journal[s].writes[k] /\ journal'[s].writes[k][i] = journal[s].writes[k][i]
  BY <1>1, <1>2 DEF JournalOwnWrites, OwnWrite
<1>3. ASSUME NEW p \in Actors, NEW failed \in BOOLEAN, op[p].pc \in Storing, s = op[p].rec,
             journal'[s].writes[k][i] = WriteOf(p, failed)
      PROVE  OwnWrite(s, journal'[s].writes[k][i])
  <2>1. s # None
    BY SessionsAct, DistinctMarks
  <2>2. p \in Sessions
    BY <1>0, <1>3, <2>1, ActorsAreTheWriters DEF ControlInv
  <2>3. s = p /\ op[p].kind = "edit"
    BY <1>0, <1>1, <1>3, <2>1, <2>2 DEF ClaimInv, OpClaimed
  <2>4. ChangeOf(p) \in op[p].want.has /\ ChangeOf(p)[1] = p
    BY <1>0, <1>3, <2>3 DEF MakesInv, ChangeOf
  <2>5. op[p].before = Absent \/ ChangeOf(p) \notin op[p].before.has
    BY <1>3, <2>2, <2>3 DEF FreshInv, ChangesIn
  <2>6. WriteOf(p, failed).before = op[p].before /\ WriteOf(p, failed).after = op[p].want
    BY DEF WriteOf
  <2> QED BY <1>3, <2>3, <2>4, <2>5, <2>6 DEF OwnWrite
<1> QED BY <1>0, <1>2, <1>3, JournalWrites

\* As long as no roster gains a name while an apply runs, every write a journal
\* holds is one of its own apply's edits, never another apply's write or rollback
\* (beginJournaledRosterWrite, overlap): the claims of running applies do not
\* meet, so the first journal that watches the locked roster is the writer's, and
\* what an edit adds is in no roster before it.
THEOREM JournalsRecordOwn == Spec => []JournalOwnWrites
<1>1. Init => UpdateInv /\ FreshInv /\ JournalOwnWrites
  <2>1. Init => JournalOwnWrites
    BY DEF Init, NewJournal, JournalOwnWrites
  <2> QED BY <2>1, InitUpdate, InitFresh
<1>2. UpdateInv /\ FreshInv /\ JournalOwnWrites /\ [Next]_vars => UpdateInv' /\ FreshInv' /\ JournalOwnWrites'
  <2> SUFFICES ASSUME UpdateInv, FreshInv, JournalOwnWrites, [Next]_vars
               PROVE  UpdateInv' /\ FreshInv' /\ JournalOwnWrites'
    OBVIOUS
  <2>1. IInv /\ ControlInv
    BY DEF UpdateInv
  <2>2. Kinds
    BY <2>1, StepKinds
  <2> QED BY <2>1, <2>2, NextUpdate, FreshStep, OwnWritesStep
<1> QED BY <1>1, <1>2, PTL DEF Spec

----------------------------------------------------------------------------
(* One file, one key *)

\* Names with the same key are one file, and hold the same.
LEMMA KeyFacts ==
  ASSUME IInv, NEW n \in Names
  PROVE  /\ FileKey(n) \in Keys /\ dir[n] \in Inodes \cup {None}
         /\ FileKey(n) \in Names <=> FileKey(n) = n
         /\ FileKey(n) # n <=> dir[n] # None /\ Linked(dir[n])
         /\ FileKey(n) # n => FileKey(n) = dir[n] /\ dir[n] \in Inodes
<1>1. dir[n] \in Inodes \cup {None}
  BY DEF IInv, FileInv, FileTypeOK
<1> QED BY <1>1, DistinctMarks DEF FileKey, Keys

LEMMA KeySame ==
  ASSUME IInv, NEW m \in Names, NEW n \in Names
  PROVE  FileKey(m) = FileKey(n) <=> m = n \/ (dir[m] = dir[n] /\ dir[n] # None)
<1>1. CASE m # n /\ dir[m] = dir[n] /\ dir[n] # None
  BY <1>1 DEF FileKey, Linked
<1>2. ASSUME m # n, FileKey(m) = FileKey(n) PROVE dir[m] = dir[n] /\ dir[n] # None
  BY <1>2, KeyFacts
<1> QED BY <1>1, <1>2

LEMMA KeyContent ==
  ASSUME IInv, NEW m \in Names, NEW n \in Names, FileKey(m) = FileKey(n)
  PROVE  Content(m) = Content(n)
BY KeySame DEF Content

\* A writer that has locked its roster as the file it is.
Live(p) == op[p].pc \in Locked /\ (op[p].ident # None \/ FileKey(op[p].name) = op[p].name)

LEMMA LiveApart ==
  ASSUME IInv, NEW p \in Actors, NEW q \in Actors, Live(p), Live(q),
         FileKey(op[p].name) = FileKey(op[q].name)
  PROVE  p = q
<1>1. /\ op[p].name \in Names /\ op[q].name \in Names /\ side[op[p].name] = p /\ side[op[q].name] = q
      /\ op[p].ident # None => ilock[op[p].ident] = p /\ op[p].ident = dir[op[p].name]
      /\ op[q].ident # None => ilock[op[q].ident] = q /\ op[q].ident = dir[op[q].name]
  BY OpFacts DEF Live, IInv
<1>2. CASE op[p].name = op[q].name
  BY <1>1, <1>2
<1>3. CASE op[p].name # op[q].name
  <2>1. dir[op[p].name] = dir[op[q].name] /\ dir[op[q].name] # None
    BY <1>1, <1>3, KeySame
  <2>2. FileKey(op[p].name) # op[p].name /\ FileKey(op[q].name) # op[q].name
    BY <1>1, <1>3, KeyFacts
  <2>3. op[p].ident = op[q].ident /\ op[p].ident # None
    BY <1>1, <2>1, <2>2 DEF Live
  <2> QED BY <1>1, <2>3
<1> QED BY <1>2, <1>3

\* What a step does to the files, as their names see it: nothing, or a writer
\* gives the roster it has locked, under all its names, new contents.
KeysStay == \A m \in Names : FileKey(m)' = FileKey(m)
FilesStay == KeysStay /\ \A m \in Names : Content(m)' = Content(m)
FileStep(p, c) ==
    /\ KeysStay
    /\ \A m \in Names : Content(m)' = IF FileKey(m) = FileKey(op[p].name) THEN c ELSE Content(m)

LEMMA SameFiles == ASSUME dir' = dir, data' = data PROVE FilesStay
BY DEF FilesStay, KeysStay, FileKey, Linked, Content

\* A write to an inode.
LEMMA InPlaceFiles ==
  ASSUME IInv, NEW p \in Actors, op[p].pc \in Locked, NEW c, dir[op[p].name] \in Inodes,
         dir' = dir, data' = [data EXCEPT ![dir[op[p].name]] = c]
  PROVE  FileStep(p, c)
<1>1. op[p].name \in Names
  BY OpFacts DEF IInv
<1>2. KeysStay
  BY DEF KeysStay, FileKey, Linked
<1>3. ASSUME NEW m \in Names
      PROVE  Content(m)' = IF FileKey(m) = FileKey(op[p].name) THEN c ELSE Content(m)
  <2>1. FileKey(m) = FileKey(op[p].name) <=> dir[m] = dir[op[p].name]
    BY <1>1, KeySame, DistinctMarks
  <2>2. dir[m] \in Inodes \cup {None} /\ None \notin Inodes
    BY KeyFacts, DistinctMarks
  <2>3. Content(m)' = IF dir[m] = dir[op[p].name] THEN c ELSE Content(m)
    BY <2>2 DEF Content, IInv, FileInv, FileTypeOK
  <2> QED BY <2>1, <2>3
<1> QED BY <1>2, <1>3 DEF FileStep

\* A name with no link gets another file, or none.
LEMMA RenameFiles ==
  ASSUME IInv, NEW p \in Actors, op[p].pc \in Locked, FileKey(op[p].name) = op[p].name,
         NEW i \in Inodes \cup {None}, dir' = [dir EXCEPT ![op[p].name] = i],
         \A m \in Names : dir[m] # None => dir[m] # i,
         \A m \in Names : m # op[p].name /\ dir[m] # None => data'[dir[m]] = data[dir[m]],
         NEW c, c = IF i = None THEN Absent ELSE data'[i]
  PROVE  FileStep(p, c)
<1>0. op[p].name \in Names /\ dir \in [Names -> Inodes \cup {None}]
  BY OpFacts DEF IInv, FileInv, FileTypeOK
<1> DEFINE n == op[p].name
<1>1. dir'[n] = i /\ \A m \in Names : m # n => dir'[m] = dir[m]
  BY <1>0
<1>2. ~(dir[n] # None /\ Linked(dir[n]))
  BY <1>0, KeyFacts
<1>3. \A m \in Names : m # n => dir[m] # dir[n] \/ dir[n] = None
  BY <1>0, <1>2 DEF Linked
<1> HIDE DEF n
<1>5. ASSUME NEW m \in Names PROVE FileKey(m)' = FileKey(m)
  <2>1. CASE m = n
    <3>1. ~(dir'[m] # None /\ Linked(dir[m])')
      BY <1>0, <1>1, <2>1 DEF Linked
    <3>2. FileKey(m)' = m
      BY <3>1 DEF FileKey
    <3>3. FileKey(m) = m
      BY <2>1 DEF n
    <3> QED BY <3>2, <3>3
  <2>2. CASE m # n
    <3>1. dir'[m] = dir[m]
      BY <1>1, <2>2
    <3>2. ASSUME dir[m] # None PROVE Linked(dir[m])' <=> Linked(dir[m])
      <4>1. ASSUME Linked(dir[m])' PROVE Linked(dir[m])
        <5>1. PICK a \in Names, b \in Names : a # b /\ dir'[a] = dir'[m] /\ dir'[b] = dir'[m]
          BY <4>1 DEF Linked
        <5>2. a # n /\ b # n
          BY <1>1, <3>1, <3>2, <5>1
        <5> QED BY <1>1, <3>1, <5>1, <5>2 DEF Linked
      <4>2. ASSUME Linked(dir[m]) PROVE Linked(dir[m])'
        <5>1. PICK a \in Names, b \in Names : a # b /\ dir[a] = dir[m] /\ dir[b] = dir[m]
          BY <4>2 DEF Linked
        <5>2. a # n /\ b # n
          BY <1>3, <2>2, <3>2, <5>1
        <5> QED BY <1>1, <3>1, <5>1, <5>2 DEF Linked
      <4> QED BY <4>1, <4>2
    <3> QED BY <3>1, <3>2 DEF FileKey
  <2> QED BY <2>1, <2>2
<1>6. ASSUME NEW m \in Names PROVE Content(m)' = IF FileKey(m) = FileKey(n) THEN c ELSE Content(m)
  <2>1. FileKey(m) = FileKey(n) <=> m = n
    BY <1>0, <1>3, KeySame DEF n
  <2>2. CASE m = n
    BY <1>1, <2>1, <2>2 DEF Content
  <2>3. CASE m # n
    <3>1. dir'[m] = dir[m] /\ (dir[m] # None => data'[dir[m]] = data[dir[m]])
      BY <1>0, <1>1, <2>3 DEF n
    <3> QED BY <2>1, <2>3, <3>1 DEF Content
  <2> QED BY <2>2, <2>3
<1> QED BY <1>5, <1>6 DEF FileStep, KeysStay, n

----------------------------------------------------------------------------
(* What an open operation knows *)

\* Before the inode is locked there is none; a file to be replaced has one name;
\* what was absent was locked by name only; a command adds one change.
OpenInv ==
    \A p \in Actors :
      /\ op[p].pc \in {"lock", "inode"} => op[p].ident = None
      /\ op[p].pc = "replace" => ~Linked(op[p].fd)
      /\ op[p].pc \in Storing /\ op[p].before = Absent => op[p].ident = None
      /\ op[p].pc \in Storing /\ p \in Others =>
           ChangesIn(op[p].want) = ChangesIn(op[p].before) \cup {<<p, 1>>}

\* What a step does to an operation.
LEMMA OpSteps ==
  ASSUME Kinds, NEW q \in Actors
  PROVE  op'[q] = op[q] \/ Quiet(op'[q]) \/ Starts(q) \/ Goes(q) \/ Reads(q)
<1>1. ASSUME NEW p \in Actors, Only(p),
             Goes(p) \/ Reads(p) \/ Stops(p) \/ Removes(p) \/ Stores(p) \/ Breaks(p)
      PROVE  op'[q] = op[q] \/ Quiet(op'[q]) \/ Goes(q) \/ Reads(q)
  BY <1>1 DEF Only, Stops, Removes, Stores, Breaks
<1>2. ASSUME NEW p \in Others, Only(p), Comes(p) PROVE op'[q] = op[q] \/ Starts(q)
  BY <1>2 DEF Only, Comes, StartsEdit
<1>3. ASSUME NEW s \in Sessions, Alone(s), Snaps(s) \/ Opens(s) \/ Closes(s) \/ Moves(s)
      PROVE  op'[q] = op[q] \/ Quiet(op'[q]) \/ Starts(q)
  BY <1>3 DEF Alone, Only, Snaps, Opens, Closes, Moves, StartsEdit, StartsUndo
<1> QED BY <1>1, <1>2, <1>3 DEF Kinds, Dies, Link, AddLink, vars

\* A file being written gains no name.
LEMMA WrittenUnlinked ==
  ASSUME IInv, Kinds, NEW q \in Actors, op[q].pc \in Writing, ~Linked(op[q].fd), NEW i, i = op[q].fd
  PROVE  ~Linked(i)'
<1>0. i \in Inodes /\ i # None
  BY DistinctMarks DEF IInv, FileInv, WritesOwned
<1> SUFFICES ASSUME NEW m \in Names, NEW n \in Names, m # n, dir'[m] = i, dir'[n] = i PROVE FALSE
  BY DEF Linked
<1>1. ASSUME OldLinks PROVE FALSE
  <2>1. dir[m] = i /\ dir[n] = i
    BY <1>0, <1>1 DEF OldLinks
  <2> QED BY <2>1 DEF Linked
<1>2. ASSUME dir' = dir PROVE FALSE
  BY <1>2 DEF Linked
<1>3. ASSUME NEW a \in Names, NEW b \in Names, Link(a, b) PROVE FALSE
  <2>1. dir' = [dir EXCEPT ![b] = dir[a]] /\ dir[a] # i
    BY <1>3 DEF Link, AddLink, Writing
  <2>2. dir[m] = i /\ dir[n] = i
    BY <2>1 DEF IInv, FileInv, FileTypeOK
  <2> QED BY <2>2 DEF Linked
<1> QED BY <1>1, <1>2, <1>3, NoNewLinks DEF Kinds, Comes, Alone, Dies, vars

LEMMA OpenStep ==
  ASSUME IInv, ControlInv, OpenInv, Kinds
  PROVE  OpenInv'
<1> SUFFICES ASSUME NEW q \in Actors
             PROVE  /\ op'[q].pc \in {"lock", "inode"} => op'[q].ident = None
                    /\ op'[q].pc = "replace" => ~Linked(op[q].fd)'
                    /\ op'[q].pc \in Storing /\ op'[q].before = Absent => op'[q].ident = None
                    /\ op'[q].pc \in Storing /\ q \in Others =>
                         ChangesIn(op'[q].want) = ChangesIn(op'[q].before) \cup {<<q, 1>>}
  BY DEF OpenInv
<1>0. /\ op[q].pc \in {"lock", "inode"} => op[q].ident = None
      /\ op[q].pc = "replace" => ~Linked(op[q].fd)
      /\ op[q].pc \in Storing /\ op[q].before = Absent => op[q].ident = None
      /\ op[q].pc \in Storing /\ q \in Others => ChangesIn(op[q].want) = ChangesIn(op[q].before) \cup {<<q, 1>>}
  BY DEF OpenInv
<1>1. op'[q].pc \in {"lock", "inode"} => op'[q].ident = None
  <2>1. CASE Goes(q)
    BY <1>0, <2>1 DEF Goes, Locks, Prepares, Tears
  <2> QED BY <1>0, <2>1, OpSteps DEF Quiet, Starts, Reads, Active, Locked
<1>2. op'[q].pc = "replace" => ~Linked(op[q].fd)'
  <2> SUFFICES ASSUME op'[q].pc = "replace" PROVE ~Linked(op[q].fd)'
    OBVIOUS
  <2>1. CASE op'[q] = op[q]
    <3>1. PICK i : i = op[q].fd
      OBVIOUS
    <3>2. ~Linked(i)'
      BY <1>0, <2>1, <3>1, WrittenUnlinked DEF Writing
    <3> QED BY <2>1, <3>1, <3>2 DEF Linked
  <2>2. CASE Goes(q)
    BY <2>2 DEF Goes, Locks, Prepares, Tears, Linked
  <2> QED BY <2>1, <2>2, OpSteps DEF Quiet, Starts, Reads, Active, Locked
<1>3. ASSUME op'[q].pc \in Storing
      PROVE  /\ op'[q].before = Absent => op'[q].ident = None
             /\ q \in Others => ChangesIn(op'[q].want) = ChangesIn(op'[q].before) \cup {<<q, 1>>}
  <2>1. /\ op'[q].kind = op[q].kind /\ op'[q].ident = op[q].ident
        /\ \/ op[q].pc \in Storing /\ op'[q].want = op[q].want /\ op'[q].before = op[q].before
           \/ Reads(q)
    BY <1>3, StoringBefore
  <2>2. CASE Reads(q)
    <3>1. op[q].pc \in Locked /\ op'[q].before = Content(op[q].name)
      BY <2>2 DEF Reads, Locked
    <3>2. /\ op[q].ident # None => op[q].ident = dir[op[q].name]
          /\ op[q].name \in Names
      BY <3>1, OpFacts DEF IInv
    <3>3. op[q].ident # None => op'[q].before # Absent
      BY <3>1, <3>2 DEF Content, IInv, FileInv, FileTypeOK
    <3>4. ASSUME q \in Others PROVE ChangesIn(op'[q].want) = ChangesIn(op'[q].before) \cup {<<q, 1>>}
      <4>1. op[q].kind = "edit" /\ q \notin Sessions
        BY <3>4, ActorsAreTheWriters DEF ControlInv
      <4>2. op'[q].want = With(Content(op[q].name), ChangeOf(q)) /\ ChangeOf(q) = <<q, 1>>
        BY <2>2, <4>1 DEF Reads, ChangeOf
      <4>3. PICK c : c = Content(op[q].name)
        OBVIOUS
      <4>5. With(c, <<q, 1>>) # Absent
        <5>1. c \in Contents /\ <<q, 1>> \in Changes
          BY <3>2, <3>4, <4>3, ActorsAreTheWriters DEF Content, Contents, IInv, FileInv, FileTypeOK
        <5>2. With(c, <<q, 1>>) \in Bytes
          BY <5>1 DEF With, Bytes, Contents, ChangesIn
        <5> QED BY <5>2, DistinctMarks DEF Bytes
      <4>6. ChangesIn(With(c, <<q, 1>>)) = ChangesIn(c) \cup {<<q, 1>>}
        BY <4>5 DEF ChangesIn, With
      <4> QED BY <3>1, <4>2, <4>3, <4>6
    <3> QED BY <2>1, <3>3, <3>4
  <2> QED BY <1>0, <2>1, <2>2
<1> QED BY <1>1, <1>2, <1>3

----------------------------------------------------------------------------
(* Keys while an apply runs *)

\* As long as no roster gains a name while an apply runs: what an apply removes
\* has one name; its operations are locked, and its edits journalled by it, under
\* the key the roster has; and so has every file its rollback has yet to see or
\* is undoing.
KeysOf(s) ==
    /\ \A n \in Names : op[s].name = n =>
         /\ op[s].pc \in Active /\ op[s].kind = "remove" => FileKey(n) = n
         /\ op[s].pc \in {"held"} \cup Storing => FileKey(n) = IF op[s].ident = None THEN n ELSE op[s].ident
    /\ op[s].pc \in Storing /\ op[s].kind = "edit" => op[s].rec = s
    /\ app[s].phase \in Rolling => \A f \in app[s].files \cup app[s].file : \A n \in f.rels : FileKey(n) = f.key
    /\ app[s].phase \notin Ended \cup {"undoing"} => app[s].file = {}
KeysInv == NoLinkDuringApply => \A s \in Sessions : KeysOf(s)

\* A roster that was absent when an apply first wrote it has one name.
FirstInv ==
    \A s \in Sessions, k \in Keys :
      journal[s].writes[k] # <<>> /\ journal[s].writes[k][1].before = Absent => k \in Names

\* What the writes of an operation do to the files.
LEMMA TearFiles ==
  ASSUME IInv, NEW p \in Actors, Tears(p), dir' = dir
  PROVE  Live(p) /\ FileStep(p, Tear(op[p].want))
<1>1. op[p].pc \in Locked /\ op[p].pc \in {"lock"} \cup Locked
  BY DEF Tears, Locked
<1>2. op[p].name \in Names
  BY <1>1, OpFacts DEF IInv
<1>3. Live(p)
  BY <1>1, <1>2, KeyFacts DEF Tears, GainedLink, Live
<1> QED BY <1>1, <1>3, InPlaceFiles DEF Tears

LEMMA StoreFiles ==
  ASSUME IInv, OpenInv, NEW p \in Actors, Stores(p)
  PROVE  Live(p) /\ FileStep(p, op[p].want)
<1>1. op[p].pc \in Locked /\ op[p].pc \in {"lock"} \cup Locked
  BY DEF Stores, Storing, Locked
<1>2. op[p].name \in Names
  BY <1>1, OpFacts DEF IInv
<1>3. op[p].pc \in Writing =>
        /\ op[p].fd \in Inodes /\ op[p].fd = dir[op[p].name] /\ op[p].fd # None
        /\ Linked(op[p].fd) => op[p].ident = op[p].fd
  BY DistinctMarks DEF IInv, FileInv, WritesOwned
<1>4. CASE Installs(p) /\ (op[p].pc = "replace" \/ (op[p].pc = "open" /\ dir[op[p].name] = None))
  <2>1. op[p].pc = "replace" => ~Linked(dir[op[p].name])
    BY <1>3 DEF OpenInv, Writing
  <2>2. FileKey(op[p].name) = op[p].name
    BY <1>2, <1>4, <2>1, KeyFacts
  <2>3. PICK i \in Inodes :
          /\ FreeInode(i) /\ dir' = [dir EXCEPT ![op[p].name] = i]
          /\ data' = Kept([dir EXCEPT ![op[p].name] = i], [data EXCEPT ![i] = op[p].want])
    BY <1>4 DEF Installs
  <2>4. i # None /\ \A m \in Names : dir[m] # None => dir[m] # i
    BY <2>3, DistinctMarks DEF FreeInode
  <2>5. ASSUME NEW m \in Names, m # op[p].name, dir[m] # None PROVE data'[dir[m]] = data[dir[m]]
    <3>1. dir[m] \in Inodes /\ dir[m] # i /\ dir'[m] = dir[m]
      BY <2>3, <2>4, <2>5 DEF IInv, FileInv, FileTypeOK
    <3>2. data'[dir[m]] = [data EXCEPT ![i] = op[p].want][dir[m]]
      BY <2>3, <3>1 DEF Kept
    <3> QED BY <3>1, <3>2 DEF IInv, FileInv, FileTypeOK
  <2>6. data'[i] = op[p].want
    <3>1. dir'[op[p].name] = i
      BY <1>2, <2>3 DEF IInv, FileInv, FileTypeOK
    <3>2. data'[i] = [data EXCEPT ![i] = op[p].want][i]
      BY <1>2, <2>3, <3>1 DEF Kept
    <3> QED BY <3>2 DEF IInv, FileInv, FileTypeOK
  <2>7. FileStep(p, op[p].want)
    BY <1>1, <2>2, <2>3, <2>4, <2>5, <2>6, RenameFiles
  <2> QED BY <1>1, <2>2, <2>7 DEF Live
<1>5. CASE op[p].pc = "inplace" /\ dir' = dir /\ data' = [data EXCEPT ![op[p].fd] = op[p].want]
  <2>1. Live(p)
    BY <1>1, <1>2, <1>3, <1>5, KeyFacts DEF Live, Writing
  <2> QED BY <1>1, <1>3, <1>5, <2>1, InPlaceFiles DEF Writing
<1> QED BY <1>4, <1>5 DEF Stores

LEMMA RemoveFiles ==
  ASSUME IInv, NEW p \in Actors, Removes(p), FileKey(op[p].name) = op[p].name
  PROVE  Live(p) /\ FileStep(p, Absent)
<1>1. op[p].pc \in Locked
  BY DEF Removes, Locked
<1>2. dir' = [dir EXCEPT ![op[p].name] = None] /\ data' = Kept([dir EXCEPT ![op[p].name] = None], data)
  BY DEF Removes
<1>3. ASSUME NEW m \in Names, m # op[p].name, dir[m] # None PROVE data'[dir[m]] = data[dir[m]]
  <2>1. dir[m] \in Inodes /\ dir'[m] = dir[m]
    BY <1>2, <1>3 DEF IInv, FileInv, FileTypeOK
  <2> QED BY <1>2, <2>1 DEF Kept
<1>4. FileStep(p, Absent)
  BY <1>1, <1>2, <1>3, RenameFiles
<1> QED BY <1>1, <1>4 DEF Live

LEMMA RemovesUnlinked ==
  ASSUME IInv, ControlInv, KeysInv, NoLinkDuringApply, NEW p \in Actors, Removes(p)
  PROVE  p \in Sessions /\ FileKey(op[p].name) = op[p].name
<1>1. op[p].pc \in Active /\ op[p].pc \in {"lock"} \cup Locked
  BY DEF Removes, Active, Locked
<1>2. p \in Sessions
  BY ActorsAreTheWriters DEF Removes, ControlInv
<1>3. op[p].name \in Names
  BY <1>1, OpFacts DEF IInv
<1> QED BY <1>1, <1>2, <1>3 DEF KeysInv, KeysOf, Removes

\* A step of a writer, as the files see it.
LEMMA WriterFiles ==
  ASSUME IInv, ControlInv, OpenInv, KeysInv, NoLinkDuringApply, NEW p \in Actors,
         Goes(p) \/ Reads(p) \/ Stops(p) \/ Removes(p) \/ Stores(p) \/ Breaks(p)
  PROVE  \/ FilesStay /\ ~Tears(p) /\ ~Stores(p) /\ ~Removes(p)
         \/ Goes(p) /\ Tears(p) /\ Live(p) /\ FileStep(p, Tear(op[p].want))
         \/ Stores(p) /\ Live(p) /\ FileStep(p, op[p].want)
         \/ Removes(p) /\ p \in Sessions /\ Live(p) /\ FileStep(p, Absent)
<1>1. CASE Goes(p)
  <2>1. CASE Tears(p)
    BY <1>1, <2>1, TearFiles DEF Goes
  <2>2. CASE ~Tears(p)
    <3>1. dir' = dir /\ data' = data
      BY <1>1, <2>2 DEF Goes, Locks, Prepares
    <3>2. ~Stores(p) /\ ~Removes(p)
      BY <1>1 DEF Goes, Stores, Removes, Quiet
    <3> QED BY <2>2, <3>1, <3>2, SameFiles
  <2> QED BY <2>1, <2>2
<1>2. CASE Removes(p)
  BY <1>2, RemovesUnlinked, RemoveFiles
<1>3. CASE Stores(p)
  BY <1>3, StoreFiles
<1>4. CASE (Reads(p) \/ Stops(p) \/ Breaks(p)) /\ ~Stores(p) /\ ~Removes(p)
  <2>1. dir' = dir /\ data' = data
    BY <1>4 DEF Reads, Stops, Breaks
  <2>2. ~Tears(p)
    BY <1>4 DEF Reads, Stops, Breaks, Tears, Quiet, Active, Locked
  <2> QED BY <1>4, <2>1, <2>2, SameFiles
<1> QED BY <1>1, <1>2, <1>3, <1>4

\* While an apply runs every roster keeps its key.
Runs(s) == app[s].phase \notin Ended \cup {"idle"}

LEMMA LinkWhileNoneRuns ==
  ASSUME NEW m \in Names, NEW n \in Names, Link(m, n), NoLinkDuringApply', NEW s \in Sessions
  PROVE  ~Runs(s)
<1> DEFINE during == {t \in Sessions : app[t].phase \notin Ended \cup {"idle"}}
           l == [name |-> n, during |-> during]
<1>1. l \in links'
  BY DEF Link
<1>2. l.during = {}
  BY <1>1 DEF NoLinkDuringApply
<1> QED BY <1>2 DEF Runs

LEMMA RunsKeys ==
  ASSUME IInv, ControlInv, OpenInv, KeysInv, Kinds, NoLinkDuringApply', NEW s \in Sessions, Runs(s)
  PROVE  KeysStay
<1>0. NoLinkDuringApply
  BY LinksStay
<1>1. ASSUME NEW p \in Actors, Goes(p) \/ Reads(p) \/ Stops(p) \/ Removes(p) \/ Stores(p) \/ Breaks(p)
      PROVE  KeysStay
  BY <1>0, <1>1, WriterFiles DEF FilesStay, FileStep
<1>2. ASSUME dir' = dir, data' = data PROVE KeysStay
  BY <1>2, SameFiles DEF FilesStay
<1> QED BY <1>1, <1>2, LinkWhileNoneRuns DEF Kinds, Comes, Alone, Dies, vars

----------------------------------------------------------------------------
(* What the steps of an apply do to its rollback *)

\* It has not begun.
Works(s) ==
    /\ app[s].phase \in {"idle", "snapped"} \cup Recording
    /\ app'[s].phase \in {"snapped"} \cup Recording
    /\ app'[s].phase = "snapped" <=> app[s].phase = "idle"
    /\ app'[s].snap = IF app[s].phase = "idle" THEN Entries(s) ELSE app[s].snap
    /\ app'[s].file = app[s].file
    /\ app[s].phase = "step" => op[s].pc \notin Active
\* It begins, passes a roster, undoes the writes to one, and has done so.
Known(s) == {n \in Vault[s] : Content(n) # Absent \/ app[s].snap[n] # Absent}
TurnsBack(s) ==
    /\ app[s].phase \in {"failed", "ready"} /\ app'[s].phase = "rolling" /\ op'[s] = op[s]
    /\ app'[s].now = Entries(s) /\ app'[s].snap = app[s].snap
    /\ app'[s].file = app[s].file
    /\ app'[s].files = {[key |-> FileKey(n), rels |-> {m \in Known(s) : FileKey(m) = FileKey(n)}] : n \in Known(s)}
StillRolls(s) ==
    /\ app[s].phase \in Rolling /\ app'[s].phase \in Rolling
    /\ app'[s].now = app[s].now /\ app'[s].snap = app[s].snap
Passes(s, f) ==
    /\ StillRolls(s) /\ app[s].phase = "rolling" /\ app'[s].phase = "rolling" /\ op'[s] = op[s]
    /\ Verdict(s, f) \in {"nothing", "keep", "leave"}
    /\ app'[s].files = app[s].files \ {f} /\ app'[s].file = app[s].file
    /\ app'[s].left = IF Verdict(s, f) = "leave" THEN app[s].left \cup f.rels ELSE app[s].left
Undoes(s, f, n) ==
    /\ StillRolls(s) /\ app[s].phase = "rolling" /\ app'[s].phase = "undoing"
    /\ app'[s].files = app[s].files \ {f} /\ app'[s].file = {f} /\ app'[s].left = app[s].left
    /\ journal[s].writes[f.key] # <<>>
    /\ Starts(s) /\ op'[s].kind # "edit" /\ op'[s].name = n
    /\ op'[s].want = journal[s].writes[f.key][1].before
    /\ op'[s].kind = "remove" => journal[s].writes[f.key][1].before = Absent
HasUndone(s, f) ==
    /\ StillRolls(s) /\ app[s].phase = "undoing" /\ app'[s].phase = "rolling"
    /\ app'[s].files = app[s].files /\ app'[s].file = {} /\ Quiet(op'[s])
    /\ app'[s].left = IF op[s].pc # "ok" THEN app[s].left \cup f.rels ELSE app[s].left
\* The apply has ended.
Ends(s) ==
    /\ app'[s].phase \in Ended
    /\ app'[s].phase = "rolledback" => app[s].phase = "rolling" /\ app[s].files = {} /\ app[s].left = {}

LEMMA WorkShape ==
  ASSUME IInv, NEW s \in Sessions,
         Snapshot(s) \/ OpenJournal(s) \/ BeginStep(s) \/ EndStep(s) \/ FailStep(s)
  PROVE  Works(s)
<1>0. app[s] \in AppType(s) /\ DOMAIN app = Sessions
  BY DEF IInv, AppsOK, AppTypeOK
<1>1. CASE Snapshot(s)
  BY <1>0, <1>1 DEF Snapshot, Works, AppType, Recording
<1>2. CASE OpenJournal(s)
  BY <1>0, <1>2 DEF OpenJournal, Works, AppType, Recording
<1>3. CASE BeginStep(s)
  <2> DEFINE last == Entries(s)
  <2>1. app'[s] = [app[s] EXCEPT !.phase = "step", !.last = last] /\ app[s].phase = "ready"
    BY <1>0, <1>3 DEF BeginStep
  <2> HIDE DEF last
  <2> QED BY <1>0, <2>1 DEF Works, AppType, Recording
<1>4. CASE EndStep(s)
  <2> DEFINE touched == Touched(s)
             next == app[s].step + 1
  <2>1. app'[s] = [app[s] EXCEPT !.phase = "ready", !.touched = touched, !.step = next, !.last = <<>>]
        /\ app[s].phase = "step"
    BY <1>0, <1>4 DEF EndStep
  <2>2. op[s].pc \notin Active
    BY <1>4 DEF EndStep, Active, Locked
  <2> HIDE DEF touched, next
  <2> QED BY <1>0, <2>1, <2>2 DEF Works, AppType, Recording
<1>5. CASE FailStep(s)
  <2> DEFINE touched == Touched(s)
  <2>1. app'[s] = [app[s] EXCEPT !.phase = "failed", !.touched = touched, !.last = <<>>] /\ app[s].phase = "step"
    BY <1>0, <1>5 DEF FailStep
  <2>2. op[s].pc \notin Active
    BY <1>5 DEF FailStep, Results, Active, Locked
  <2> HIDE DEF touched
  <2> QED BY <1>0, <2>1, <2>2 DEF Works, AppType, Recording
<1> QED BY <1>1, <1>2, <1>3, <1>4, <1>5

LEMMA EndShape ==
  ASSUME IInv, NEW s \in Sessions, JournalBusy(s) \/ Commit(s) \/ EndRollback(s) \/ UndoFailed(s)
  PROVE  Ends(s)
<1>1. PICK phase \in Ended :
        /\ End(s, phase)
        /\ phase = "rolledback" => app[s].phase = "rolling" /\ app[s].files = {} /\ app[s].left = {}
  BY DEF JournalBusy, Commit, EndRollback, UndoFailed, Ended
<1>2. app'[s] = [NewApp EXCEPT !.phase = phase]
  BY <1>1 DEF End, IInv, AppsOK
<1>3. app'[s].phase = phase
  BY <1>2 DEF NewApp
<1> QED BY <1>1, <1>3 DEF Ends

LEMMA TurnShape ==
  ASSUME IInv, NEW s \in Sessions, BeginRollback(s)
  PROVE  TurnsBack(s)
<1> DEFINE files == {[key |-> FileKey(n), rels |-> {m \in Known(s) : FileKey(m) = FileKey(n)}] : n \in Known(s)}
<1>0. app[s] \in AppType(s) /\ DOMAIN app = Sessions
  BY DEF IInv, AppsOK, AppTypeOK
<1>1. app' = [app EXCEPT ![s].phase = "rolling", ![s].now = Entries(s), ![s].files = files]
  BY DEF BeginRollback, Known
<1>2. app[s].phase \in {"failed", "ready"} /\ op' = op
  BY DEF BeginRollback
<1> HIDE DEF files
<1>3. app'[s] = [app[s] EXCEPT !.phase = "rolling", !.now = Entries(s), !.files = files]
  BY <1>0, <1>1
<1>4. /\ app'[s].phase = "rolling" /\ app'[s].now = Entries(s) /\ app'[s].files = files
      /\ app'[s].snap = app[s].snap /\ app'[s].file = app[s].file
  BY <1>0, <1>3 DEF AppType
<1> QED BY <1>2, <1>4 DEF TurnsBack, files

LEMMA PassShape ==
  ASSUME IInv, NEW s \in Sessions, LeaveAlone(s)
  PROVE  \E f \in app[s].files : Passes(s, f)
<1>0. app[s] \in AppType(s) /\ DOMAIN app = Sessions
  BY DEF IInv, AppsOK, AppTypeOK
<1>1. PICK f \in app[s].files :
        /\ Verdict(s, f) \in {"nothing", "keep", "leave"}
        /\ app' = [app EXCEPT ![s].files = @ \ {f},
                     ![s].kept = IF Verdict(s, f) = "keep" THEN @ \cup f.rels ELSE @,
                     ![s].left = IF Verdict(s, f) = "leave" THEN @ \cup f.rels ELSE @]
  BY DEF LeaveAlone
<1>2. app[s].phase = "rolling" /\ op' = op
  BY DEF LeaveAlone
<1> DEFINE files == app[s].files \ {f}
           kept == IF Verdict(s, f) = "keep" THEN app[s].kept \cup f.rels ELSE app[s].kept
           left == IF Verdict(s, f) = "leave" THEN app[s].left \cup f.rels ELSE app[s].left
<1>3. app'[s] = [app[s] EXCEPT !.files = files, !.kept = kept, !.left = left]
  BY <1>0, <1>1
<1> HIDE DEF files, kept, left
<1>4. /\ app'[s].phase = app[s].phase /\ app'[s].now = app[s].now /\ app'[s].snap = app[s].snap
      /\ app'[s].files = files /\ app'[s].file = app[s].file /\ app'[s].left = left
  BY <1>0, <1>3 DEF AppType
<1>5. Passes(s, f)
  BY <1>1, <1>2, <1>4 DEF Passes, StillRolls, Rolling, files, left
<1> QED BY <1>5

LEMMA UndoShape ==
  ASSUME IInv, NEW s \in Sessions, Undo(s)
  PROVE  \E f \in app[s].files : \E n \in f.rels : Undoes(s, f, n)
<1>0. app[s] \in AppType(s) /\ DOMAIN app = Sessions /\ s \in Actors
  BY SessionsAct DEF IInv, AppsOK, AppTypeOK
<1>1. PICK f \in app[s].files : \E n \in f.rels :
        LET ws == journal[s].writes[f.key] IN
        /\ Verdict(s, f) \in {"restore", "remove"}
        /\ app' = [app EXCEPT ![s].phase = "undoing", ![s].files = @ \ {f}, ![s].file = {f}]
        /\ Start(s, Verdict(s, f), n, ws[1].before, ws[Len(ws)].after)
  BY DEF Undo
<1> DEFINE ws == journal[s].writes[f.key]
           files == app[s].files \ {f}
           file == {f}
<1>2. PICK n \in f.rels : Start(s, Verdict(s, f), n, ws[1].before, ws[Len(ws)].after)
  BY <1>1
<1>3. Verdict(s, f) \in {"restore", "remove"} /\ app[s].phase = "rolling"
  BY <1>1 DEF Undo
<1>4. ws # <<>>
  BY <1>3 DEF Verdict
<1>5. Verdict(s, f) = "remove" => ws[1].before = Absent
  BY <1>3, <1>4 DEF Verdict
<1>6. app'[s] = [app[s] EXCEPT !.phase = "undoing", !.files = files, !.file = file]
  BY <1>0, <1>1
<1> HIDE DEF files, file
<1>7. /\ app'[s].phase = "undoing" /\ app'[s].now = app[s].now /\ app'[s].snap = app[s].snap
      /\ app'[s].files = files /\ app'[s].file = file /\ app'[s].left = app[s].left
  BY <1>0, <1>6 DEF AppType
<1> HIDE DEF ws
<1>8. Starts(s) /\ op'[s].kind = Verdict(s, f) /\ op'[s].name = n /\ op'[s].want = ws[1].before
  BY <1>0, <1>2, StartFacts
<1>9. op'[s].kind # "edit"
  BY <1>3, <1>8
<1>10. Undoes(s, f, n)
  BY <1>3, <1>4, <1>5, <1>7, <1>8, <1>9 DEF Undoes, StillRolls, Rolling, files, file, ws
<1> QED BY <1>10

LEMMA UndoneShape ==
  ASSUME IInv, NEW s \in Sessions, Undone(s)
  PROVE  \E f \in app[s].file : HasUndone(s, f)
<1>0. app[s] \in AppType(s) /\ DOMAIN app = Sessions /\ s \in Actors
  BY SessionsAct DEF IInv, AppsOK, AppTypeOK
<1>1. PICK f \in app[s].file :
        app' = [app EXCEPT ![s].phase = "rolling", ![s].file = {},
                  ![s].left = IF op[s].pc # "ok" THEN @ \cup f.rels ELSE @,
                  ![s].kept = IF op[s].pc = "ok" /\ FoundChanged(s, f) THEN @ \cup f.rels ELSE @]
  BY DEF Undone
<1> DEFINE left == IF op[s].pc # "ok" THEN app[s].left \cup f.rels ELSE app[s].left
           kept == IF op[s].pc = "ok" /\ FoundChanged(s, f) THEN app[s].kept \cup f.rels ELSE app[s].kept
<1>2. app'[s] = [app[s] EXCEPT !.phase = "rolling", !.file = {}, !.left = left, !.kept = kept]
  BY <1>0, <1>1
<1> HIDE DEF left, kept
<1>3. /\ app'[s].phase = "rolling" /\ app'[s].now = app[s].now /\ app'[s].snap = app[s].snap
      /\ app'[s].files = app[s].files /\ app'[s].file = {} /\ app'[s].left = left
  BY <1>0, <1>2 DEF AppType
<1>4. app[s].phase = "undoing" /\ Quiet(op'[s])
  BY <1>0, QuietForget DEF Undone
<1>5. HasUndone(s, f)
  BY <1>3, <1>4 DEF HasUndone, StillRolls, Rolling, left
<1> QED BY <1>5

Rolls(s) ==
    \/ TurnsBack(s)
    \/ \E f \in app[s].files : Passes(s, f) \/ \E n \in f.rels : Undoes(s, f, n)
    \/ \E f \in app[s].file : HasUndone(s, f)

LEMMA RollShape ==
  ASSUME IInv, NEW s \in Sessions, SessionStep(s)
  PROVE  Works(s) \/ Ends(s) \/ Rolls(s)
BY WorkShape, EndShape, TurnShape, PassShape, UndoShape, UndoneShape DEF SessionStep, Rolls

----------------------------------------------------------------------------
(* A step as one apply sees it *)

\* What its rollback goes by is as it was.
AppSteady(s) ==
    /\ app'[s].phase = app[s].phase /\ app'[s].snap = app[s].snap /\ app'[s].now = app[s].now
    /\ app'[s].files = app[s].files /\ app'[s].file = app[s].file /\ app'[s].left = app[s].left
Away(s) ==
    /\ AppSteady(s) /\ op'[s] = op[s]
    /\ \A k \in Keys : journal'[s].writes[k] = journal[s].writes[k]
WriterStep(p) ==
    /\ Only(p) /\ (Goes(p) \/ Reads(p) \/ Stops(p) \/ Removes(p) \/ Stores(p) \/ Breaks(p))
Gone(s) == app'[s].phase = "crashed" /\ Quiet(op'[s]) /\ journal'[s] = NewJournal

LEMMA WriterSteady ==
  ASSUME IInv, NEW p \in Actors, WriterStep(p), NEW s \in Sessions
  PROVE  AppSteady(s)
<1>1. CASE app' = app
  BY <1>1 DEF AppSteady
<1>2. CASE p \in Sessions /\ app' = [app EXCEPT ![p].wrote = @ \cup {<<ChangeOf(p), op[p].name>>}]
  <2> DEFINE wrote == app[p].wrote \cup {<<ChangeOf(p), op[p].name>>}
  <2>1. app[p] \in AppType(p) /\ DOMAIN app = Sessions
    BY <1>2 DEF IInv, AppsOK, AppTypeOK
  <2>2. app'[p] = [app[p] EXCEPT !.wrote = wrote] /\ \A t \in Sessions : t # p => app'[t] = app[t]
    BY <1>2, <2>1
  <2> HIDE DEF wrote
  <2>3. AppSteady(p)
    BY <2>1, <2>2 DEF AppType, AppSteady
  <2> QED BY <2>2, <2>3 DEF AppSteady
<1> QED BY <1>1, <1>2 DEF WriterStep, Goes, Reads, Stops, Removes, Stores, Breaks, AppsStay

LEMMA WriterAway ==
  ASSUME IInv, ControlInv, ClaimInv, NoLinkDuringApply, NEW p \in Actors, WriterStep(p),
         NEW s \in Sessions, s # p
  PROVE  Away(s)
<1>0. s \in Actors /\ s # None
  BY SessionsAct, DistinctMarks
<1>1. AppSteady(s) /\ op'[s] = op[s]
  BY <1>0, WriterSteady DEF WriterStep, Only
<1>2. op[p].rec # s
  BY <1>0, ActorsAreTheWriters DEF ControlInv, ClaimInv, OpClaimed
<1>3. CASE journal' = journal
  BY <1>1, <1>3 DEF Away
<1>4. CASE Stores(p) \/ Breaks(p)
  <2>1. PICK failed \in BOOLEAN : op[p].pc \in Storing /\ Record(p, failed)
    BY <1>4 DEF Stores, Breaks
  <2>2. \A k \in Keys : journal'[s].writes[k] = journal[s].writes[k]
    BY <1>2, <2>1, RecordFacts
  <2> QED BY <1>1, <2>2 DEF Away
<1> QED BY <1>3, <1>4 DEF WriterStep, Goes, Reads, Stops, Removes, AppsStay

LEMMA Views ==
  ASSUME IInv, ControlInv, ClaimInv, Kinds, NoLinkDuringApply', NEW s \in Sessions
  PROVE  \/ Away(s)
         \/ WriterStep(s) /\ AppSteady(s)
         \/ /\ dir' = dir /\ data' = data
            /\ Snaps(s) \/ Opens(s) \/ Closes(s) \/ Moves(s)
            /\ Works(s) \/ Ends(s) \/ Rolls(s)
         \/ Gone(s) /\ dir' = dir /\ data' = data
<1>0. NoLinkDuringApply /\ s \in Actors
  BY LinksStay, SessionsAct
<1>1. ASSUME NEW p \in Actors, WriterStep(p) PROVE Away(s) \/ (WriterStep(s) /\ AppSteady(s))
  BY <1>0, <1>1, WriterAway, WriterSteady
<1>2. ASSUME NEW p \in Others, Only(p), Comes(p) PROVE Away(s)
  BY <1>0, <1>2, ActorsAreTheWriters DEF Only, Comes, AppsStay, Away, AppSteady
<1>3. ASSUME NEW t \in Sessions, SessionStep(t), Alone(t), Snaps(t) \/ Opens(t) \/ Closes(t) \/ Moves(t)
      PROVE  \/ Away(s)
             \/ /\ dir' = dir /\ data' = data
                /\ Snaps(s) \/ Opens(s) \/ Closes(s) \/ Moves(s)
                /\ Works(s) \/ Ends(s) \/ Rolls(s)
  <2>1. CASE t # s
    BY <1>0, <1>3, <2>1 DEF Alone, Only, Away, AppSteady
  <2>2. CASE t = s
    BY <1>3, <2>2, RollShape DEF Alone
  <2> QED BY <2>1, <2>2
<1>4. ASSUME Dies PROVE Away(s) \/ (Gone(s) /\ dir' = dir /\ data' = data)
  BY <1>4 DEF Dies, Away, AppSteady, Gone
<1>5. ASSUME (\E m, n \in Names : Link(m, n)) \/ UNCHANGED vars PROVE Away(s)
  BY <1>5 DEF Link, AddLink, vars, Away, AppSteady
<1> QED BY <1>1, <1>2, <1>3, <1>4, <1>5 DEF Kinds, WriterStep

----------------------------------------------------------------------------
(* KeysInv and FirstInv are kept *)

\* The first write in a journal after a step was the first, or is new.
LEMMA JournalFirst ==
  ASSUME IInv, Kinds, NEW t \in Sessions, NEW k \in Keys, journal'[t].writes[k] # <<>>
  PROVE  \/ journal[t].writes[k] # <<>> /\ journal'[t].writes[k][1] = journal[t].writes[k][1]
         \/ /\ journal[t].writes[k] = <<>>
            /\ \E p \in Actors, failed \in BOOLEAN :
                 /\ op[p].pc \in Storing /\ t = op[p].rec /\ k = LockKey(op[p])
                 /\ journal'[t].writes[k][1] = WriteOf(p, failed)
<1>1. CASE journal'[t].writes[k] \in {journal[t].writes[k], <<>>}
  BY <1>1
<1>2. ASSUME NEW p \in Actors, NEW failed \in BOOLEAN,
             op[p].pc \in Storing, t = op[p].rec, k = LockKey(op[p]),
             journal'[t].writes[k] = Append(journal[t].writes[k], WriteOf(p, failed))
      PROVE  \/ journal[t].writes[k] # <<>> /\ journal'[t].writes[k][1] = journal[t].writes[k][1]
             \/ journal[t].writes[k] = <<>> /\ journal'[t].writes[k][1] = WriteOf(p, failed)
  <2>1. PICK ws \in Seq(Writes) : ws = journal[t].writes[k]
    BY DEF IInv, JournalsOK, JournalType
  <2>2. PICK w : w = WriteOf(p, failed)
    OBVIOUS
  <2>3. CASE ws = <<>>
    <3>1. Append(ws, w)[1] = w
      BY <2>3
    <3> QED BY <1>2, <2>1, <2>2, <2>3, <3>1
  <2>4. CASE ws # <<>>
    <3>1. Len(ws) >= 1 /\ Len(ws) \in Nat
      BY <2>4, EmptySeq
    <3>2. 1 \in 1 .. Len(ws)
      BY <3>1
    <3>3. Append(ws, w)[1] = ws[1]
      BY <3>2
    <3> QED BY <1>2, <2>1, <2>2, <2>4, <3>3
  <2> QED BY <2>3, <2>4
<1> QED BY <1>1, <1>2, JournalGrows

LEMMA FirstStep ==
  ASSUME IInv, OpenInv, FirstInv, Kinds
  PROVE  FirstInv'
<1> SUFFICES ASSUME NEW t \in Sessions, NEW k \in Keys, journal'[t].writes[k] # <<>>,
                    journal'[t].writes[k][1].before = Absent
             PROVE  k \in Names
  BY DEF FirstInv
<1>1. CASE journal[t].writes[k] # <<>> /\ journal'[t].writes[k][1] = journal[t].writes[k][1]
  BY <1>1 DEF FirstInv
<1>2. ASSUME NEW p \in Actors, NEW failed \in BOOLEAN, op[p].pc \in Storing, k = LockKey(op[p]),
             journal'[t].writes[k][1] = WriteOf(p, failed)
      PROVE  k \in Names
  <2>1. op[p].before = Absent
    BY <1>2 DEF WriteOf
  <2>2. op[p].ident = None /\ op[p].name \in Names
    BY <1>2, <2>1, OpFacts DEF OpenInv, IInv, Storing, Locked
  <2> QED BY <1>2, <2>2 DEF LockKey
<1> QED BY <1>1, <1>2, JournalFirst

\* An apply with an operation runs.
LEMMA ActiveRuns ==
  ASSUME ControlInv, NEW s \in Sessions, op[s].pc \in Active
  PROVE  Runs(s) /\ app[s].phase \in {"step", "undoing"} /\ op[s].name \in Vault[s]
BY DEF ControlInv, OpOf, Runs, Ended

\* An edit of an apply is recorded by its own journal.
LEMMA OwnRecorded ==
  ASSUME IInv, ControlInv, ClaimInv, NoLinkDuringApply, NEW s \in Sessions, Reads(s), op[s].kind = "edit"
  PROVE  op'[s].rec = s
<1>1. op[s].pc \in Active
  BY DEF Reads, Active, Locked
<1>2. LinksClaimed(s) /\ OpClaimed(s)
  BY DEF ClaimInv
<1>3. app[s].phase = "step" /\ op[s].name \in Vault[s]
  BY <1>1 DEF ControlInv, OpOf
<1>4. Records(s, s)
  BY <1>3 DEF Records, Watches, ControlInv, StatesInv, Recording
<1>5. op'[s].rec \in Sessions /\ Records(op'[s].rec, s)
  BY <1>4 DEF Reads, Recorder
<1>6. ASSUME NEW t \in Sessions, Records(t, s) PROVE t = s
  BY <1>1, <1>2, <1>6, OwnRecorder
<1> QED BY <1>5, <1>6

\* The keys of an operation of an apply.
LEMMA OpKeys ==
  ASSUME IInv, ControlInv, ClaimInv, OpenInv, KeysInv, Kinds, NoLinkDuringApply, KeysStay,
         NEW s \in Sessions
  PROVE  /\ \A n \in Names : op'[s].name = n /\ op'[s].pc \in {"held"} \cup Storing =>
              FileKey(n)' = IF op'[s].ident = None THEN n ELSE op'[s].ident
         /\ op'[s].pc \in Storing /\ op'[s].kind = "edit" => op'[s].rec = s
         /\ \A n \in Names : op'[s].name = n /\ op'[s].pc \in Active /\ op'[s].kind = "remove" /\ ~Starts(s) =>
              FileKey(n)' = n
<1>0. s \in Actors /\ KeysOf(s)
  BY SessionsAct DEF KeysInv
<1>1. CASE op'[s] = op[s]
  BY <1>0, <1>1 DEF KeysOf, KeysStay
<1>2. CASE Quiet(op'[s])
  BY <1>2 DEF Quiet, Active, Locked, Storing
<1>3. CASE Starts(s)
  BY <1>3 DEF Starts, Storing
<1>4. CASE Goes(s)
  <2>1. /\ op'[s].name = op[s].name /\ op'[s].kind = op[s].kind /\ op'[s].rec = op[s].rec
        /\ op'[s].pc \in Storing <=> op[s].pc \in Storing
        /\ op[s].pc \in Active
    BY <1>4 DEF Goes, Alike
  <2>2. ASSUME NEW n \in Names, op'[s].name = n, op'[s].pc \in {"held"} \cup Storing
        PROVE  FileKey(n) = IF op'[s].ident = None THEN n ELSE op'[s].ident
    <3>1. CASE op[s].pc \in Storing
      <4>1. op'[s].ident = op[s].ident
        BY <1>4, <3>1 DEF Goes
      <4> QED BY <1>0, <2>1, <2>2, <3>1, <4>1 DEF KeysOf
    <3>2. CASE op[s].pc \notin Storing
      <4>1. op'[s].pc = "held" /\ op[s].pc \in {"lock", "inode"}
        BY <1>4, <2>1, <2>2, <3>2 DEF Goes, Locks, Prepares, Tears, Storing
      <4>2. op'[s].ident = IF NeedsInodeLock(dir[n]) THEN dir[n] ELSE op[s].ident
        BY <1>4, <2>1, <2>2, <3>2, <4>1 DEF Goes, Locks, Prepares, Tears, Storing
      <4>3. op[s].ident = None
        BY <1>0, <4>1 DEF OpenInv
      <4> QED BY <4>2, <4>3 DEF NeedsInodeLock, FileKey
    <3> QED BY <3>1, <3>2
  <2> QED BY <1>0, <2>1, <2>2 DEF KeysOf, KeysStay
<1>5. CASE Reads(s)
  <2>1. /\ op'[s].name = op[s].name /\ op'[s].kind = op[s].kind /\ op'[s].ident = op[s].ident
        /\ op[s].pc = "held" /\ op[s].pc \in Active
    BY <1>5 DEF Reads, Alike, Active, Locked
  <2>2. op'[s].kind = "edit" => op'[s].rec = s
    BY <1>5, <2>1, OwnRecorded
  <2> QED BY <1>0, <2>1, <2>2 DEF KeysOf, KeysStay
<1> QED BY <1>0, <1>1, <1>2, <1>3, <1>4, <1>5, OpSteps

\* A rollback's files are those of the keys.
LEMMA RollKeys ==
  ASSUME IInv, FirstInv, NEW s \in Sessions, KeysOf(s), Rolls(s), dir' = dir, data' = data
  PROVE  /\ \A f \in app'[s].files \cup app'[s].file : \A n \in f.rels : FileKey(n)' = f.key
         /\ app'[s].phase # "undoing" => app'[s].file = {}
         /\ \A n \in Names : op'[s].name = n /\ op'[s].kind = "remove" /\ Starts(s) =>
              FileKey(n)' = n \/ op'[s] = op[s]
<1>0. KeysStay /\ app[s] \in AppType(s) /\ Vault[s] \subseteq Names
  BY SameFiles, ActorsAreTheWriters DEF FilesStay, IInv, AppsOK, AppTypeOK
<1>1. \A f \in app[s].files \cup app[s].file : f.rels \subseteq Names /\ f.key \in Keys
  BY <1>0 DEF AppType, Files
<1>2. CASE TurnsBack(s)
  <2>1. app[s].file = {}
    BY <1>2 DEF TurnsBack, KeysOf, Ended
  <2>2. ASSUME NEW f \in app'[s].files, NEW n \in f.rels PROVE FileKey(n)' = f.key
    <3>1. PICK m \in Known(s) : f = [key |-> FileKey(m), rels |-> {l \in Known(s) : FileKey(l) = FileKey(m)}]
      BY <1>2, <2>2 DEF TurnsBack
    <3>2. f.key = FileKey(m) /\ n \in Known(s) /\ FileKey(n) = FileKey(m)
      BY <2>2, <3>1
    <3>3. n \in Names
      BY <1>0, <3>2 DEF Known
    <3> QED BY <1>0, <3>2, <3>3 DEF KeysStay
  <2> QED BY <1>2, <2>1, <2>2 DEF TurnsBack
<1>3. ASSUME NEW f \in app[s].files, Passes(s, f) PROVE
         /\ \A g \in app'[s].files \cup app'[s].file : \A n \in g.rels : FileKey(n)' = g.key
         /\ app'[s].file = {} /\ op'[s] = op[s]
  BY <1>0, <1>1, <1>3 DEF Passes, StillRolls, KeysOf, KeysStay, Rolling, Ended
<1>4. ASSUME NEW f \in app[s].files, NEW n \in f.rels, Undoes(s, f, n) PROVE
         /\ \A g \in app'[s].files \cup app'[s].file : \A m \in g.rels : FileKey(m)' = g.key
         /\ app'[s].phase = "undoing" /\ op'[s].name = n
         /\ op'[s].kind = "remove" => FileKey(n)' = n
  <2>1. app'[s].files \cup app'[s].file \subseteq app[s].files \cup {f} /\ f \in app[s].files
    BY <1>4 DEF Undoes
  <2>2. \A g \in app'[s].files \cup app'[s].file : \A m \in g.rels : FileKey(m)' = g.key
    BY <1>0, <1>1, <1>4, <2>1 DEF Undoes, KeysOf, KeysStay, Rolling
  <2>3. n \in Names /\ FileKey(n) = f.key
    BY <1>1, <1>4 DEF Undoes, KeysOf, Rolling
  <2>4. op'[s].kind = "remove" => f.key \in Names
    BY <1>1, <1>4 DEF Undoes, FirstInv
  <2>5. op'[s].kind = "remove" => FileKey(n) = n
    BY <2>3, <2>4, KeyFacts
  <2> QED BY <1>0, <1>4, <2>2, <2>3, <2>5 DEF Undoes, KeysStay
<1>5. ASSUME NEW f \in app[s].file, HasUndone(s, f) PROVE
         /\ \A g \in app'[s].files \cup app'[s].file : \A n \in g.rels : FileKey(n)' = g.key
         /\ app'[s].file = {} /\ ~Starts(s)
  BY <1>0, <1>1, <1>5 DEF HasUndone, StillRolls, KeysOf, KeysStay, Rolling, Quiet, Starts, Active
<1> QED BY <1>2, <1>3, <1>4, <1>5 DEF Rolls, TurnsBack

LEMMA KeysStep ==
  ASSUME IInv, ControlInv, ClaimInv, OpenInv, FirstInv, KeysInv, Kinds, ControlInv'
  PROVE  KeysInv'
<1> SUFFICES ASSUME NoLinkDuringApply', NEW s \in Sessions PROVE KeysOf(s)'
  BY DEF KeysInv
<1>0. NoLinkDuringApply /\ s \in Actors /\ KeysOf(s) /\ app[s] \in AppType(s) /\ Vault[s] \subseteq Names
  BY LinksStay, SessionsAct, ActorsAreTheWriters DEF KeysInv, IInv, AppsOK, AppTypeOK
<1>1. \A f \in app[s].files \cup app[s].file : f.rels \subseteq Names
  BY <1>0 DEF AppType, Files
<1>2. op'[s].pc \in Active => app'[s].phase = IF op'[s].kind = "edit" THEN "step" ELSE "undoing"
  BY DEF ControlInv, OpOf
<1>3. ASSUME op'[s].pc \notin Active, app'[s].phase \in Ended PROVE KeysOf(s)'
  BY <1>3 DEF KeysOf, Active, Locked, Storing, Rolling, Ended
<1>4. CASE Away(s) /\ ~Runs(s)
  <2>1. op[s].pc \notin Active
    BY <1>4, ActiveRuns
  <2>2. op'[s].pc \notin {"held"} \cup Storing /\ op'[s].pc \notin Active /\ app'[s].phase \notin Rolling
    BY <1>4, <2>1 DEF Away, AppSteady, Active, Locked, Storing, Runs, Rolling, Ended
  <2> QED BY <1>0, <1>4, <2>2 DEF KeysOf, Away, AppSteady
<1>5. CASE Away(s) /\ Runs(s)
  <2>1. KeysStay
    BY <1>5, RunsKeys
  <2>2. op'[s] = op[s] /\ AppSteady(s)
    BY <1>5 DEF Away
  <2> QED BY <1>0, <1>1, <2>1, <2>2 DEF KeysOf, AppSteady, KeysStay
<1>6. CASE WriterStep(s) /\ AppSteady(s)
  <2>1. op[s].pc \in Active /\ (op'[s].pc \in Active => Goes(s) \/ Reads(s))
    BY <1>0, <1>6, WriterFrame DEF WriterStep
  <2>2. KeysStay
    BY <2>1, ActiveRuns, RunsKeys
  <2>3. Starts(s) => ~(Goes(s) \/ Reads(s))
    BY DEF Starts, Goes, Reads, Locks, Prepares, Tears
  <2>4. ~Starts(s)
    BY <2>1, <2>3 DEF Starts, Active
  <2> QED BY <1>0, <1>1, <1>6, <2>2, <2>4, OpKeys DEF KeysOf, AppSteady, KeysStay
<1>7. CASE /\ dir' = dir /\ data' = data
           /\ Works(s) \/ Ends(s) \/ Rolls(s)
  <2>1. KeysStay
    BY <1>7, SameFiles DEF FilesStay
  <2>2. /\ \A n \in Names : op'[s].name = n /\ op'[s].pc \in {"held"} \cup Storing =>
             FileKey(n)' = IF op'[s].ident = None THEN n ELSE op'[s].ident
        /\ op'[s].pc \in Storing /\ op'[s].kind = "edit" => op'[s].rec = s
        /\ \A n \in Names : op'[s].name = n /\ op'[s].pc \in Active /\ op'[s].kind = "remove" /\ ~Starts(s) =>
             FileKey(n)' = n
    BY <1>0, <2>1, OpKeys
  <2>3. CASE Works(s)
    <3>1. op'[s].pc \in Active => op'[s].kind # "remove"
      BY <1>2, <2>3 DEF Works, Recording
    <3>2. app'[s].phase \notin Rolling /\ app'[s].file = {}
      BY <1>0, <2>3 DEF Works, KeysOf, Recording, Rolling, Ended
    <3> QED BY <2>2, <3>1, <3>2 DEF KeysOf
  <2>4. CASE Ends(s)
    BY <1>2, <1>3, <2>4 DEF Ends, Ended
  <2>5. CASE Rolls(s)
    <3>1. /\ \A f \in app'[s].files \cup app'[s].file : \A n \in f.rels : FileKey(n)' = f.key
          /\ app'[s].phase # "undoing" => app'[s].file = {}
          /\ \A n \in Names : op'[s].name = n /\ op'[s].kind = "remove" /\ Starts(s) =>
               FileKey(n)' = n \/ op'[s] = op[s]
      BY <1>0, <1>7, <2>5, RollKeys
    <3>2. \A n \in Names : op'[s].name = n /\ op'[s].pc \in Active /\ op'[s].kind = "remove" => FileKey(n)' = n
      BY <1>0, <2>1, <2>2, <3>1 DEF KeysOf, KeysStay
    <3> QED BY <2>2, <3>1, <3>2 DEF KeysOf
  <2> QED BY <1>7, <2>3, <2>4, <2>5
<1>8. CASE Gone(s)
  BY <1>3, <1>8 DEF Gone, Quiet, Ended
<1> QED BY <1>0, <1>4, <1>5, <1>6, <1>7, <1>8, Views

----------------------------------------------------------------------------
(* What a writer finds where it writes *)

\* As long as its lock is good, the roster holds what a writer found, or what it
\* has begun to write.
LiveInv ==
    NoLinkDuringApply => \A p \in Actors : \A n \in Names :
      op[p].pc \in Storing /\ op[p].name = n /\ (op[p].ident # None \/ FileKey(n) = n) =>
        \/ Content(n) = op[p].before
        \/ op[p].pc = "inplace" /\ Content(n) = Tear(op[p].want)

\* A new link takes the goodness of locks away, and never gives it.
LEMMA LinkLive ==
  ASSUME IInv, NEW m \in Names, NEW l \in Names, Link(m, l), NEW q \in Actors, op[q].pc \in Storing,
         NEW n \in Names, op[q].name = n, op[q].ident # None \/ FileKey(n)' = n
  PROVE  Content(n)' = Content(n) /\ (op[q].ident # None \/ FileKey(n) = n)
<1>1. /\ dir[m] # None /\ dir[l] = None /\ dir' = [dir EXCEPT ![l] = dir[m]] /\ data' = data
      /\ dir \in [Names -> Inodes \cup {None}]
  BY DEF Link, AddLink, IInv, FileInv, FileTypeOK
<1>2. op[q].ident # None => dir[n] # None
  BY OpFacts DEF IInv, Storing, Locked
<1>3. dir'[l] = dir[m] /\ dir'[m] = dir[m] /\ m # l
  BY <1>1
<1>4. \A k \in Names : k # l => dir'[k] = dir[k]
  BY <1>1
<1>5. n # l
  <2> SUFFICES ASSUME n = l, FileKey(n)' = n PROVE FALSE
    BY <1>1, <1>2
  <2>1. Linked(dir[n])' /\ dir'[n] # None
    BY <1>1, <1>3 DEF Linked
  <2>2. FileKey(n)' = dir'[n]
    BY <2>1 DEF FileKey
  <2> QED BY <1>1, <1>3, <2>2, DistinctMarks
<1>6. dir'[n] = dir[n]
  BY <1>4, <1>5
<1>7. ASSUME FileKey(n) # n PROVE op[q].ident # None
  <2>1. dir[n] # None /\ Linked(dir[n]) /\ dir[n] \in Inodes
    BY <1>7, KeyFacts
  <2>2. PICK a \in Names, b \in Names : a # b /\ dir[a] = dir[n] /\ dir[b] = dir[n]
    BY <2>1 DEF Linked
  <2>3. dir'[a] = dir[n] /\ dir'[b] = dir[n]
    BY <1>1, <1>4, <2>1, <2>2
  <2>4. Linked(dir[n])'
    BY <1>6, <2>2, <2>3 DEF Linked
  <2>5. FileKey(n)' = dir[n]
    BY <1>6, <2>1, <2>4 DEF FileKey
  <2> QED BY <2>1, <2>5, DistinctMarks
<1> QED BY <1>1, <1>6, <1>7 DEF Content

LEMMA LiveStep ==
  ASSUME IInv, ControlInv, OpenInv, KeysInv, LiveInv, Kinds
  PROVE  LiveInv'
<1> SUFFICES ASSUME NoLinkDuringApply', NEW q \in Actors, NEW n \in Names,
                    op'[q].pc \in Storing, op'[q].name = n, op'[q].ident # None \/ FileKey(n)' = n
             PROVE  \/ Content(n)' = op'[q].before
                    \/ op'[q].pc = "inplace" /\ Content(n)' = Tear(op'[q].want)
  BY DEF LiveInv
<1>0. NoLinkDuringApply
  BY LinksStay
<1>1. /\ op[q].name = n /\ op'[q].ident = op[q].ident
      /\ \/ op[q].pc \in Storing /\ op'[q].want = op[q].want /\ op'[q].before = op[q].before
         \/ Reads(q)
  BY StoringBefore
<1>2. CASE Reads(q)
  BY <1>1, <1>2 DEF Reads, Content
<1>3. ASSUME op[q].pc \in Storing, op'[q].want = op[q].want, op'[q].before = op[q].before
      PROVE  \/ Content(n)' = op'[q].before
             \/ op'[q].pc = "inplace" /\ Content(n)' = Tear(op'[q].want)
  <2>1. op[q].pc = "inplace" => op'[q].pc = "inplace"
    <3>1. ~Quiet(op'[q]) /\ ~Starts(q)
      BY DEF Quiet, Starts, Storing, Active, Locked
    <3> QED BY <3>1, OpSteps DEF Goes, Locks, Prepares, Tears, Reads
  <2>2. ASSUME Content(n)' = Content(n), op[q].ident # None \/ FileKey(n) = n
        PROVE  \/ Content(n)' = op'[q].before
               \/ op'[q].pc = "inplace" /\ Content(n)' = Tear(op'[q].want)
    BY <1>0, <1>1, <1>3, <2>1, <2>2 DEF LiveInv
  <2>3. ASSUME FilesStay
        PROVE  \/ Content(n)' = op'[q].before
               \/ op'[q].pc = "inplace" /\ Content(n)' = Tear(op'[q].want)
    BY <1>1, <2>2, <2>3 DEF FilesStay, KeysStay
  <2>4. ASSUME NEW p \in Actors, WriterStep(p)
        PROVE  \/ Content(n)' = op'[q].before
               \/ op'[q].pc = "inplace" /\ Content(n)' = Tear(op'[q].want)
    <3>1. \/ FilesStay
          \/ Goes(p) /\ Tears(p) /\ Live(p) /\ FileStep(p, Tear(op[p].want))
          \/ Stores(p) /\ Live(p) /\ FileStep(p, op[p].want)
          \/ Removes(p) /\ Live(p) /\ FileStep(p, Absent)
      BY <1>0, <2>4, WriterFiles DEF WriterStep
    <3>2. ASSUME NEW c, FileStep(p, c), Live(p), p # q
          PROVE  Content(n)' = Content(n) /\ (op[q].ident # None \/ FileKey(n) = n)
      <4>1. op[q].ident # None \/ FileKey(n) = n
        BY <1>1, <3>2 DEF FileStep, KeysStay
      <4>2. Live(q)
        BY <1>1, <1>3, <4>1 DEF Live, Storing, Locked
      <4>3. FileKey(op[p].name) # FileKey(n)
        BY <1>1, <3>2, <4>2, LiveApart
      <4> QED BY <3>2, <4>1, <4>3 DEF FileStep
    <3>3. CASE p = q
      <4>1. ~Quiet(op'[q])
        BY DEF Quiet, Storing, Active, Locked
      <4>2. CASE Tears(p) /\ FileStep(p, Tear(op[p].want))
        BY <1>1, <1>3, <3>3, <4>2 DEF Tears, FileStep
      <4> QED BY <2>3, <3>1, <3>3, <4>1, <4>2 DEF Stores, Removes
    <3> QED BY <2>2, <2>3, <3>1, <3>2, <3>3
  <2>5. ASSUME NEW m \in Names, NEW l \in Names, Link(m, l)
        PROVE  \/ Content(n)' = op'[q].before
               \/ op'[q].pc = "inplace" /\ Content(n)' = Tear(op'[q].want)
    BY <1>1, <1>3, <2>2, <2>5, LinkLive
  <2> QED BY <2>3, <2>4, <2>5, SameFiles DEF Kinds, WriterStep, Comes, Alone, Dies, vars
<1> QED BY <1>1, <1>2, <1>3

----------------------------------------------------------------------------
(* Nobody else brings an apply's changes back *)

Own(s, c) == \E ch \in ChangesIn(c) : ch[1] = s

LEMMA AbsentOwn == \A s : ~Own(s, Absent)
BY DEF Own, ChangesIn

LEMMA TearOwn ==
  ASSUME NEW c \in Contents, NEW s
  PROVE  Own(s, Tear(c)) <=> Own(s, c)
<1>1. Tear(c) \in Bytes
  BY DEF Tear, Bytes, Contents, ChangesIn
<1>2. Tear(c) # Absent
  BY <1>1, DistinctMarks DEF Bytes
<1>3. ChangesIn(Tear(c)) = ChangesIn(c)
  BY <1>2 DEF Tear, ChangesIn
<1> QED BY <1>3 DEF Own

LEMMA WantOwn ==
  ASSUME IInv, ContentInv, OpenInv, NoLinkDuringApply, NEW p \in Actors, op[p].pc \in Storing,
         NEW s \in Sessions, s # p, Own(s, op[p].want)
  PROVE  Own(s, op[p].before)
<1>1. PICK ch \in ChangesIn(op[p].want) : ch[1] = s
  BY DEF Own
<1>2. CASE p \in Others
  <2>1. ch \in ChangesIn(op[p].before) \cup {<<p, 1>>}
    BY <1>1, <1>2 DEF OpenInv
  <2> QED BY <1>1, <2>1 DEF Own
<1>3. CASE p \in Sessions
  <2>1. op[p].want \in Contents
    BY DEF IInv, FileInv, FileTypeOK, OpType
  <2>2. ch \in Changes
    BY <1>1, <2>1 DEF ChangesIn, Contents, Bytes
  <2>3. ch \in Spared(p)
    BY <1>1, <2>2 DEF Spared
  <2>4. Same(Spared(p), op[p].before, op[p].want)
    BY <1>3 DEF ContentInv, OpSpares
  <2> QED BY <1>1, <2>3, <2>4 DEF Same, Own
<1> QED BY <1>2, <1>3, ActorsAreTheWriters

LEMMA OthersSpareOwn ==
  ASSUME IInv, ControlInv, ContentInv, OpenInv, KeysInv, LiveInv, NoLinkDuringApply,
         NEW p \in Actors, WriterStep(p), NEW s \in Sessions, s # p,
         NEW m \in Names, Own(s, Content(m)')
  PROVE  Own(s, Content(m))
<1>1. \/ FilesStay
      \/ Goes(p) /\ Tears(p) /\ Live(p) /\ FileStep(p, Tear(op[p].want))
      \/ Stores(p) /\ Live(p) /\ FileStep(p, op[p].want)
      \/ Removes(p) /\ Live(p) /\ FileStep(p, Absent)
  BY WriterFiles DEF WriterStep
<1>2. CASE FilesStay
  BY <1>2 DEF FilesStay
<1>3. ASSUME NEW c, FileStep(p, c), FileKey(m) = FileKey(op[p].name) => ~Own(s, c) \/ Own(s, Content(m))
      PROVE  Own(s, Content(m))
  BY <1>3 DEF FileStep
<1>4. CASE Removes(p) /\ FileStep(p, Absent)
  BY <1>3, <1>4, AbsentOwn
<1>5. ASSUME op[p].pc \in Storing, Live(p), NEW c, FileStep(p, c), Own(s, c) => Own(s, op[p].want)
      PROVE  Own(s, Content(m))
  <2> SUFFICES ASSUME FileKey(m) = FileKey(op[p].name), Own(s, op[p].want) PROVE Own(s, Content(m))
    BY <1>3, <1>5
  <2>1. op[p].name \in Names /\ op[p].want \in Contents
    BY <1>5, OpFacts DEF Storing, Locked, IInv, OpType
  <2>2. Content(m) = Content(op[p].name)
    BY <2>1, KeyContent
  <2>3. Content(op[p].name) = op[p].before \/ Content(op[p].name) = Tear(op[p].want)
    BY <1>5, <2>1 DEF LiveInv, Live
  <2> QED BY <1>5, <2>1, <2>2, <2>3, WantOwn, TearOwn
<1>6. CASE Tears(p) /\ Live(p) /\ FileStep(p, Tear(op[p].want))
  <2>1. op[p].pc \in Storing
    BY <1>6 DEF Tears, Storing
  <2>2. op[p].want \in Contents
    BY <2>1, OpFacts DEF Storing, Locked, IInv, OpType
  <2>3. Own(s, Tear(op[p].want)) => Own(s, op[p].want)
    BY <2>2, TearOwn
  <2> QED BY <1>5, <1>6, <2>1, <2>3
<1>7. CASE Stores(p) /\ Live(p) /\ FileStep(p, op[p].want)
  BY <1>5, <1>7 DEF Stores
<1> QED BY <1>1, <1>2, <1>4, <1>6, <1>7

----------------------------------------------------------------------------
(* An apply's own changes *)

\* As long as no roster gains a name while an apply runs: its changes are in no
\* roster before its first step and after a clean rollback; meanwhile only in the
\* files of its rosters, whose writes its journal holds unless one is under way;
\* and neither the snapshot nor the first write to a roster found any of them.
InPlaceBy(s, m) ==
    /\ op[s].pc = "inplace" /\ op[s].kind = "edit"
    /\ \E n \in Names : op[s].name = n /\ FileKey(n) = FileKey(m)
OwnOf(s) ==
    /\ app[s].phase \in {"idle", "snapped", "rolledback"} => \A m \in Names : ~Own(s, Content(m))
    /\ Runs(s) => \A n \in Vault[s] : ~Own(s, app[s].snap[n])
    /\ app[s].phase \in Running => \A m \in Names : Own(s, Content(m)) =>
         /\ \E n \in Vault[s] : FileKey(n) = FileKey(m)
         /\ journal[s].writes[FileKey(m)] # <<>> \/ InPlaceBy(s, m)
    /\ \A k \in Keys : journal[s].writes[k] # <<>> => ~Own(s, journal[s].writes[k][1].before)
    /\ \A n \in Names : /\ op[s].pc \in Storing /\ op[s].kind = "edit" /\ op[s].name = n
                        /\ journal[s].writes[FileKey(n)] = <<>>
                        => ~Own(s, op[s].before)

\* In a rollback a roster that holds such a change held one as it began, and is
\* still to be seen, is being undone or is reported as left; an undo puts back
\* bytes without them.
HeldOf(s) ==
    app[s].phase \in Rolling => \A n \in Vault[s] : Own(s, Content(n)) =>
      /\ Own(s, app[s].now[n])
      /\ n \in app[s].left \/ \E f \in app[s].files \cup app[s].file : n \in f.rels
DoneOf(s) ==
    app[s].phase = "undoing" /\ op[s].pc = "ok" =>
      \A f \in app[s].file : \A n \in f.rels : ~Own(s, Content(n))
AimOf(s) ==
    app[s].phase = "undoing" /\ op[s].pc \in Active =>
      (\A f \in app[s].file : op[s].name \in f.rels) /\ ~Own(s, op[s].want)
OneOf(s) ==
    /\ app[s].phase = "undoing" => \E f : app[s].file = {f}
    /\ app[s].phase \in Rolling => \A f \in app[s].files : \A m, n \in f.rels : app[s].now[m] = app[s].now[n]
RollOf(s) == HeldOf(s) /\ DoneOf(s) /\ AimOf(s) /\ OneOf(s)
UndoInv == NoLinkDuringApply => \A s \in Sessions : OwnOf(s) /\ RollOf(s)

\* Steps of others.
LEMMA AwayOwn ==
  ASSUME IInv, ControlInv, ContentInv, OpenInv, KeysInv, LiveInv, Kinds, NoLinkDuringApply',
         NEW s \in Sessions, Away(s)
  PROVE  /\ Runs(s) => KeysStay /\ \A m \in Names : Own(s, Content(m)') => Own(s, Content(m))
         /\ \A m \in Names : Own(s, Content(m)') => \E l \in Names : Own(s, Content(l))
<1>0. NoLinkDuringApply /\ s \in Actors /\ op'[s] = op[s]
  BY LinksStay, SessionsAct DEF Away
<1>1. ASSUME NEW p \in Actors, WriterStep(p), NEW m \in Names, Own(s, Content(m)') PROVE Own(s, Content(m))
  <2>1. p # s
    <3>1. WriterStep(s) => op'[s] # op[s]
      BY DEF WriterStep, Goes, Locks, Prepares, Tears, Reads, Stops, Removes, Stores, Breaks, Quiet, Active, Locked, Storing
    <3> QED BY <1>0, <1>1, <3>1
  <2> QED BY <1>0, <1>1, <2>1, OthersSpareOwn
<1>2. ASSUME dir' = dir, data' = data, NEW m \in Names, Own(s, Content(m)') PROVE Own(s, Content(m))
  BY <1>2, SameFiles DEF FilesStay
<1>3. ASSUME NEW a \in Names, NEW b \in Names, Link(a, b) PROVE
        /\ ~Runs(s)
        /\ \A m \in Names : Own(s, Content(m)') => \E l \in Names : Own(s, Content(l))
  <2>1. ~Runs(s)
    BY <1>3, LinkWhileNoneRuns
  <2>2. dir' = [dir EXCEPT ![b] = dir[a]] /\ data' = data
    BY <1>3 DEF Link, AddLink
  <2>3. \A m \in Names : dir'[m] = dir[m] \/ dir'[m] = dir[a]
    BY <2>2 DEF IInv, FileInv, FileTypeOK
  <2>4. \A m \in Names : Content(m)' = Content(m) \/ Content(m)' = Content(a)
    BY <2>2, <2>3 DEF Content
  <2> QED BY <2>1, <2>4
<1>4. Runs(s) => KeysStay
  BY RunsKeys
<1>5. (\E a, b \in Names : Link(a, b)) \/ (\E p \in Actors : WriterStep(p)) \/ (dir' = dir /\ data' = data)
  BY DEF Kinds, WriterStep, Comes, Alone, Dies, vars
<1> QED BY <1>1, <1>2, <1>3, <1>4, <1>5

LEMMA AwayUndo ==
  ASSUME IInv, ControlInv, ContentInv, OpenInv, KeysInv, LiveInv, Kinds, NoLinkDuringApply',
         NEW s \in Sessions, Away(s), OwnOf(s), RollOf(s)
  PROVE  OwnOf(s)' /\ RollOf(s)'
<1>0. /\ Runs(s) => KeysStay /\ \A m \in Names : Own(s, Content(m)') => Own(s, Content(m))
      /\ \A m \in Names : Own(s, Content(m)') => \E l \in Names : Own(s, Content(l))
  BY AwayOwn
<1>1. /\ AppSteady(s) /\ op'[s] = op[s] /\ \A k \in Keys : journal'[s].writes[k] = journal[s].writes[k]
      /\ app[s].phase \in Running => Runs(s)
      /\ app[s] \in AppType(s) /\ Vault[s] \subseteq Names
      /\ \A m \in Names : FileKey(m) \in Keys
  BY ActorsAreTheWriters, KeyFacts DEF Away, Running, Recording, Rolling, Runs, Ended, IInv, AppsOK, AppTypeOK
<1>2. /\ app'[s].phase = app[s].phase /\ app'[s].snap = app[s].snap /\ app'[s].now = app[s].now
      /\ app'[s].files = app[s].files /\ app'[s].file = app[s].file /\ app'[s].left = app[s].left
  BY <1>1 DEF AppSteady
<1>3. \A f \in app[s].files \cup app[s].file : f.rels \subseteq Names
  BY <1>1 DEF AppType, Files
<1>4. OwnOf(s)'
  <2>1. ASSUME app[s].phase \in {"idle", "snapped", "rolledback"}, NEW m \in Names PROVE ~Own(s, Content(m)')
    BY <1>0, <2>1 DEF OwnOf
  <2>2. ASSUME app[s].phase \in Running, NEW m \in Names, Own(s, Content(m)') PROVE
          /\ \E n \in Vault[s] : FileKey(n)' = FileKey(m)'
          /\ journal'[s].writes[FileKey(m)'] # <<>> \/ InPlaceBy(s, m)'
    <3>1. KeysStay /\ Own(s, Content(m))
      BY <1>0, <1>1, <2>2
    <3>2. /\ \E n \in Vault[s] : FileKey(n) = FileKey(m)
          /\ journal[s].writes[FileKey(m)] # <<>> \/ InPlaceBy(s, m)
      BY <2>2, <3>1 DEF OwnOf
    <3>3. InPlaceBy(s, m) => InPlaceBy(s, m)'
      BY <1>1, <3>1 DEF InPlaceBy, KeysStay
    <3> QED BY <1>1, <3>1, <3>2, <3>3 DEF KeysStay
  <2>3. ASSUME NEW n \in Names, op[s].pc \in Storing, op[s].kind = "edit", op[s].name = n,
               journal'[s].writes[FileKey(n)'] = <<>>
        PROVE  ~Own(s, op[s].before)
    <3>1. Runs(s)
      BY <2>3, ActiveRuns DEF Storing, Active, Locked
    <3> QED BY <1>0, <1>1, <2>3, <3>1 DEF OwnOf, KeysStay
  <2>4. \A k \in Keys : journal'[s].writes[k] # <<>> => ~Own(s, journal'[s].writes[k][1].before)
    BY <1>1 DEF OwnOf
  <2>5. Runs(s)' => \A n \in Vault[s] : ~Own(s, app'[s].snap[n])
    BY <1>2 DEF OwnOf, Runs
  <2> QED BY <1>1, <1>2, <2>1, <2>2, <2>3, <2>4, <2>5 DEF OwnOf
<1>5. RollOf(s)'
  <2>1. CASE app[s].phase \in Rolling
    <3>1. \A m \in Names : Own(s, Content(m)') => Own(s, Content(m))
      BY <1>0, <1>1, <2>1 DEF Running
    <3>2. ASSUME NEW n \in Vault[s], Own(s, Content(n)') PROVE
            /\ Own(s, app[s].now[n])
            /\ n \in app[s].left \/ \E f \in app[s].files \cup app[s].file : n \in f.rels
      BY <1>1, <2>1, <3>1, <3>2 DEF RollOf, HeldOf
    <3>3. HeldOf(s)'
      BY <1>2, <3>2 DEF HeldOf
    <3>4. DoneOf(s)'
      BY <1>1, <1>2, <1>3, <3>1 DEF RollOf, DoneOf
    <3>5. AimOf(s)'
      BY <1>1, <1>2 DEF RollOf, AimOf
    <3>6. OneOf(s)'
      BY <1>2 DEF RollOf, OneOf
    <3> QED BY <3>3, <3>4, <3>5, <3>6 DEF RollOf
  <2>2. CASE app[s].phase \notin Rolling
    BY <1>2, <2>2 DEF RollOf, HeldOf, DoneOf, AimOf, OneOf, Rolling
  <2> QED BY <2>1, <2>2
<1> QED BY <1>4, <1>5

\* The first write a journal holds to a roster found none of its apply's changes.
LEMMA FirstOwn ==
  ASSUME IInv, ControlInv, ClaimInv, KeysInv, NoLinkDuringApply, Kinds, NEW s \in Sessions, OwnOf(s),
         NEW k \in Keys, journal'[s].writes[k] # <<>>
  PROVE  ~Own(s, journal'[s].writes[k][1].before)
<1>1. CASE journal[s].writes[k] # <<>> /\ journal'[s].writes[k][1] = journal[s].writes[k][1]
  BY <1>1 DEF OwnOf
<1>2. ASSUME NEW p \in Actors, NEW failed \in BOOLEAN, op[p].pc \in Storing, s = op[p].rec,
             k = LockKey(op[p]), journal[s].writes[k] = <<>>,
             journal'[s].writes[k][1] = WriteOf(p, failed)
      PROVE  ~Own(s, journal'[s].writes[k][1].before)
  <2>1. s # None
    BY SessionsAct, DistinctMarks
  <2>2. p \in Sessions
    BY <1>2, <2>1, ActorsAreTheWriters DEF ControlInv
  <2>3. s = p /\ op[p].kind = "edit"
    BY <1>2, <2>1, <2>2 DEF ClaimInv, OpClaimed
  <2>4. PICK n \in Names : op[p].name = n
    BY <1>2, OpFacts DEF IInv, Storing, Locked
  <2>5. k = FileKey(n)
    BY <1>2, <2>2, <2>3, <2>4 DEF KeysInv, KeysOf, LockKey
  <2>6. ~Own(s, op[p].before)
    BY <1>2, <2>3, <2>4, <2>5 DEF OwnOf
  <2> QED BY <1>2, <2>6 DEF WriteOf
<1> QED BY <1>1, <1>2, JournalFirst

\* What an apply's own operation does to its journal: nothing is forgotten, and
\* an edit that ends is recorded.
LEMMA WriterJournal ==
  ASSUME IInv, ControlInv, KeysInv, NoLinkDuringApply, NEW s \in Sessions, WriterStep(s)
  PROVE  /\ \A k \in Keys : journal[s].writes[k] # <<>> => journal'[s].writes[k] # <<>>
         /\ (Stores(s) \/ Breaks(s)) /\ op[s].kind = "edit" =>
              journal'[s].writes[FileKey(op[s].name)] # <<>>
<1>0. s \in Actors
  BY SessionsAct
<1>1. CASE journal' = journal /\ ~Stores(s) /\ ~Breaks(s)
  BY <1>1
<1>2. CASE Stores(s) \/ Breaks(s)
  <2>1. PICK failed \in BOOLEAN : op[s].pc \in Storing /\ Record(s, failed)
    BY <1>2 DEF Stores, Breaks
  <2>2. /\ \A k \in Keys : \/ journal'[s].writes[k] = journal[s].writes[k]
                           \/ journal'[s].writes[k] = Append(journal[s].writes[k], WriteOf(s, failed))
        /\ s = op[s].rec /\ journal[s].state = "open" => journal'[s].writes[LockKey(op[s])] # <<>>
    BY <1>0, <2>1, RecordFacts
  <2>3. ASSUME NEW k \in Keys, journal[s].writes[k] # <<>> PROVE journal'[s].writes[k] # <<>>
    <3>1. PICK ws \in Seq(Writes) : ws = journal[s].writes[k]
      BY DEF IInv, JournalsOK, JournalType
    <3>2. PICK w : w = WriteOf(s, failed)
      OBVIOUS
    <3>3. Len(Append(ws, w)) = Len(ws) + 1 /\ Len(ws) \in Nat
      OBVIOUS
    <3>4. Append(ws, w) # <<>>
      BY <3>3
    <3> QED BY <2>2, <2>3, <3>1, <3>2, <3>4
  <2>4. ASSUME op[s].kind = "edit" PROVE journal'[s].writes[FileKey(op[s].name)] # <<>>
    <3>1. PICK n \in Names : op[s].name = n
      BY <1>0, <2>1, OpFacts DEF IInv, Storing, Locked
    <3>2. FileKey(n) = LockKey(op[s]) /\ op[s].rec = s
      BY <2>1, <2>4, <3>1 DEF KeysInv, KeysOf, LockKey
    <3>3. op[s].pc \in Active
      BY <2>1 DEF Storing, Active, Locked
    <3>4. app[s].phase = "step"
      BY <2>4, <3>3 DEF ControlInv, OpOf
    <3>5. journal[s].state = "open"
      BY <3>4 DEF ControlInv, StatesInv, Recording
    <3> QED BY <2>2, <3>1, <3>2, <3>5
  <2> QED BY <2>3, <2>4
<1> QED BY <1>1, <1>2 DEF WriterStep, Goes, Reads, Stops, Removes, Stores, Breaks, AppsStay, Quiet, Active, Locked

\* An undo brings none of the changes back.
LEMMA UndoBrings ==
  ASSUME IInv, ControlInv, OpenInv, KeysInv, NoLinkDuringApply,
         NEW s \in Sessions, WriterStep(s), app[s].phase = "undoing", AimOf(s),
         NEW m \in Names, Own(s, Content(m)')
  PROVE  /\ Own(s, Content(m))
         /\ (Stores(s) \/ Removes(s)) => FileKey(m) # FileKey(op[s].name)
<1>0. s \in Actors
  BY SessionsAct
<1>1. \/ FilesStay /\ ~Tears(s) /\ ~Stores(s) /\ ~Removes(s)
      \/ Goes(s) /\ Tears(s) /\ Live(s) /\ FileStep(s, Tear(op[s].want))
      \/ Stores(s) /\ Live(s) /\ FileStep(s, op[s].want)
      \/ Removes(s) /\ s \in Sessions /\ Live(s) /\ FileStep(s, Absent)
  BY <1>0, WriterFiles DEF WriterStep
<1>2. op[s].pc \in Active
  BY <1>0, WriterFrame DEF WriterStep
<1>3. ~Own(s, op[s].want) /\ op[s].want \in Contents
  BY <1>0, <1>2 DEF AimOf, IInv, FileInv, FileTypeOK, OpType
<1>4. ~Own(s, Tear(op[s].want)) /\ ~Own(s, Absent)
  BY <1>3, TearOwn, AbsentOwn
<1>5. ASSUME NEW c, FileStep(s, c), ~Own(s, c)
      PROVE  Own(s, Content(m)) /\ FileKey(m) # FileKey(op[s].name)
  BY <1>5 DEF FileStep
<1>6. CASE FilesStay /\ ~Stores(s) /\ ~Removes(s)
  BY <1>6 DEF FilesStay
<1> QED BY <1>1, <1>3, <1>4, <1>5, <1>6

LEMMA MineRoll ==
  ASSUME IInv, ControlInv, OpenInv, KeysInv, NoLinkDuringApply,
         NEW s \in Sessions, WriterStep(s), AppSteady(s), RollOf(s)
  PROVE  RollOf(s)'
<1>0. s \in Actors /\ op[s].pc \in Active /\ Vault[s] \subseteq Names /\ app[s] \in AppType(s)
  BY SessionsAct, WriterFrame, ActorsAreTheWriters DEF WriterStep, IInv, AppsOK, AppTypeOK
<1>1. /\ app'[s].phase = app[s].phase /\ app'[s].now = app[s].now
      /\ app'[s].files = app[s].files /\ app'[s].file = app[s].file /\ app'[s].left = app[s].left
  BY DEF AppSteady
<1>2. \A f \in app[s].files \cup app[s].file : f.rels \subseteq Names
  BY <1>0 DEF AppType, Files
<1>3. app[s].phase = IF op[s].kind = "edit" THEN "step" ELSE "undoing"
  BY <1>0 DEF ControlInv, OpOf
<1>4. OneOf(s)'
  <2>1. OneOf(s)
    BY DEF RollOf
  <2>2. app[s].phase = "undoing" => \E f : app'[s].file = {f}
    BY <1>1, <2>1 DEF OneOf
  <2>3. app[s].phase \in Rolling => \A f \in app'[s].files : \A m, n \in f.rels : app'[s].now[m] = app'[s].now[n]
    BY <1>1, <2>1 DEF OneOf
  <2> QED BY <1>1, <2>2, <2>3 DEF OneOf
<1>5. CASE app[s].phase = "step"
  BY <1>1, <1>4, <1>5 DEF RollOf, HeldOf, DoneOf, AimOf, Rolling
<1>6. CASE app[s].phase = "undoing"
  <2>1. /\ \A m \in Names : Own(s, Content(m)') => Own(s, Content(m))
        /\ \A m \in Names : Own(s, Content(m)') /\ (Stores(s) \/ Removes(s)) =>
             FileKey(m) # FileKey(op[s].name)
    BY <1>6, UndoBrings DEF RollOf
  <2>2. HeldOf(s)'
    BY <1>0, <1>1, <1>6, <2>1 DEF RollOf, HeldOf, Rolling
  <2>3. AimOf(s)'
    <3> SUFFICES ASSUME op'[s].pc \in Active
                 PROVE  (\A f \in app[s].file : op'[s].name \in f.rels) /\ ~Own(s, op'[s].want)
      BY <1>1 DEF AimOf
    <3>1. Goes(s) \/ Reads(s)
      BY <1>0, WriterFrame DEF WriterStep
    <3>2. op'[s].name = op[s].name /\ op'[s].want = op[s].want
      BY <1>3, <1>6, <3>1 DEF Goes, Reads, Alike
    <3> QED BY <1>0, <1>6, <3>2 DEF RollOf, AimOf
  <2>4. DoneOf(s)'
    <3> SUFFICES ASSUME op'[s].pc = "ok", NEW f \in app[s].file, NEW n \in f.rels, Own(s, Content(n)')
                 PROVE  FALSE
      BY <1>1 DEF DoneOf
    <3>1. Stops(s) \/ Removes(s) \/ Stores(s)
      BY DEF WriterStep, Goes, Reads, Breaks, Active, Locked
    <3>2. n \in Names /\ op[s].name \in f.rels /\ op[s].name \in Names
      BY <1>0, <1>2, <1>6 DEF RollOf, AimOf
    <3>3. FileKey(n) = FileKey(op[s].name)
      BY <1>6, <3>2 DEF KeysInv, KeysOf, Rolling
    <3>4. CASE Removes(s) \/ Stores(s)
      BY <2>1, <3>2, <3>3, <3>4
    <3>5. CASE Stops(s)
      <4>1. Content(op[s].name) = op[s].want
        BY <3>5 DEF Stops
      <4>2. Content(n) = op[s].want
        BY <3>2, <3>3, <4>1, KeyContent
      <4> QED BY <1>0, <1>6, <2>1, <3>2, <4>2 DEF RollOf, AimOf
    <3> QED BY <3>1, <3>4, <3>5
  <2> QED BY <1>4, <2>2, <2>3, <2>4 DEF RollOf
<1> QED BY <1>3, <1>5, <1>6

LEMMA MineHolds ==
  ASSUME IInv, ControlInv, OpenInv, KeysInv, Kinds, NoLinkDuringApply', NoLinkDuringApply,
         NEW s \in Sessions, WriterStep(s), OwnOf(s), RollOf(s),
         NEW m \in Names, Own(s, Content(m)')
  PROVE  /\ \E n \in Vault[s] : FileKey(n) = FileKey(m)
         /\ \/ journal'[s].writes[FileKey(m)] # <<>>
            \/ /\ op'[s].pc = "inplace" /\ op'[s].kind = "edit" /\ op'[s].name = op[s].name
               /\ FileKey(op[s].name) = FileKey(m)
<1>0. s \in Actors /\ op[s].pc \in Active /\ Vault[s] \subseteq Names /\ FileKey(m) \in Keys
  BY SessionsAct, WriterFrame, ActorsAreTheWriters, KeyFacts DEF WriterStep
<1>1. op[s].name \in Vault[s] /\ app[s].phase \in Running /\ app[s].phase = IF op[s].kind = "edit" THEN "step" ELSE "undoing"
  BY <1>0 DEF ControlInv, OpOf, Running, Recording, Rolling
<1>2. /\ \A k \in Keys : journal[s].writes[k] # <<>> => journal'[s].writes[k] # <<>>
      /\ (Stores(s) \/ Breaks(s)) /\ op[s].kind = "edit" => journal'[s].writes[FileKey(op[s].name)] # <<>>
  BY WriterJournal
<1>3. ASSUME Own(s, Content(m))
      PROVE  /\ \E n \in Vault[s] : FileKey(n) = FileKey(m)
             /\ \/ journal'[s].writes[FileKey(m)] # <<>>
                \/ op[s].pc = "inplace" /\ op[s].kind = "edit" /\ FileKey(op[s].name) = FileKey(m)
  BY <1>0, <1>1, <1>2, <1>3 DEF OwnOf, InPlaceBy
<1>4. \/ FilesStay /\ ~Tears(s) /\ ~Stores(s) /\ ~Removes(s)
      \/ Goes(s) /\ Tears(s) /\ Live(s) /\ FileStep(s, Tear(op[s].want))
      \/ Stores(s) /\ Live(s) /\ FileStep(s, op[s].want)
      \/ Removes(s) /\ s \in Sessions /\ Live(s) /\ FileStep(s, Absent)
  BY <1>0, WriterFiles DEF WriterStep
<1>5. CASE op[s].kind # "edit"
  <2>1. Own(s, Content(m))
    BY <1>1, <1>5, UndoBrings DEF RollOf
  <2> QED BY <1>3, <1>5, <2>1
<1>6. CASE op[s].kind = "edit" /\ FilesStay /\ ~Tears(s) /\ ~Stores(s) /\ ~Removes(s)
  <2>1. Own(s, Content(m))
    BY <1>6 DEF FilesStay
  <2>2. op[s].pc = "inplace" => Breaks(s)
    <3>1. s \notin Others
      BY ActorsAreTheWriters
    <3> QED BY <1>6, <3>1 DEF WriterStep, Goes, Locks, Prepares, Reads, Stops
  <2> QED BY <1>2, <1>3, <1>6, <2>1, <2>2
<1>7. CASE op[s].kind = "edit" /\ Goes(s) /\ Tears(s) /\ FileStep(s, Tear(op[s].want))
  <2>1. op[s].pc # "inplace" /\ op'[s].pc = "inplace" /\ op'[s].kind = "edit" /\ op'[s].name = op[s].name
    BY <1>7 DEF Tears, Goes, Alike
  <2>2. CASE FileKey(m) = FileKey(op[s].name)
    BY <1>1, <2>1, <2>2
  <2>3. CASE FileKey(m) # FileKey(op[s].name)
    BY <1>3, <1>7, <2>1, <2>3 DEF FileStep
  <2> QED BY <2>2, <2>3
<1>8. CASE op[s].kind = "edit" /\ Stores(s) /\ FileStep(s, op[s].want)
  <2>2. CASE FileKey(m) = FileKey(op[s].name)
    BY <1>1, <1>2, <1>8, <2>2
  <2>3. CASE FileKey(m) # FileKey(op[s].name)
    BY <1>3, <1>8, <2>3 DEF FileStep
  <2> QED BY <2>2, <2>3
<1>9. ASSUME op[s].kind = "edit" PROVE ~Removes(s)
  BY <1>9 DEF Removes
<1> QED BY <1>4, <1>5, <1>6, <1>7, <1>8, <1>9

LEMMA MineOwn ==
  ASSUME IInv, ControlInv, ClaimInv, OpenInv, KeysInv, Kinds, NoLinkDuringApply',
         NEW s \in Sessions, WriterStep(s), AppSteady(s), OwnOf(s), RollOf(s)
  PROVE  OwnOf(s)'
<1>0. NoLinkDuringApply /\ s \in Actors /\ op[s].pc \in Active
  BY SessionsAct, LinksStay, WriterFrame DEF WriterStep
<1>1. /\ app'[s].phase = app[s].phase /\ app'[s].snap = app[s].snap
      /\ app[s].phase \in {"step", "undoing"} /\ Runs(s)
  BY <1>0, ActiveRuns DEF AppSteady
<1>2. KeysStay
  BY <1>1, RunsKeys
<1>3. Vault[s] \subseteq Names /\ op[s].name \in Names
  BY <1>0, ActorsAreTheWriters DEF ControlInv, OpOf
<1>4. ASSUME NEW m \in Names, Own(s, Content(m)') PROVE
        /\ \E n \in Vault[s] : FileKey(n)' = FileKey(m)'
        /\ journal'[s].writes[FileKey(m)'] # <<>> \/ InPlaceBy(s, m)'
  <2>1. /\ \E n \in Vault[s] : FileKey(n) = FileKey(m)
        /\ \/ journal'[s].writes[FileKey(m)] # <<>>
           \/ /\ op'[s].pc = "inplace" /\ op'[s].kind = "edit" /\ op'[s].name = op[s].name
              /\ FileKey(op[s].name) = FileKey(m)
    BY <1>0, <1>4, MineHolds
  <2>2. PICK l \in Names : l = op[s].name
    BY <1>3
  <2>3. FileKey(l)' = FileKey(l) /\ FileKey(m)' = FileKey(m)
    BY <1>2 DEF KeysStay
  <2> QED BY <1>2, <1>3, <2>1, <2>2, <2>3 DEF KeysStay, InPlaceBy
<1>5. ASSUME NEW n \in Names, op'[s].pc \in Storing, op'[s].kind = "edit", op'[s].name = n,
             journal'[s].writes[FileKey(n)'] = <<>>
      PROVE  ~Own(s, op'[s].before)
  <2>1. /\ op[s].name = n /\ op[s].kind = "edit"
        /\ \/ op[s].pc \in Storing /\ op'[s].before = op[s].before
           \/ Reads(s)
    BY <1>0, <1>5, StoringBefore
  <2>2. op'[s].pc \in Active
    BY <1>5 DEF Storing, Active, Locked
  <2>3. journal' = journal
    BY <1>0, <2>2, WriterFrame DEF WriterStep, Goes, Reads, AppsStay
  <2>4. journal[s].writes[FileKey(n)] = <<>>
    BY <1>2, <1>5, <2>3 DEF KeysStay
  <2>5. CASE Reads(s)
    <3>1. op'[s].before = Content(n) /\ op[s].pc = "held"
      BY <2>1, <2>5 DEF Reads
    <3>2. ~InPlaceBy(s, n)
      BY <3>1 DEF InPlaceBy
    <3>3. app[s].phase \in Running
      BY <1>1 DEF Running, Recording, Rolling
    <3> QED BY <2>4, <3>1, <3>2, <3>3 DEF OwnOf
  <2> QED BY <2>1, <2>4, <2>5 DEF OwnOf
<1>6. \A k \in Keys : journal'[s].writes[k] # <<>> => ~Own(s, journal'[s].writes[k][1].before)
  BY <1>0, FirstOwn
<1>7. Runs(s)' => \A n \in Vault[s] : ~Own(s, app'[s].snap[n])
  BY <1>1 DEF OwnOf
<1> QED BY <1>1, <1>4, <1>5, <1>6, <1>7 DEF OwnOf

\* The first steps of an apply.
LEMMA WorkUndo ==
  ASSUME IInv, ControlInv, ClaimInv, KeysInv, Kinds, NoLinkDuringApply', NEW s \in Sessions,
         dir' = dir, data' = data, Snaps(s) \/ Opens(s) \/ Closes(s) \/ Moves(s), Works(s), OwnOf(s)
  PROVE  OwnOf(s)' /\ RollOf(s)'
<1>0. NoLinkDuringApply /\ s \in Actors /\ Vault[s] \subseteq Names
  BY LinksStay, SessionsAct, ActorsAreTheWriters
<1>1. /\ app[s].phase \in {"idle", "snapped"} \cup Recording
      /\ app'[s].phase \in {"snapped"} \cup Recording
      /\ app'[s].phase = "snapped" <=> app[s].phase = "idle"
      /\ app'[s].snap = IF app[s].phase = "idle" THEN Entries(s) ELSE app[s].snap
      /\ op[s].pc \notin Active
  BY ActiveRuns DEF Works, Recording
<1>2. KeysStay /\ \A m \in Names : Content(m)' = Content(m)
  BY SameFiles DEF FilesStay
<1>3. ASSUME app'[s].phase = "snapped", NEW m \in Names PROVE ~Own(s, Content(m)')
  BY <1>1, <1>2, <1>3 DEF OwnOf
<1>4. ASSUME NEW n \in Vault[s] PROVE ~Own(s, app'[s].snap[n])
  <2>1. CASE app[s].phase = "idle"
    <3>1. app'[s].snap[n] = Content(n)
      BY <1>1, <2>1 DEF Entries
    <3> QED BY <1>0, <2>1, <3>1 DEF OwnOf
  <2>2. CASE app[s].phase # "idle"
    <3>1. Runs(s)
      BY <1>1, <2>2 DEF Runs, Ended, Recording
    <3> QED BY <1>1, <2>2, <3>1 DEF OwnOf
  <2> QED BY <2>1, <2>2
<1>5. ASSUME app'[s].phase \in Recording, NEW m \in Names, Own(s, Content(m)') PROVE
        /\ \E n \in Vault[s] : FileKey(n)' = FileKey(m)'
        /\ journal'[s].writes[FileKey(m)'] # <<>>
  <2>1. Own(s, Content(m)) /\ app[s].phase \in Recording
    BY <1>1, <1>2, <1>5 DEF OwnOf, Recording
  <2>2. ~InPlaceBy(s, m)
    BY <1>1 DEF InPlaceBy, Active, Locked
  <2>3. /\ \E n \in Vault[s] : FileKey(n) = FileKey(m)
        /\ journal[s].writes[FileKey(m)] # <<>>
    BY <2>1, <2>2 DEF OwnOf, Running
  <2>4. journal'[s].writes = journal[s].writes
    BY <1>5, <2>1 DEF Snaps, Opens, Closes, Moves, Recording, Ended
  <2> QED BY <1>0, <1>2, <2>3, <2>4 DEF KeysStay
<1>6. \A k \in Keys : journal'[s].writes[k] # <<>> => ~Own(s, journal'[s].writes[k][1].before)
  BY <1>0, FirstOwn
<1>7. op'[s].pc \notin Storing
  <2> SUFFICES ASSUME op'[s].pc \in Storing PROVE op[s].pc \in Active
    BY <1>1
  <2>1. op[s].pc \in Storing \/ Reads(s)
    BY <1>0, StoringBefore
  <2> QED BY <2>1 DEF Reads, Storing, Active, Locked
<1>8. app'[s].phase \in Running => app'[s].phase \in Recording
  BY <1>1 DEF Running, Recording, Rolling
<1>9. app'[s].phase \in {"idle", "snapped", "rolledback"} => app'[s].phase = "snapped"
  BY <1>1 DEF Recording
<1>10. OwnOf(s)'
  BY <1>3, <1>4, <1>5, <1>6, <1>7, <1>8, <1>9 DEF OwnOf
<1>11. app'[s].phase \notin Rolling /\ app'[s].phase # "undoing"
  BY <1>1 DEF Recording, Rolling
<1>12. RollOf(s)'
  BY <1>11 DEF RollOf, HeldOf, DoneOf, AimOf, OneOf
<1> QED BY <1>10, <1>12

\* The end of an apply: a clean rollback has seen every roster, and left none.
LEMMA EndUndo ==
  ASSUME IInv, ControlInv, ClaimInv, KeysInv, Kinds, NoLinkDuringApply', ControlInv', NEW s \in Sessions,
         dir' = dir, data' = data, Ends(s) \/ Gone(s), OwnOf(s), RollOf(s)
  PROVE  OwnOf(s)' /\ RollOf(s)'
<1>0. NoLinkDuringApply /\ s \in Actors /\ Vault[s] \subseteq Names
  BY LinksStay, SessionsAct, ActorsAreTheWriters
<1>1. /\ app'[s].phase \in Ended
      /\ app'[s].phase = "rolledback" => app[s].phase = "rolling" /\ app[s].files = {} /\ app[s].left = {}
  BY DEF Ends, Gone, Ended
<1>2. KeysStay /\ \A m \in Names : Content(m)' = Content(m)
  BY SameFiles DEF FilesStay
<1>3. ASSUME app'[s].phase = "rolledback", NEW m \in Names, Own(s, Content(m)') PROVE FALSE
  <2>1. app[s].phase = "rolling" /\ app[s].files = {} /\ app[s].left = {}
    BY <1>1, <1>3
  <2>2. app[s].file = {}
    BY <1>0, <2>1 DEF KeysInv, KeysOf, Ended
  <2>3. \A n \in Vault[s] : ~Own(s, Content(n))
    BY <2>1, <2>2 DEF RollOf, HeldOf, Rolling
  <2>4. PICK n \in Vault[s] : FileKey(n) = FileKey(m)
    BY <1>2, <1>3, <2>1 DEF OwnOf, Running, Rolling
  <2>5. Content(n) = Content(m)
    BY <1>0, <2>4, KeyContent
  <2> QED BY <1>2, <1>3, <2>3, <2>5
<1>4. \A k \in Keys : journal'[s].writes[k] # <<>> => ~Own(s, journal'[s].writes[k][1].before)
  BY <1>0, FirstOwn
<1>5. op'[s].pc \notin Storing /\ op'[s].pc \notin Active
  <2>1. op'[s].pc \in Active => app'[s].phase \in {"step", "undoing"}
    BY DEF ControlInv, OpOf
  <2>2. op'[s].pc \notin Active
    BY <1>1, <2>1 DEF Ended
  <2> QED BY <2>2 DEF Storing, Active, Locked
<1>6. /\ app'[s].phase \notin Running /\ app'[s].phase \notin Rolling /\ app'[s].phase # "undoing" /\ ~Runs(s)'
      /\ app'[s].phase \notin {"idle", "snapped"}
  BY <1>1 DEF Ended, Running, Recording, Rolling, Runs
<1>7. OwnOf(s)'
  BY <1>3, <1>4, <1>5, <1>6 DEF OwnOf
<1>8. RollOf(s)'
  BY <1>6 DEF RollOf, HeldOf, DoneOf, AimOf, OneOf
<1> QED BY <1>7, <1>8

\* A rollback leaves what the apply has in its rosters.
LEMMA RollOwn ==
  ASSUME IInv, ControlInv, ClaimInv, KeysInv, Kinds, NoLinkDuringApply', NEW s \in Sessions,
         dir' = dir, data' = data, Snaps(s) \/ Opens(s) \/ Closes(s) \/ Moves(s), Rolls(s), OwnOf(s)
  PROVE  OwnOf(s)'
<1>0. NoLinkDuringApply /\ s \in Actors /\ Vault[s] \subseteq Names
  BY LinksStay, SessionsAct, ActorsAreTheWriters
<1>1. /\ app[s].phase \in {"ready", "failed", "rolling", "undoing"}
      /\ app'[s].phase \in Rolling /\ app'[s].snap = app[s].snap
  BY DEF Rolls, TurnsBack, Passes, Undoes, HasUndone, StillRolls, Rolling
<1>2. KeysStay /\ \A m \in Names : Content(m)' = Content(m)
  BY SameFiles DEF FilesStay
<1>3. app[s].phase \in Running /\ Runs(s) /\ (op[s].pc \in Active => op[s].kind # "edit")
  BY <1>1 DEF Running, Recording, Rolling, Runs, Ended, ControlInv, OpOf
<1>4. journal'[s].writes = journal[s].writes
  BY <1>1 DEF Snaps, Opens, Closes, Moves, Rolling, Ended
<1>5. ASSUME NEW m \in Names, Own(s, Content(m)') PROVE
        /\ \E n \in Vault[s] : FileKey(n)' = FileKey(m)'
        /\ journal'[s].writes[FileKey(m)'] # <<>>
  <2>1. ~InPlaceBy(s, m)
    BY <1>3 DEF InPlaceBy, Active, Locked
  <2>2. /\ \E n \in Vault[s] : FileKey(n) = FileKey(m)
        /\ journal[s].writes[FileKey(m)] # <<>>
    BY <1>2, <1>3, <1>5, <2>1 DEF OwnOf
  <2> QED BY <1>0, <1>2, <1>4, <2>2 DEF KeysStay
<1>6. \A k \in Keys : journal'[s].writes[k] # <<>> => ~Own(s, journal'[s].writes[k][1].before)
  BY <1>0, FirstOwn
<1>7. op'[s].pc \in Storing => op'[s].kind # "edit"
  <2> SUFFICES ASSUME op'[s].pc \in Storing PROVE op[s].pc \in Active /\ op'[s].kind = op[s].kind
    BY <1>3
  <2>1. op'[s].kind = op[s].kind /\ (op[s].pc \in Storing \/ Reads(s))
    BY <1>0, StoringBefore
  <2> QED BY <2>1 DEF Reads, Storing, Active, Locked
<1>8. \A n \in Vault[s] : ~Own(s, app'[s].snap[n])
  BY <1>1, <1>3 DEF OwnOf
<1>9. app'[s].phase \notin {"idle", "snapped", "rolledback"}
  BY <1>1 DEF Rolling
<1> QED BY <1>5, <1>6, <1>7, <1>8, <1>9 DEF OwnOf

\* What a rollback passes without a report holds none of the apply's changes.
LEMMA HeldFacts ==
  ASSUME NEW entries, NEW f, NEW n \in f.rels, entries[n] # Absent
  PROVE  \E m \in f.rels : Held(entries, f) = entries[m]
BY DEF Held

LEMMA HeldAny ==
  ASSUME NEW entries, NEW f
  PROVE  Held(entries, f) = Absent \/ \E m \in f.rels : Held(entries, f) = entries[m]
<1>1. CASE \E m \in f.rels : entries[m] # Absent
  <2>1. PICK n \in f.rels : entries[n] # Absent
    BY <1>1
  <2> QED BY <2>1, HeldFacts
<1>2. CASE ~\E m \in f.rels : entries[m] # Absent
  BY <1>2 DEF Held
<1> QED BY <1>1, <1>2

LEMMA PassedClean ==
  ASSUME IInv, ControlInv, KeysInv, NoLinkDuringApply, NEW s \in Sessions, OwnOf(s), RollOf(s),
         app[s].phase = "rolling", NEW f \in app[s].files, Verdict(s, f) \in {"nothing", "keep"},
         NEW n \in f.rels
  PROVE  ~Own(s, Content(n))
<1>0. f.rels \subseteq Vault[s] /\ Vault[s] \subseteq Names
  BY ActorsAreTheWriters DEF IInv, AppsOK, AppTypeOK, AppType, Files
<1>1. FileKey(n) = f.key
  BY <1>0 DEF KeysInv, KeysOf, Rolling
<1>2. Held(app[s].snap, f) = Held(app[s].now, f) \/ journal[s].writes[f.key] = <<>>
  BY DEF Verdict
<1>3. CASE journal[s].writes[f.key] = <<>>
  <2>1. ~InPlaceBy(s, n)
    BY DEF InPlaceBy, ControlInv, OpOf, Active, Locked
  <2> QED BY <1>0, <1>1, <1>3, <2>1 DEF OwnOf, Running, Rolling
<1>4. ASSUME Held(app[s].snap, f) = Held(app[s].now, f), Own(s, Content(n)) PROVE FALSE
  <2>1. Own(s, app[s].now[n])
    BY <1>0, <1>4 DEF RollOf, HeldOf, Rolling
  <2>2. app[s].now[n] # Absent
    BY <2>1, AbsentOwn
  <2>3. PICK l \in f.rels : Held(app[s].now, f) = app[s].now[l]
    BY <2>2, HeldFacts
  <2>4. app[s].now[l] = app[s].now[n]
    BY DEF RollOf, OneOf, Rolling
  <2>5. Own(s, Held(app[s].snap, f))
    BY <1>4, <2>1, <2>3, <2>4
  <2>6. PICK m \in f.rels : Held(app[s].snap, f) = app[s].snap[m]
    BY <2>5, HeldAny, AbsentOwn
  <2>7. Runs(s)
    BY DEF Runs, Ended
  <2> QED BY <1>0, <2>5, <2>6, <2>7 DEF OwnOf
<1> QED BY <1>2, <1>3, <1>4

LEMMA TurnRoll ==
  ASSUME IInv, NEW s \in Sessions, dir' = dir, data' = data, TurnsBack(s)
  PROVE  RollOf(s)'
<1>0. Vault[s] \subseteq Names
  BY ActorsAreTheWriters
<1>1. KeysStay /\ \A m \in Names : Content(m)' = Content(m)
  BY SameFiles DEF FilesStay
<1>2. app'[s].phase = "rolling" /\ \A n \in Vault[s] : app'[s].now[n] = Content(n)
  BY DEF TurnsBack, Entries
<1>3. ASSUME NEW n \in Vault[s], Own(s, Content(n)') PROVE
        /\ Own(s, app'[s].now[n])
        /\ \E f \in app'[s].files : n \in f.rels
  <2>1. Own(s, Content(n))
    BY <1>0, <1>1, <1>3
  <2>2. n \in Known(s)
    BY <2>1, AbsentOwn DEF Known
  <2>3. PICK f \in app'[s].files : f = [key |-> FileKey(n), rels |-> {m \in Known(s) : FileKey(m) = FileKey(n)}]
    BY <2>2 DEF TurnsBack
  <2>4. n \in f.rels
    BY <2>2, <2>3
  <2> QED BY <1>2, <2>1, <2>4
<1>4. ASSUME NEW f \in app'[s].files, NEW m \in f.rels, NEW n \in f.rels PROVE app'[s].now[m] = app'[s].now[n]
  <2>1. PICK l \in Known(s) : f = [key |-> FileKey(l), rels |-> {k \in Known(s) : FileKey(k) = FileKey(l)}]
    BY DEF TurnsBack
  <2>2. FileKey(m) = FileKey(n) /\ m \in Known(s) /\ n \in Known(s)
    BY <2>1
  <2>3. m \in Vault[s] /\ n \in Vault[s]
    BY <2>2 DEF Known
  <2>4. Content(m) = Content(n)
    BY <1>0, <2>2, <2>3, KeyContent
  <2> QED BY <1>2, <2>3, <2>4
<1>5. HeldOf(s)'
  BY <1>3 DEF HeldOf
<1>6. DoneOf(s)' /\ AimOf(s)'
  BY <1>2 DEF DoneOf, AimOf
<1>7. OneOf(s)'
  BY <1>2, <1>4 DEF OneOf
<1> QED BY <1>5, <1>6, <1>7 DEF RollOf

LEMMA PassRoll ==
  ASSUME IInv, ControlInv, KeysInv, NoLinkDuringApply, NEW s \in Sessions, dir' = dir, data' = data,
         OwnOf(s), RollOf(s), NEW f \in app[s].files, Passes(s, f)
  PROVE  RollOf(s)'
<1>0. Vault[s] \subseteq Names
  BY ActorsAreTheWriters
<1>1. \A m \in Names : Content(m)' = Content(m)
  BY SameFiles DEF FilesStay
<1>2. /\ app[s].phase = "rolling" /\ app'[s].phase = "rolling" /\ app'[s].now = app[s].now
      /\ app'[s].files = app[s].files \ {f} /\ app'[s].file = app[s].file
      /\ app'[s].left = IF Verdict(s, f) = "leave" THEN app[s].left \cup f.rels ELSE app[s].left
      /\ Verdict(s, f) \in {"nothing", "keep", "leave"}
  BY DEF Passes, StillRolls
<1>3. ASSUME NEW n \in Vault[s], Own(s, Content(n)') PROVE
        /\ Own(s, app'[s].now[n])
        /\ n \in app'[s].left \/ \E g \in app'[s].files \cup app'[s].file : n \in g.rels
  <2>1. Own(s, Content(n))
    BY <1>0, <1>1, <1>3
  <2>2. /\ Own(s, app[s].now[n])
        /\ n \in app[s].left \/ \E g \in app[s].files \cup app[s].file : n \in g.rels
    BY <1>2, <2>1 DEF RollOf, HeldOf, Rolling
  <2>3. n \in f.rels => Verdict(s, f) = "leave"
    BY <1>2, <2>1, PassedClean
  <2> QED BY <1>2, <2>2, <2>3
<1>4. HeldOf(s)'
  BY <1>3 DEF HeldOf
<1>5. DoneOf(s)' /\ AimOf(s)'
  BY <1>2 DEF DoneOf, AimOf
<1>6. OneOf(s)'
  <2>1. \A g \in app[s].files : \A m, n \in g.rels : app[s].now[m] = app[s].now[n]
    BY <1>2 DEF RollOf, OneOf, Rolling
  <2>2. \A g \in app'[s].files : \A m, n \in g.rels : app'[s].now[m] = app'[s].now[n]
    BY <1>2, <2>1
  <2> QED BY <1>2, <2>2 DEF OneOf
<1> QED BY <1>4, <1>5, <1>6 DEF RollOf

LEMMA UndoRoll ==
  ASSUME IInv, NEW s \in Sessions, dir' = dir, data' = data,
         KeysOf(s), OwnOf(s), RollOf(s), NEW f \in app[s].files, NEW l \in f.rels, Undoes(s, f, l)
  PROVE  RollOf(s)'
<1>0. Vault[s] \subseteq Names /\ f.key \in Keys
  BY ActorsAreTheWriters DEF IInv, AppsOK, AppTypeOK, AppType, Files
<1>1. \A m \in Names : Content(m)' = Content(m)
  BY SameFiles DEF FilesStay
<1>2. /\ app[s].phase = "rolling" /\ app'[s].phase = "undoing" /\ app'[s].now = app[s].now
      /\ app'[s].files = app[s].files \ {f} /\ app'[s].file = {f} /\ app'[s].left = app[s].left
      /\ journal[s].writes[f.key] # <<>> /\ op'[s].pc = "lock" /\ op'[s].name = l
      /\ op'[s].want = journal[s].writes[f.key][1].before
  BY DEF Undoes, StillRolls, Starts
<1>3. ASSUME NEW n \in Vault[s], Own(s, Content(n)') PROVE
        /\ Own(s, app'[s].now[n])
        /\ n \in app'[s].left \/ \E g \in app'[s].files \cup app'[s].file : n \in g.rels
  <2>1. Own(s, Content(n))
    BY <1>0, <1>1, <1>3
  <2>2. /\ Own(s, app[s].now[n])
        /\ n \in app[s].left \/ \E g \in app[s].files \cup app[s].file : n \in g.rels
    BY <1>2, <2>1 DEF RollOf, HeldOf, Rolling
  <2>3. CASE n \in app[s].left
    BY <1>2, <2>2, <2>3
  <2>4. ASSUME NEW g \in app[s].files \cup app[s].file, n \in g.rels, g \notin app[s].file
        PROVE  g \in app'[s].files \cup app'[s].file
    BY <1>2, <2>4
  <2>5. app[s].file = {}
    BY <1>2 DEF KeysOf, Ended
  <2> QED BY <1>2, <2>2, <2>3, <2>4, <2>5
<1>4. HeldOf(s)'
  BY <1>3 DEF HeldOf
<1>5. DoneOf(s)'
  BY <1>2 DEF DoneOf
<1>6. AimOf(s)'
  <2>1. ~Own(s, op'[s].want)
    BY <1>0, <1>2 DEF OwnOf
  <2> QED BY <1>2, <2>1 DEF AimOf
<1>7. OneOf(s)'
  <2>1. \A g \in app[s].files : \A m, n \in g.rels : app[s].now[m] = app[s].now[n]
    BY <1>2 DEF RollOf, OneOf, Rolling
  <2>2. \A g \in app'[s].files : \A m, n \in g.rels : app'[s].now[m] = app'[s].now[n]
    BY <1>2, <2>1
  <2> QED BY <1>2, <2>2 DEF OneOf
<1> QED BY <1>4, <1>5, <1>6, <1>7 DEF RollOf

LEMMA UndoneRoll ==
  ASSUME IInv, NEW s \in Sessions, dir' = dir, data' = data,
         RollOf(s), NEW f \in app[s].file, HasUndone(s, f)
  PROVE  RollOf(s)'
<1>0. Vault[s] \subseteq Names /\ f.rels \subseteq Names
  BY ActorsAreTheWriters DEF IInv, AppsOK, AppTypeOK, AppType, Files
<1>1. \A m \in Names : Content(m)' = Content(m)
  BY SameFiles DEF FilesStay
<1>2. /\ app[s].phase = "undoing" /\ app'[s].phase = "rolling" /\ app'[s].now = app[s].now
      /\ app'[s].files = app[s].files
      /\ app'[s].left = IF op[s].pc # "ok" THEN app[s].left \cup f.rels ELSE app[s].left
  BY DEF HasUndone, StillRolls
<1>3. app[s].file = {f}
  BY <1>2 DEF RollOf, OneOf
<1>4. ASSUME NEW n \in Vault[s], Own(s, Content(n)') PROVE
        /\ Own(s, app'[s].now[n])
        /\ n \in app'[s].left \/ \E g \in app'[s].files \cup app'[s].file : n \in g.rels
  <2>1. Own(s, Content(n))
    BY <1>0, <1>1, <1>4
  <2>2. /\ Own(s, app[s].now[n])
        /\ n \in app[s].left \/ \E g \in app[s].files \cup app[s].file : n \in g.rels
    BY <1>2, <2>1 DEF RollOf, HeldOf, Rolling
  <2>3. n \in f.rels => op[s].pc # "ok"
    BY <1>2, <2>1 DEF RollOf, DoneOf
  <2> QED BY <1>2, <1>3, <2>2, <2>3
<1>5. HeldOf(s)'
  BY <1>4 DEF HeldOf
<1>6. DoneOf(s)' /\ AimOf(s)'
  BY <1>2 DEF DoneOf, AimOf
<1>7. OneOf(s)'
  <2>1. \A g \in app[s].files : \A m, n \in g.rels : app[s].now[m] = app[s].now[n]
    BY <1>2 DEF RollOf, OneOf, Rolling
  <2>2. \A g \in app'[s].files : \A m, n \in g.rels : app'[s].now[m] = app'[s].now[n]
    BY <1>2, <2>1
  <2> QED BY <1>2, <2>2 DEF OneOf
<1> QED BY <1>5, <1>6, <1>7 DEF RollOf

LEMMA UndoInvStep ==
  ASSUME IInv, ControlInv, ClaimInv, ContentInv, OpenInv, KeysInv, LiveInv, UndoInv, Kinds, ControlInv'
  PROVE  UndoInv'
<1> SUFFICES ASSUME NoLinkDuringApply', NEW s \in Sessions PROVE OwnOf(s)' /\ RollOf(s)'
  BY DEF UndoInv
<1>0. NoLinkDuringApply
  BY LinksStay
<1>1. OwnOf(s) /\ RollOf(s) /\ KeysOf(s)
  BY <1>0 DEF UndoInv, KeysInv
<1>2. CASE Away(s)
  BY <1>1, <1>2, AwayUndo
<1>3. CASE WriterStep(s) /\ AppSteady(s)
  BY <1>0, <1>1, <1>3, MineOwn, MineRoll
<1>4. CASE dir' = dir /\ data' = data /\ (Ends(s) \/ Gone(s))
  BY <1>1, <1>4, EndUndo
<1>5. CASE dir' = dir /\ data' = data /\ (Snaps(s) \/ Opens(s) \/ Closes(s) \/ Moves(s)) /\ Works(s)
  BY <1>1, <1>5, WorkUndo
<1>6. CASE dir' = dir /\ data' = data /\ (Snaps(s) \/ Opens(s) \/ Closes(s) \/ Moves(s)) /\ Rolls(s)
  <2>1. OwnOf(s)'
    BY <1>1, <1>6, RollOwn
  <2>2. RollOf(s)'
    BY <1>0, <1>1, <1>6, TurnRoll, PassRoll, UndoRoll, UndoneRoll DEF Rolls
  <2> QED BY <2>1, <2>2
<1> QED BY <1>2, <1>3, <1>4, <1>5, <1>6, Views

UndoneInv == UpdateInv /\ OpenInv /\ FirstInv /\ KeysInv /\ LiveInv /\ UndoInv

LEMMA InitUndone == Init => UndoneInv
<1> SUFFICES ASSUME Init PROVE UndoneInv
  OBVIOUS
<1>0. UpdateInv /\ IInv /\ Sessions \subseteq Actors
  BY InitUpdate, SessionsAct DEF UpdateInv
<1>1. /\ \A p \in Actors : op[p] = NoOp
      /\ \A s \in Sessions : app[s] = NewApp /\ journal[s] = NewJournal
  BY DEF Init
<1>2. NoOp.pc = "none"
  BY DEF NoOp
<1>3. "none" \notin Active /\ "none" \notin Storing
  BY DEF Active, Locked, Storing
<1>4. NewApp.phase = "idle" /\ NewApp.file = {} /\ \A k \in Keys : NewJournal.writes[k] = <<>>
  BY DEF NewApp, NewJournal
<1>5. OpenInv
  BY <1>1, <1>2, <1>3 DEF OpenInv
<1>6. FirstInv
  BY <1>1, <1>4 DEF FirstInv
<1>7. KeysInv
  BY <1>0, <1>1, <1>2, <1>3, <1>4 DEF KeysInv, KeysOf, Rolling
<1>8. LiveInv
  BY <1>1, <1>2, <1>3 DEF LiveInv
<1>9. ASSUME NEW s \in Sessions PROVE OwnOf(s) /\ RollOf(s)
  <2>1. ASSUME NEW m \in Names PROVE ~Own(s, Content(m))
    <3>1. dir[m] \in Inodes \cup {None}
      BY <1>0 DEF IInv, FileInv, FileTypeOK
    <3>2. Content(m) = Absent \/ Content(m) = [torn |-> FALSE, has |-> {}]
      BY <3>1 DEF Init, Content
    <3>3. ChangesIn(Content(m)) = {}
      BY <3>2 DEF ChangesIn
    <3> QED BY <3>3 DEF Own
  <2>2. app[s].phase = "idle" /\ op[s].pc = "none" /\ \A k \in Keys : journal[s].writes[k] = <<>>
    BY <1>0, <1>1, <1>2, <1>4
  <2>3. OwnOf(s)
    BY <1>3, <2>1, <2>2 DEF OwnOf, Runs, Running, Recording, Rolling
  <2>4. RollOf(s)
    BY <1>3, <2>2 DEF RollOf, HeldOf, DoneOf, AimOf, OneOf, Rolling
  <2> QED BY <2>3, <2>4
<1> QED BY <1>0, <1>5, <1>6, <1>7, <1>8, <1>9 DEF UndoneInv, UndoInv

LEMMA NextUndone == UndoneInv /\ [Next]_vars => UndoneInv'
<1> SUFFICES ASSUME UndoneInv, [Next]_vars PROVE UndoneInv'
  OBVIOUS
<1>1. UpdateInv /\ OpenInv /\ FirstInv /\ KeysInv /\ LiveInv /\ UndoInv
  BY DEF UndoneInv
<1>2. IInv /\ ControlInv /\ ClaimInv /\ ContentInv
  BY <1>1 DEF UpdateInv
<1>3. Kinds
  BY <1>2, StepKinds
<1>4. UpdateInv'
  BY <1>1, NextUpdate
<1>5. ControlInv'
  BY <1>4 DEF UpdateInv
<1> QED BY <1>1, <1>2, <1>3, <1>4, <1>5, OpenStep, FirstStep, KeysStep, LiveStep, UndoInvStep DEF UndoneInv

\* As long as no roster gains a name while an apply runs, an apply that reports a
\* clean rollback has left none of its changes in its rosters, whoever wrote them
\* meanwhile (restoreManagedFiles, restoreRosterFile): its journal holds a write
\* to every roster that has one, the first of these found none, and a roster it
\* does not put back to that it reports.
THEOREM RollbackLeavesNothing == Spec => []RollbackUndoesOwn
<1>1. UndoneInv => RollbackUndoesOwn
  <2> SUFFICES ASSUME UndoneInv, NoLinkDuringApply, NEW s \in Sessions, app[s].phase = "rolledback",
                      NEW n \in Vault[s], Content(n) # Absent, NEW c \in Content(n).has, c[1] = s
               PROVE  FALSE
    BY DEF RollbackUndoesOwn, HoldsOwn
  <2>1. n \in Names
    BY ActorsAreTheWriters
  <2>2. Own(s, Content(n))
    BY DEF Own, ChangesIn
  <2>3. OwnOf(s)
    BY DEF UndoneInv, UndoInv
  <2> QED BY <2>1, <2>2, <2>3 DEF OwnOf
<1> QED BY <1>1, InitUndone, NextUndone, PTL DEF Spec
=============================================================================
