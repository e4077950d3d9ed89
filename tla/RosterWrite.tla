------------------------------ MODULE RosterWrite ------------------------------
(***************************************************************************)
(* The roster writers of internal/inventory.  A roster is a file reached   *)
(* by one canonical name or, through hard links, by several.  Every writer *)
(* takes the sidecar locks of the name it uses (lockRosterFile), locks the *)
(* inode too when the file has other names (lockRosterInode), reads the    *)
(* roster, and writes it whole (writeLockedRoster): renamed into place, or *)
(* in place when replacing would change the file's identity.  A journal    *)
(* records the writes the process makes to the rosters it watches.         *)
(*                                                                         *)
(* A roster's bytes are the set of changes it holds: an edit is a read     *)
(* under the lock, and a write of what was read with one change added.     *)
(* Torn bytes are the part of them a write in place has written so far.    *)
(***************************************************************************)
EXTENDS Naturals, Sequences

CONSTANTS
    Names,      \* canonical roster paths
    Inodes,     \* file identities a file system can give them
    Actors,     \* writers: edit applies and every other roster command
    Changes,    \* the changes writers make
    Absent,     \* what a name with no file holds
    None

ASSUME DistinctMarks ==
    /\ None \notin Inodes \cup Actors
    /\ Names \cap Inodes = {}
    /\ Absent \notin [torn : BOOLEAN, has : SUBSET Changes]

VARIABLES
    dir,        \* the inode each name is linked to
    data,       \* what each inode holds
    side,       \* who holds the two sidecar flocks of a name
    ilock,      \* who holds the exclusive flock of an inode
    op          \* the roster operation each actor is in

fileVars == <<dir, data, side, ilock, op>>

Bytes == [torn : BOOLEAN, has : SUBSET Changes]
Contents == {Absent} \cup Bytes

ChangesIn(c) == IF c = Absent THEN {} ELSE c.has
Torn(c) == c # Absent /\ c.torn
Tear(c) == [torn |-> TRUE, has |-> ChangesIn(c)]
With(c, change) == [torn |-> FALSE, has |-> ChangesIn(c) \cup {change}]

\* pc is the step of the operation; ident the inode the operation has locked;
\* fd the inode opened for writing; want what it will leave in the roster;
\* expect what a rollback must still find; rec the apply whose journal records
\* this write and before what the roster held as it began.
NoOp == [pc |-> "none", kind |-> "edit", name |-> None, ident |-> None, fd |-> None,
         want |-> Absent, expect |-> Absent, before |-> Absent, rec |-> None]

Content(n) == IF dir[n] = None THEN Absent ELSE data[dir[n]]

\* The file has more than one name (st.Nlink > 1).
Linked(i) == \E m, n \in Names : m # n /\ dir[m] = i /\ dir[n] = i

\* RosterFileKey: the canonical path, or the inode of a file with hard links.
FileKey(n) == IF dir[n] # None /\ Linked(dir[n]) THEN dir[n] ELSE n

\* The key a lock was taken under (rosterLock.key).
LockKey(o) == IF o.ident = None THEN o.name ELSE o.ident

Start(p, kind, n, want, expect) ==
    op' = [op EXCEPT ![p] = [NoOp EXCEPT !.pc = "lock", !.kind = kind, !.name = n,
                                         !.want = want, !.expect = expect]]

\* rosterLock.release: every lock the operation holds, with its result.
Finish(p, result) ==
    /\ side' = [n \in Names |-> IF side[n] = p THEN None ELSE side[n]]
    /\ ilock' = [i \in Inodes |-> IF ilock[i] = p THEN None ELSE ilock[i]]
    /\ op' = [op EXCEPT ![p] = [NoOp EXCEPT !.pc = result]]

----------------------------------------------------------------------------
\* lockRosterFile: both sidecars are taken in one order by every writer, so the
\* second is never contended and the pair is one lock.  A holder is waited for
\* only until the deadline.
TakeSidecars(p) ==
    LET n == op[p].name IN
    /\ op[p].pc = "lock"
    /\ side[n] = None
    /\ side' = [side EXCEPT ![n] = p]
    /\ op' = [op EXCEPT ![p].pc = "inode"]
    /\ UNCHANGED <<dir, data, ilock>>

SidecarsHeld(p) ==
    /\ op[p].pc = "lock"
    /\ side[op[p].name] # None
    /\ Finish(p, "refused")
    /\ UNCHANGED <<dir, data>>

\* A file with one name needs no lock of its own.
NeedsInodeLock(i) == i # None /\ Linked(i)

LockInode(p) ==
    LET i == dir[op[p].name] IN
    /\ op[p].pc = "inode"
    /\ IF NeedsInodeLock(i)
         THEN /\ ilock[i] = None
              /\ ilock' = [ilock EXCEPT ![i] = p]
              /\ op' = [op EXCEPT ![p].pc = "held", ![p].ident = i]
         ELSE /\ op' = [op EXCEPT ![p].pc = "held"]
              /\ UNCHANGED ilock
    /\ UNCHANGED <<dir, data, side>>

InodeHeld(p) ==
    LET i == dir[op[p].name] IN
    /\ op[p].pc = "inode"
    /\ NeedsInodeLock(i) /\ ilock[i] # None
    /\ Finish(p, "refused")
    /\ UNCHANGED <<dir, data>>

\* The path resolves to another file once locked, the roster cannot be read or
\* parsed, or the candidate would be invalid: nothing is written.
Abandon(p) ==
    /\ op[p].pc = "held"
    /\ Finish(p, "refused")
    /\ UNCHANGED <<dir, data>>

\* A roster edit: read under the lock, add the change.
ReadRoster(p, change, rec) ==
    LET cur == Content(op[p].name) IN
    /\ op[p].pc = "held" /\ op[p].kind = "edit"
    /\ ~Torn(cur)
    /\ op' = [op EXCEPT ![p].pc = "open", ![p].before = cur, ![p].rec = rec,
                        ![p].want = With(cur, change)]
    /\ UNCHANGED <<dir, data, side, ilock>>

\* RestoreRosterFile: back already, changed since, gone, or to be written.
CheckRestore(p, rec) ==
    LET cur == Content(op[p].name) IN
    /\ op[p].pc = "held" /\ op[p].kind = "restore"
    /\ \/ cur = op[p].want /\ Finish(p, "ok")
       \/ cur \notin {op[p].want, op[p].expect} /\ Finish(p, IF cur = Absent THEN "failed" ELSE "changed")
       \/ /\ cur # op[p].want /\ cur = op[p].expect
          /\ op' = [op EXCEPT ![p].pc = "open", ![p].before = cur, ![p].rec = rec]
          /\ UNCHANGED <<side, ilock>>
    /\ UNCHANGED <<dir, data>>

\* What the inodes hold once dir is changed to d: an inode with no name is free.
Kept(d, contents) == [i \in Inodes |-> IF \E n \in Names : d[n] = i THEN contents[i] ELSE Absent]

\* RemoveRosterFile: a bare os.Remove of the name, under its lock.
CheckRemove(p) ==
    LET n == op[p].name
        cur == Content(n)
        d == [dir EXCEPT ![n] = None]
    IN
    /\ op[p].pc = "held" /\ op[p].kind = "remove"
    /\ \/ /\ cur # op[p].expect
          /\ Finish(p, IF cur = Absent THEN "failed" ELSE "changed")
          /\ UNCHANGED <<dir, data>>
       \/ /\ cur = op[p].expect
          /\ dir' = d /\ data' = Kept(d, data)
          /\ Finish(p, "ok")

\* The link check of the write is left out.
BuggyGainedLink(p) == FALSE

\* checkNoNewHardLink: the file gained a name since it was locked.
GainedLink(p) == dir[op[p].name] # None /\ Linked(dir[op[p].name]) /\ op[p].ident = None

\* writeRosterBytes, up to the choice of how to write.  A file with other names
\* is written in place; so is one whose owner, ACL or attributes a replacement
\* would lose.  A temp file that cannot be made leaves the roster unchanged.
OpenRefused(p) ==
    /\ op[p].pc = "open" /\ GainedLink(p)
    /\ Finish(p, "refused")
    /\ UNCHANGED <<dir, data>>

OpenFailed(p) ==
    /\ op[p].pc = "open" /\ ~GainedLink(p)
    /\ Finish(p, "failed")
    /\ UNCHANGED <<dir, data>>

BeginInPlace(p) ==
    LET i == dir[op[p].name] IN
    /\ op[p].pc = "open" /\ ~GainedLink(p) /\ i # None
    /\ data' = [data EXCEPT ![i] = Tear(op[p].want)]
    /\ op' = [op EXCEPT ![p].pc = "inplace", ![p].fd = i]
    /\ UNCHANGED <<dir, side, ilock>>

BeginReplace(p) ==
    LET i == dir[op[p].name] IN
    /\ op[p].pc = "open" /\ i # None /\ ~Linked(i)
    /\ op' = [op EXCEPT ![p].pc = "replace", ![p].fd = i]
    /\ UNCHANGED <<dir, data, side, ilock>>

\* An inode no name and no open file refers to.
FreeInode(i) == /\ \A n \in Names : dir[n] # i
                /\ \A q \in Actors : i \notin {op[q].fd, op[q].ident}

\* The rename that installs the new file: createLockedRoster's for a roster not
\* there yet, writeRosterBytes' for one it replaces.
Install(p) ==
    LET n == op[p].name IN
    /\ (op[p].pc = "open" /\ dir[n] = None) \/ op[p].pc = "replace"
    /\ \E i \in Inodes :
         LET d == [dir EXCEPT ![n] = i] IN
         /\ FreeInode(i)
         /\ dir' = d
         /\ data' = Kept(d, [data EXCEPT ![i] = op[p].want])
    /\ Finish(p, "ok")

\* The rename is refused (a bind mount, a sticky directory): the open file is
\* written in place instead.
RenameRefused(p) ==
    /\ op[p].pc = "replace"
    /\ data' = [data EXCEPT ![op[p].fd] = Tear(op[p].want)]
    /\ op' = [op EXCEPT ![p].pc = "inplace"]
    /\ UNCHANGED <<dir, side, ilock>>

EndInPlace(p) ==
    /\ op[p].pc = "inplace"
    /\ data' = [data EXCEPT ![op[p].fd] = op[p].want]
    /\ Finish(p, "ok")
    /\ UNCHANGED dir

\* errRosterPartlyWritten: the write stopped after it began.
FailInPlace(p) ==
    /\ op[p].pc = "inplace"
    /\ Finish(p, "partly")
    /\ UNCHANGED <<dir, data>>

\* The process ends: the kernel drops its flocks, and what it had begun to write
\* in place stays as it is.
Die(p) ==
    /\ side' = [n \in Names |-> IF side[n] = p THEN None ELSE side[n]]
    /\ ilock' = [i \in Inodes |-> IF ilock[i] = p THEN None ELSE ilock[i]]
    /\ op' = [op EXCEPT ![p] = NoOp]

\* Someone gives a roster another name (ln).  Environment: not while a write of
\* that very file is between its last link check and its end.
AddLink(m, n) ==
    /\ dir[m] # None /\ dir[n] = None
    /\ \A p \in Actors : op[p].pc \in {"replace", "inplace"} => op[p].fd # dir[m]
    /\ dir' = [dir EXCEPT ![n] = dir[m]]
    /\ UNCHANGED <<data, side, ilock, op>>

----------------------------------------------------------------------------
Results == {"ok", "refused", "changed", "failed", "partly"}
Locked == {"inode", "held", "open", "replace", "inplace"}

OpType == [pc : {"none", "lock"} \cup Locked \cup Results, kind : {"edit", "restore", "remove"},
           name : Names \cup {None}, ident : Inodes \cup {None}, fd : Inodes \cup {None},
           want : Contents, expect : Contents, before : Contents, rec : Actors \cup {None}]

FileTypeOK ==
    /\ dir \in [Names -> Inodes \cup {None}]
    /\ data \in [Inodes -> Contents]
    /\ \A n \in Names : dir[n] # None => data[dir[n]] # Absent
    /\ side \in [Names -> Actors \cup {None}]
    /\ ilock \in [Inodes -> Actors \cup {None}]
    /\ op \in [Actors -> OpType]
    /\ \A p \in Actors : op[p].pc \in {"lock"} \cup Locked => op[p].name \in Names
    /\ \A p \in Actors : op[p].kind = "restore" => op[p].want # Absent
    /\ \A p \in Actors : op[p].pc \in {"open", "replace", "inplace"} => op[p].want # Absent

\* However a roster is named, and whatever names it gains, no two writers are
\* ever between opening one file for writing and the end of that write.
OneWriterPerFile ==
    \A p, q \in Actors :
      p # q /\ op[p].pc \in {"replace", "inplace"} /\ op[q].pc \in {"replace", "inplace"}
        => op[p].fd # op[q].fd
=============================================================================
