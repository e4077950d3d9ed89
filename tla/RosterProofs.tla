------------------------------ MODULE RosterProofs ------------------------------
(***************************************************************************)
(* Proofs about RosterApply: no two writers ever write one roster file at  *)
(* once, for any names, links, applies and commands.                       *)
(***************************************************************************)
EXTENDS RosterApply, TLAPS

Writing == {"replace", "inplace"}

\* Who holds the sidecars of a name is between taking and releasing them there.
SidecarsOwned == \A p \in Actors : op[p].pc \in Locked => side[op[p].name] = p

\* An operation that locked an inode still holds it, and its name still names it.
InodesOwned ==
    \A p \in Actors : op[p].ident # None =>
        /\ op[p].pc \in Locked
        /\ ilock[op[p].ident] = p
        /\ op[p].ident = dir[op[p].name]

\* A file open for writing is the one the name has, and its inode is locked if
\* it has other names.
WritesOwned ==
    \A p \in Actors : op[p].pc \in Writing =>
        /\ op[p].fd \in Inodes
        /\ op[p].fd = dir[op[p].name]
        /\ Linked(op[p].fd) => op[p].ident = op[p].fd

FileInv == FileTypeOK /\ SidecarsOwned /\ InodesOwned /\ WritesOwned

\* Two writers of one file hold either the same sidecars or the same inode.
LEMMA FileInvExcludes == FileInv => OneWriterPerFile
<1> SUFFICES ASSUME FileInv, NEW p \in Actors, NEW q \in Actors, p # q,
                    op[p].pc \in Writing, op[q].pc \in Writing, op[p].fd = op[q].fd
             PROVE FALSE
  BY DEF OneWriterPerFile, Writing
<1> DEFINE i == op[p].fd
<1>1. i \in Inodes /\ dir[op[p].name] = i /\ dir[op[q].name] = i
  BY DEF FileInv, WritesOwned
<1>2. op[p].name \in Names /\ op[q].name \in Names
  BY DEF FileInv, FileTypeOK, Writing, Locked
<1>3. CASE op[p].name = op[q].name
  <2>1. side[op[p].name] = p /\ side[op[q].name] = q
    BY DEF FileInv, SidecarsOwned, Writing, Locked
  <2> QED BY <2>1, <1>3
<1>4. CASE op[p].name # op[q].name
  <2>1. Linked(i)
    BY <1>1, <1>2, <1>4 DEF Linked
  <2>2. op[p].ident = i /\ op[q].ident = i
    BY <2>1 DEF FileInv, WritesOwned
  <2>3. i # None
    BY <1>1, DistinctMarks
  <2>4. ilock[i] = p /\ ilock[i] = q
    BY <2>2, <2>3 DEF FileInv, InodesOwned
  <2> QED BY <2>4
<1> QED BY <1>3, <1>4

\* What Finish needs of the file system to keep the invariant: it is well typed,
\* nobody else's name has moved, and no file being written has gained a name.
FilesKept(p) ==
    /\ dir' \in [Names -> Inodes \cup {None}]
    /\ data' \in [Inodes -> Contents]
    /\ \A n \in Names : dir'[n] # None => data'[dir'[n]] # Absent
    /\ \A q \in Actors : q # p /\ op[q].pc \in Locked => dir'[op[q].name] = dir[op[q].name]
    /\ \A q \in Actors : q # p /\ op[q].pc \in Writing =>
         \A m, n \in Names : m # n /\ dir'[m] = op[q].fd /\ dir'[n] = op[q].fd => Linked(op[q].fd)

LEMMA NoOpType == NoOp \in OpType
BY DEF NoOp, OpType, Contents

LEMMA FinishKeeps ==
  ASSUME FileInv, NEW p \in Actors, NEW r \in Results, Finish(p, r), FilesKept(p)
  PROVE  FileInv'
<1> DEFINE done == [NoOp EXCEPT !.pc = r]
<1>1. /\ done \in OpType
      /\ done.pc = r /\ done.ident = None /\ done.fd = None /\ done.kind = "edit"
  BY NoOpType DEF NoOp, OpType, Contents
<1>2. op' = [op EXCEPT ![p] = done]
  BY DEF Finish
<1>3. op \in [Actors -> OpType]
  BY DEF FileInv, FileTypeOK
<1>4. op' \in [Actors -> OpType] /\ op'[p] = done /\ \A q \in Actors : q # p => op'[q] = op[q]
  BY <1>1, <1>2, <1>3
<1>5. r \notin {"none", "lock"} \cup Locked
  BY DEF Results, Locked
<1>6. side' \in [Names -> Actors \cup {None}] /\ ilock' \in [Inodes -> Actors \cup {None}]
  BY DEF Finish, FileInv, FileTypeOK
<1>7. FileTypeOK'
  BY <1>1, <1>4, <1>5, <1>6 DEF FileInv, FileTypeOK, FilesKept, Locked
<1>8. ASSUME NEW q \in Actors, op'[q].pc \in Locked
      PROVE q # p /\ op'[q] = op[q] /\ op[q].name \in Names
  <2>1. op'[p].pc = r
    BY <1>1, <1>4
  <2>2. q # p
    BY <2>1, <1>5, <1>8
  <2>3. op'[q] = op[q]
    BY <2>2, <1>4
  <2> QED BY <1>8, <2>2, <2>3 DEF FileInv, FileTypeOK
<1>9. SidecarsOwned'
  BY <1>8, <1>4 DEF Finish, FileInv, FileTypeOK, SidecarsOwned
<1>10. InodesOwned'
  <2> SUFFICES ASSUME NEW q \in Actors, op'[q].ident # None
               PROVE /\ op'[q].pc \in Locked
                     /\ ilock'[op'[q].ident] = q
                     /\ op'[q].ident = dir'[op'[q].name]
    BY DEF InodesOwned
  <2>1. q # p /\ op'[q] = op[q]
    BY <1>1, <1>4
  <2>2. op[q].pc \in Locked /\ ilock[op[q].ident] = q /\ op[q].ident = dir[op[q].name]
    BY <2>1 DEF FileInv, InodesOwned
  <2>3. op[q].ident \in Inodes
    BY <1>3, <2>1 DEF OpType
  <2> QED BY <2>1, <2>2, <2>3 DEF Finish, FilesKept
<1>11. WritesOwned'
  <2> SUFFICES ASSUME NEW q \in Actors, op'[q].pc \in Writing
               PROVE /\ op'[q].fd \in Inodes
                     /\ op'[q].fd = dir'[op'[q].name]
                     /\ Linked(op[q].fd)' => op'[q].ident = op'[q].fd
    BY <1>4, <1>1, <1>5 DEF WritesOwned, Writing, Locked, Linked
  <2>1. q # p /\ op'[q] = op[q] /\ op[q].pc \in Locked
    BY <1>8 DEF Writing, Locked
  <2>2. op[q].fd \in Inodes /\ op[q].fd = dir[op[q].name] /\ (Linked(op[q].fd) => op[q].ident = op[q].fd)
    BY <2>1 DEF FileInv, WritesOwned
  <2>3. Linked(op[q].fd)' => Linked(op[q].fd)
    BY <2>1 DEF FilesKept, Linked
  <2> QED BY <2>1, <2>2, <2>3 DEF FilesKept
<1> QED BY <1>7, <1>9, <1>10, <1>11 DEF FileInv

\* The operation p is in once it holds o: nothing else of it is disturbed.
Sound(p, o) ==
    /\ o \in OpType
    /\ o.pc \in {"lock"} \cup Locked
    /\ o.name \in Names
    /\ o.kind = "restore" => o.want # Absent
    /\ o.pc \in {"open", "replace", "inplace"} => o.want # Absent
    /\ o.pc \in Locked => side'[o.name] = p
    /\ o.ident # None => o.pc \in Locked /\ ilock'[o.ident] = p /\ o.ident = dir[o.name]
    /\ o.pc \in Writing =>
         /\ o.fd \in Inodes
         /\ o.fd = dir[o.name]
         /\ Linked(o.fd) => o.ident = o.fd

\* What a step of p other than its last leaves alone.
OthersKept(p) ==
    /\ dir' = dir
    /\ data' \in [Inodes -> Contents]
    /\ \A n \in Names : dir[n] # None => data'[dir[n]] # Absent
    /\ side' \in [Names -> Actors \cup {None}]
    /\ ilock' \in [Inodes -> Actors \cup {None}]
    /\ \A q \in Actors : q # p =>
         /\ \A n \in Names : side[n] = q => side'[n] = q
         /\ \A i \in Inodes : ilock[i] = q => ilock'[i] = q

LEMMA StepKeeps ==
  ASSUME FileInv, NEW p \in Actors, NEW o, op' = [op EXCEPT ![p] = o], Sound(p, o), OthersKept(p)
  PROVE  FileInv'
<1>1. op \in [Actors -> OpType] /\ o \in OpType
  BY DEF FileInv, FileTypeOK, Sound
<1>2. op' \in [Actors -> OpType] /\ op'[p] = o /\ \A q \in Actors : q # p => op'[q] = op[q]
  BY <1>1
<1>3. FileTypeOK'
  BY <1>1, <1>2 DEF FileInv, FileTypeOK, OthersKept, Sound
<1>4. SidecarsOwned'
  <2> SUFFICES ASSUME NEW q \in Actors, op'[q].pc \in Locked PROVE side'[op'[q].name] = q
    BY DEF SidecarsOwned
  <2>1. CASE q = p
    BY <2>1, <1>2 DEF Sound
  <2>2. CASE q # p
    BY <2>2, <1>2 DEF FileInv, FileTypeOK, SidecarsOwned, OthersKept
  <2> QED BY <2>1, <2>2
<1>5. InodesOwned'
  <2> SUFFICES ASSUME NEW q \in Actors, op'[q].ident # None
               PROVE /\ op'[q].pc \in Locked
                     /\ ilock'[op'[q].ident] = q
                     /\ op'[q].ident = dir'[op'[q].name]
    BY DEF InodesOwned
  <2>1. CASE q = p
    BY <2>1, <1>2 DEF Sound, OthersKept
  <2>2. CASE q # p
    <3>1. op'[q] = op[q] /\ op[q].ident \in Inodes
      BY <2>2, <1>1, <1>2 DEF OpType
    <3> QED BY <3>1, <2>2 DEF FileInv, InodesOwned, OthersKept
  <2> QED BY <2>1, <2>2
<1>6. WritesOwned'
  <2> SUFFICES ASSUME NEW q \in Actors, op'[q].pc \in Writing
               PROVE /\ op'[q].fd \in Inodes
                     /\ op'[q].fd = dir'[op'[q].name]
                     /\ Linked(op[q].fd)' => op'[q].ident = op'[q].fd
    BY DEF WritesOwned
  <2>0. Linked(op[q].fd)' => \E m, n \in Names : m # n /\ dir[m] = op'[q].fd /\ dir[n] = op'[q].fd
    BY DEF Linked, OthersKept
  <2>1. CASE q = p
    <3>1. op'[q] = o
      BY <2>1, <1>2
    <3>2. Linked(op[q].fd)' => Linked(o.fd)
      BY <2>0, <3>1 DEF Linked
    <3> QED BY <3>1, <3>2, <2>1 DEF Sound, OthersKept
  <2>2. CASE q # p
    <3>1. op'[q] = op[q]
      BY <2>2, <1>2
    <3>2. Linked(op[q].fd)' => Linked(op[q].fd)
      BY <2>0, <3>1 DEF Linked
    <3> QED BY <3>1, <3>2 DEF FileInv, WritesOwned, OthersKept
  <2> QED BY <2>1, <2>2
<1> QED BY <1>3, <1>4, <1>5, <1>6 DEF FileInv

\* Some writers are gone, with their locks: an ended operation, or a crash.
LEMMA DropKeeps ==
  ASSUME FileInv, NEW dead \in SUBSET Actors,
         op' = [p \in Actors |-> IF p \in dead THEN NoOp ELSE op[p]],
         dir' = dir, data' = data,
         side' \in [Names -> Actors \cup {None}], ilock' \in [Inodes -> Actors \cup {None}],
         \A q \in Actors \ dead : /\ \A n \in Names : side[n] = q => side'[n] = q
                                  /\ \A i \in Inodes : ilock[i] = q => ilock'[i] = q
  PROVE  FileInv'
<1>1. op \in [Actors -> OpType]
  BY DEF FileInv, FileTypeOK
<1>2. NoOp.pc = "none" /\ NoOp.ident = None /\ NoOp.kind = "edit"
  BY DEF NoOp
<1>3. op' \in [Actors -> OpType]
  BY <1>1, NoOpType
<1>4. \A q \in Actors : IF q \in dead THEN op'[q] = NoOp ELSE op'[q] = op[q]
  OBVIOUS
<1>5. "none" \notin {"lock"} \cup Locked \cup Writing \cup {"open"}
  BY DEF Locked, Writing
<1>6. FileTypeOK'
  BY <1>2, <1>3, <1>4, <1>5 DEF FileInv, FileTypeOK, Writing
<1>7. SidecarsOwned'
  BY <1>2, <1>4, <1>5 DEF FileInv, FileTypeOK, SidecarsOwned
<1>8. InodesOwned'
  <2> SUFFICES ASSUME NEW q \in Actors, op'[q].ident # None
               PROVE /\ op'[q].pc \in Locked
                     /\ ilock'[op'[q].ident] = q
                     /\ op'[q].ident = dir'[op'[q].name]
    BY DEF InodesOwned
  <2>1. q \notin dead /\ op'[q] = op[q] /\ op[q].ident \in Inodes
    BY <1>1, <1>2, <1>4 DEF OpType
  <2>2. op[q].pc \in Locked /\ ilock[op[q].ident] = q /\ op[q].ident = dir[op[q].name]
    BY <2>1 DEF FileInv, InodesOwned
  <2>3. ilock'[op[q].ident] = q
    BY <2>1, <2>2
  <2> QED BY <2>1, <2>2, <2>3
<1>9. WritesOwned'
  BY <1>2, <1>4, <1>5 DEF FileInv, WritesOwned, Linked
<1> QED BY <1>6, <1>7, <1>8, <1>9 DEF FileInv

LEMMA BytesType ==
  ASSUME NEW c \in Contents, NEW change \in Changes
  PROVE  /\ Tear(c) \in Bytes /\ With(c, change) \in Bytes
         /\ Tear(c) # Absent /\ With(c, change) # Absent
<1>1. ChangesIn(c) \in SUBSET Changes
  BY DEF Contents, Bytes, ChangesIn
<1>2. Tear(c) \in Bytes /\ With(c, change) \in Bytes
  BY <1>1 DEF Bytes, Tear, With
<1>3. Absent \notin Bytes
  BY DistinctMarks DEF Bytes
<1> QED BY <1>2, <1>3

LEMMA UnmovedKeeps ==
  ASSUME FileInv, NEW p \in Actors, NEW r \in Results, Finish(p, r), dir' = dir, data' = data
  PROVE  FileInv'
<1>1. FilesKept(p)
  BY DEF FileInv, FileTypeOK, FilesKept, Linked
<1> QED BY <1>1, FinishKeeps

LEMMA StartKeeps ==
  ASSUME FileInv, NEW p \in Actors, NEW kind \in {"edit", "restore", "remove"}, NEW n \in Names,
         NEW want \in Contents, NEW expect \in Contents, kind = "restore" => want # Absent,
         Start(p, kind, n, want, expect), UNCHANGED <<dir, data, side, ilock>>
  PROVE  FileInv'
<1> DEFINE o == [NoOp EXCEPT !.pc = "lock", !.kind = kind, !.name = n, !.want = want, !.expect = expect]
<1>1. o \in OpType
  BY NoOpType DEF OpType
<1>2. o.pc = "lock" /\ o.name = n /\ o.ident = None /\ o.kind = kind /\ o.want = want
  BY DEF NoOp
<1>3. Sound(p, o)
  BY <1>1, <1>2 DEF Sound, Locked, Writing
<1>4. OthersKept(p)
  BY DEF OthersKept, FileInv, FileTypeOK
<1>5. op' = [op EXCEPT ![p] = o]
  BY DEF Start
<1> HIDE DEF o
<1> QED BY <1>3, <1>4, <1>5, StepKeeps

\* What FileInv says of one operation.
LEMMA OpFacts ==
  ASSUME FileInv, NEW p \in Actors, op[p].pc \in {"lock"} \cup Locked
  PROVE  /\ op[p] \in OpType /\ op[p].name \in Names
         /\ dir[op[p].name] \in Inodes \cup {None}
         /\ op[p].pc \in Locked => side[op[p].name] = p
         /\ op[p].ident # None => op[p].pc \in Locked /\ ilock[op[p].ident] = p /\ op[p].ident = dir[op[p].name]
         /\ op[p].kind = "restore" => op[p].want # Absent
         /\ op[p].pc \in {"open", "replace", "inplace"} => op[p].want # Absent
BY DEF FileInv, FileTypeOK, SidecarsOwned, InodesOwned

LEMMA LockingKeeps ==
  ASSUME FileInv, NEW p \in Actors,
         TakeSidecars(p) \/ SidecarsHeld(p) \/ LockInode(p) \/ InodeHeld(p) \/ Abandon(p)
  PROVE  FileInv'
<1>1. CASE TakeSidecars(p)
  <2> DEFINE o == [op[p] EXCEPT !.pc = "inode"]
  <2>1. op[p].pc = "lock" /\ op' = [op EXCEPT ![p] = o]
    BY <1>1 DEF TakeSidecars, FileInv, FileTypeOK
  <2>2. /\ op[p] \in OpType /\ op[p].name \in Names /\ op[p].ident = None
        /\ op[p].kind = "restore" => op[p].want # Absent
    BY <2>1, OpFacts DEF Locked
  <2>3. /\ o \in OpType /\ o.pc = "inode" /\ o.name = op[p].name /\ o.ident = None
        /\ o.want = op[p].want /\ o.kind = op[p].kind
    BY <2>2 DEF OpType, Locked
  <2>4. side' = [side EXCEPT ![op[p].name] = p] /\ side[op[p].name] = None /\ dir' = dir /\ data' = data /\ ilock' = ilock
    BY <1>1 DEF TakeSidecars
  <2>5. side'[op[p].name] = p
    BY <2>2, <2>4 DEF FileInv, FileTypeOK
  <2>6. Sound(p, o)
    BY <2>2, <2>3, <2>5 DEF Sound, Locked, Writing
  <2>7. OthersKept(p)
    BY <2>2, <2>4, DistinctMarks DEF OthersKept, FileInv, FileTypeOK
  <2> HIDE DEF o
  <2> QED BY <2>1, <2>6, <2>7, StepKeeps
<1>2. CASE LockInode(p)
  <2> DEFINE i == dir[op[p].name]
             lock == NeedsInodeLock(i)
             o == IF lock THEN [op[p] EXCEPT !.pc = "held", !.ident = i] ELSE [op[p] EXCEPT !.pc = "held"]
  <2>1. op[p].pc = "inode" /\ dir' = dir /\ data' = data /\ side' = side
    BY <1>2 DEF LockInode
  <2>2. /\ op[p] \in OpType /\ op[p].name \in Names /\ side[op[p].name] = p
        /\ op[p].ident # None => ilock[op[p].ident] = p /\ op[p].ident = dir[op[p].name]
        /\ op[p].kind = "restore" => op[p].want # Absent
    BY <2>1, OpFacts DEF Locked
  <2>3. lock => i \in Inodes
    BY <2>2 DEF NeedsInodeLock, FileInv, FileTypeOK
  <2>4. op' = [op EXCEPT ![p] = o]
    BY <1>2 DEF LockInode, FileInv, FileTypeOK
  <2>5. /\ o \in OpType /\ o.pc = "held" /\ o.name = op[p].name /\ o.ident = IF lock THEN i ELSE op[p].ident
        /\ o.want = op[p].want /\ o.kind = op[p].kind
    BY <2>2, <2>3 DEF OpType, Locked
  <2>6. ilock' = IF lock THEN [ilock EXCEPT ![i] = p] ELSE ilock
    BY <1>2 DEF LockInode
  <2>7. lock => ilock[i] = None
    BY <1>2 DEF LockInode
  <2>8. o.ident # None => ilock'[o.ident] = p /\ o.ident = dir[o.name]
    BY <2>2, <2>3, <2>5, <2>6 DEF FileInv, FileTypeOK
  <2>9. Sound(p, o)
    BY <2>1, <2>2, <2>5, <2>8 DEF Sound, Locked, Writing
  <2>10. OthersKept(p)
    BY <2>1, <2>3, <2>6, <2>7, DistinctMarks DEF OthersKept, FileInv, FileTypeOK
  <2> HIDE DEF o
  <2> QED BY <2>4, <2>9, <2>10, StepKeeps
<1>3. CASE SidecarsHeld(p) \/ InodeHeld(p) \/ Abandon(p)
  <2>1. Finish(p, "refused") /\ dir' = dir /\ data' = data
    BY <1>3 DEF SidecarsHeld, InodeHeld, Abandon
  <2>2. "refused" \in Results
    BY DEF Results
  <2> QED BY <2>1, <2>2, UnmovedKeeps
<1> QED BY <1>1, <1>2, <1>3

\* An operation past its locks that keeps them and moves to its next step.
LEMMA HeldKeeps ==
  ASSUME FileInv, NEW p \in Actors, op[p].pc \in {"held", "open", "replace"},
         NEW o \in OpType, op' = [op EXCEPT ![p] = o],
         o.pc \in {"open", "replace", "inplace"},
         o.name = op[p].name, o.ident = op[p].ident, o.kind = op[p].kind, o.want # Absent,
         o.pc \in Writing => o.fd = dir[o.name] /\ dir[o.name] # None /\ (Linked(o.fd) => o.ident = o.fd),
         dir' = dir, side' = side, ilock' = ilock,
         data' \in [Inodes -> Contents], \A i \in Inodes : data[i] # Absent => data'[i] # Absent
  PROVE  FileInv'
<1>1. op[p].pc \in Locked /\ o.pc \in Locked
  BY DEF Locked
<1>2. /\ op[p].name \in Names /\ side[op[p].name] = p
      /\ op[p].ident # None => ilock[op[p].ident] = p /\ op[p].ident = dir[op[p].name]
  BY <1>1, OpFacts
<1>3. dir[op[p].name] \in Inodes \cup {None}
  BY <1>2 DEF FileInv, FileTypeOK
<1>4. o.pc \in Writing => o.fd \in Inodes
  BY <1>3
<1>5. Sound(p, o)
  BY <1>1, <1>2, <1>4 DEF Sound
<1>6. \A n \in Names : dir[n] # None => dir[n] \in Inodes /\ data[dir[n]] # Absent
  BY DEF FileInv, FileTypeOK
<1>7. OthersKept(p)
  BY <1>6 DEF OthersKept, FileInv, FileTypeOK
<1> QED BY <1>5, <1>7, StepKeeps

LEMMA ReadKeeps ==
  ASSUME FileInv, NEW p \in Actors, NEW change, NEW rec \in Actors \cup {None},
         op[p].kind = "edit" => change \in Changes,
         ReadRoster(p, change, rec) \/ CheckRestore(p, rec)
  PROVE  FileInv'
<1> DEFINE cur == Content(op[p].name)
<1>0. op[p].pc = "held"
  BY DEF ReadRoster, CheckRestore
<1>1. /\ op[p] \in OpType /\ op[p].name \in Names
      /\ op[p].kind = "restore" => op[p].want # Absent
  BY <1>0, OpFacts DEF Locked
<1>2. cur \in Contents
  BY <1>1 DEF Content, Contents, FileInv, FileTypeOK
<1>4. CASE ReadRoster(p, change, rec)
  <2>0. With(cur, change) \in Contents /\ With(cur, change) # Absent
    BY <1>2, <1>4, BytesType DEF Contents, ReadRoster
  <2> DEFINE o == [op[p] EXCEPT !.pc = "open", !.before = cur, !.rec = rec, !.want = With(cur, change)]
  <2>1. op' = [op EXCEPT ![p] = o] /\ UNCHANGED <<dir, data, side, ilock>>
    BY <1>4 DEF ReadRoster, FileInv, FileTypeOK
  <2>2. o \in OpType /\ o.pc = "open" /\ o.name = op[p].name /\ o.ident = op[p].ident
        /\ o.kind = op[p].kind /\ o.want = With(cur, change)
    BY <1>1, <1>2, <2>0 DEF OpType, Locked
  <2> HIDE DEF o
  <2>3. o.want # Absent /\ o.pc \notin Writing
    BY <2>2, <2>0 DEF Writing
  <2>4. data \in [Inodes -> Contents]
    BY DEF FileInv, FileTypeOK
  <2> QED BY <1>0, <2>1, <2>2, <2>3, <2>4, HeldKeeps
<1>5. CASE CheckRestore(p, rec)
  <2>1. op[p].kind = "restore" /\ dir' = dir /\ data' = data
    BY <1>5 DEF CheckRestore
  <2>2. ASSUME NEW r \in Results, Finish(p, r) PROVE FileInv'
    BY <2>1, <2>2, UnmovedKeeps
  <2>3. CASE Finish(p, "ok")
    BY <2>2, <2>3 DEF Results
  <2>4. CASE Finish(p, IF cur = Absent THEN "failed" ELSE "changed")
    BY <2>2, <2>4 DEF Results
  <2>5. CASE op' = [op EXCEPT ![p].pc = "open", ![p].before = cur, ![p].rec = rec] /\ UNCHANGED <<side, ilock>>
    <3> DEFINE o == [op[p] EXCEPT !.pc = "open", !.before = cur, !.rec = rec]
    <3>1. op' = [op EXCEPT ![p] = o]
      BY <2>5 DEF FileInv, FileTypeOK
    <3>2. o \in OpType /\ o.pc = "open" /\ o.name = op[p].name /\ o.ident = op[p].ident
          /\ o.kind = op[p].kind /\ o.want = op[p].want
      BY <1>1, <1>2 DEF OpType, Locked
    <3> HIDE DEF o
    <3>3. o.want # Absent /\ o.pc \notin Writing
      BY <2>1, <3>2, <1>1 DEF Writing
    <3>4. data \in [Inodes -> Contents]
      BY DEF FileInv, FileTypeOK
    <3> QED BY <1>0, <2>1, <2>5, <3>1, <3>2, <3>3, <3>4, HeldKeeps
  <2> QED BY <1>5, <2>3, <2>4, <2>5 DEF CheckRestore
<1> QED BY <1>4, <1>5

LEMMA RemoveKeeps ==
  ASSUME FileInv, NEW p \in Actors, CheckRemove(p)
  PROVE  FileInv'
<1> DEFINE n == op[p].name
           d == [dir EXCEPT ![n] = None]
           cur == Content(n)
<1>1. op[p].pc = "held"
  BY DEF CheckRemove
<1>2. n \in Names /\ side[n] = p
  BY <1>1, OpFacts DEF Locked
<1>3. CASE Finish(p, IF cur = Absent THEN "failed" ELSE "changed") /\ UNCHANGED <<dir, data>>
  BY <1>3, UnmovedKeeps DEF Results
<1>4. CASE dir' = d /\ data' = Kept(d, data) /\ Finish(p, "ok")
  <2>1. dir' \in [Names -> Inodes \cup {None}] /\ \A m \in Names : dir'[m] # None => dir'[m] = dir[m] /\ m # n
    BY <1>2, <1>4 DEF FileInv, FileTypeOK
  <2>2. data' \in [Inodes -> Contents] /\ \A m \in Names : dir'[m] # None => data'[dir'[m]] = data[dir'[m]]
    BY <1>4, <2>1 DEF Kept, FileInv, FileTypeOK, Contents
  <2>3. \A q \in Actors : q # p /\ op[q].pc \in Locked => op[q].name # n /\ op[q].name \in Names
    BY <1>2, OpFacts
  <2>4. \A q \in Actors : op[q].pc \in Writing => op[q].fd # None
    BY DistinctMarks DEF FileInv, WritesOwned
  <2>5. FilesKept(p)
    <3>1. \A m \in Names : dir'[m] # None => data'[dir'[m]] # Absent
      BY <2>1, <2>2 DEF FileInv, FileTypeOK
    <3>2. \A q \in Actors : q # p /\ op[q].pc \in Locked => dir'[op[q].name] = dir[op[q].name]
      BY <1>2, <1>4, <2>3 DEF FileInv, FileTypeOK
    <3>3. \A q \in Actors : q # p /\ op[q].pc \in Writing =>
            \A k, m \in Names : k # m /\ dir'[k] = op[q].fd /\ dir'[m] = op[q].fd => Linked(op[q].fd)
      BY <2>1, <2>4 DEF Linked
    <3> QED BY <2>1, <2>2, <3>1, <3>2, <3>3 DEF FilesKept
  <2>6. "ok" \in Results
    BY DEF Results
  <2> QED BY <1>4, <2>5, <2>6, FinishKeeps
<1> QED BY <1>3, <1>4 DEF CheckRemove

LEMMA InstallKeeps ==
  ASSUME FileInv, NEW p \in Actors, Install(p)
  PROVE  FileInv'
<1> DEFINE n == op[p].name
<1>1. op[p].pc \in {"open", "replace"}
  BY DEF Install
<1>2. n \in Names /\ side[n] = p /\ op[p].want \in Contents /\ op[p].want # Absent
  BY <1>1, OpFacts DEF Locked, OpType
<1>3. PICK i \in Inodes : /\ FreeInode(i)
                          /\ dir' = [dir EXCEPT ![n] = i]
                          /\ data' = Kept([dir EXCEPT ![n] = i], [data EXCEPT ![i] = op[p].want])
  BY DEF Install
<1>4. dir' \in [Names -> Inodes \cup {None}] /\ dir'[n] = i /\ \A m \in Names : m # n => dir'[m] = dir[m]
  BY <1>2, <1>3 DEF FileInv, FileTypeOK
<1>5. /\ data' \in [Inodes -> Contents]
      /\ data'[i] = op[p].want
      /\ \A m \in Names : m # n /\ dir[m] # None => dir[m] # i /\ data'[dir[m]] = data[dir[m]]
  BY <1>2, <1>3, <1>4 DEF Kept, FreeInode, FileInv, FileTypeOK, Contents
<1>6. \A m \in Names : dir'[m] # None => data'[dir'[m]] # Absent
  BY <1>2, <1>4, <1>5 DEF FileInv, FileTypeOK
<1>7. \A q \in Actors : q # p /\ op[q].pc \in Locked => op[q].name # n /\ op[q].name \in Names
  BY <1>2, OpFacts
<1>8. \A q \in Actors : q # p /\ op[q].pc \in Locked => dir'[op[q].name] = dir[op[q].name]
  BY <1>4, <1>7
<1>9. \A q \in Actors : op[q].fd # i
  BY <1>3 DEF FreeInode
<1>10. \A q \in Actors : q # p /\ op[q].pc \in Writing =>
         \A k, m \in Names : k # m /\ dir'[k] = op[q].fd /\ dir'[m] = op[q].fd => Linked(op[q].fd)
  BY <1>4, <1>9 DEF Linked
<1>11. FilesKept(p)
  BY <1>4, <1>5, <1>6, <1>8, <1>10 DEF FilesKept
<1>12. Finish(p, "ok") /\ "ok" \in Results
  BY DEF Install, Results
<1> QED BY <1>11, <1>12, FinishKeeps

LEMMA OpenKeeps ==
  ASSUME FileInv, NEW p \in Actors,
         OpenRefused(p) \/ OpenFailed(p) \/ BeginInPlace(p) \/ BeginReplace(p) \/ RenameRefused(p)
  PROVE  FileInv'
<1> DEFINE i == dir[op[p].name]
<1>0. op[p].pc \in {"open", "replace"} /\ op \in [Actors -> OpType] /\ data \in [Inodes -> Contents]
  BY DEF OpenRefused, OpenFailed, BeginInPlace, BeginReplace, RenameRefused, FileInv, FileTypeOK
<1>1. /\ op[p] \in OpType /\ op[p].name \in Names /\ i \in Inodes \cup {None}
      /\ op[p].want \in Contents /\ op[p].want # Absent
      /\ op[p].ident # None => op[p].ident = i
  BY <1>0, OpFacts DEF Locked, OpType
<1>2. Tear(op[p].want) \in Contents /\ Tear(op[p].want) # Absent
  <2>1. [torn |-> TRUE, has |-> ChangesIn(op[p].want)] \in Bytes
    BY <1>1 DEF ChangesIn, Contents, Bytes
  <2> QED BY <2>1, DistinctMarks DEF Tear, Contents, Bytes
<1>3. CASE OpenRefused(p) \/ OpenFailed(p)
  <2>1. PICK r \in {"refused", "failed"} : Finish(p, r) /\ dir' = dir /\ data' = data
    BY <1>3 DEF OpenRefused, OpenFailed
  <2> QED BY <2>1, UnmovedKeeps DEF Results
<1>4. CASE BeginInPlace(p)
  <2> DEFINE o == [op[p] EXCEPT !.pc = "inplace", !.fd = i]
  <2>1. /\ op' = [op EXCEPT ![p] = o] /\ dir' = dir /\ side' = side /\ ilock' = ilock
        /\ data' = [data EXCEPT ![i] = Tear(op[p].want)] /\ i \in Inodes
    BY <1>0, <1>1, <1>4 DEF BeginInPlace
  <2>2. o \in OpType /\ o.pc = "inplace" /\ o.name = op[p].name /\ o.ident = op[p].ident
        /\ o.kind = op[p].kind /\ o.want = op[p].want /\ o.fd = i
    BY <1>1, <2>1 DEF OpType, Locked
  <2> HIDE DEF o
  <2>3. Linked(o.fd) => o.ident = o.fd
    BY <1>1, <1>4, <2>2 DEF BeginInPlace, GainedLink
  <2>4. data' \in [Inodes -> Contents] /\ \A j \in Inodes : data[j] # Absent => data'[j] # Absent
    BY <1>0, <1>2, <2>1
  <2>5. o.fd = dir[o.name] /\ dir[o.name] # None
    BY <2>1, <2>2, DistinctMarks
  <2> QED BY <1>0, <1>1, <2>1, <2>2, <2>3, <2>4, <2>5, HeldKeeps
<1>5. CASE BeginReplace(p)
  <2> DEFINE o == [op[p] EXCEPT !.pc = "replace", !.fd = i]
  <2>1. /\ op' = [op EXCEPT ![p] = o] /\ dir' = dir /\ side' = side /\ ilock' = ilock
        /\ data' = data /\ i \in Inodes /\ ~Linked(i)
    BY <1>0, <1>1, <1>5 DEF BeginReplace
  <2>2. o \in OpType /\ o.pc = "replace" /\ o.name = op[p].name /\ o.ident = op[p].ident
        /\ o.kind = op[p].kind /\ o.want = op[p].want /\ o.fd = i
    BY <1>1, <2>1 DEF OpType, Locked
  <2> HIDE DEF o
  <2>3. Linked(o.fd) => o.ident = o.fd
    BY <2>1, <2>2
  <2>5. o.fd = dir[o.name] /\ dir[o.name] # None
    BY <2>1, <2>2, DistinctMarks
  <2> QED BY <1>0, <1>1, <2>1, <2>2, <2>3, <2>5, HeldKeeps
<1>6. CASE RenameRefused(p)
  <2> DEFINE o == [op[p] EXCEPT !.pc = "inplace"]
  <2>1. /\ op' = [op EXCEPT ![p] = o] /\ dir' = dir /\ side' = side /\ ilock' = ilock
        /\ data' = [data EXCEPT ![op[p].fd] = Tear(op[p].want)] /\ op[p].pc = "replace"
    BY <1>0, <1>1, <1>6 DEF RenameRefused
  <2>2. op[p].fd \in Inodes /\ op[p].fd = i /\ (Linked(op[p].fd) => op[p].ident = op[p].fd)
    BY <2>1 DEF FileInv, WritesOwned, Writing
  <2>3. o \in OpType /\ o.pc = "inplace" /\ o.name = op[p].name /\ o.ident = op[p].ident
        /\ o.kind = op[p].kind /\ o.want = op[p].want /\ o.fd = op[p].fd
    BY <1>1 DEF OpType, Locked
  <2> HIDE DEF o
  <2>4. data' \in [Inodes -> Contents] /\ \A j \in Inodes : data[j] # Absent => data'[j] # Absent
    BY <1>0, <1>2, <2>1, <2>2
  <2>5. o.fd = dir[o.name] /\ dir[o.name] # None /\ (Linked(o.fd) => o.ident = o.fd)
    BY <2>2, <2>3, DistinctMarks
  <2> QED BY <1>0, <1>1, <2>1, <2>3, <2>4, <2>5, HeldKeeps
<1> QED BY <1>3, <1>4, <1>5, <1>6

LEMMA InPlaceKeeps ==
  ASSUME FileInv, NEW p \in Actors, EndInPlace(p) \/ FailInPlace(p)
  PROVE  FileInv'
<1>1. CASE FailInPlace(p)
  BY <1>1, UnmovedKeeps DEF FailInPlace, Results
<1>2. CASE EndInPlace(p)
  <2>1. /\ op[p].pc = "inplace" /\ dir' = dir /\ data' = [data EXCEPT ![op[p].fd] = op[p].want]
        /\ Finish(p, "ok") /\ "ok" \in Results
    BY <1>2 DEF EndInPlace, Results
  <2>2. op[p].want \in Contents /\ op[p].want # Absent
    BY <2>1, OpFacts DEF Locked, OpType
  <2>3. data' \in [Inodes -> Contents] /\ \A n \in Names : dir[n] # None => data'[dir[n]] # Absent
    BY <2>1, <2>2 DEF FileInv, FileTypeOK
  <2>4. FilesKept(p)
    BY <2>1, <2>3 DEF FilesKept, Linked, FileInv, FileTypeOK
  <2> QED BY <2>1, <2>4, FinishKeeps
<1> QED BY <1>1, <1>2

LEMMA LinkKeeps ==
  ASSUME FileInv, NEW m \in Names, NEW n \in Names, AddLink(m, n)
  PROVE  FileInv'
<1>1. /\ dir[m] # None /\ dir[n] = None /\ dir' = [dir EXCEPT ![n] = dir[m]]
      /\ data' = data /\ side' = side /\ ilock' = ilock /\ op' = op
  BY DEF AddLink
<1>2. dir \in [Names -> Inodes \cup {None}] /\ op \in [Actors -> OpType]
  BY DEF FileInv, FileTypeOK
<1>3. dir' \in [Names -> Inodes \cup {None}] /\ dir'[n] = dir[m] /\ \A k \in Names : k # n => dir'[k] = dir[k]
  BY <1>1, <1>2
<1>4. FileTypeOK'
  BY <1>1, <1>3 DEF FileInv, FileTypeOK
<1>5. SidecarsOwned'
  BY <1>1 DEF FileInv, SidecarsOwned
<1>6. \A p \in Actors : op[p].pc \in Locked => op[p].name \in Names
  BY DEF FileInv, FileTypeOK
<1>7. InodesOwned'
  BY <1>1, <1>3, <1>6 DEF FileInv, InodesOwned
<1>8. WritesOwned'
  <2> SUFFICES ASSUME NEW p \in Actors, op[p].pc \in Writing
               PROVE /\ op[p].fd \in Inodes
                     /\ op[p].fd = dir'[op[p].name]
                     /\ Linked(op[p].fd)' => op[p].ident = op[p].fd
    BY <1>1 DEF WritesOwned
  <2>1. /\ op[p].fd \in Inodes /\ op[p].fd = dir[op[p].name]
        /\ Linked(op[p].fd) => op[p].ident = op[p].fd
    BY DEF FileInv, WritesOwned
  <2>2. op[p].fd # dir[m] /\ op[p].fd # None /\ op[p].name \in Names
    BY <2>1, <1>6, DistinctMarks DEF AddLink, Writing, Locked
  <2>3. op[p].name # n
    BY <1>1, <2>1, <2>2
  <2>4. op[p].fd = dir'[op[p].name]
    BY <1>3, <2>1, <2>2, <2>3
  <2>5. (\E j, k \in Names : j # k /\ dir'[j] = op[p].fd /\ dir'[k] = op[p].fd) => Linked(op[p].fd)
    BY <1>3, <2>2 DEF Linked
  <2>6. Linked(op[p].fd)' => Linked(op[p].fd)
    BY <1>1, <2>5 DEF Linked
  <2> QED BY <2>1, <2>4, <2>6
<1> QED BY <1>4, <1>5, <1>7, <1>8 DEF FileInv

----------------------------------------------------------------------------
\* The applies: their records and journals stay well typed, which is what makes
\* a rollback's expected contents ones a roster can hold.
AppsOK == DOMAIN app = Sessions /\ \A s \in Sessions : AppTypeOK(s, app[s])
JournalsOK == journal \in [Sessions -> JournalType]
AckedOK == acked \subseteq Changes \X Names
LinksOK == links \subseteq [name : Names, during : SUBSET Sessions]

Active == {"lock"} \cup Locked

\* An apply edits a roster only inside a step of its scenario.
EditsInSteps ==
    \A s \in Sessions : op[s].pc \in Active /\ op[s].kind = "edit" => app[s].phase = "step"

IInv == FileInv /\ AppsOK /\ JournalsOK /\ AckedOK /\ LinksOK /\ EditsInSteps

\* An apply that changes nothing of the file system keeps the invariant of the files.
LEMMA FilesUnchanged ==
  ASSUME FileInv, UNCHANGED <<dir, data, side, ilock, op>>
  PROVE  FileInv'
BY DEF FileInv, FileTypeOK, SidecarsOwned, InodesOwned, WritesOwned, Linked

\* An operation that has ended is forgotten.
LEMMA ForgetKeeps ==
  ASSUME FileInv, NEW p \in Actors, op' = [op EXCEPT ![p] = NoOp], UNCHANGED <<dir, data, side, ilock>>
  PROVE  FileInv'
<1>1. op' = [q \in Actors |-> IF q \in {p} THEN NoOp ELSE op[q]]
  BY DEF FileInv, FileTypeOK
<1>2. side' \in [Names -> Actors \cup {None}] /\ ilock' \in [Inodes -> Actors \cup {None}]
  BY DEF FileInv, FileTypeOK
<1> QED BY <1>1, <1>2, DropKeeps

LEMMA SessionsAct == ASSUME NEW s \in Sessions PROVE s \in Actors
BY ActorsAreTheWriters

LEMMA AppSet ==
  ASSUME AppsOK, NEW s \in Sessions, NEW a, app' = [app EXCEPT ![s] = a], AppTypeOK(s, a)
  PROVE  AppsOK' /\ app'[s] = a /\ \A t \in Sessions : t # s => app'[t] = app[t]
<1>1. DOMAIN app' = Sessions /\ app'[s] = a /\ \A t \in Sessions : t # s => app'[t] = app[t]
  BY DEF AppsOK
<1>2. \A t \in Sessions : AppTypeOK(t, app'[t])
  BY <1>1 DEF AppsOK
<1>3. (\A t \in Sessions : AppTypeOK(t, app[t]))' <=> \A t \in Sessions : AppTypeOK(t, app'[t])
  BY DEF AppTypeOK, AppType, Files, Snapshots
<1> QED BY <1>1, <1>2, <1>3 DEF AppsOK

LEMMA EntriesType ==
  ASSUME FileInv, NEW s \in Sessions
  PROVE  Entries(s) \in Snapshots(s) /\ Vault[s] \in SUBSET Names
<1>1. Vault[s] \in SUBSET Names
  BY ActorsAreTheWriters
<1>2. \A n \in Names : Content(n) \in Contents
  BY DEF Content, Contents, FileInv, FileTypeOK
<1> QED BY <1>1, <1>2 DEF Entries, Snapshots

LEMMA KeysType ==
  ASSUME FileInv, NEW n \in Names
  PROVE  FileKey(n) \in Keys
BY DEF FileKey, Keys, FileInv, FileTypeOK

LEMMA NewAppType ==
  ASSUME NEW s \in Sessions, NEW phase \in Ended \cup {"idle"}
  PROVE  AppTypeOK(s, [NewApp EXCEPT !.phase = phase]) /\ [NewApp EXCEPT !.phase = phase].phase = phase
<1>1. Steps[s] \in Nat
  BY ActorsAreTheWriters
<1>2. phase \in Phases /\ phase \notin {"step", "rolling", "undoing"}
  BY DEF Phases, Ended
<1> QED BY <1>1, <1>2 DEF AppTypeOK, AppType, NewApp, Files

LEMMA NewJournalType == NewJournal \in JournalType
<1>1. <<>> \in Seq(Writes)
  OBVIOUS
<1> QED BY <1>1 DEF NewJournal, JournalType

LEMMA EndKeeps ==
  ASSUME AppsOK, JournalsOK, NEW s \in Sessions, NEW phase \in Ended, End(s, phase)
  PROVE  AppsOK' /\ JournalsOK' /\ app'[s].phase = phase /\ \A t \in Sessions : t # s => app'[t] = app[t]
<1> DEFINE a == [NewApp EXCEPT !.phase = phase]
<1>1. AppTypeOK(s, a) /\ a.phase = phase
  BY NewAppType
<1>2. app' = [app EXCEPT ![s] = a] /\ journal' = [journal EXCEPT ![s] = NewJournal]
  BY DEF End
<1> HIDE DEF a
<1>3. JournalsOK'
  BY <1>2, NewJournalType DEF JournalsOK
<1> QED BY <1>1, <1>2, <1>3, AppSet

\* A step of an apply that changes no file: its own record moves on, and its
\* operation is untouched, forgotten or begun.
LEMMA SessionKeeps ==
  ASSUME IInv, NEW s \in Sessions, FileInv', AppsOK', JournalsOK', AckedOK', links' = links,
         \A t \in Sessions : t # s => app'[t] = app[t] /\ op'[t] = op[t],
         \/ op'[s] = op[s] /\ app[s].phase # "step"
         \/ op'[s].pc \notin Active
         \/ op'[s].kind # "edit"
         \/ app'[s].phase = "step"
  PROVE  IInv'
<1>1. EditsInSteps'
  <2> SUFFICES ASSUME NEW t \in Sessions, op'[t].pc \in Active, op'[t].kind = "edit"
               PROVE app'[t].phase = "step"
    BY DEF EditsInSteps
  <2>1. CASE t # s
    BY <2>1 DEF IInv, EditsInSteps
  <2>2. CASE t = s
    BY <2>2 DEF IInv, EditsInSteps
  <2> QED BY <2>1, <2>2
<1> QED BY <1>1 DEF IInv, LinksOK

\* The parts of an apply's record.
LEMMA AppFacts ==
  ASSUME IInv, NEW s \in Sessions
  PROVE  /\ AppTypeOK(s, app[s])
         /\ s \in Actors
         /\ Vault[s] \in SUBSET Names
         /\ Entries(s) \in Snapshots(s)
         /\ Steps[s] \in Nat
         /\ op \in [Actors -> OpType]
BY EntriesType, ActorsAreTheWriters DEF IInv, AppsOK, FileInv, FileTypeOK

LEMMA SnapshotStep ==
  ASSUME IInv, NEW s \in Sessions, Snapshot(s)
  PROVE  IInv'
<1> DEFINE a == [app[s] EXCEPT !.phase = "snapped", !.snap = Entries(s)]
<1>1. /\ app[s].phase = "idle" /\ UNCHANGED <<dir, data, side, ilock, op, journal, acked, links>>
      /\ app' = [app EXCEPT ![s] = a]
  BY DEF Snapshot, IInv, AppsOK
<1>2. AppTypeOK(s, a)
  <2>1. app[s] \in AppType(s) /\ (app[s].phase \notin Ended \cup {"idle"} => app[s].snap \in Snapshots(s))
    BY AppFacts DEF AppTypeOK
  <2>2. a \in AppType(s)
    BY AppFacts, <2>1 DEF AppType, Phases
  <2> QED BY AppFacts, <1>1, <2>1, <2>2 DEF AppTypeOK, AppType, Ended
<1> HIDE DEF a
<1>3. AppsOK' /\ \A t \in Sessions : t # s => app'[t] = app[t]
  BY <1>1, <1>2, AppSet DEF IInv
<1>4. FileInv' /\ JournalsOK' /\ AckedOK'
  BY <1>1, FilesUnchanged DEF IInv, JournalsOK, AckedOK
<1> QED BY <1>1, <1>3, <1>4, SessionKeeps

LEMMA OpenJournalStep ==
  ASSUME IInv, NEW s \in Sessions, OpenJournal(s)
  PROVE  IInv'
<1> DEFINE a == [app[s] EXCEPT !.phase = "ready"]
           keys == {FileKey(n) : n \in {m \in Vault[s] : app[s].snap[m] # Absent}}
           behind == {t \in Sessions : journal[t].state # "closed"}
           j == [NewJournal EXCEPT !.state = "open", !.keys = keys, !.behind = behind]
<1>1. /\ app[s].phase = "snapped" /\ UNCHANGED <<dir, data, side, ilock, op, acked, links>>
      /\ app' = [app EXCEPT ![s] = a]
      /\ journal' = [journal EXCEPT ![s] = j]
  BY DEF OpenJournal, WatchedKeys, IInv, AppsOK
<1>2. AppTypeOK(s, a)
  <2>1. app[s] \in AppType(s) /\ (app[s].phase \notin Ended \cup {"idle"} => app[s].snap \in Snapshots(s))
    BY AppFacts DEF AppTypeOK
  <2>2. a \in AppType(s)
    BY AppFacts, <2>1 DEF AppType, Phases
  <2> QED BY AppFacts, <1>1, <2>1, <2>2 DEF AppTypeOK, AppType, Ended
<1>3. j \in JournalType
  <2>1. keys \in SUBSET Keys
    BY AppFacts, KeysType DEF IInv
  <2>2. behind \in SUBSET Sessions
    OBVIOUS
  <2> QED BY <2>1, <2>2, NewJournalType DEF JournalType
<1> HIDE DEF a, j
<1>4. AppsOK' /\ \A t \in Sessions : t # s => app'[t] = app[t]
  BY <1>1, <1>2, AppSet DEF IInv
<1>5. FileInv' /\ JournalsOK' /\ AckedOK'
  BY <1>1, <1>3, FilesUnchanged DEF IInv, JournalsOK, AckedOK
<1> QED BY <1>1, <1>4, <1>5, SessionKeeps

LEMMA EndSteps ==
  ASSUME IInv, NEW s \in Sessions, JournalBusy(s) \/ Commit(s) \/ EndRollback(s)
  PROVE  IInv'
<1>1. PICK phase \in Ended : End(s, phase)
  BY DEF JournalBusy, Commit, EndRollback, Ended
<1>2. AppsOK' /\ JournalsOK' /\ \A t \in Sessions : t # s => app'[t] = app[t]
  BY <1>1, EndKeeps DEF IInv
<1>3. /\ app[s].phase \in {"snapped", "ready", "rolling"}
      /\ UNCHANGED <<dir, data, side, ilock, op, links>>
      /\ acked' \in {acked, acked \cup app[s].wrote}
  BY DEF JournalBusy, Commit, EndRollback
<1>4. app[s].wrote \in SUBSET (Changes \X Names)
  BY AppFacts DEF AppTypeOK, AppType
<1>5. AckedOK'
  BY <1>3, <1>4 DEF IInv, AckedOK
<1>6. FileInv'
  BY <1>3, FilesUnchanged DEF IInv
<1> QED BY <1>2, <1>3, <1>5, <1>6, SessionKeeps

LEMMA BeginStepStep ==
  ASSUME IInv, NEW s \in Sessions, BeginStep(s)
  PROVE  IInv'
<1> DEFINE a == [app[s] EXCEPT !.phase = "step", !.last = Entries(s)]
<1>1. /\ app[s].phase = "ready" /\ app[s].step < Steps[s]
      /\ UNCHANGED <<dir, data, side, ilock, journal, acked, links>>
      /\ app' = [app EXCEPT ![s] = a]
  BY DEF BeginStep, IInv, AppsOK
<1>2. AppTypeOK(s, a) /\ a.phase = "step"
  <2>1. app[s] \in AppType(s) /\ (app[s].phase \notin Ended \cup {"idle"} => app[s].snap \in Snapshots(s))
    BY AppFacts DEF AppTypeOK
  <2>2. a \in AppType(s)
    BY AppFacts, <2>1 DEF AppType, Phases
  <2> QED BY AppFacts, <1>1, <2>1, <2>2 DEF AppTypeOK, AppType, Ended
<1> HIDE DEF a
<1>3. AppsOK' /\ app'[s].phase = "step" /\ \A t \in Sessions : t # s => app'[t] = app[t]
  BY <1>1, <1>2, AppSet DEF IInv
<1>4. JournalsOK' /\ AckedOK'
  BY <1>1 DEF IInv, JournalsOK, AckedOK
<1>5. FileInv' /\ \A t \in Sessions : t # s => op'[t] = op[t]
  <2>1. CASE UNCHANGED op
    BY <1>1, <2>1, FilesUnchanged DEF IInv
  <2>2. CASE \E n \in Vault[s] : Start(s, "edit", n, Absent, Absent)
    <3>1. PICK n \in Vault[s] : Start(s, "edit", n, Absent, Absent)
      BY <2>2
    <3>2. n \in Names /\ s \in Actors /\ Absent \in Contents /\ op \in [Actors -> OpType]
      BY AppFacts DEF Contents
    <3>3. FileInv'
      BY <1>1, <3>1, <3>2, StartKeeps DEF IInv
    <3> QED BY <3>1, <3>2, <3>3, SessionsAct DEF Start
  <2> QED BY <2>1, <2>2 DEF BeginStep
<1> QED BY <1>1, <1>3, <1>4, <1>5, SessionKeeps

LEMMA EndOfStep ==
  ASSUME IInv, NEW s \in Sessions, EndStep(s) \/ FailStep(s)
  PROVE  IInv'
<1>0. Touched(s) \in SUBSET Vault[s]
  BY AppFacts DEF AppTypeOK, AppType, Touched
<1>1. /\ app[s].phase = "step" /\ op' = [op EXCEPT ![s] = NoOp]
      /\ UNCHANGED <<dir, data, side, ilock, journal, acked, links>>
  BY DEF EndStep, FailStep
<1>2. \E a : app' = [app EXCEPT ![s] = a] /\ AppTypeOK(s, a)
  <2>1. CASE EndStep(s)
    <3> DEFINE a == [app[s] EXCEPT !.phase = "ready", !.touched = Touched(s), !.step = @ + 1, !.last = <<>>]
    <3>1. app' = [app EXCEPT ![s] = a]
      BY <2>1 DEF EndStep, IInv, AppsOK
    <3>2. AppTypeOK(s, a)
      <4>1. /\ app[s] \in AppType(s) /\ app[s].step < Steps[s] /\ Steps[s] \in Nat
            /\ app[s].snap \in Snapshots(s)
        BY <1>1, AppFacts DEF AppTypeOK, Ended
      <4> DEFINE k == app[s].step + 1
      <4>3. k \in 0 .. Steps[s]
        BY <4>1 DEF AppType
      <4> HIDE DEF k
      <4>4. [app[s] EXCEPT !.phase = "ready", !.touched = Touched(s), !.step = k, !.last = <<>>] \in AppType(s)
        BY <4>1, <4>3, <1>0 DEF AppType, Phases
      <4>2. a \in AppType(s)
        BY <4>4 DEF k
      <4> QED BY <4>1, <4>2 DEF AppTypeOK, AppType
    <3> QED BY <3>1, <3>2
  <2>2. CASE FailStep(s)
    <3> DEFINE a == [app[s] EXCEPT !.phase = "failed", !.touched = Touched(s), !.last = <<>>]
    <3>1. app' = [app EXCEPT ![s] = a]
      BY <2>2 DEF FailStep, IInv, AppsOK
    <3>2. AppTypeOK(s, a)
      <4>1. /\ app[s] \in AppType(s) /\ app[s].step < Steps[s] /\ Steps[s] \in Nat
            /\ app[s].snap \in Snapshots(s)
        BY <1>1, AppFacts DEF AppTypeOK, Ended
      <4>2. a \in AppType(s)
        BY <4>1, <1>0 DEF AppType, Phases
      <4> QED BY <4>1, <4>2 DEF AppTypeOK, AppType
    <3> QED BY <3>1, <3>2
  <2> QED BY <2>1, <2>2
<1>3. AppsOK' /\ \A t \in Sessions : t # s => app'[t] = app[t]
  BY <1>2, AppSet DEF IInv
<1>4. JournalsOK' /\ AckedOK'
  BY <1>1 DEF IInv, JournalsOK, AckedOK
<1>5. FileInv'
  BY <1>1, AppFacts, ForgetKeeps DEF IInv
<1>6. op'[s].pc \notin Active /\ \A t \in Sessions : t # s => op'[t] = op[t]
  BY <1>1, AppFacts, SessionsAct DEF NoOp, Active, Locked
<1> QED BY <1>1, <1>3, <1>4, <1>5, <1>6, SessionKeeps

LEMMA BeginRollbackStep ==
  ASSUME IInv, NEW s \in Sessions, BeginRollback(s)
  PROVE  IInv'
<1> DEFINE known == {n \in Vault[s] : Content(n) # Absent \/ app[s].snap[n] # Absent}
           files == {[key |-> FileKey(n), rels |-> {m \in known : FileKey(m) = FileKey(n)}] : n \in known}
           a == [app[s] EXCEPT !.phase = "rolling", !.now = Entries(s), !.files = files]
           j == [journal[s] EXCEPT !.state = "stopped"]
<1>1. /\ app[s].phase \in {"failed", "ready"} /\ UNCHANGED <<dir, data, side, ilock, op, acked, links>>
      /\ app' = [app EXCEPT ![s] = a]
      /\ journal' = [journal EXCEPT ![s] = j]
  BY DEF BeginRollback, IInv, AppsOK, JournalsOK
<1>2. files \in SUBSET Files(s)
  <2>1. \A n \in known : n \in Names
    BY AppFacts
  <2>2. \A n \in known : FileKey(n) \in Keys
    BY <2>1, KeysType DEF IInv
  <2> QED BY <2>2 DEF Files
<1> HIDE DEF files
<1>3. AppTypeOK(s, a)
  <2>1. app[s] \in AppType(s) /\ app[s].snap \in Snapshots(s)
    BY AppFacts, <1>1 DEF AppTypeOK, Ended
  <2>2. a \in AppType(s)
    BY AppFacts, <1>2, <2>1 DEF AppType, Phases
  <2> QED BY AppFacts, <2>1, <2>2 DEF AppTypeOK, AppType
<1>4. j \in JournalType
  <2>1. journal[s] \in JournalType
    BY DEF IInv, JournalsOK
  <2> QED BY <2>1 DEF JournalType
<1> HIDE DEF a, j
<1>5. AppsOK' /\ \A t \in Sessions : t # s => app'[t] = app[t]
  BY <1>1, <1>3, AppSet DEF IInv
<1>6. FileInv' /\ JournalsOK' /\ AckedOK'
  BY <1>1, <1>4, FilesUnchanged DEF IInv, JournalsOK, AckedOK
<1> QED BY <1>1, <1>5, <1>6, SessionKeeps

LEMMA LeaveAloneStep ==
  ASSUME IInv, NEW s \in Sessions, LeaveAlone(s)
  PROVE  IInv'
<1>1. app[s].phase = "rolling" /\ UNCHANGED <<dir, data, side, ilock, op, journal, acked, links>>
  BY DEF LeaveAlone
<1>2. PICK f \in app[s].files :
        app' = [app EXCEPT ![s].files = @ \ {f},
                  ![s].kept = IF Verdict(s, f) = "keep" THEN @ \cup f.rels ELSE @,
                  ![s].left = IF Verdict(s, f) = "leave" THEN @ \cup f.rels ELSE @]
  BY DEF LeaveAlone
<1> DEFINE kept == IF Verdict(s, f) = "keep" THEN app[s].kept \cup f.rels ELSE app[s].kept
           left == IF Verdict(s, f) = "leave" THEN app[s].left \cup f.rels ELSE app[s].left
           a == [app[s] EXCEPT !.files = @ \ {f}, !.kept = kept, !.left = left]
<1>3. app' = [app EXCEPT ![s] = a]
  BY <1>2 DEF IInv, AppsOK
<1>4. app[s] \in AppType(s) /\ app[s].snap \in Snapshots(s) /\ app[s].now \in Snapshots(s)
  BY AppFacts, <1>1 DEF AppTypeOK, Ended
<1>5. f.rels \in SUBSET Vault[s]
  BY <1>4 DEF AppType, Files
<1>6. kept \in SUBSET Vault[s] /\ left \in SUBSET Vault[s]
  BY <1>4, <1>5 DEF AppType
<1> HIDE DEF kept, left
<1>7. AppTypeOK(s, a)
  <2>1. a \in AppType(s)
    BY <1>4, <1>6 DEF AppType
  <2> QED BY <1>1, <1>4, <2>1 DEF AppTypeOK, AppType
<1> HIDE DEF a
<1>8. AppsOK' /\ \A t \in Sessions : t # s => app'[t] = app[t]
  BY <1>3, <1>7, AppSet DEF IInv
<1>9. FileInv' /\ JournalsOK' /\ AckedOK'
  BY <1>1, FilesUnchanged DEF IInv, JournalsOK, AckedOK
<1> QED BY <1>1, <1>8, <1>9, SessionKeeps

\* A rollback restores bytes, and removes what the apply created.
LEMMA UndoStep ==
  ASSUME IInv, NEW s \in Sessions, Undo(s)
  PROVE  IInv'
<1>1. app[s].phase = "rolling" /\ UNCHANGED <<dir, data, side, ilock, journal, acked, links>>
  BY DEF Undo
<1>2. PICK f \in app[s].files : \E n \in f.rels :
        LET ws == journal[s].writes[f.key] IN
        /\ Verdict(s, f) \in {"restore", "remove"}
        /\ app' = [app EXCEPT ![s].phase = "undoing", ![s].files = @ \ {f}, ![s].file = {f}]
        /\ Start(s, Verdict(s, f), n, ws[1].before, ws[Len(ws)].after)
  BY DEF Undo
<1> DEFINE ws == journal[s].writes[f.key]
           a == [app[s] EXCEPT !.phase = "undoing", !.files = @ \ {f}, !.file = {f}]
<1>3. PICK n \in f.rels : Start(s, Verdict(s, f), n, ws[1].before, ws[Len(ws)].after)
  BY <1>2
<1>4. app' = [app EXCEPT ![s] = a] /\ Verdict(s, f) \in {"restore", "remove"}
  BY <1>2 DEF IInv, AppsOK
<1>5. app[s] \in AppType(s) /\ app[s].snap \in Snapshots(s) /\ app[s].now \in Snapshots(s)
  BY AppFacts, <1>1 DEF AppTypeOK, Ended
<1>6. f \in Files(s) /\ f.key \in Keys /\ n \in Names
  BY <1>5, AppFacts DEF AppType, Files
<1>7. AppTypeOK(s, a)
  <2>1. a \in AppType(s)
    BY <1>5, <1>6 DEF AppType, Phases
  <2> QED BY <1>1, <1>5, <2>1 DEF AppTypeOK, AppType
<1> HIDE DEF a
<1>8. AppsOK' /\ \A t \in Sessions : t # s => app'[t] = app[t]
  BY <1>4, <1>7, AppSet DEF IInv
<1>9. ws \in Seq(Writes)
  BY <1>6 DEF IInv, JournalsOK, JournalType
<1>10. ws # <<>> /\ (Verdict(s, f) = "restore" => ws[1].before # Absent)
  BY <1>4 DEF Verdict
<1>11. ws[1] \in Writes /\ ws[Len(ws)] \in Writes
  BY <1>9, <1>10
<1>12. ws[1].before \in Contents /\ ws[Len(ws)].after \in Contents
  BY <1>11 DEF Writes, Contents
<1>13. s \in Actors /\ op \in [Actors -> OpType]
  BY AppFacts
<1> DEFINE want == ws[1].before
           expect == ws[Len(ws)].after
           kind == Verdict(s, f)
<1>14. /\ want \in Contents /\ expect \in Contents /\ kind \in {"edit", "restore", "remove"} /\ kind # "edit"
       /\ kind = "restore" => want # Absent
       /\ Start(s, kind, n, want, expect)
  BY <1>3, <1>4, <1>10, <1>12
<1> HIDE DEF want, expect, kind, ws
<1>15. FileInv'
  BY <1>1, <1>6, <1>13, <1>14, StartKeeps DEF IInv
<1>16. op'[s].kind # "edit" /\ \A t \in Sessions : t # s => op'[t] = op[t]
  BY <1>13, <1>14, SessionsAct DEF Start, NoOp
<1>17. JournalsOK' /\ AckedOK'
  BY <1>1 DEF IInv, JournalsOK, AckedOK
<1> QED BY <1>1, <1>8, <1>15, <1>16, <1>17, SessionKeeps

LEMMA UndoneStep ==
  ASSUME IInv, NEW s \in Sessions, Undone(s)
  PROVE  IInv'
<1>1. /\ app[s].phase = "undoing" /\ op' = [op EXCEPT ![s] = NoOp]
      /\ UNCHANGED <<dir, data, side, ilock, journal, acked, links>>
  BY DEF Undone
<1>2. PICK f \in app[s].file :
        app' = [app EXCEPT ![s].phase = "rolling", ![s].file = {},
                  ![s].left = IF op[s].pc # "ok" THEN @ \cup f.rels ELSE @,
                  ![s].kept = IF op[s].pc = "ok" /\ FoundChanged(s, f) THEN @ \cup f.rels ELSE @]
  BY DEF Undone
<1> DEFINE left == IF op[s].pc # "ok" THEN app[s].left \cup f.rels ELSE app[s].left
           kept == IF op[s].pc = "ok" /\ FoundChanged(s, f) THEN app[s].kept \cup f.rels ELSE app[s].kept
           a == [app[s] EXCEPT !.phase = "rolling", !.file = {}, !.left = left, !.kept = kept]
<1>3. app' = [app EXCEPT ![s] = a]
  BY <1>2 DEF IInv, AppsOK
<1>4. app[s] \in AppType(s) /\ app[s].snap \in Snapshots(s) /\ app[s].now \in Snapshots(s)
  BY AppFacts, <1>1 DEF AppTypeOK, Ended
<1>5. f.rels \in SUBSET Vault[s]
  BY <1>4 DEF AppType, Files
<1>6. kept \in SUBSET Vault[s] /\ left \in SUBSET Vault[s]
  BY <1>4, <1>5 DEF AppType
<1> HIDE DEF kept, left
<1>7. AppTypeOK(s, a)
  <2>1. a \in AppType(s)
    BY <1>4, <1>6 DEF AppType, Phases
  <2> QED BY <1>1, <1>4, <2>1 DEF AppTypeOK, AppType
<1> HIDE DEF a
<1>8. AppsOK' /\ \A t \in Sessions : t # s => app'[t] = app[t]
  BY <1>3, <1>7, AppSet DEF IInv
<1>9. JournalsOK' /\ AckedOK'
  BY <1>1 DEF IInv, JournalsOK, AckedOK
<1>10. FileInv'
  BY <1>1, AppFacts, ForgetKeeps DEF IInv
<1>11. op'[s].pc \notin Active /\ \A t \in Sessions : t # s => op'[t] = op[t]
  BY <1>1, AppFacts, SessionsAct DEF NoOp, Active, Locked
<1> QED BY <1>1, <1>8, <1>9, <1>10, <1>11, SessionKeeps

LEMMA UndoFailedStep ==
  ASSUME IInv, NEW s \in Sessions, UndoFailed(s)
  PROVE  IInv'
<1>1. op' = [op EXCEPT ![s] = NoOp] /\ End(s, "error") /\ UNCHANGED <<dir, data, side, ilock, acked, links>>
  BY DEF UndoFailed
<1>2. AppsOK' /\ JournalsOK' /\ \A t \in Sessions : t # s => app'[t] = app[t]
  BY <1>1, EndKeeps DEF IInv, Ended
<1>3. FileInv' /\ AckedOK'
  BY <1>1, AppFacts, ForgetKeeps DEF IInv, AckedOK
<1>4. op'[s].pc \notin Active /\ \A t \in Sessions : t # s => op'[t] = op[t]
  BY <1>1, AppFacts, SessionsAct DEF NoOp, Active, Locked
<1> QED BY <1>1, <1>2, <1>3, <1>4, SessionKeeps

----------------------------------------------------------------------------
\* The steps of a roster operation.

\* The change an edit makes is one of the writer's.
LEMMA ChangeType ==
  ASSUME IInv, NEW p \in Actors, op[p].pc \in Active, op[p].kind = "edit"
  PROVE  ChangeOf(p) \in Changes
<1>1. CASE p \in Sessions
  <2>1. app[p].step \in 0 .. Steps[p] /\ app[p].step < Steps[p] /\ Steps[p] \in Nat
    BY <1>1, AppFacts DEF IInv, EditsInSteps, AppTypeOK, AppType
  <2>2. app[p].step + 1 \in 1 .. Steps[p]
    BY <2>1
  <2>3. <<p, app[p].step + 1>> \in Changes
    BY <1>1, <2>2, ActorsAreTheWriters
  <2> QED BY <1>1, <2>3 DEF ChangeOf
<1>2. CASE p \notin Sessions
  BY <1>2, ActorsAreTheWriters DEF ChangeOf
<1> QED BY <1>1, <1>2

\* p's operation ends, or goes on as the operation it was.
Moved(p) == \E o : /\ op' = [op EXCEPT ![p] = o]
                   /\ o.pc \in Results \/ (o.kind = op[p].kind /\ op[p].pc \in Active)

LEMMA FinishMoves ==
  ASSUME NEW p \in Actors, NEW r \in Results, Finish(p, r)
  PROVE  Moved(p)
<1> DEFINE o == [NoOp EXCEPT !.pc = r]
<1>1. op' = [op EXCEPT ![p] = o] /\ o.pc \in Results
  BY DEF Finish, NoOp
<1> QED BY <1>1 DEF Moved

LEMMA MovedKeeps ==
  ASSUME IInv, NEW p \in Actors, Moved(p), FileInv',
         DOMAIN app' = Sessions, \A s \in Sessions : app'[s].phase = app[s].phase
  PROVE  EditsInSteps'
<1>1. PICK o : /\ op' = [op EXCEPT ![p] = o]
               /\ o.pc \in Results \/ (o.kind = op[p].kind /\ op[p].pc \in Active)
  BY DEF Moved
<1>2. op \in [Actors -> OpType]
  BY DEF IInv, FileInv, FileTypeOK
<1>3. \A r \in Results : r \notin Active
  BY DEF Results, Active, Locked
<1> SUFFICES ASSUME NEW s \in Sessions, op'[s].pc \in Active, op'[s].kind = "edit"
             PROVE app'[s].phase = "step"
  BY DEF EditsInSteps
<1>4. s \in Actors
  BY SessionsAct
<1>5. op[s].pc \in Active /\ op[s].kind = "edit"
  BY <1>1, <1>2, <1>3, <1>4
<1> QED BY <1>5 DEF IInv, EditsInSteps

LEMMA LockStepStep ==
  ASSUME IInv, NEW p \in Actors, LockStep(p)
  PROVE  IInv'
<1>0. FileInv /\ op \in [Actors -> OpType]
  BY DEF IInv, FileInv, FileTypeOK
<1>1. FileInv' /\ Moved(p)
  <2>1. CASE TakeSidecars(p) \/ LockInode(p)
    <3>1. FileInv'
      BY <1>0, <2>1, LockingKeeps
    <3>2. op[p].pc \in Active
      BY <2>1 DEF TakeSidecars, LockInode, Active, Locked
    <3>3. op'[p].kind = op[p].kind /\ op' = [op EXCEPT ![p] = op'[p]]
      BY <1>0, <2>1 DEF TakeSidecars, LockInode, OpType
    <3> QED BY <3>1, <3>2, <3>3 DEF Moved
  <2>2. CASE SidecarsHeld(p) \/ InodeHeld(p) \/ Abandon(p)
    <3>1. FileInv'
      BY <1>0, <2>2, LockingKeeps
    <3>2. Finish(p, "refused") /\ "refused" \in Results
      BY <2>2 DEF SidecarsHeld, InodeHeld, Abandon, Results
    <3> QED BY <3>1, <3>2, FinishMoves
  <2>3. CASE \E t \in Sessions \cup {None} :
               Recorder(p, t) /\ (ReadRoster(p, ChangeOf(p), t) \/ CheckRestore(p, t))
    <3>1. PICK t \in Sessions \cup {None} : ReadRoster(p, ChangeOf(p), t) \/ CheckRestore(p, t)
      BY <2>3
    <3>2. t \in Actors \cup {None}
      BY SessionsAct
    <3>3. op[p].pc \in Active
      BY <3>1 DEF ReadRoster, CheckRestore, Active, Locked
    <3>4. op[p].kind = "edit" => ChangeOf(p) \in Changes
      BY <3>3, ChangeType
    <3>5. FileInv'
      BY <1>0, <3>1, <3>2, <3>4, ReadKeeps
    <3>6. Moved(p)
      <4>1. CASE Finish(p, "ok") \/ Finish(p, "failed") \/ Finish(p, "changed")
        BY <4>1, FinishMoves DEF Results
      <4>2. CASE ReadRoster(p, ChangeOf(p), t)
        <5>1. op'[p].kind = op[p].kind /\ op' = [op EXCEPT ![p] = op'[p]]
          BY <1>0, <4>2 DEF ReadRoster, OpType
        <5> QED BY <3>3, <5>1 DEF Moved
      <4>3. CASE op' = [op EXCEPT ![p].pc = "open", ![p].before = Content(op[p].name), ![p].rec = t]
        <5>1. op'[p].kind = op[p].kind /\ op' = [op EXCEPT ![p] = op'[p]]
          BY <1>0, <4>3 DEF OpType
        <5> QED BY <3>3, <5>1 DEF Moved
      <4> QED BY <3>1, <4>1, <4>2, <4>3 DEF CheckRestore
    <3> QED BY <3>5, <3>6
  <2>4. CASE CheckRemove(p)
    <3>1. FileInv'
      BY <1>0, <2>4, RemoveKeeps
    <3>2. Finish(p, "ok") \/ Finish(p, "failed") \/ Finish(p, "changed")
      BY <2>4 DEF CheckRemove
    <3> QED BY <3>1, <3>2, FinishMoves DEF Results
  <2> QED BY <2>1, <2>2, <2>3, <2>4 DEF LockStep
<1>2. UNCHANGED <<app, journal, acked, links>>
  BY DEF LockStep
<1>3. AppsOK' /\ JournalsOK' /\ AckedOK' /\ LinksOK'
  BY <1>2 DEF IInv, AppsOK, JournalsOK, AckedOK, LinksOK, AppTypeOK, AppType
<1>4. EditsInSteps'
  BY <1>1, <1>2, MovedKeeps DEF IInv, AppsOK
<1> QED BY <1>1, <1>3, <1>4 DEF IInv

LEMMA WriteStepStep ==
  ASSUME IInv, NEW p \in Actors, WriteStep(p)
  PROVE  IInv'
<1>0. FileInv /\ op \in [Actors -> OpType]
  BY DEF IInv, FileInv, FileTypeOK
<1>1. FileInv'
  BY <1>0, OpenKeeps DEF WriteStep
<1>2. Moved(p)
  <2>1. CASE OpenRefused(p) \/ OpenFailed(p)
    BY <2>1, FinishMoves DEF OpenRefused, OpenFailed, Results
  <2>2. CASE BeginInPlace(p) \/ BeginReplace(p) \/ RenameRefused(p)
    <3>1. op[p].pc \in Active
      BY <2>2 DEF BeginInPlace, BeginReplace, RenameRefused, Active, Locked
    <3>2. op'[p].kind = op[p].kind /\ op' = [op EXCEPT ![p] = op'[p]]
      BY <1>0, <2>2 DEF BeginInPlace, BeginReplace, RenameRefused, OpType
    <3> QED BY <3>1, <3>2 DEF Moved
  <2> QED BY <2>1, <2>2 DEF WriteStep
<1>3. UNCHANGED <<app, journal, acked, links>>
  BY DEF WriteStep
<1>4. AppsOK' /\ JournalsOK' /\ AckedOK' /\ LinksOK'
  BY <1>3 DEF IInv, AppsOK, JournalsOK, AckedOK, LinksOK, AppTypeOK, AppType
<1>5. EditsInSteps'
  BY <1>1, <1>2, <1>3, MovedKeeps DEF IInv, AppsOK
<1> QED BY <1>1, <1>4, <1>5 DEF IInv

\* What the journal records of a write is a write.
LEMMA RecordKeeps ==
  ASSUME IInv, NEW p \in Actors, op[p].pc \in {"open", "replace", "inplace"},
         NEW failed \in BOOLEAN, Record(p, failed)
  PROVE  JournalsOK'
<1> DEFINE t == op[p].rec
           k == LockKey(op[p])
           w == [before |-> op[p].before, after |-> op[p].want, failed |-> failed]
<1>1. /\ op[p] \in OpType /\ op[p].name \in Names /\ op[p].want # Absent
  BY OpFacts DEF IInv, Locked
<1>2. w \in Writes
  BY <1>1 DEF OpType, Writes, Contents
<1>3. k \in Keys
  BY <1>1 DEF OpType, LockKey, Keys
<1>4. CASE t # None /\ journal[t].state = "open"
  <2>1. journal' = [journal EXCEPT ![t].writes[k] = Append(@, w)]
    BY <1>4 DEF Record
  <2>2. CASE t \in Sessions
    <3>1. journal[t] \in JournalType
      BY <2>2 DEF IInv, JournalsOK
    <3>2. Append(journal[t].writes[k], w) \in Seq(Writes)
      BY <1>2, <1>3, <3>1 DEF JournalType
    <3> DEFINE ws == Append(journal[t].writes[k], w)
               j == [journal[t] EXCEPT !.writes[k] = ws]
    <3>3. journal' = [journal EXCEPT ![t] = j]
      BY <2>1
    <3> HIDE DEF ws, k
    <3>4. j \in JournalType
      BY <3>1, <3>2 DEF JournalType, ws
    <3> HIDE DEF j
    <3> QED BY <3>3, <3>4 DEF IInv, JournalsOK
  <2>3. CASE t \notin Sessions
    <3>1. journal' = journal
      BY <2>1, <2>3 DEF IInv, JournalsOK
    <3> QED BY <3>1 DEF IInv, JournalsOK
  <2> QED BY <2>2, <2>3
<1>5. CASE ~(t # None /\ journal[t].state = "open")
  BY <1>5 DEF Record, IInv, JournalsOK
<1> QED BY <1>4, <1>5

LEMMA WriteDoneStep ==
  ASSUME IInv, NEW p \in Actors, WriteDone(p)
  PROVE  IInv'
<1>0. FileInv /\ op \in [Actors -> OpType]
  BY DEF IInv, FileInv, FileTypeOK
<1>1. FileInv' /\ Moved(p)
  <2>1. FileInv'
    BY <1>0, InstallKeeps, InPlaceKeeps DEF WriteDone
  <2>2. Finish(p, "ok") /\ "ok" \in Results
    BY DEF WriteDone, Install, EndInPlace, Results
  <2> QED BY <2>1, <2>2, FinishMoves
<1>2. op[p].pc \in {"open", "replace", "inplace"}
  BY DEF WriteDone, Install, EndInPlace
<1>3. JournalsOK'
  BY <1>2, RecordKeeps DEF WriteDone
<1>4. op[p].pc \in Active /\ op[p].name \in Names
  BY <1>2, OpFacts DEF IInv, Active, Locked
<1>5. p \in Others => ChangeOf(p) \in Changes
  BY ActorsAreTheWriters DEF ChangeOf
<1>6. AckedOK'
  BY <1>4, <1>5 DEF WriteDone, IInv, AckedOK
<1>7. AppsOK' /\ \A s \in Sessions : app'[s].phase = app[s].phase
  <2>1. CASE p \in Sessions /\ op[p].kind = "edit"
    <3> DEFINE c == <<ChangeOf(p), op[p].name>>
               a == [app[p] EXCEPT !.wrote = @ \cup {c}]
    <3>1. app' = [app EXCEPT ![p] = a]
      BY <2>1 DEF WriteDone, IInv, AppsOK
    <3>2. c \in Changes \X Names
      BY <2>1, <1>4, ChangeType
    <3> HIDE DEF c
    <3>3. AppTypeOK(p, app[p]) /\ app[p] \in AppType(p)
      BY <2>1, AppFacts DEF AppTypeOK
    <3>4. a \in AppType(p)
      BY <3>2, <3>3 DEF AppType
    <3>5. a.phase = app[p].phase /\ a.snap = app[p].snap /\ a.last = app[p].last /\ a.now = app[p].now
          /\ a.step = app[p].step
      BY <3>3 DEF AppType
    <3> HIDE DEF a
    <3>6. AppTypeOK(p, a)
      BY <3>3, <3>4, <3>5 DEF AppTypeOK
    <3> QED BY <2>1, <3>1, <3>5, <3>6, AppSet DEF IInv
  <2>2. CASE ~(p \in Sessions /\ op[p].kind = "edit")
    BY <2>2 DEF WriteDone, IInv, AppsOK, AppTypeOK, AppType
  <2> QED BY <2>1, <2>2
<1>8. LinksOK'
  BY DEF WriteDone, IInv, LinksOK
<1>9. EditsInSteps'
  BY <1>1, <1>7, MovedKeeps DEF AppsOK
<1> QED BY <1>1, <1>3, <1>6, <1>7, <1>8, <1>9 DEF IInv

LEMMA WritePartlyStep ==
  ASSUME IInv, NEW p \in Actors, WritePartly(p)
  PROVE  IInv'
<1>1. op[p].pc = "inplace" /\ UNCHANGED <<app, acked, links>>
  BY DEF WritePartly, FailInPlace
<1>2. FileInv' /\ Moved(p)
  BY InPlaceKeeps, FinishMoves DEF IInv, WritePartly, FailInPlace, Results
<1>3. JournalsOK'
  BY <1>1, RecordKeeps DEF WritePartly
<1>4. AppsOK' /\ AckedOK' /\ LinksOK'
  BY <1>1 DEF IInv, AppsOK, AckedOK, LinksOK, AppTypeOK, AppType
<1>5. EditsInSteps'
  BY <1>1, <1>2, MovedKeeps DEF IInv, AppsOK
<1> QED BY <1>2, <1>3, <1>4, <1>5 DEF IInv

\* Steps that leave every apply as it is.
LEMMA ElsewhereKeeps ==
  ASSUME IInv, FileInv', UNCHANGED <<app, journal, acked>>, LinksOK',
         \A s \in Sessions : op'[s] = op[s]
  PROVE  IInv'
<1>1. AppsOK' /\ JournalsOK' /\ AckedOK'
  BY DEF IInv, AppsOK, JournalsOK, AckedOK, AppTypeOK, AppType
<1>2. EditsInSteps'
  BY DEF IInv, EditsInSteps
<1> QED BY <1>1, <1>2 DEF IInv

LEMMA CommandStep ==
  ASSUME IInv, NEW p \in Others, Command(p) \/ CrashCommand(p)
  PROVE  IInv'
<1>1. p \in Actors /\ p \notin Sessions
  BY ActorsAreTheWriters
<1>2. FileInv /\ op \in [Actors -> OpType]
  BY DEF IInv, FileInv, FileTypeOK
<1>3. UNCHANGED <<app, journal, acked, links>>
  BY DEF Command, CrashCommand
<1>4. FileInv'
  <2>1. CASE Command(p)
    <3>1. PICK n \in Names : Start(p, "edit", n, Absent, Absent)
      BY <2>1 DEF Command
    <3>2. Absent \in Contents /\ UNCHANGED <<dir, data, side, ilock>>
      BY <2>1 DEF Contents, Command
    <3> QED BY <1>1, <1>2, <3>1, <3>2, StartKeeps
  <2>2. CASE CrashCommand(p)
    <3>1. op' = [q \in Actors |-> IF q \in {p} THEN NoOp ELSE op[q]] /\ dir' = dir /\ data' = data
      BY <1>2, <2>2 DEF CrashCommand, Die
    <3>2. side' \in [Names -> Actors \cup {None}] /\ ilock' \in [Inodes -> Actors \cup {None}]
      BY <1>2, <2>2 DEF CrashCommand, Die, FileInv, FileTypeOK
    <3>3. \A q \in Actors \ {p} : /\ \A n \in Names : side[n] = q => side'[n] = q
                                  /\ \A i \in Inodes : ilock[i] = q => ilock'[i] = q
      BY <2>2 DEF CrashCommand, Die
    <3>4. {p} \in SUBSET Actors
      BY <1>1
    <3> QED BY <1>2, <3>1, <3>2, <3>3, <3>4, DropKeeps
  <2> QED BY <2>1, <2>2
<1>5. \A s \in Sessions : op'[s] = op[s]
  BY <1>1, <1>2, SessionsAct DEF Command, CrashCommand, Start, Die
<1>6. LinksOK'
  BY <1>3 DEF IInv, LinksOK
<1> QED BY <1>3, <1>4, <1>5, <1>6, ElsewhereKeeps

LEMMA LinkStep ==
  ASSUME IInv, NEW m \in Names, NEW n \in Names, Link(m, n)
  PROVE  IInv'
<1>1. FileInv' /\ op' = op
  BY LinkKeeps DEF IInv, Link, AddLink
<1>2. LinksOK'
  BY DEF IInv, LinksOK, Link
<1> QED BY <1>1, <1>2, ElsewhereKeeps DEF Link

LEMMA CrashStep ==
  ASSUME IInv, Crash
  PROVE  IInv'
<1> DEFINE dead == {t \in Sessions : app[t].phase \notin Ended}
           gone == [NewApp EXCEPT !.phase = "crashed"]
<1>1. /\ side' = [n \in Names |-> IF side[n] \in dead THEN None ELSE side[n]]
      /\ ilock' = [i \in Inodes |-> IF ilock[i] \in dead THEN None ELSE ilock[i]]
      /\ op' = [p \in Actors |-> IF p \in dead THEN NoOp ELSE op[p]]
      /\ app' = [t \in Sessions |-> IF t \in dead THEN gone ELSE app[t]]
      /\ journal' = [t \in Sessions |-> IF t \in dead THEN NewJournal ELSE journal[t]]
      /\ UNCHANGED <<dir, data, acked, links>>
  BY DEF Crash
<1>2. dead \in SUBSET Actors
  BY SessionsAct
<1>3. FileInv'
  <2>1. side' \in [Names -> Actors \cup {None}] /\ ilock' \in [Inodes -> Actors \cup {None}]
    BY <1>1 DEF IInv, FileInv, FileTypeOK
  <2>2. \A q \in Actors \ dead : /\ \A n \in Names : side[n] = q => side'[n] = q
                                 /\ \A i \in Inodes : ilock[i] = q => ilock'[i] = q
    BY <1>1
  <2> HIDE DEF dead
  <2> QED BY <1>1, <1>2, <2>1, <2>2, DropKeeps DEF IInv
<1>4. AppsOK'
  <2>1. \A t \in Sessions : AppTypeOK(t, gone)
    BY NewAppType DEF Ended
  <2> HIDE DEF gone, dead
  <2>2. DOMAIN app' = Sessions /\ \A t \in Sessions : AppTypeOK(t, app'[t])
    BY <1>1, <2>1 DEF IInv, AppsOK
  <2>3. (\A t \in Sessions : AppTypeOK(t, app[t]))' <=> \A t \in Sessions : AppTypeOK(t, app'[t])
    BY DEF AppTypeOK, AppType, Files, Snapshots
  <2> QED BY <2>2, <2>3 DEF AppsOK
<1>5. JournalsOK'
  BY <1>1, NewJournalType DEF IInv, JournalsOK
<1>6. EditsInSteps'
  <2> SUFFICES ASSUME NEW s \in Sessions, op'[s].pc \in Active, op'[s].kind = "edit"
               PROVE app'[s].phase = "step"
    BY DEF EditsInSteps
  <2>1. s \in Actors
    BY SessionsAct
  <2>2. s \notin dead
    BY <1>1, <2>1 DEF NoOp, Active, Locked
  <2> QED BY <1>1, <2>1, <2>2 DEF IInv, EditsInSteps
<1> QED BY <1>1, <1>3, <1>4, <1>5, <1>6 DEF IInv, AckedOK, LinksOK

LEMMA InitIInv == Init => IInv
<1> SUFFICES ASSUME Init PROVE IInv
  OBVIOUS
<1>1. op \in [Actors -> OpType] /\ \A p \in Actors : op[p] = NoOp
  BY NoOpType DEF Init
<1>2. NoOp.pc = "none" /\ NoOp.ident = None /\ NoOp.kind = "edit" /\ "none" \notin Active \cup Writing \cup {"open"}
  BY DEF NoOp, Active, Writing, Locked
<1>3. [torn |-> FALSE, has |-> {}] \in Contents /\ [torn |-> FALSE, has |-> {}] # Absent
  <2>1. [torn |-> FALSE, has |-> {}] \in Bytes
    BY DEF Bytes
  <2> QED BY <2>1, DistinctMarks DEF Contents, Bytes
<1>4. /\ dir \in [Names -> Inodes \cup {None}] /\ data \in [Inodes -> Contents]
      /\ \A n \in Names : dir[n] # None => data[dir[n]] # Absent
  BY <1>3 DEF Init, Contents
<1>5. FileTypeOK
  BY <1>1, <1>2, <1>4 DEF Init, FileTypeOK, Active, Writing
<1>6. FileInv
  BY <1>1, <1>2, <1>5 DEF FileInv, SidecarsOwned, InodesOwned, WritesOwned, Active
<1>7. AppsOK
  <2>1. NewApp = [NewApp EXCEPT !.phase = "idle"]
    BY DEF NewApp
  <2>2. \A s \in Sessions : AppTypeOK(s, NewApp)
    BY <2>1, NewAppType
  <2> QED BY <2>2 DEF Init, AppsOK
<1>8. JournalsOK /\ AckedOK /\ LinksOK
  BY NewJournalType DEF Init, JournalsOK, AckedOK, LinksOK
<1>9. EditsInSteps
  BY <1>1, <1>2, SessionsAct DEF EditsInSteps
<1> QED BY <1>6, <1>7, <1>8, <1>9 DEF IInv

LEMMA NextIInv == IInv /\ [Next]_vars => IInv'
<1> SUFFICES ASSUME IInv, [Next]_vars PROVE IInv'
  OBVIOUS
<1>1. ASSUME NEW p \in Actors, LockStep(p) \/ WriteStep(p) \/ WriteDone(p) \/ WritePartly(p)
      PROVE IInv'
  BY <1>1, LockStepStep, WriteStepStep, WriteDoneStep, WritePartlyStep
<1>2. ASSUME NEW p \in Others, Command(p) \/ CrashCommand(p) PROVE IInv'
  BY <1>2, CommandStep
<1>3. ASSUME NEW s \in Sessions, SessionStep(s) PROVE IInv'
  BY <1>3, SnapshotStep, OpenJournalStep, EndSteps, BeginStepStep, EndOfStep, BeginRollbackStep,
     LeaveAloneStep, UndoStep, UndoneStep, UndoFailedStep DEF SessionStep
<1>4. CASE Crash
  BY <1>4, CrashStep
<1>5. ASSUME NEW m \in Names, NEW n \in Names, Link(m, n) PROVE IInv'
  BY <1>5, LinkStep
<1>6. CASE UNCHANGED vars
  BY <1>6, FilesUnchanged, ElsewhereKeeps DEF vars, IInv, LinksOK
<1> QED BY <1>1, <1>2, <1>3, <1>4, <1>5, <1>6 DEF Next, Idle

\* Every reachable state of applies, journals and roster commands is well typed:
\* in particular a rollback only ever tries to restore bytes a roster can hold,
\* and never restores an absent file (restoreRosterFile, RestoreRosterFile).
THEOREM ApplyTypes == Spec => []TypeOK
<1>1. IInv => TypeOK
  BY DEF IInv, FileInv, AppsOK, JournalsOK, AckedOK, LinksOK, TypeOK
<1> QED BY <1>1, InitIInv, NextIInv, PTL DEF Spec

\* For any names, hard links, applies and commands, with crashes at any point, no
\* two writers ever have one roster file open for writing (lockRosterFile,
\* lockRosterInode, checkNoNewHardLink).
THEOREM WritersExclude == Spec => []OneWriterPerFile
<1>1. IInv => OneWriterPerFile
  BY FileInvExcludes DEF IInv
<1> QED BY <1>1, InitIInv, NextIInv, PTL DEF Spec
=============================================================================
