SPECIFICATION Spec
CONSTANTS
  s1 = s1
  a = a
  b = b
  Names = {a, b}
  Inodes = {i1, i2, i3}
  Actors <- MCActors
  Changes <- MCChanges
  Absent = Absent
  None = None
  Sessions = {s1, s2}
  Others = {o1}
  Vault <- MCVault
  Steps <- MCSteps
  MaxLinks = 1
SYMMETRY InodeSymmetry
INVARIANTS
  TypeOK
  OneWriterPerFile
  NoLostUpdate
  RollbackUndoesOwn
  JournalOwnWrites
