---------------------------- MODULE MCRosterApply ----------------------------
EXTENDS RosterApply, TLC

CONSTANTS s1, a, b

MCActors == Sessions \cup Others
MCSteps == [s \in Sessions |-> IF s = s1 THEN 2 ELSE 0]
MCChanges == MCActors \X (1 .. 2)
MCVault == [s \in Sessions |-> IF s = s1 THEN {a} ELSE {a, b}]
InodeSymmetry == Permutations(Inodes)
=============================================================================
