-------------------------- MODULE MCDetectionEngine --------------------------
(* Small instances of DetectionEngine for TLC. *)
EXTENDS DetectionEngine, TLC

CONSTANTS t1, t2, dashboard, teams

\* The goroutines are interchangeable.
ThreadSymmetry == Permutations({t1, t2})

\* The first rungs of the ladder, in ticks.
ShortLadder == <<1, 2>>
=============================================================================
