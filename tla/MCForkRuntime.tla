--------------------------- MODULE MCForkRuntime ---------------------------
(* Small instances of ForkRuntime for TLC.                                 *)
EXTENDS ForkRuntimePool, TLC

CONSTANTS r1, r2, r3, s1, s2, m1

OneRun == {r1}
TwoRuns == {r1, r2}
ThreeRuns == {r1, r2, r3}
OneSession == {s1}
TwoSessions == {s1, s2}
OnePassive == {m1}
Nobody == {}

(* Runs with the same rights are interchangeable, and so are sessions.     *)
AllRunsAlike == Permutations(ThreeRuns)
PairAlike == Permutations(TwoRuns)
PairAndSessionsAlike == Permutations(TwoRuns) \union Permutations(TwoSessions)
=============================================================================
