--------------------------- MODULE MCCronScheduler ---------------------------
(* Small instances of CronScheduler for TLC.                               *)
EXTENDS CronScheduler

CONSTANTS a, b

AllRecurring == [j \in Jobs |-> "recurring"]
AllRelative == [j \in Jobs |-> "relative"]
AllOneShot == [j \in Jobs |-> "oneshot"]
OneOfEach == [j \in Jobs |-> IF j = a THEN "recurring" ELSE "oneshot"]
Neither == {}
Both == {a, b}
OnlyA == {a}
OnlyB == {b}
=============================================================================
