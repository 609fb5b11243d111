------------------------------ MODULE MCUserStore ------------------------------
(* Instances of UserStore for TLC: two or three users, one of whom also logs in *)
(* at the command line; one permission.                                         *)
EXTENDS UserStore

CONSTANTS ann, bob, eve, c1, d1, t1, red, blue, grey, write

AtTheCli   == [n \in Names |-> IF n = ann THEN c1 ELSE None]
OneEach    == [h \in Handles |-> IF h = red THEN ann ELSE IF h = blue THEN bob ELSE eve]
EachAlone  == [p \in Perms |-> {}]
TwoLevels  == [l \in {0, 90} |-> IF l = 0 THEN {} ELSE Perms]
================================================================================
