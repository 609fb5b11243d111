---------------------------- MODULE MCMemoryGraph ----------------------------
(* Instances of MemoryGraph for TLC: two or three entities, one pair of mutually *)
(* exclusive relations; texts are alike when they say the same.                  *)
EXTENDS MemoryGraph

CONSTANTS likes, dislikes

Opposites == [r \in Relations |-> Relations \ {r}]
Unopposed == [r \in Relations |-> {}]
SameText(v, w) == v.said = w.said
\* All are alike, but for two of the texts.
AllButTwo(v, w) == {v.said, w.said} # CHOOSE p \in SUBSET Texts : Cardinality(p) = 2
Interchangeable == Permutations(Entities) \cup Permutations(Names) \cup Permutations(Texts)
================================================================================
