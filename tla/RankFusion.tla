----------------------------- MODULE RankFusion -----------------------------
(***************************************************************************)
(* utils/rrf.py: two rankings of names, by words and by vectors, fused by  *)
(* reciprocal ranks.  Tools, memory and databanks are searched with it.    *)
(* Weights are in tenths, scores in millionths.                            *)
(***************************************************************************)
EXTENDS Integers, Sequences, FiniteSets, SequencesExt

RankIn(ranking, name) ==
  IF \E i \in DOMAIN ranking : ranking[i] = name THEN CHOOSE i \in DOMAIN ranking : ranking[i] = name ELSE 0

Share(ranking, name, weight, k) ==
  IF RankIn(ranking, name) = 0 THEN 0 ELSE (weight * 100000) \div (k + RankIn(ranking, name))

Fused(words, vectors, name, weight, k) == Share(words, name, weight, k) + Share(vectors, name, 10 - weight, k)

(* Descending; sorted() is stable, and names were entered in the order of  *)
(* the words' ranking, then the vectors'.                                  *)
FusedOrder(words, vectors, weight, k) ==
  LET entered == words \o SelectSeq(vectors, LAMBDA n : RankIn(words, n) = 0)
      Score(n) == Fused(words, vectors, n, weight, k)
  IN SetToSortSeq({entered[i] : i \in DOMAIN entered},
                  LAMBDA a, b : \/ Score(a) > Score(b)
                                \/ Score(a) = Score(b) /\ RankIn(entered, a) < RankIn(entered, b))
=============================================================================
