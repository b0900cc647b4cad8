---------------------------- MODULE MCClusterGraph ----------------------------
(***************************************************************************)
(* Instances of ClusterGraph: two modules of Infomap, new clusters with the*)
(* id of an old one or a fresh one, and answers of at most two topics, two *)
(* moves and MaxTree tree operations.                                      *)
(***************************************************************************)
EXTENDS ClusterGraph, SequencesExt

CONSTANTS MoveSources, MoveTargets, Created, Adopting, MaxTree

Symmetry == Permutations(Chunks)

MCIds == {1, 2, 40, 90}
MCInfomapIds == {1, 2}
MCSplitIds == {2, 40}

MCSplitAnswers ==
  LET lists == {<<>>} \cup {<<x>> : x \in Names} \cup {<<x, y>> : x \in Chunks, y \in Chunks}
  IN  {<<>>} \cup {<<t>> : t \in lists} \cup {<<t, <<x>>>> : t \in lists, x \in Chunks}

MCMoveAnswers ==
  BoundedSeq([op : {"move"}, src : MoveSources, dst : MoveTargets, chunk : Names], 2)

MCTreeAnswers ==
  BoundedSeq([op : {"create"}, id : Created]
             \cup [op : {"adopt"}, child : Adopting, parent : Created]
             \cup [op : {"move"}, src : {1}, dst : {40}, chunk : Chunks], MaxTree)
=============================================================================
