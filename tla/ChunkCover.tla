------------------------------ MODULE ChunkCover ------------------------------
(***************************************************************************)
(* What the clustering promises of the chunks, whoever proposes the        *)
(* operations: Infomap puts each in at most one cluster; from then on a    *)
(* chunk goes from a cluster it is in to one that is there, and only an    *)
(* empty cluster goes away.  A chunk gets a second cluster only after an   *)
(* answer that was not to be trusted.  No edges, no phases, no operations. *)
(* ClusterGraph is shown to implement it.                                  *)
(***************************************************************************)
CONSTANTS Chunks, Clusters

VARIABLES
  cover,    \* chunk -> the clusters it is in
  nodes,    \* the clusters
  placed,   \* Infomap has put the chunks in clusters
  trusted   \* no answer so far went against its prompt

cvars == <<cover, nodes, placed, trusted>>

Init ==
  /\ cover = [x \in Chunks |-> {}]
  /\ nodes = {}
  /\ placed = FALSE /\ trusted = TRUE

Place ==
  /\ ~placed /\ placed'
  /\ cover' \in [Chunks -> {{}} \cup {{k} : k \in Clusters}]
  /\ nodes' = UNION {cover'[x] : x \in Chunks}
  /\ UNCHANGED trusted

Introduce(k) == nodes' = nodes \cup {k} /\ UNCHANGED <<cover, placed, trusted>>

Drop(k) ==
  /\ \A x \in Chunks : k \notin cover[x]
  /\ nodes' = nodes \ {k}
  /\ UNCHANGED <<cover, placed, trusted>>

Move(x, j, k) ==
  /\ j \in cover[x] /\ k \in nodes
  /\ cover' = [cover EXCEPT ![x] = (@ \ {j}) \cup {k}]
  /\ UNCHANGED <<nodes, placed, trusted>>

Copy(x, k) ==
  /\ ~trusted /\ k \in nodes
  /\ cover' = [cover EXCEPT ![x] = @ \cup {k}]
  /\ UNCHANGED <<nodes, placed, trusted>>

LoseTrust == trusted' = FALSE /\ UNCHANGED <<cover, nodes, placed>>

Next ==
  \/ Place
  \/ placed /\ \/ \E k \in Clusters : Introduce(k) \/ Drop(k)
               \/ \E x \in Chunks, j, k \in Clusters : Move(x, j, k) \/ Copy(x, k)
               \/ LoseTrust

Spec == Init /\ [][Next]_cvars
=============================================================================
