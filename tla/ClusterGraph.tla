----------------------------- MODULE ClusterGraph -----------------------------
(***************************************************************************)
(* ClusterGraph.cluster of src/rtfs/cluster: the chunks that Infomap puts  *)
(* into clusters are split, regrouped, summarised and put under parents by *)
(* operations that a language model proposes.  The model may answer        *)
(* anything the answer's type allows: clusters that do not exist, chunks   *)
(* named twice, moves that contradict each other.                          *)
(*                                                                         *)
(* The graph is a multigraph: an edge can be there more than once.  Only   *)
(* edges into clusters are modelled; the references between chunks stay as *)
(* they are.                                                               *)
(***************************************************************************)
EXTENDS Naturals, Sequences, FiniteSets

CONSTANTS
  Chunks,        \* ids of chunk nodes
  Ids,           \* cluster ids, those the language model may invent included
  InfomapIds,    \* ids that Infomap gives to its modules
  SplitIds,      \* what random.randint(40, 100000) may return
  Threshold,     \* _split_clusters splits a cluster with this many chunks
  SplitAnswers,  \* answers of split_cluster: lists of topics, lists of names
  MoveAnswers,   \* answers of regroup_clusters: lists of operations
  TreeAnswers,   \* answers of create_2tier_hierarchy: lists of operations
  Unknown,       \* a chunk name that is no node's id
  None           \* no cluster

Names == Chunks \cup {Unknown}

MoveOps   == [op : {"move"}, src : Ids, dst : Ids, chunk : Names]
CreateOps == [op : {"create"}, id : Ids]
AdoptOps  == [op : {"adopt"}, child : Ids, parent : Ids]
Ops       == MoveOps \cup CreateOps \cup AdoptOps

ASSUME ClusterAssumption ==
  /\ InfomapIds \subseteq Ids /\ SplitIds \subseteq Ids
  /\ Threshold \in Nat \ {0}
  /\ SplitAnswers \subseteq Seq(Seq(Names))
  /\ MoveAnswers \subseteq Seq(MoveOps)
  /\ TreeAnswers \subseteq Seq(Ops)
  /\ Unknown \notin Chunks /\ None \notin Ids

VARIABLES
  phase,     \* how far cluster has come
  home,      \* chunk -> the module Infomap put it in
  clusters,  \* the cluster nodes
  member,    \* <<chunk, cluster>> -> the number of edges between them
  above,     \* pairs of a cluster and the cluster that adopted it
  summary,   \* cluster -> "", "llm" or the "title" it was created with
  largest,   \* the cluster being split
  target,    \* the new cluster of the current topic, or None
  topics,    \* topics still to be taken, the current one first
  batch,     \* the operations being applied
  at,        \* index of the next one
  faithful   \* history: every answer so far kept to what its prompt asks for

vars == <<phase, home, clusters, member, above, summary, largest, target, topics, batch, at, faithful>>

-----------------------------------------------------------------------------
(* CodeGraph: children, remove_edge and add_edge for edges into a cluster. *)

Children(k) == {x \in Chunks : member[<<x, k>>] > 0}
Unlink(m, x, k) == [m EXCEPT ![<<x, k>>] = @ - 1]
Link(m, x, k) == [m EXCEPT ![<<x, k>>] = @ + 1]

\* An exception leaves cluster, and the graph is never saved.
Fail == phase' = "failed" /\ UNCHANGED <<home, clusters, member, above, summary,
                                         largest, target, topics, batch, at, faithful>>

-----------------------------------------------------------------------------
(* cluster_infomap: chunks without an edge are in no module.               *)

Modules == [Chunks -> InfomapIds \cup {None}]

Assign ==
  /\ phase = "infomap"
  /\ home' \in Modules
  /\ clusters' = {home'[x] : x \in Chunks} \ {None}
  /\ member' = [e \in Chunks \X Ids |-> IF home'[e[1]] = e[2] THEN 1 ELSE 0]
  /\ phase' = "split"
  /\ UNCHANGED <<above, summary, largest, target, topics, batch, at, faithful>>

-----------------------------------------------------------------------------
(* _split_clusters *)

Largest == {k \in clusters : \A j \in clusters : Cardinality(Children(j)) <= Cardinality(Children(k))}

\* max of an empty list raises.
NothingToSplit == phase = "split" /\ clusters = {} /\ Fail

SkipSplit ==
  /\ phase = "split"
  /\ \E k \in Largest : Cardinality(Children(k)) < Threshold
  /\ phase' = "regroup"
  /\ UNCHANGED <<home, clusters, member, above, summary, largest, target, topics, batch, at, faithful>>

AskSplit ==
  /\ phase = "split"
  /\ \E k \in Largest : Cardinality(Children(k)) >= Threshold /\ largest' = k
  /\ topics' \in SplitAnswers
  /\ phase' = "splitting"
  /\ UNCHANGED <<home, clusters, member, above, summary, target, batch, at, faithful>>

\* A random id may be that of a node: add_node then only resets it.
BeginTopic ==
  /\ phase = "splitting" /\ target = None /\ topics # <<>>
  /\ target' \in SplitIds
  /\ clusters' = clusters \cup {target'}
  /\ summary' = [summary EXCEPT ![target'] = ""]
  /\ UNCHANGED <<phase, home, member, above, largest, topics, batch, at, faithful>>

TakeChunk ==
  /\ phase = "splitting" /\ target # None /\ Head(topics) # <<>>
  /\ LET x == Head(Head(topics)) IN
       /\ x \in Chunks => x \in Children(largest)
       /\ member' = IF x \in Chunks THEN Link(Unlink(member, x, largest), x, target) ELSE member
  /\ topics' = <<Tail(Head(topics))>> \o Tail(topics)
  /\ UNCHANGED <<phase, home, clusters, above, summary, largest, target, batch, at, faithful>>

\* remove_edge raises for a chunk that is elsewhere or was taken before.
TakeStray ==
  /\ phase = "splitting" /\ target # None /\ Head(topics) # <<>>
  /\ Head(Head(topics)) \in Chunks \ Children(largest)
  /\ Fail

EndTopic ==
  /\ phase = "splitting" /\ target # None /\ Head(topics) = <<>>
  /\ topics' = Tail(topics)
  /\ target' = None
  /\ UNCHANGED <<phase, home, clusters, member, above, summary, largest, batch, at, faithful>>

\* Mutant of EndSplit: the split cluster is removed with the chunks left in it.
EndSplitAlways ==
  /\ phase = "splitting" /\ target = None /\ topics = <<>>
  /\ clusters' = clusters \ {largest}
  /\ member' = [e \in Chunks \X Ids |-> IF e[2] = largest THEN 0 ELSE member[e]]
  /\ largest' = None
  /\ phase' = "regroup"
  /\ UNCHANGED <<home, above, summary, target, topics, batch, at, faithful>>

EndSplit ==
  /\ phase = "splitting" /\ target = None /\ topics = <<>>
  /\ clusters' = IF Children(largest) = {} THEN clusters \ {largest} ELSE clusters
  /\ largest' = None
  /\ phase' = "regroup"
  /\ UNCHANGED <<home, member, above, summary, target, topics, batch, at, faithful>>

-----------------------------------------------------------------------------
(* _regroup_chunks and _create_hierarchal_clusters propose operations.     *)

\* The prompt shows the clusters: a move names the one its chunk is in.
HonestMoves(b) ==
  \A i \in DOMAIN b : b[i].chunk \in Chunks /\ b[i].chunk \in Children(b[i].src)

\* The prompt asks for new ids, and for parents that are created first.
HonestTree(b) ==
  \A i \in DOMAIN b :
    /\ b[i].op \in {"create", "adopt"}
    /\ b[i].op = "create" => b[i].id \notin clusters
    /\ b[i].op = "adopt" =>
         /\ b[i].child \in clusters
         /\ \E j \in 1..(i - 1) : b[j].op = "create" /\ b[j].id = b[i].parent

AskMoves ==
  /\ phase = "regroup"
  /\ batch' \in MoveAnswers
  /\ faithful' = IF HonestMoves(batch') THEN faithful ELSE FALSE
  /\ at' = 1
  /\ phase' = "moving"
  /\ UNCHANGED <<home, clusters, member, above, summary, largest, target, topics>>

AskTree ==
  /\ phase = "hierarchy"
  /\ batch' \in TreeAnswers
  /\ faithful' = IF HonestTree(batch') THEN faithful ELSE FALSE
  /\ at' = 1
  /\ phase' = "growing"
  /\ UNCHANGED <<home, clusters, member, above, summary, largest, target, topics>>

\* Mutant of Kept: contradicting moves are not filtered.
KeptAlways(i) == i \in DOMAIN batch

\* filter_moves: moves of one chunk out of one cluster contradict each other.
Kept(i) ==
  \A j \in DOMAIN batch \ {i} :
    ~(batch[j].op = "move" /\ batch[j].src = batch[i].src /\ batch[j].chunk = batch[i].chunk)

Current(op) ==
  /\ phase \in {"moving", "growing"}
  /\ at <= Len(batch)
  /\ batch[at].op = op
  /\ at' = at + 1

\* Mutant of Moves: the destination may be hallucinated.
MovesAnywhere(o) == Kept(at) /\ o.src \in clusters /\ o.chunk \in Chunks

Moves(o) == Kept(at) /\ o.src \in clusters /\ o.dst \in clusters /\ o.chunk \in Chunks

Adopts(o) == o.child \in clusters /\ o.parent \in clusters /\ <<o.child, o.parent>> \notin above

\* Mutant of ApplyMove: the edge is removed without asking for it.
ApplyMoveUnasked ==
  /\ Current("move")
  /\ LET o == batch[at] IN
       Moves(o) /\ member' = Link(Unlink(member, o.chunk, o.src), o.chunk, o.dst)
  /\ UNCHANGED <<phase, home, clusters, above, summary, largest, target, topics, batch, faithful>>

\* The emptied source stays: a list is compared with 0.
ApplyMove ==
  /\ Current("move")
  /\ LET o == batch[at]
         m == IF o.chunk \in Children(o.src) THEN Unlink(member, o.chunk, o.src) ELSE member
     IN  Moves(o) /\ member' = Link(m, o.chunk, o.dst)
  /\ UNCHANGED <<phase, home, clusters, above, summary, largest, target, topics, batch, faithful>>

\* Creating an id that exists resets the node and keeps its edges.
ApplyCreate ==
  /\ Current("create")
  /\ clusters' = clusters \cup {batch[at].id}
  /\ summary' = [summary EXCEPT ![batch[at].id] = "title"]
  /\ UNCHANGED <<phase, home, member, above, largest, target, topics, batch, faithful>>

\* Mutant of ApplyAdopt: the edge leads from the parent to the child.
ApplyAdoptSwapped ==
  /\ Current("adopt")
  /\ Adopts(batch[at])
  /\ above' = above \cup {<<batch[at].parent, batch[at].child>>}
  /\ UNCHANGED <<phase, home, clusters, member, summary, largest, target, topics, batch, faithful>>

ApplyAdopt ==
  /\ Current("adopt")
  /\ Adopts(batch[at])
  /\ above' = above \cup {<<batch[at].child, batch[at].parent>>}
  /\ UNCHANGED <<phase, home, clusters, member, summary, largest, target, topics, batch, faithful>>

SkipOp ==
  /\ \/ Current("move") /\ ~Moves(batch[at])
     \/ Current("adopt") /\ ~Adopts(batch[at])
  /\ UNCHANGED <<phase, home, clusters, member, above, summary, largest, target, topics, batch, faithful>>

EndMoves ==
  /\ phase = "moving" /\ at > Len(batch)
  /\ phase' = "summarize"
  /\ batch' = <<>> /\ at' = 1
  /\ UNCHANGED <<home, clusters, member, above, summary, largest, target, topics, faithful>>

-----------------------------------------------------------------------------
(* _summarize_clusters, and the end of _create_hierarchal_clusters, whose  *)
(* loop over unclustered never runs: it compares a list with 0 too.        *)

Summarize ==
  /\ phase = "summarize"
  /\ summary' = [k \in Ids |-> IF k \in clusters THEN "llm" ELSE summary[k]]
  /\ phase' = "hierarchy"
  /\ UNCHANGED <<home, clusters, member, above, largest, target, topics, batch, at, faithful>>

EndTree ==
  /\ phase = "growing" /\ at > Len(batch)
  /\ phase' = "done"
  /\ batch' = <<>> /\ at' = 1
  /\ UNCHANGED <<home, clusters, member, above, summary, largest, target, topics, faithful>>

\* A call to the language model, or the parsing of its answer, raises.
LlmFails ==
  /\ \/ phase \in {"regroup", "summarize", "hierarchy"}
     \/ phase = "split" /\ \E k \in Largest : Cardinality(Children(k)) >= Threshold
  /\ Fail

-----------------------------------------------------------------------------
Init ==
  /\ phase = "infomap"
  /\ home = [x \in Chunks |-> None]
  /\ clusters = {}
  /\ member = [e \in Chunks \X Ids |-> 0]
  /\ above = {}
  /\ summary = [k \in Ids |-> ""]
  /\ largest = None /\ target = None
  /\ topics = <<>> /\ batch = <<>> /\ at = 1
  /\ faithful = TRUE

Split == \/ NothingToSplit \/ SkipSplit \/ AskSplit
         \/ BeginTopic \/ TakeChunk \/ TakeStray \/ EndTopic \/ EndSplit

Apply == ApplyMove \/ ApplyCreate \/ ApplyAdopt \/ SkipOp

Next == Assign \/ Split \/ AskMoves \/ AskTree \/ Apply \/ EndMoves \/ Summarize \/ EndTree \/ LlmFails

Spec == Init /\ [][Next]_vars

-----------------------------------------------------------------------------
Phases == {"infomap", "split", "splitting", "regroup", "moving", "summarize",
           "hierarchy", "growing", "done", "failed"}

\* The types of all variables.  A count of edges that is no natural number is
\* a removal of an edge that is not there, at which networkx raises.
TypeOK ==
  /\ phase \in Phases
  /\ home \in Modules
  /\ clusters \subseteq Ids
  /\ member \in [Chunks \X Ids -> Nat]
  /\ above \subseteq Ids \X Ids
  /\ summary \in [Ids -> {"", "llm", "title"}]
  /\ largest \in Ids \cup {None} /\ target \in Ids \cup {None}
  /\ topics \in Seq(Seq(Names))
  /\ batch \in Seq(Ops)
  /\ at \in Nat \ {0}
  /\ faithful \in BOOLEAN

\* Whatever the language model answers, a chunk that Infomap put in a cluster
\* is in some cluster ever after: regrouping (_split_clusters, ApplyMoves)
\* takes no chunk out of the clustering.
NoChunkLost ==
  phase # "infomap" =>
    \A x \in Chunks : home[x] # None => \E k \in clusters : member[<<x, k>>] > 0

\* Every edge ends at a cluster node that is there: networkx would otherwise
\* create a node without a kind, at which ClusterGraph.from_json and get_node
\* raise when the saved graph is read again.
EdgesHaveEnds ==
  /\ \A x \in Chunks, k \in Ids : member[<<x, k>>] > 0 => k \in clusters
  /\ \A p \in above : p[1] \in clusters /\ p[2] \in clusters

\* The clusters a chunk is in: those it has an edge to.
In(x) == {k \in Ids : member[<<x, k>>] > 0}

\* "Move a single chunk from one cluster to another" (recluster.py:106-107):
\* a chunk has exactly one edge, to one cluster, if Infomap put it in one, and
\* none otherwise.
Partitioned ==
  phase # "infomap" =>
    \A x \in Chunks :
      /\ Cardinality(In(x)) = (IF home[x] = None THEN 0 ELSE 1)
      /\ \A k \in In(x) : member[<<x, k>>] = 1

\* The clusters partition the chunks as long as the moves proposed so far
\* name the cluster their chunk was in, contradict each other as they may
\* (_regroup_chunks, ApplyMoves.filter_moves, MoveOp.apply).
OneClusterEach == faithful => Partitioned

\* What create_2tier_hierarchy is named for, if every answer is faithful:
\* adopting clusters are the created ones and are not adopted themselves, so
\* from_cluster_node meets no cycle in the saved graph, and every cluster of
\* chunks kept its summary.
TwoTier ==
  faithful =>
    /\ \A p \in above : summary[p[1]] = "llm" /\ summary[p[2]] = "title"
    /\ phase \in {"hierarchy", "growing", "done"} =>
         \A x \in Chunks, k \in Ids : member[<<x, k>>] > 0 => summary[k] = "llm"

Cover == INSTANCE ChunkCover
           WITH Clusters <- Ids, cover <- [x \in Chunks |-> In(x)], nodes <- clusters,
                placed <- phase # "infomap", trusted <- faithful

\* Each step of the clustering is one the abstract cover allows or leaves the
\* cover alone: a chunk leaves a cluster only for another that is there, in one
\* step, a cluster goes only when it is empty, and a chunk gets a second one
\* only after an answer against its prompt (cluster_graph.py:211-226,
\* graph_ops.py:23-52).
ImplementsCover == Cover!Spec
=============================================================================
