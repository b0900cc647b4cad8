----------------------------- MODULE ClusterProofs -----------------------------
(***************************************************************************)
(* No answer of the language model makes ClusterGraph.cluster lose a chunk *)
(* or leave an edge without its end: for all sets of chunks and ids, every *)
(* Infomap partition and all answers.                                      *)
(***************************************************************************)
EXTENDS ClusterGraph, FiniteSetTheorems, TLAPS

\* The loop of _split_clusters runs for a cluster, and puts chunks in a node
\* that was added; there is no hierarchy before Infomap has run.
LoopsHaveNodes ==
  /\ phase = "splitting" => largest \in Ids
  /\ target # None => target \in clusters /\ topics # <<>> /\ phase \in {"splitting", "failed"}
  /\ phase \in {"infomap", "split", "splitting"} => above = {}

ClusterInv == TypeOK /\ NoChunkLost /\ EdgesHaveEnds /\ LoopsHaveNodes

\* Taking the first name off the first topic, or an empty topic off the list,
\* leaves a list of topics.
LEMMA TopicsType ==
  ASSUME NEW S, NEW t \in Seq(Seq(S)), t # <<>>
  PROVE  /\ Tail(t) \in Seq(Seq(S))
         /\ Head(t) # <<>> => /\ Head(Head(t)) \in S
                              /\ <<Tail(Head(t))>> \o Tail(t) \in Seq(Seq(S))
                              /\ <<Tail(Head(t))>> \o Tail(t) # <<>>
<1>1. Tail(t) \in Seq(Seq(S)) /\ Head(t) \in Seq(S)
  OBVIOUS
<1>2. ASSUME Head(t) # <<>>
      PROVE  Head(Head(t)) \in S /\ Tail(Head(t)) \in Seq(S)
  BY <1>1, <1>2
<1>3. ASSUME NEW s \in Seq(S)
      PROVE  <<s>> \o Tail(t) \in Seq(Seq(S)) /\ <<s>> \o Tail(t) # <<>>
  <2>1. <<s>> \in Seq(Seq(S)) /\ Len(<<s>>) = 1
    OBVIOUS
  <2>2. <<s>> \o Tail(t) \in Seq(Seq(S)) /\ Len(<<s>> \o Tail(t)) = 1 + Len(Tail(t))
    BY <1>1, <2>1
  <2>3. Len(<<s>> \o Tail(t)) # 0
    BY <1>1, <2>2
  <2> QED
    BY <2>2, <2>3
<1> QED
  BY <1>1, <1>2, <1>3

\* What the language model answers are lists of operations.
LEMMA AnswersType ==
  ASSUME NEW b
  PROVE  b \in MoveAnswers \/ b \in TreeAnswers => b \in Seq(Ops)
<1>1. TreeAnswers \subseteq Seq(Ops) /\ MoveAnswers \subseteq Seq(MoveOps)
  BY ClusterAssumption
<1>2. ASSUME b \in Seq(MoveOps)
      PROVE  b \in Seq(Ops)
  <2>1. b \in [1..Len(b) -> MoveOps] /\ Len(b) \in Nat
    BY <1>2
  <2>2. b \in [1..Len(b) -> Ops]
    BY <2>1, MoveOps \subseteq Ops DEF Ops
  <2> QED
    BY <2>1, <2>2
<1> QED
  BY <1>1, <1>2

\* The edge counts of TypeOK.
Counts == [Chunks \X Ids -> Nat]

\* Chunk x has an edge to cluster k.
Holds(m, x, k) == m[<<x, k>>] > 0

\* Removing an edge that is there keeps the counts natural and adds no end.
LEMMA UnlinkFacts ==
  ASSUME NEW m \in Counts, NEW x \in Chunks, NEW k \in Ids, Holds(m, x, k),
         NEW n, n = Unlink(m, x, k)
  PROVE  /\ n \in Counts
         /\ \A y \in Chunks, j \in Ids : n[<<y, j>>] > 0 => m[<<y, j>>] > 0
         /\ \A y \in Chunks, j \in Ids : y # x => n[<<y, j>>] = m[<<y, j>>]
<1>1. /\ n \in Counts
      /\ \A y \in Chunks, j \in Ids : n[<<y, j>>] = IF y = x /\ j = k THEN m[<<x, k>>] - 1 ELSE m[<<y, j>>]
  BY DEF Unlink, Counts, Holds
<1> QED
  BY <1>1 DEF Counts

\* Adding an edge keeps the counts natural and adds no end but the new one, in
\* which the chunk then is.
LEMMA LinkFacts ==
  ASSUME NEW m \in Counts, NEW x \in Chunks, NEW d \in Ids,
         NEW n, n = Link(m, x, d)
  PROVE  /\ n \in Counts
         /\ n[<<x, d>>] > 0
         /\ \A y \in Chunks, j \in Ids : n[<<y, j>>] > 0 => m[<<y, j>>] > 0 \/ j = d
         /\ \A y \in Chunks, j \in Ids : y # x => n[<<y, j>>] = m[<<y, j>>]
<1>1. /\ n \in Counts
      /\ \A y \in Chunks, j \in Ids : n[<<y, j>>] = IF y = x /\ j = d THEN m[<<x, d>>] + 1 ELSE m[<<y, j>>]
  BY DEF Link, Counts
<1> QED
  BY <1>1 DEF Counts

\* Moving a chunk from a cluster it is in to another does both.
LEMMA MoveFacts ==
  ASSUME NEW m \in Counts, NEW x \in Chunks, NEW k \in Ids, Holds(m, x, k),
         NEW d \in Ids, NEW u, u = Unlink(m, x, k), NEW n, n = Link(u, x, d)
  PROVE  /\ n \in Counts
         /\ n[<<x, d>>] > 0
         /\ \A y \in Chunks, j \in Ids : n[<<y, j>>] > 0 => m[<<y, j>>] > 0 \/ j = d
         /\ \A y \in Chunks, j \in Ids : y # x => n[<<y, j>>] = m[<<y, j>>]
<1>1. /\ u \in Counts
      /\ \A y \in Chunks, j \in Ids : u[<<y, j>>] > 0 => m[<<y, j>>] > 0
      /\ \A y \in Chunks, j \in Ids : y # x => u[<<y, j>>] = m[<<y, j>>]
  BY UnlinkFacts
<1>2. /\ n \in Counts
      /\ n[<<x, d>>] > 0
      /\ \A y \in Chunks, j \in Ids : n[<<y, j>>] > 0 => u[<<y, j>>] > 0 \/ j = d
      /\ \A y \in Chunks, j \in Ids : y # x => n[<<y, j>>] = u[<<y, j>>]
  BY <1>1, LinkFacts
<1> QED
  BY <1>1, <1>2

\* A step that puts a chunk in a cluster that is there, and moves no other
\* chunk, loses none and leaves every edge its end.
LEMMA Relinked ==
  ASSUME NoChunkLost, EdgesHaveEnds, NEW x \in Chunks, NEW d \in Ids, d \in clusters,
         phase # "infomap", UNCHANGED <<phase, home, clusters, above>>,
         member'[<<x, d>>] > 0,
         \A y \in Chunks, j \in Ids : member'[<<y, j>>] > 0 => member[<<y, j>>] > 0 \/ j = d,
         \A y \in Chunks, j \in Ids : y # x => member'[<<y, j>>] = member[<<y, j>>],
         clusters \subseteq Ids
  PROVE  NoChunkLost' /\ EdgesHaveEnds'
<1>1. NoChunkLost'
  <2> SUFFICES ASSUME NEW y \in Chunks, home[y] # None
               PROVE  \E k \in clusters : member'[<<y, k>>] > 0
    BY DEF NoChunkLost
  <2>1. CASE y = x
    BY <2>1
  <2>2. CASE y # x
    <3>1. PICK k \in clusters : member[<<y, k>>] > 0
      BY DEF NoChunkLost
    <3> QED
      BY <2>2, <3>1
  <2> QED
    BY <2>1, <2>2
<1>2. EdgesHaveEnds'
  BY DEF EdgesHaveEnds
<1> QED
  BY <1>1, <1>2

\* A step that leaves the edges, the Infomap partition and the hierarchy as they
\* are, and removes no cluster.
LEMMA Undisturbed ==
  ASSUME NoChunkLost, EdgesHaveEnds, phase # "infomap", phase' # "infomap",
         UNCHANGED <<home, member, above>>, clusters \subseteq clusters'
  PROVE  NoChunkLost' /\ EdgesHaveEnds'
<1>1. NoChunkLost'
  <2> SUFFICES ASSUME NEW y \in Chunks, home[y] # None
               PROVE  \E k \in clusters' : member[<<y, k>>] > 0
    BY DEF NoChunkLost
  <2>1. PICK k \in clusters : member[<<y, k>>] > 0
    BY DEF NoChunkLost
  <2> QED
    BY <2>1
<1>2. EdgesHaveEnds'
  BY DEF EdgesHaveEnds
<1> QED
  BY <1>1, <1>2

-----------------------------------------------------------------------------
\* The inductive step, an action of _split_clusters.
LEMMA SplitKeeps ==
  ASSUME ClusterInv, Split
  PROVE  ClusterInv'
<1> USE DEF ClusterInv
<1>0. TypeOK /\ NoChunkLost /\ EdgesHaveEnds /\ LoopsHaveNodes
  OBVIOUS
<1>1. CASE NothingToSplit
  <2>1. phase # "infomap" /\ phase' = "failed" /\ UNCHANGED <<home, clusters, member, above, summary, largest, target, topics, batch, at, faithful>>
    BY <1>1 DEF NothingToSplit, Fail
  <2>2. TypeOK' /\ LoopsHaveNodes'
    BY <1>0, <2>1 DEF TypeOK, LoopsHaveNodes, Phases
  <2> QED
    BY <1>0, <2>1, <2>2, Undisturbed
<1>2. CASE SkipSplit
  <2>1. phase = "split" /\ phase' = "regroup" /\ UNCHANGED <<home, clusters, member, above, summary, largest, target, topics, batch, at, faithful>>
    BY <1>2 DEF SkipSplit
  <2>2. TypeOK' /\ LoopsHaveNodes'
    BY <1>0, <2>1 DEF TypeOK, LoopsHaveNodes, Phases
  <2> QED
    BY <1>0, <2>1, <2>2, Undisturbed
<1>3. CASE AskSplit
  <2>1. /\ phase = "split" /\ phase' = "splitting" /\ topics' \in SplitAnswers
        /\ UNCHANGED <<home, clusters, member, above, summary, target, batch, at, faithful>>
    BY <1>3 DEF AskSplit
  <2>2. largest' \in Ids
    <3>1. PICK k \in Largest : largest' = k
      BY <1>3 DEF AskSplit
    <3>2. Largest \subseteq clusters
      BY DEF Largest
    <3> QED
      BY <1>0, <3>1, <3>2 DEF TypeOK
  <2>3. topics' \in Seq(Seq(Names))
    BY <2>1, ClusterAssumption
  <2>4. TypeOK' /\ LoopsHaveNodes'
    BY <1>0, <2>1, <2>2, <2>3 DEF TypeOK, LoopsHaveNodes, Phases
  <2> QED
    BY <1>0, <2>1, <2>4, Undisturbed
<1>4. CASE BeginTopic
  <2>1. /\ phase = "splitting" /\ target' \in Ids /\ topics # <<>> /\ clusters' = clusters \cup {target'}
        /\ summary' = [summary EXCEPT ![target'] = ""]
        /\ UNCHANGED <<phase, home, member, above, largest, topics, batch, at, faithful>>
    BY <1>4, ClusterAssumption DEF BeginTopic
  <2>2. summary' \in [Ids -> {"", "llm", "title"}] /\ clusters' \subseteq Ids
    BY <1>0, <2>1 DEF TypeOK
  <2>3. TypeOK' /\ LoopsHaveNodes'
    BY <1>0, <2>1, <2>2 DEF TypeOK, LoopsHaveNodes, Phases
  <2> QED
    BY <1>0, <2>1, <2>3, Undisturbed
<1>5. CASE TakeChunk
  <2>1. /\ phase = "splitting" /\ target # None /\ Head(topics) # <<>>
        /\ topics' = <<Tail(Head(topics))>> \o Tail(topics)
        /\ UNCHANGED <<phase, home, clusters, above, summary, largest, target, batch, at, faithful>>
    BY <1>5 DEF TakeChunk
  <2> DEFINE x == Head(Head(topics))
  <2>2. /\ x \in Chunks => x \in Children(largest)
        /\ member' = IF x \in Chunks THEN Link(Unlink(member, x, largest), x, target) ELSE member
    BY <1>5 DEF TakeChunk
  <2>3. topics # <<>> /\ target \in clusters /\ target \in Ids /\ largest \in Ids
    BY <1>0, <2>1 DEF LoopsHaveNodes, TypeOK
  <2>4. topics' \in Seq(Seq(Names)) /\ topics' # <<>>
    <3>1. topics \in Seq(Seq(Names))
      BY <1>0 DEF TypeOK
    <3> QED
      BY <2>1, <2>3, <3>1, TopicsType
  <2> HIDE DEF x
  <2>5. CASE x \in Chunks
    <3>1. member \in Counts /\ Holds(member, x, largest)
      BY <1>0, <2>2, <2>5 DEF Children, TypeOK, Counts, Holds
    <3>2. /\ member' \in Counts
          /\ member'[<<x, target>>] > 0
          /\ \A y \in Chunks, j \in Ids : member'[<<y, j>>] > 0 => member[<<y, j>>] > 0 \/ j = target
          /\ \A y \in Chunks, j \in Ids : y # x => member'[<<y, j>>] = member[<<y, j>>]
      <4>1. PICK u : u = Unlink(member, x, largest)
        OBVIOUS
      <4>2. member' = Link(u, x, target)
        BY <2>2, <2>5, <4>1
      <4> QED
        BY ONLY <2>3, <2>5, <3>1, <4>1, <4>2, MoveFacts
    <3>3. clusters \subseteq Ids /\ phase # "infomap"
      BY <1>0, <2>1 DEF TypeOK
    <3>4. NoChunkLost' /\ EdgesHaveEnds'
      BY <1>0, <2>1, <2>3, <2>5, <3>2, <3>3, Relinked
    <3>5. TypeOK'
      BY <1>0, <2>1, <2>4, <3>2 DEF TypeOK, Counts
    <3>6. LoopsHaveNodes'
      BY <1>0, <2>1, <2>4 DEF LoopsHaveNodes
    <3> QED
      BY <3>4, <3>5, <3>6
  <2>6. CASE x \notin Chunks
    <3>1. member' = member
      BY <2>2, <2>6
    <3>2. TypeOK' /\ LoopsHaveNodes'
      BY <1>0, <2>1, <2>4, <3>1 DEF TypeOK, LoopsHaveNodes
    <3> QED
      BY <1>0, <2>1, <3>1, <3>2, Undisturbed
  <2> QED
    BY <2>5, <2>6
<1>6. CASE TakeStray
  <2>1. phase # "infomap" /\ phase' = "failed" /\ UNCHANGED <<home, clusters, member, above, summary, largest, target, topics, batch, at, faithful>>
    BY <1>6 DEF TakeStray, Fail
  <2>2. TypeOK' /\ LoopsHaveNodes'
    BY <1>0, <2>1 DEF TypeOK, LoopsHaveNodes, Phases
  <2> QED
    BY <1>0, <2>1, <2>2, Undisturbed
<1>7. CASE EndTopic
  <2>1. /\ phase = "splitting" /\ target # None /\ topics' = Tail(topics) /\ target' = None
        /\ UNCHANGED <<phase, home, clusters, member, above, summary, largest, batch, at, faithful>>
    BY <1>7 DEF EndTopic
  <2>2. topics' \in Seq(Seq(Names))
    BY <1>0, <2>1, TopicsType DEF TypeOK, LoopsHaveNodes
  <2>3. TypeOK' /\ LoopsHaveNodes'
    BY <1>0, <2>1, <2>2 DEF TypeOK, LoopsHaveNodes
  <2> QED
    BY <1>0, <2>1, <2>3, Undisturbed
<1>8. CASE EndSplit
  <2>1. /\ phase = "splitting" /\ phase' = "regroup" /\ target = None /\ largest' = None
        /\ clusters' = IF Children(largest) = {} THEN clusters \ {largest} ELSE clusters
        /\ UNCHANGED <<home, member, above, summary, target, topics, batch, at, faithful>>
    BY <1>8 DEF EndSplit
  <2>2. TypeOK' /\ LoopsHaveNodes'
    BY <1>0, <2>1 DEF TypeOK, LoopsHaveNodes, Phases
  <2>3. \A y \in Chunks, k \in clusters : member[<<y, k>>] > 0 => k \in clusters'
    BY <2>1 DEF Children
  <2>4. NoChunkLost'
    <3> SUFFICES ASSUME NEW y \in Chunks, home[y] # None
                 PROVE  \E k \in clusters' : member[<<y, k>>] > 0
      BY <2>1 DEF NoChunkLost
    <3>1. PICK k \in clusters : member[<<y, k>>] > 0
      BY <1>0, <2>1 DEF NoChunkLost
    <3> QED
      BY <2>3, <3>1
  <2>5. EdgesHaveEnds'
    <3>1. above = {}
      BY <1>0, <2>1 DEF LoopsHaveNodes
    <3>2. ASSUME NEW y \in Chunks, NEW k \in Ids, member[<<y, k>>] > 0
          PROVE  k \in clusters'
      BY <1>0, <2>3, <3>2 DEF EdgesHaveEnds
    <3> QED
      BY <2>1, <3>1, <3>2 DEF EdgesHaveEnds
  <2> QED
    BY <2>2, <2>4, <2>5
<1> QED
  BY <1>1, <1>2, <1>3, <1>4, <1>5, <1>6, <1>7, <1>8 DEF Split
-----------------------------------------------------------------------------
\* The inductive step, one operation of a batch.
LEMMA ApplyKeeps ==
  ASSUME ClusterInv, Apply
  PROVE  ClusterInv'
<1>0. TypeOK /\ NoChunkLost /\ EdgesHaveEnds /\ LoopsHaveNodes
  BY DEF ClusterInv
<1> DEFINE o == batch[at]
<1>1. ASSUME NEW op, Current(op)
      PROVE  /\ phase \in {"moving", "growing"} /\ at' \in Nat \ {0}
             /\ o \in Ops /\ o.op = op
  <2>1. /\ phase \in {"moving", "growing"} /\ at <= Len(batch) /\ o.op = op /\ at' = at + 1
    BY <1>1 DEF Current
  <2>2. at \in Nat \ {0} /\ batch \in Seq(Ops)
    BY <1>0 DEF TypeOK
  <2>3. o \in Ops
    BY <2>1, <2>2
  <2> QED
    BY <2>1, <2>2, <2>3
<1>2. CASE ApplyMove
  <2>1. /\ Current("move") /\ Moves(o)
        /\ UNCHANGED <<phase, home, clusters, above, summary, largest, target, topics, batch, faithful>>
    BY <1>2 DEF ApplyMove
  <2>2. /\ o.chunk \in Chunks /\ o.src \in clusters /\ o.dst \in clusters
        /\ clusters \subseteq Ids /\ member \in Counts
    BY <1>0, <2>1 DEF Moves, TypeOK, Counts
  <2>3. member' = Link(IF o.chunk \in Children(o.src) THEN Unlink(member, o.chunk, o.src) ELSE member,
                       o.chunk, o.dst)
    BY <1>2 DEF ApplyMove
  <2> HIDE DEF o
  <2>4. /\ member' \in Counts
        /\ member'[<<o.chunk, o.dst>>] > 0
        /\ \A y \in Chunks, j \in Ids : member'[<<y, j>>] > 0 => member[<<y, j>>] > 0 \/ j = o.dst
        /\ \A y \in Chunks, j \in Ids : y # o.chunk => member'[<<y, j>>] = member[<<y, j>>]
    <3>0. o.src \in Ids /\ o.dst \in Ids
      BY <2>2
    <3>1. CASE o.chunk \in Children(o.src)
      <4>1. Holds(member, o.chunk, o.src)
        BY <3>1 DEF Children, Holds
      <4>2. PICK u : u = Unlink(member, o.chunk, o.src)
        OBVIOUS
      <4>3. member' = Link(u, o.chunk, o.dst)
        BY <2>3, <3>1, <4>2
      <4> QED
        BY ONLY <2>2, <3>0, <4>1, <4>2, <4>3, MoveFacts
    <3>2. CASE o.chunk \notin Children(o.src)
      <4>1. member' = Link(member, o.chunk, o.dst)
        BY <2>3, <3>2
      <4> QED
        BY ONLY <2>2, <3>0, <4>1, LinkFacts
    <3> QED
      BY <3>1, <3>2
  <2>5. phase # "infomap" /\ phase \in {"moving", "growing"} /\ at' \in Nat \ {0}
    BY <1>1, <2>1
  <2>6. NoChunkLost' /\ EdgesHaveEnds'
    <3>1. o.dst \in Ids
      BY <2>2
    <3> QED
      BY ONLY <1>0, <2>1, <2>2, <2>4, <2>5, <3>1, Relinked
  <2>7. TypeOK'
    BY <1>0, <2>1, <2>4, <2>5 DEF TypeOK, Counts
  <2>8. LoopsHaveNodes'
    BY <1>0, <2>1 DEF LoopsHaveNodes
  <2> QED
    BY <2>6, <2>7, <2>8 DEF ClusterInv
<1>3. CASE ApplyCreate
  <2>1. /\ Current("create") /\ clusters' = clusters \cup {o.id}
        /\ summary' = [summary EXCEPT ![o.id] = "title"]
        /\ UNCHANGED <<phase, home, member, above, largest, target, topics, batch, faithful>>
    BY <1>3 DEF ApplyCreate
  <2>2. phase \in {"moving", "growing"} /\ at' \in Nat \ {0} /\ o \in Ops /\ o.op = "create"
    BY <1>1, <2>1
  <2> HIDE DEF o
  <2>3. o.id \in Ids
    BY <2>2 DEF Ops, MoveOps, CreateOps, AdoptOps
  <2>4. summary' \in [Ids -> {"", "llm", "title"}] /\ clusters' \subseteq Ids
    BY <1>0, <2>1, <2>3 DEF TypeOK
  <2>5. TypeOK'
    BY <1>0, <2>1, <2>2, <2>4 DEF TypeOK
  <2>6. LoopsHaveNodes'
    BY <1>0, <2>1 DEF LoopsHaveNodes
  <2>7. NoChunkLost' /\ EdgesHaveEnds'
    BY ONLY <1>0, <2>1, <2>2, Undisturbed
  <2> QED
    BY <2>5, <2>6, <2>7 DEF ClusterInv
<1>4. CASE ApplyAdopt
  <2>1. /\ Current("adopt") /\ Adopts(o) /\ above' = above \cup {<<o.child, o.parent>>}
        /\ UNCHANGED <<phase, home, clusters, member, summary, largest, target, topics, batch, faithful>>
    BY <1>4 DEF ApplyAdopt
  <2>2. phase \in {"moving", "growing"} /\ at' \in Nat \ {0}
    BY <1>1, <2>1
  <2> HIDE DEF o
  <2>3. o.child \in clusters /\ o.parent \in clusters /\ clusters \subseteq Ids
    BY <1>0, <2>1 DEF Adopts, TypeOK
  <2>4. TypeOK'
    <3>1. above' \subseteq Ids \X Ids
      <4>1. above \subseteq Ids \X Ids
        BY <1>0 DEF TypeOK
      <4>2. o.child \in Ids /\ o.parent \in Ids
        BY <2>3
      <4> QED
        BY ONLY <2>1, <4>1, <4>2
    <3> QED
      BY <1>0, <2>1, <2>2, <3>1 DEF TypeOK
  <2>5. LoopsHaveNodes'
    BY <1>0, <2>1, <2>2 DEF LoopsHaveNodes
  <2>6. NoChunkLost'
    BY <1>0, <2>1 DEF NoChunkLost
  <2>7. EdgesHaveEnds'
    BY <1>0, <2>1, <2>3 DEF EdgesHaveEnds
  <2> QED
    BY <2>4, <2>5, <2>6, <2>7 DEF ClusterInv
<1>5. CASE SkipOp
  <2>1. /\ phase \in {"moving", "growing"} /\ at' \in Nat \ {0}
        /\ UNCHANGED <<phase, home, clusters, member, above, summary, largest, target, topics, batch, faithful>>
    BY <1>1, <1>5 DEF SkipOp
  <2>2. TypeOK' /\ LoopsHaveNodes'
    BY <1>0, <2>1 DEF TypeOK, LoopsHaveNodes
  <2>3. NoChunkLost' /\ EdgesHaveEnds'
    BY ONLY <1>0, <2>1, Undisturbed
  <2> QED
    BY <2>2, <2>3 DEF ClusterInv
<1> QED
  BY <1>2, <1>3, <1>4, <1>5 DEF Apply

-----------------------------------------------------------------------------
\* The inductive step, an action around the two loops.
LEMMA StagesKeep ==
  ASSUME ClusterInv,
         Assign \/ AskMoves \/ AskTree \/ EndMoves \/ Summarize \/ EndTree \/ LlmFails
  PROVE  ClusterInv'
<1>0. TypeOK /\ NoChunkLost /\ EdgesHaveEnds /\ LoopsHaveNodes
  BY DEF ClusterInv
<1>1. CASE Assign
  <2>1. /\ phase = "infomap" /\ phase' = "split"
        /\ home' \in [Chunks -> InfomapIds \cup {None}]
        /\ clusters' = {home'[x] : x \in Chunks} \ {None}
        /\ member' = [e \in Chunks \X Ids |-> IF home'[e[1]] = e[2] THEN 1 ELSE 0]
        /\ UNCHANGED <<above, summary, largest, target, topics, batch, at, faithful>>
    BY <1>1 DEF Assign, Modules
  <2>2. InfomapIds \subseteq Ids /\ None \notin Ids
    BY ClusterAssumption
  <2>3. clusters' \subseteq Ids
    BY <2>1, <2>2
  <2>4. /\ member' \in [Chunks \X Ids -> Nat]
        /\ \A x \in Chunks, k \in Ids : member'[<<x, k>>] = IF home'[x] = k THEN 1 ELSE 0
    BY <2>1
  <2>5. TypeOK'
    BY <1>0, <2>1, <2>3, <2>4 DEF TypeOK, Phases, Modules
  <2>6. LoopsHaveNodes'
    BY <1>0, <2>1 DEF LoopsHaveNodes
  <2>7. NoChunkLost'
    <3> SUFFICES ASSUME NEW x \in Chunks, home'[x] # None
                 PROVE  \E k \in clusters' : member'[<<x, k>>] > 0
      BY DEF NoChunkLost
    <3>1. home'[x] \in clusters' /\ home'[x] \in Ids
      BY <2>1, <2>2
    <3>2. member'[<<x, home'[x]>>] = 1
      BY <2>4, <3>1
    <3> QED
      BY <3>1, <3>2
  <2>8. EdgesHaveEnds'
    <3>1. ASSUME NEW x \in Chunks, NEW k \in Ids, member'[<<x, k>>] > 0
          PROVE  k \in clusters'
      <4>1. home'[x] = k
        BY <2>4, <3>1
      <4> QED
        BY <2>1, <2>2, <4>1
    <3>2. above' = {}
      BY <1>0, <2>1 DEF LoopsHaveNodes
    <3> QED
      BY <3>1, <3>2 DEF EdgesHaveEnds
  <2> QED
    BY <2>5, <2>6, <2>7, <2>8 DEF ClusterInv
<1>2. CASE AskMoves \/ AskTree
  <2>1. /\ phase \in {"regroup", "hierarchy"} /\ phase' \in {"moving", "growing"} /\ at' = 1
        /\ batch' \in MoveAnswers \/ batch' \in TreeAnswers
        /\ faithful' = faithful \/ faithful' = FALSE
        /\ UNCHANGED <<home, clusters, member, above, summary, largest, target, topics>>
    BY <1>2 DEF AskMoves, AskTree
  <2>2. batch' \in Seq(Ops)
    BY <2>1, AnswersType
  <2>3. TypeOK'
    <3>1. phase' \in Phases /\ at' \in Nat \ {0}
      BY <2>1 DEF Phases
    <3> QED
      BY <1>0, <2>1, <2>2, <3>1 DEF TypeOK
  <2>4. LoopsHaveNodes'
    BY <1>0, <2>1 DEF LoopsHaveNodes
  <2>5. NoChunkLost' /\ EdgesHaveEnds'
    BY <1>0, <2>1, Undisturbed
  <2> QED
    BY <2>3, <2>4, <2>5 DEF ClusterInv
<1>3. CASE EndMoves \/ EndTree
  <2>1. /\ phase \in {"moving", "growing"} /\ phase' \in {"summarize", "done"}
        /\ batch' = <<>> /\ at' = 1
        /\ UNCHANGED <<home, clusters, member, above, summary, largest, target, topics, faithful>>
    BY <1>3 DEF EndMoves, EndTree
  <2>2. TypeOK'
    <3>1. batch' \in Seq(Ops) /\ at' \in Nat \ {0}
      BY <2>1
    <3> QED
      BY <1>0, <2>1, <3>1 DEF TypeOK, Phases
  <2>3. LoopsHaveNodes'
    BY <1>0, <2>1 DEF LoopsHaveNodes
  <2>4. NoChunkLost' /\ EdgesHaveEnds'
    BY <1>0, <2>1, Undisturbed
  <2> QED
    BY <2>2, <2>3, <2>4 DEF ClusterInv
<1>4. CASE Summarize
  <2>1. /\ phase = "summarize" /\ phase' = "hierarchy"
        /\ summary' = [k \in Ids |-> IF k \in clusters THEN "llm" ELSE summary[k]]
        /\ UNCHANGED <<home, clusters, member, above, largest, target, topics, batch, at, faithful>>
    BY <1>4 DEF Summarize
  <2>2. summary' \in [Ids -> {"", "llm", "title"}]
    BY <1>0, <2>1 DEF TypeOK
  <2>3. TypeOK' /\ LoopsHaveNodes'
    BY <1>0, <2>1, <2>2 DEF TypeOK, LoopsHaveNodes, Phases
  <2>4. NoChunkLost' /\ EdgesHaveEnds'
    BY <1>0, <2>1, Undisturbed
  <2> QED
    BY <2>3, <2>4 DEF ClusterInv
<1>5. CASE LlmFails
  <2>1. /\ phase \in {"regroup", "summarize", "hierarchy", "split"} /\ phase' = "failed"
        /\ UNCHANGED <<home, clusters, member, above, summary, largest, target, topics, batch, at, faithful>>
    BY <1>5 DEF LlmFails, Fail
  <2>2. TypeOK' /\ LoopsHaveNodes'
    BY <1>0, <2>1 DEF TypeOK, LoopsHaveNodes, Phases
  <2>3. NoChunkLost' /\ EdgesHaveEnds'
    BY <1>0, <2>1, Undisturbed
  <2> QED
    BY <2>2, <2>3 DEF ClusterInv
<1> QED
  BY <1>1, <1>2, <1>3, <1>4, <1>5

-----------------------------------------------------------------------------
LEMMA ClusterInvariant == Spec => []ClusterInv
<1>1. Init => ClusterInv
  <2> SUFFICES ASSUME Init PROVE ClusterInv
    OBVIOUS
  <2>1. member \in [Chunks \X Ids -> Nat] /\ \A x \in Chunks, k \in Ids : member[<<x, k>>] = 0
    BY DEF Init
  <2>2. TypeOK
    <3>1. topics = <<>> /\ batch = <<>> /\ at = 1
      BY DEF Init
    <3>2. topics \in Seq(Seq(Names)) /\ batch \in Seq(Ops) /\ at \in Nat \ {0}
      BY <3>1
    <3>3. home \in [Chunks -> InfomapIds \cup {None}] /\ summary \in [Ids -> {"", "llm", "title"}]
      BY DEF Init
    <3>4. phase \in Phases /\ clusters = {} /\ above = {} /\ largest = None /\ target = None
      BY DEF Init, Phases
    <3>5. faithful \in BOOLEAN
      BY DEF Init
    <3> QED
      BY <2>1, <3>2, <3>3, <3>4, <3>5 DEF TypeOK, Modules
  <2>3. NoChunkLost
    BY DEF Init, NoChunkLost
  <2>4. EdgesHaveEnds
    <3>1. above = {}
      BY DEF Init
    <3>2. \A x \in Chunks, k \in Ids : member[<<x, k>>] > 0 => k \in clusters
      BY <2>1
    <3> QED
      BY <3>1, <3>2 DEF EdgesHaveEnds
  <2>5. LoopsHaveNodes
    BY DEF Init, LoopsHaveNodes
  <2> QED
    BY <2>2, <2>3, <2>4, <2>5 DEF ClusterInv
<1>2. ClusterInv /\ [Next]_vars => ClusterInv'
  <2> SUFFICES ASSUME ClusterInv, [Next]_vars PROVE ClusterInv'
    OBVIOUS
  <2>1. CASE Next
    BY <2>1, SplitKeeps, ApplyKeeps, StagesKeep DEF Next
  <2>2. CASE UNCHANGED vars
    BY <2>2 DEF vars, ClusterInv, TypeOK, NoChunkLost, EdgesHaveEnds, LoopsHaveNodes
  <2> QED
    BY <2>1, <2>2
<1> QED
  BY <1>1, <1>2, PTL DEF Spec

\* Whatever Infomap and the language model answer, every variable keeps its
\* type: no edge is removed that is not there (cluster_graph.py, recluster.py).
THEOREM TypeCorrect == Spec => []TypeOK
<1>1. ClusterInv => TypeOK
  BY DEF ClusterInv
<1> QED
  BY <1>1, ClusterInvariant, PTL

\* Whatever Infomap and the language model answer, the clustering keeps its
\* types, loses no chunk, and every edge of it ends at a cluster that is there.
THEOREM ClusteringKeepsChunks == Spec => [](TypeOK /\ NoChunkLost /\ EdgesHaveEnds)
<1>1. ClusterInv => TypeOK /\ NoChunkLost /\ EdgesHaveEnds
  BY DEF ClusterInv
<1> QED
  BY <1>1, ClusterInvariant, PTL

\* Every edge of the clustering ends at a cluster that is in the graph, whatever
\* the language model proposes (graph_ops.py:23-77, cluster_graph.py:224-226).
COROLLARY EdgesStay == Spec => []EdgesHaveEnds
BY ClusteringKeepsChunks, PTL

-----------------------------------------------------------------------------
(* Faithful answers: one cluster for each chunk, and two tiers.            *)

\* Chunk x has one edge, to cluster k.
OnlyIn(m, x, k) == m[<<x, k>>] = 1 /\ \A j \in Ids \ {k} : m[<<x, j>>] = 0

OneHome(m, x) ==
  IF home[x] = None THEN \A k \in Ids : m[<<x, k>>] = 0 ELSE \E k \in Ids : OnlyIn(m, x, k)

\* A move that is still to be applied, and contradicts no other, finds its chunk
\* where it was when the model was asked.
MovesFit ==
  phase = "moving" =>
    /\ batch \in Seq(MoveOps)
    /\ faithful => \A i \in DOMAIN batch : i >= at /\ Kept(i) =>
                     batch[i].chunk \in Chunks /\ member[<<batch[i].chunk, batch[i].src>>] > 0

\* What the model proposes for the second tier: parents that are new, and
\* children that are not.
TreeFits ==
  phase = "growing" /\ faithful =>
    \A i \in DOMAIN batch :
      /\ batch[i].op \in {"create", "adopt"}
      /\ batch[i].op = "create" => IF i < at THEN summary[batch[i].id] = "title"
                                             ELSE summary[batch[i].id] # "llm"
      /\ batch[i].op = "adopt" =>
           /\ summary[batch[i].child] = "llm"
           /\ \E j \in 1..(i - 1) : batch[j].op = "create" /\ batch[j].id = batch[i].parent

\* A cluster has a summary of the language model from _summarize_clusters on,
\* and there is no second tier before the model has been asked for it.
TiersFit ==
  /\ phase \in {"infomap", "split", "splitting", "regroup", "moving", "summarize"} =>
       \A k \in Ids : summary[k] = ""
  /\ phase = "hierarchy" => \A k \in Ids : summary[k] = IF k \in clusters THEN "llm" ELSE ""
  /\ phase \notin {"growing", "done"} => above = {}

FaithfulInv ==
  /\ phase # "infomap" /\ faithful => \A x \in Chunks : OneHome(member, x)
  /\ MovesFit /\ TreeFits /\ TiersFit /\ TwoTier

\* Moving a chunk out of its only cluster leaves it in one, and the other chunks
\* where they are.
LEMMA MoveKeepsHome ==
  ASSUME NEW m \in Counts, NEW x \in Chunks, NEW k \in Ids, NEW d \in Ids, OnlyIn(m, x, k),
         NEW n, n = Link(Unlink(m, x, k), x, d)
  PROVE  /\ OnlyIn(n, x, d)
         /\ \A y \in Chunks, j \in Ids : y # x => n[<<y, j>>] = m[<<y, j>>]
<1> DEFINE u == Unlink(m, x, k)
<1>1. /\ u \in Counts
      /\ \A y \in Chunks, j \in Ids : u[<<y, j>>] = IF y = x /\ j = k THEN m[<<x, k>>] - 1 ELSE m[<<y, j>>]
  BY DEF Unlink, Counts, OnlyIn
<1> HIDE DEF u
<1>2. \A y \in Chunks, j \in Ids : n[<<y, j>>] = IF y = x /\ j = d THEN u[<<x, d>>] + 1 ELSE u[<<y, j>>]
  BY <1>1 DEF Link, Counts, u
<1>3. \A j \in Ids : u[<<x, j>>] = 0
  BY <1>1 DEF OnlyIn
<1>4. \A y \in Chunks, j \in Ids : y # x => n[<<y, j>>] = m[<<y, j>>]
  BY <1>1, <1>2
<1>5. OnlyIn(n, x, d)
  BY <1>2, <1>3 DEF OnlyIn
<1> QED
  BY <1>4, <1>5

\* A chunk that has an edge to a cluster has its only edge there.
LEMMA HomeIsUnique ==
  ASSUME NEW x \in Chunks, OneHome(member, x), NEW k \in Ids, member[<<x, k>>] > 0
  PROVE  OnlyIn(member, x, k) /\ home[x] # None
<1>1. home[x] # None
  BY DEF OneHome
<1>2. PICK j \in Ids : OnlyIn(member, x, j)
  BY <1>1 DEF OneHome
<1>3. j = k
  BY <1>2 DEF OnlyIn
<1> QED
  BY <1>1, <1>2, <1>3

\* A step that moves one chunk, out of its only cluster, leaves every chunk in
\* one.
LEMMA HomesKept ==
  ASSUME member \in Counts, NEW x \in Chunks, NEW k \in Ids, NEW d \in Ids, member[<<x, k>>] > 0,
         member' = Link(Unlink(member, x, k), x, d), home' = home,
         \A y \in Chunks : OneHome(member, y)
  PROVE  /\ \A y \in Chunks : OneHome(member, y)'
         /\ \A y \in Chunks, j \in Ids : y # x => member'[<<y, j>>] = member[<<y, j>>]
<1>1. OnlyIn(member, x, k) /\ home[x] # None
  BY HomeIsUnique
<1>2. OnlyIn(member', x, d) /\ \A y \in Chunks, j \in Ids : y # x => member'[<<y, j>>] = member[<<y, j>>]
  BY <1>1, MoveKeepsHome
<1>3. ASSUME NEW y \in Chunks PROVE OneHome(member, y)'
  <2>1. CASE y = x
    BY <1>1, <1>2, <2>1 DEF OneHome
  <2>2. CASE y # x
    <3>1. \A j \in Ids : member'[<<y, j>>] = member[<<y, j>>]
      BY <1>2, <2>2
    <3>2. OneHome(member, y)
      OBVIOUS
    <3> QED
      BY <3>1, <3>2 DEF OneHome, OnlyIn
  <2> QED
    BY <2>1, <2>2
<1> QED
  BY <1>2, <1>3

\* The second tier is still to come, and nothing is summarised.
NoTiersYet ==
  /\ phase \notin {"hierarchy", "growing", "done"} /\ above = {}
  /\ phase # "failed" => \A k \in Ids : summary[k] = ""

LEMMA EarlyIsFlat ==
  ASSUME NoTiersYet
  PROVE  TiersFit /\ TwoTier /\ TreeFits
BY DEF NoTiersYet, TiersFit, TwoTier, TreeFits

-----------------------------------------------------------------------------
\* The inductive step for faithful answers, in _split_clusters.
LEMMA SplitIsFaithful ==
  ASSUME ClusterInv, FaithfulInv, Assign \/ Split
  PROVE  FaithfulInv'
<1>0. TypeOK /\ LoopsHaveNodes /\ TiersFit
  BY DEF ClusterInv, FaithfulInv
<1>1. CASE Assign
  <2>1. /\ phase = "infomap" /\ phase' = "split" /\ UNCHANGED <<above, summary>>
        /\ home' \in [Chunks -> InfomapIds \cup {None}]
        /\ member' = [e \in Chunks \X Ids |-> IF home'[e[1]] = e[2] THEN 1 ELSE 0]
    BY <1>1 DEF Assign, Modules
  <2>2. \A x \in Chunks, k \in Ids : member'[<<x, k>>] = IF home'[x] = k THEN 1 ELSE 0
    BY <2>1
  <2>3. ASSUME NEW x \in Chunks PROVE OneHome(member, x)'
    <3>1. CASE home'[x] = None
      BY <2>2, <3>1, ClusterAssumption DEF OneHome
    <3>2. CASE home'[x] # None
      <4>1. home'[x] \in Ids
        BY <2>1, <3>2, ClusterAssumption
      <4>2. OnlyIn(member', x, home'[x])
        BY <2>2, <4>1 DEF OnlyIn
      <4> QED
        BY <3>2, <4>1, <4>2 DEF OneHome
    <3> QED
      BY <3>1, <3>2
  <2>4. NoTiersYet'
    BY <1>0, <2>1 DEF NoTiersYet, TiersFit
  <2>5. MovesFit'
    BY <2>1 DEF MovesFit
  <2> QED
    BY <2>3, <2>4, <2>5, EarlyIsFlat DEF FaithfulInv, NoTiersYet, TiersFit, TwoTier, TreeFits
<1>2. CASE Split
  <2>1. /\ phase \in {"split", "splitting"} /\ phase' \in {"split", "splitting", "regroup", "failed"}
        /\ UNCHANGED <<home, above, faithful>>
    BY <1>2 DEF Split, NothingToSplit, SkipSplit, AskSplit, BeginTopic, TakeChunk, TakeStray,
                EndTopic, EndSplit, Fail
  <2>2. \A k \in Ids : summary'[k] = ""
    <3>1. \/ summary' = summary
          \/ \E t \in SplitIds : summary' = [summary EXCEPT ![t] = ""]
      BY <1>2 DEF Split, NothingToSplit, SkipSplit, AskSplit, BeginTopic, TakeChunk, TakeStray,
                  EndTopic, EndSplit, Fail
    <3> QED
      BY <1>0, <2>1, <3>1, ClusterAssumption DEF TypeOK, TiersFit
  <2>3. NoTiersYet' /\ MovesFit'
    BY <1>0, <2>1, <2>2 DEF NoTiersYet, TiersFit, MovesFit
  <2>4. ASSUME faithful PROVE \A x \in Chunks : OneHome(member, x)'
    <3>1. \A x \in Chunks : OneHome(member, x)
      BY <2>1, <2>4 DEF FaithfulInv
    <3>2. CASE member' = member
      BY <2>1, <3>1, <3>2 DEF OneHome, OnlyIn
    <3>3. CASE TakeChunk /\ member' # member
      <4> DEFINE x == Head(Head(topics))
      <4>1. /\ x \in Chunks /\ x \in Children(largest) /\ home' = home
            /\ member' = Link(Unlink(member, x, largest), x, target)
        BY <3>3 DEF TakeChunk
      <4>2. /\ largest \in Ids /\ target \in Ids
            /\ member \in Counts /\ member[<<x, largest>>] > 0
        BY <1>0, <2>1, <3>3, <4>1 DEF TakeChunk, LoopsHaveNodes, TypeOK, Children, Counts
      <4> HIDE DEF x
      <4> QED
        BY ONLY <3>1, <4>1, <4>2, HomesKept
    <3> QED
      BY <1>2, <3>2, <3>3 DEF Split, NothingToSplit, SkipSplit, AskSplit, BeginTopic, TakeStray,
                              EndTopic, EndSplit, Fail
  <2> QED
    BY <2>1, <2>3, <2>4 DEF FaithfulInv, NoTiersYet, TiersFit, TwoTier, TreeFits
<1> QED
  BY <1>1, <1>2

-----------------------------------------------------------------------------
\* The inductive step for faithful answers, while moves are applied.
LEMMA MovesAreFaithful ==
  ASSUME ClusterInv, FaithfulInv, AskMoves \/ EndMoves \/ (phase = "moving" /\ Apply)
  PROVE  FaithfulInv'
<1>0. TypeOK /\ LoopsHaveNodes /\ TiersFit /\ MovesFit
  BY DEF ClusterInv, FaithfulInv
<1>1. CASE AskMoves
  <2>1. /\ phase = "regroup" /\ phase' = "moving" /\ batch' \in MoveAnswers
        /\ faithful' => faithful /\ HonestMoves(batch')
        /\ UNCHANGED <<home, clusters, member, above, summary>>
    BY <1>0, <1>1 DEF AskMoves, TypeOK
  <2>2. batch' \in Seq(MoveOps)
    BY <2>1, ClusterAssumption
  <2>3. faithful' => \A i \in DOMAIN batch' :
                       batch'[i].chunk \in Chunks /\ member[<<batch'[i].chunk, batch'[i].src>>] > 0
    BY <2>1 DEF HonestMoves, Children
  <2>4. MovesFit'
    BY <2>1, <2>2, <2>3 DEF MovesFit
  <2>5. NoTiersYet'
    BY <1>0, <2>1 DEF NoTiersYet, TiersFit
  <2>6. faithful' => \A x \in Chunks : OneHome(member, x)'
    BY <2>1 DEF FaithfulInv, OneHome, OnlyIn
  <2> QED
    BY <2>4, <2>5, <2>6 DEF FaithfulInv, NoTiersYet, TiersFit, TwoTier, TreeFits
<1>2. CASE EndMoves
  <2>1. /\ phase = "moving" /\ phase' = "summarize"
        /\ UNCHANGED <<home, clusters, member, above, summary, faithful>>
    BY <1>2 DEF EndMoves
  <2>2. NoTiersYet' /\ MovesFit'
    BY <1>0, <2>1 DEF NoTiersYet, TiersFit, MovesFit
  <2>3. faithful' => \A x \in Chunks : OneHome(member, x)'
    BY <2>1 DEF FaithfulInv, OneHome, OnlyIn
  <2> QED
    BY <2>2, <2>3 DEF FaithfulInv, NoTiersYet, TiersFit, TwoTier, TreeFits
<1>3. CASE phase = "moving" /\ Apply
  <2> DEFINE o == batch[at]
  <2>1. /\ batch \in Seq(MoveOps)
        /\ \A i \in DOMAIN batch : i \in Nat /\ batch[i] \in MoveOps /\ batch[i].op = "move"
    <3>1. batch \in Seq(MoveOps)
      BY <1>0, <1>3 DEF MovesFit
    <3>2. \A i \in DOMAIN batch : i \in Nat /\ batch[i] \in MoveOps
      BY <3>1
    <3>3. \A p \in MoveOps : p.op = "move"
      BY DEF MoveOps
    <3> QED
      BY <3>1, <3>2, <3>3
  <2>2. at \in Nat \ {0}
    BY <1>0 DEF TypeOK
  <2>3. at \in DOMAIN batch /\ at' = at + 1
    BY <1>3, <2>1, <2>2 DEF Apply, ApplyMove, ApplyCreate, ApplyAdopt, SkipOp, Current
  <2>4. ~ApplyCreate /\ ~ApplyAdopt
    BY <2>1, <2>3 DEF ApplyCreate, ApplyAdopt, Current
  <2>5. UNCHANGED <<phase, home, clusters, above, summary, batch, faithful>>
    BY <1>3, <2>4 DEF Apply, ApplyMove, SkipOp
  <2>6. NoTiersYet'
    BY <1>0, <1>3, <2>5 DEF NoTiersYet, TiersFit
  <2>7. ASSUME faithful
        PROVE  /\ \A x \in Chunks : OneHome(member, x)'
               /\ \A i \in DOMAIN batch : i > at /\ Kept(i) =>
                    batch[i].chunk \in Chunks /\ member'[<<batch[i].chunk, batch[i].src>>] > 0
    <3>1. /\ \A x \in Chunks : OneHome(member, x)
          /\ \A i \in DOMAIN batch : i >= at /\ Kept(i) =>
               batch[i].chunk \in Chunks /\ member[<<batch[i].chunk, batch[i].src>>] > 0
      BY <1>0, <1>3, <2>7 DEF FaithfulInv, MovesFit
    <3>2. CASE SkipOp
      <4>1. member' = member
        BY <3>2 DEF SkipOp
      <4>2. \A x \in Chunks : OneHome(member, x)'
        BY <2>5, <3>1, <4>1 DEF OneHome, OnlyIn
      <4>3. \A i \in DOMAIN batch : i > at => i >= at
        BY <2>1, <2>2
      <4> QED
        BY <3>1, <4>1, <4>2, <4>3
    <3>3. CASE ApplyMove
      <4>1. Kept(at) /\ o.src \in Ids /\ o.dst \in Ids
        BY <1>0, <3>3 DEF ApplyMove, Moves, TypeOK
      <4>2. o.chunk \in Chunks /\ member[<<o.chunk, o.src>>] > 0
        BY <2>2, <2>3, <3>1, <4>1
      <4>3. member' = Link(Unlink(member, o.chunk, o.src), o.chunk, o.dst)
        BY <3>3, <4>2 DEF ApplyMove, Children
      <4>4. member \in Counts
        BY <1>0 DEF TypeOK, Counts
      <4>5. /\ \A y \in Chunks : OneHome(member, y)'
            /\ \A y \in Chunks, j \in Ids : y # o.chunk => member'[<<y, j>>] = member[<<y, j>>]
        <5> HIDE DEF o
        <5> QED BY ONLY <2>5, <3>1, <4>1, <4>2, <4>3, <4>4, HomesKept
      <4>6. ASSUME NEW i \in DOMAIN batch, i > at, Kept(i)
            PROVE  batch[i].chunk \in Chunks /\ member'[<<batch[i].chunk, batch[i].src>>] > 0
        <5>1. /\ batch[i].chunk \in Chunks /\ member[<<batch[i].chunk, batch[i].src>>] > 0
              /\ batch[i].src \in Ids
          BY <2>1, <2>2, <3>1, <4>6 DEF MoveOps
        <5>2. batch[i].chunk # o.chunk
          <6>1. SUFFICES ASSUME batch[i].chunk = o.chunk PROVE FALSE
            OBVIOUS
          <6>2. OnlyIn(member, o.chunk, o.src) /\ OnlyIn(member, o.chunk, batch[i].src)
            BY <3>1, <4>1, <4>2, <5>1, <6>1, HomeIsUnique
          <6>3. batch[i].src = o.src
            BY <4>1, <5>1, <6>2 DEF OnlyIn
          <6> QED
            BY <2>1, <2>2, <2>3, <4>6, <6>1, <6>3 DEF Kept
        <5> QED
          BY <4>5, <5>1, <5>2
      <4> QED
        BY <4>5, <4>6
    <3> QED
      BY <1>3, <2>4, <3>2, <3>3 DEF Apply
  <2>8. MovesFit'
    <3>1. \A i \in DOMAIN batch : Kept(i)' = Kept(i)
      BY <2>5 DEF Kept
    <3>2. \A i \in DOMAIN batch : i >= at' => i > at
      BY <2>1, <2>2, <2>3
    <3> QED
      BY <2>1, <2>5, <2>7, <3>1, <3>2 DEF MovesFit
  <2> QED
    BY <2>5, <2>6, <2>7, <2>8 DEF FaithfulInv, NoTiersYet, TiersFit, TwoTier, TreeFits
<1> QED
  BY <1>1, <1>2, <1>3

-----------------------------------------------------------------------------
\* The inductive step for faithful answers, from the summaries to the end.
LEMMA TreeIsFaithful ==
  ASSUME ClusterInv, FaithfulInv,
         Summarize \/ AskTree \/ EndTree \/ LlmFails \/ (phase = "growing" /\ Apply)
  PROVE  FaithfulInv'
<1>0. TypeOK /\ EdgesHaveEnds /\ TiersFit /\ TwoTier /\ TreeFits
  BY DEF ClusterInv, FaithfulInv
<1>1. ASSUME UNCHANGED <<home, member, faithful>>, phase # "infomap"
      PROVE  faithful' => \A x \in Chunks : OneHome(member, x)'
  BY <1>1 DEF FaithfulInv, OneHome, OnlyIn
<1>2. CASE Summarize
  <2>1. /\ phase = "summarize" /\ phase' = "hierarchy"
        /\ \A k \in Ids : summary'[k] = IF k \in clusters THEN "llm" ELSE summary[k]
        /\ UNCHANGED <<home, clusters, member, above, faithful>>
    BY <1>2 DEF Summarize
  <2>2. TiersFit'
    BY <1>0, <2>1 DEF TiersFit
  <2>3. TwoTier'
    <3>1. above' = {}
      BY <1>0, <2>1 DEF TiersFit
    <3>2. \A x \in Chunks, k \in Ids : member[<<x, k>>] > 0 => summary'[k] = "llm"
      BY <1>0, <2>1 DEF EdgesHaveEnds
    <3> QED
      BY <2>1, <3>1, <3>2 DEF TwoTier
  <2> QED
    BY <1>1, <2>1, <2>2, <2>3 DEF FaithfulInv, MovesFit, TreeFits
<1>3. CASE AskTree
  <2>1. /\ phase = "hierarchy" /\ phase' = "growing" /\ at' = 1
        /\ faithful' => faithful /\ HonestTree(batch')
        /\ UNCHANGED <<home, clusters, member, above, summary>>
        /\ batch' \in TreeAnswers
    BY <1>0, <1>3 DEF AskTree, TypeOK
  <2>2. batch' \in Seq(Ops)
    BY <2>1, AnswersType
  <2>3. \A k \in Ids : summary[k] = IF k \in clusters THEN "llm" ELSE ""
    BY <1>0, <2>1 DEF TiersFit
  <2>4. ASSUME faithful', NEW i \in DOMAIN batch'
        PROVE  /\ batch'[i].op \in {"create", "adopt"} /\ ~(i < at')
               /\ batch'[i].op = "create" => summary[batch'[i].id] # "llm"
               /\ batch'[i].op = "adopt" =>
                    /\ summary[batch'[i].child] = "llm"
                    /\ \E j \in 1..(i - 1) : batch'[j].op = "create" /\ batch'[j].id = batch'[i].parent
    <3>1. batch'[i] \in Ops /\ ~(i < at')
      BY <2>1, <2>2
    <3>2. /\ batch'[i].op \in {"create", "adopt"}
          /\ batch'[i].op = "create" => batch'[i].id \notin clusters
          /\ batch'[i].op = "adopt" =>
               /\ batch'[i].child \in clusters
               /\ \E j \in 1..(i - 1) : batch'[j].op = "create" /\ batch'[j].id = batch'[i].parent
      BY <2>1, <2>4 DEF HonestTree
    <3>3. batch'[i].op = "create" => batch'[i].id \in Ids
      BY <3>1 DEF Ops, MoveOps, CreateOps, AdoptOps
    <3>4. batch'[i].op = "adopt" => batch'[i].child \in Ids
      BY <3>1 DEF Ops, MoveOps, CreateOps, AdoptOps
    <3> QED
      BY <2>3, <3>1, <3>2, <3>3, <3>4
  <2>5. TreeFits'
    BY <2>1, <2>4 DEF TreeFits
  <2>6. above' = {} /\ \A x \in Chunks, k \in Ids : member[<<x, k>>] > 0 => summary[k] = "llm"
    BY <1>0, <2>1, <2>3 DEF TiersFit, EdgesHaveEnds
  <2>7. TwoTier' /\ TiersFit' /\ MovesFit'
    BY <2>1, <2>6 DEF TwoTier, TiersFit, MovesFit
  <2>8. faithful' => \A x \in Chunks : OneHome(member, x)'
    BY <2>1 DEF FaithfulInv, OneHome, OnlyIn
  <2> QED
    BY <2>5, <2>7, <2>8 DEF FaithfulInv
<1>4. CASE EndTree \/ LlmFails
  <2>1. /\ phase # "infomap" /\ phase' \in {"done", "failed"}
        /\ phase' = "done" => phase = "growing"
        /\ phase' = "failed" => phase \notin {"growing", "done"}
        /\ UNCHANGED <<home, clusters, member, above, summary, faithful>>
    BY <1>4 DEF EndTree, LlmFails, Fail
  <2>2. TiersFit'
    BY <1>0, <2>1 DEF TiersFit
  <2>3. TwoTier'
    BY <1>0, <2>1 DEF TwoTier
  <2> QED
    BY <1>1, <2>1, <2>2, <2>3 DEF FaithfulInv, MovesFit, TreeFits
<1>5. CASE phase = "growing" /\ Apply
  <2> DEFINE o == batch[at]
  <2>1. /\ at \in DOMAIN batch /\ at' = at + 1 /\ at \in Nat \ {0} /\ o \in Ops
        /\ \A i \in DOMAIN batch : i \in Nat /\ (i < at' => i < at \/ i = at) /\ (i < at => i < at')
        /\ \A i \in DOMAIN batch : batch[i] \in Ops
    <3>1. at \in Nat \ {0} /\ batch \in Seq(Ops)
      BY <1>0 DEF TypeOK
    <3>2. at <= Len(batch) /\ at' = at + 1
      BY <1>5 DEF Apply, ApplyMove, ApplyCreate, ApplyAdopt, SkipOp, Current
    <3> QED
      BY <3>1, <3>2
  <2>2. UNCHANGED <<phase, home, batch, faithful>>
    BY <1>5 DEF Apply, ApplyMove, ApplyCreate, ApplyAdopt, SkipOp
  <2>3. TiersFit' /\ MovesFit'
    BY <1>5, <2>2 DEF TiersFit, MovesFit
  <2>4. SUFFICES ASSUME faithful
                 PROVE  (\A x \in Chunks : OneHome(member, x)') /\ TreeFits' /\ TwoTier'
    BY <2>2, <2>3 DEF FaithfulInv, TreeFits, TwoTier
  <2>5. o.op \in {"create", "adopt"}
    BY <1>0, <1>5, <2>1, <2>4 DEF TreeFits
  <2>6. member' = member
    BY <1>5, <2>5 DEF Apply, ApplyMove, ApplyCreate, ApplyAdopt, SkipOp, Current
  <2>7. \A x \in Chunks : OneHome(member, x)'
    BY <1>1, <1>5, <2>2, <2>4, <2>6
  <2>8. CASE SkipOp
    <3>1. UNCHANGED <<summary, above>> /\ o.op # "create"
      BY <2>8, <2>5 DEF SkipOp, Current
    <3>2. TreeFits'
      BY <1>0, <1>5, <2>1, <2>2, <2>4, <3>1 DEF TreeFits
    <3>3. TwoTier'
      BY <1>0, <2>2, <2>6, <3>1 DEF TwoTier
    <3> QED
      BY <2>7, <3>2, <3>3
  <2>9. CASE ApplyCreate
    <3>1. /\ o.op = "create" /\ summary' = [summary EXCEPT ![o.id] = "title"] /\ above' = above
      BY <2>9 DEF ApplyCreate, Current
    <3>2. o.id \in Ids
      BY <2>1, <3>1 DEF Ops, MoveOps, CreateOps, AdoptOps
    <3>3. summary[o.id] # "llm"
      BY <1>0, <1>5, <2>1, <2>4, <3>1 DEF TreeFits
    <3> HIDE DEF o
    <3>4. /\ summary'[o.id] = "title"
          /\ \A k \in Ids : summary[k] = "llm" => summary'[k] = "llm"
          /\ \A k \in Ids : summary[k] = "title" => summary'[k] = "title"
          /\ \A k \in Ids : summary[k] # "llm" => summary'[k] # "llm"
      BY <1>0, <3>1, <3>2, <3>3 DEF TypeOK
    <3>5. ASSUME NEW i \in DOMAIN batch
          PROVE  /\ batch[i].op \in {"create", "adopt"}
                 /\ batch[i].op = "create" => IF i < at' THEN summary'[batch[i].id] = "title"
                                                         ELSE summary'[batch[i].id] # "llm"
                 /\ batch[i].op = "adopt" =>
                      /\ summary'[batch[i].child] = "llm"
                      /\ \E j \in 1..(i - 1) : batch[j].op = "create" /\ batch[j].id = batch[i].parent
      <4>1. /\ batch[i].op \in {"create", "adopt"}
            /\ batch[i].op = "create" => IF i < at THEN summary[batch[i].id] = "title"
                                                   ELSE summary[batch[i].id] # "llm"
            /\ batch[i].op = "adopt" =>
                 /\ summary[batch[i].child] = "llm"
                 /\ \E j \in 1..(i - 1) : batch[j].op = "create" /\ batch[j].id = batch[i].parent
        BY <1>0, <1>5, <2>4 DEF TreeFits
      <4>2. batch[i].op = "create" => batch[i].id \in Ids
        BY <2>1 DEF Ops, MoveOps, CreateOps, AdoptOps
      <4>3. batch[i].op = "adopt" => batch[i].child \in Ids
        BY <2>1 DEF Ops, MoveOps, CreateOps, AdoptOps
      <4>4. i = at => batch[i] = o
        BY DEF o
      <4> QED
        BY <2>1, <3>4, <4>1, <4>2, <4>3, <4>4
    <3>6. TreeFits'
      BY <2>2, <3>5 DEF TreeFits
    <3>7. TwoTier'
      <4>1. \A p \in above : p[1] \in Ids /\ p[2] \in Ids
        BY <1>0 DEF TypeOK
      <4> QED
        BY <1>0, <1>5, <2>2, <2>4, <2>6, <3>1, <3>4, <4>1 DEF TwoTier
    <3> QED
      BY <2>7, <3>6, <3>7
  <2>10. CASE ApplyAdopt
    <3>1. /\ o.op = "adopt" /\ summary' = summary /\ above' = above \cup {<<o.child, o.parent>>}
      BY <2>10 DEF ApplyAdopt, Current
    <3>2. summary[o.child] = "llm"
      BY <1>0, <1>5, <2>1, <2>4, <3>1 DEF TreeFits
    <3>3. summary[o.parent] = "title"
      <4>1. PICK j \in 1..(at - 1) : batch[j].op = "create" /\ batch[j].id = o.parent
        BY <1>0, <1>5, <2>1, <2>4, <3>1 DEF TreeFits
      <4>2. j \in DOMAIN batch /\ j < at
        <5>1. batch \in Seq(Ops) BY <1>0 DEF TypeOK
        <5> QED BY <2>1, <4>1, <5>1
      <4> QED
        BY <1>0, <1>5, <2>4, <4>1, <4>2 DEF TreeFits
    <3>4. TreeFits'
      BY <1>0, <1>5, <2>1, <2>2, <2>4, <3>1 DEF TreeFits
    <3>5. TwoTier'
      <4> HIDE DEF o
      <4> QED
        BY <1>0, <2>2, <2>4, <2>6, <3>1, <3>2, <3>3 DEF TwoTier
    <3> QED
      BY <2>7, <3>4, <3>5
  <2>11. ~ApplyMove
    BY <2>5 DEF ApplyMove, Current
  <2> QED
    BY <1>5, <2>8, <2>9, <2>10, <2>11 DEF Apply
<1> QED
  BY <1>2, <1>3, <1>4, <1>5

LEMMA FaithfulInvariant == Spec => []FaithfulInv
<1>1. Init => FaithfulInv
  BY DEF Init, FaithfulInv, MovesFit, TreeFits, TiersFit, TwoTier
<1>2. ClusterInv /\ FaithfulInv /\ [Next]_vars => FaithfulInv'
  <2> SUFFICES ASSUME ClusterInv, FaithfulInv, [Next]_vars PROVE FaithfulInv'
    OBVIOUS
  <2>1. CASE Assign \/ Split
    BY <2>1, SplitIsFaithful
  <2>2. CASE AskMoves \/ EndMoves
    BY <2>2, MovesAreFaithful
  <2>3. CASE Summarize \/ AskTree \/ EndTree \/ LlmFails
    BY <2>3, TreeIsFaithful
  <2>4. CASE Apply
    <3>1. phase \in {"moving", "growing"}
      BY <2>4 DEF Apply, ApplyMove, ApplyCreate, ApplyAdopt, SkipOp, Current
    <3> QED
      BY <2>4, <3>1, MovesAreFaithful, TreeIsFaithful
  <2>5. CASE UNCHANGED vars
    <3>1. MovesFit' /\ TreeFits'
      BY <2>5 DEF vars, FaithfulInv, MovesFit, TreeFits, Kept
    <3>2. TiersFit' /\ TwoTier'
      BY <2>5 DEF vars, FaithfulInv, TiersFit, TwoTier
    <3>3. (phase # "infomap" /\ faithful => \A x \in Chunks : OneHome(member, x))'
      BY <2>5 DEF vars, FaithfulInv, OneHome, OnlyIn
    <3> QED
      BY <2>5, <3>1, <3>2, <3>3 DEF vars, FaithfulInv, OneHome, OnlyIn
  <2> QED
    BY <2>1, <2>2, <2>3, <2>4, <2>5 DEF Next
<1> QED
  BY <1>1, <1>2, ClusterInvariant, PTL DEF Spec

\* As long as the answers keep to what their prompts ask for, every chunk that
\* Infomap put in a cluster has one edge, to one cluster, and the others none,
\* also when moves contradict each other (recluster.py:99-127, graph_ops.py:23-48).
THEOREM FaithfulMovesPartition == Spec => []OneClusterEach
<1>1. FaithfulInv => OneClusterEach
  <2> SUFFICES ASSUME FaithfulInv, faithful, phase # "infomap", NEW x \in Chunks
               PROVE  /\ Cardinality(In(x)) = (IF home[x] = None THEN 0 ELSE 1)
                      /\ \A k \in In(x) : member[<<x, k>>] = 1
    BY DEF OneClusterEach, Partitioned
  <2>1. OneHome(member, x)
    BY DEF FaithfulInv
  <2>2. CASE home[x] = None
    <3>1. In(x) = {}
      BY <2>1, <2>2 DEF OneHome, In
    <3> QED
      BY <2>2, <3>1, FS_EmptySet
  <2>3. CASE home[x] # None
    <3>1. PICK k \in Ids : OnlyIn(member, x, k)
      BY <2>1, <2>3 DEF OneHome
    <3>2. In(x) = {k}
      BY <3>1 DEF OnlyIn, In
    <3>3. Cardinality(In(x)) = 1 /\ \A j \in In(x) : member[<<x, j>>] = 1
      BY <3>1, <3>2, FS_Singleton DEF OnlyIn
    <3> QED
      BY <2>3, <3>3
  <2> QED
    BY <2>2, <2>3
<1> QED
  BY <1>1, FaithfulInvariant, PTL

\* If the answers keep to their prompts, what adopts is created and not adopted,
\* and every cluster of chunks keeps the summary it got (hierarchal.py, graph_ops.py:51-77).
THEOREM FaithfulTreesHaveTwoTiers == Spec => []TwoTier
<1>1. FaithfulInv => TwoTier
  BY DEF FaithfulInv
<1> QED
  BY <1>1, FaithfulInvariant, PTL

-----------------------------------------------------------------------------
(* Refinement: ChunkCover.                                                 *)

\* The clusters of every chunk, as ChunkCover has them.
Covers == [x \in Chunks |-> In(x)]

\* A step that keeps to one edge's chunk: it is taken out of cluster k if n counts
\* no edge there any more, and put in d.
LEMMA LinkMovesCover ==
  ASSUME member \in Counts, NEW x \in Chunks, NEW k \in Ids, NEW d \in Ids, Holds(member, x, k),
         member' = Link(Unlink(member, x, k), x, d)
  PROVE  /\ k \in In(x)
         /\ \/ Covers' = [Covers EXCEPT ![x] = (@ \ {k}) \cup {d}]
            \/ Covers' = [Covers EXCEPT ![x] = @ \cup {d}] /\ member[<<x, k>>] > 1
<1> DEFINE u == Unlink(member, x, k)
<1>1. /\ u \in Counts
      /\ \A y \in Chunks, j \in Ids :
           u[<<y, j>>] = IF y = x /\ j = k THEN member[<<x, k>>] - 1 ELSE member[<<y, j>>]
  BY DEF Unlink, Counts, Holds
<1> HIDE DEF u
<1>2. \A y \in Chunks, j \in Ids : member'[<<y, j>>] = IF y = x /\ j = d THEN u[<<x, d>>] + 1 ELSE u[<<y, j>>]
  BY <1>1 DEF Link, Counts, u
<1>3. \A y \in Chunks \ {x} : In(y)' = In(y)
  BY <1>1, <1>2 DEF In
<1>4. k \in In(x) /\ d \in In(x)'
  BY <1>1, <1>2 DEF In, Holds, Counts
<1>5. \A j \in Ids : j # k /\ j # d => (j \in In(x)' <=> j \in In(x))
  BY <1>1, <1>2 DEF In
<1>6. k # d => (k \in In(x)' <=> member[<<x, k>>] > 1)
  BY <1>1, <1>2 DEF In, Counts
<1>7. In(x) \subseteq Ids /\ In(x)' \subseteq Ids
  BY DEF In
<1>8. In(x)' = (In(x) \ {k}) \cup {d} \/ (In(x)' = In(x) \cup {d} /\ member[<<x, k>>] > 1)
  <2>1. CASE k = d \/ ~(member[<<x, k>>] > 1)
    BY <1>4, <1>5, <1>6, <1>7, <2>1
  <2>2. CASE k # d /\ member[<<x, k>>] > 1
    BY <1>4, <1>5, <1>6, <1>7, <2>2
  <2> QED
    BY <2>1, <2>2
<1> QED
  BY <1>3, <1>4, <1>8 DEF Covers

\* Adding an edge puts its chunk in the cluster at its end.
LEMMA LinkExtendsCover ==
  ASSUME member \in Counts, NEW x \in Chunks, NEW d \in Ids, member' = Link(member, x, d)
  PROVE  Covers' = [Covers EXCEPT ![x] = @ \cup {d}]
<1>1. \A y \in Chunks, j \in Ids :
        member'[<<y, j>>] = IF y = x /\ j = d THEN member[<<x, d>>] + 1 ELSE member[<<y, j>>]
  BY DEF Link, Counts
<1>2. \A y \in Chunks \ {x} : In(y)' = In(y)
  BY <1>1 DEF In
<1>3. In(x)' = In(x) \cup {d}
  BY <1>1 DEF In, Counts
<1> QED
  BY <1>2, <1>3 DEF Covers

\* A step that leaves the edges alone leaves the cover alone.
LEMMA CoverFrame ==
  ASSUME UNCHANGED member
  PROVE  Covers' = Covers
BY DEF Covers, In

\* Infomap puts each chunk in its module, and the modules are the clusters.
LEMMA AssignPlaces ==
  ASSUME Assign
  PROVE  Cover!Place
<1>1. /\ phase = "infomap" /\ phase' = "split" /\ faithful' = faithful
      /\ home' \in [Chunks -> InfomapIds \cup {None}]
      /\ clusters' = {home'[x] : x \in Chunks} \ {None}
      /\ member' = [e \in Chunks \X Ids |-> IF home'[e[1]] = e[2] THEN 1 ELSE 0]
  BY DEF Assign, Modules
<1>2. InfomapIds \subseteq Ids /\ None \notin Ids
  BY ClusterAssumption
<1>3. ASSUME NEW x \in Chunks
      PROVE  /\ In(x)' = IF home'[x] = None THEN {} ELSE {home'[x]}
             /\ In(x)' \in {{}} \cup {{k} : k \in Ids}
  <2>1. \A k \in Ids : member'[<<x, k>>] = IF home'[x] = k THEN 1 ELSE 0
    BY <1>1
  <2>2. home'[x] = None \/ home'[x] \in Ids
    BY <1>1, <1>2
  <2>3. In(x)' = {k \in Ids : home'[x] = k}
    BY <2>1 DEF In
  <2> QED
    BY <1>2, <2>2, <2>3
<1>4. Covers' \in [Chunks -> {{}} \cup {{k} : k \in Ids}]
  BY <1>3 DEF Covers
<1>5. clusters' = UNION {Covers'[x] : x \in Chunks}
  <2>1. \A x \in Chunks : Covers'[x] = IF home'[x] = None THEN {} ELSE {home'[x]}
    BY <1>3 DEF Covers
  <2>2. ASSUME NEW k
        PROVE  k \in clusters' <=> \E x \in Chunks : k \in Covers'[x]
    BY <1>1, <2>1
  <2> QED
    BY <2>2
<1> QED
  BY <1>1, <1>4, <1>5 DEF Cover!Place, Covers

\* After Infomap, a step that leaves edges, clusters and trust alone stutters.
LEMMA CoverStutters ==
  ASSUME phase # "infomap", phase' # "infomap", UNCHANGED <<member, clusters, faithful>>
  PROVE  UNCHANGED Cover!cvars
<1>1. Covers' = Covers
  BY CoverFrame
<1> QED
  BY <1>1 DEF Cover!cvars, Covers

\* Taking a chunk out of a cluster it is in, for one that is there, moves it; two
\* edges to one cluster there are only after an answer against its prompt.
LEMMA MovesInCover ==
  ASSUME ClusterInv, FaithfulInv, phase # "infomap", UNCHANGED <<phase, clusters, faithful>>,
         NEW x \in Chunks, NEW k \in Ids, NEW d \in Ids, d \in clusters, Holds(member, x, k),
         member' = Link(Unlink(member, x, k), x, d)
  PROVE  Cover!Next
<1>1. member \in Counts
  BY DEF ClusterInv, TypeOK, Counts
<1>2. k \in In(x) /\ Covers[x] = In(x)
  BY <1>1, LinkMovesCover DEF Covers
<1>3. CASE Covers' = [Covers EXCEPT ![x] = (@ \ {k}) \cup {d}]
  <2>1. Cover!Move(x, k, d)
    BY <1>2, <1>3 DEF Cover!Move, Covers
  <2> QED
    BY <2>1 DEF Cover!Next
<1>4. CASE Covers' = [Covers EXCEPT ![x] = @ \cup {d}] /\ member[<<x, k>>] > 1
  <2>1. ~faithful
    <3>1. SUFFICES ASSUME faithful PROVE FALSE
      OBVIOUS
    <3>2. OneHome(member, x)
      BY <3>1 DEF FaithfulInv
    <3>3. OnlyIn(member, x, k)
      BY <3>2, HomeIsUnique DEF Holds
    <3> QED
      BY <1>4, <3>3 DEF OnlyIn
  <2>2. Cover!Copy(x, d)
    BY <1>4, <2>1 DEF Cover!Copy, Covers
  <2> QED
    BY <2>2 DEF Cover!Next
<1> QED
  BY <1>1, <1>3, <1>4, LinkMovesCover

\* The steps of _split_clusters move chunks, introduce clusters and drop an
\* empty one.
LEMMA SplitCovers ==
  ASSUME ClusterInv, FaithfulInv, Split
  PROVE  Cover!Next \/ UNCHANGED Cover!cvars
<1>0. TypeOK /\ LoopsHaveNodes
  BY DEF ClusterInv
<1>1. CASE NothingToSplit \/ SkipSplit \/ AskSplit \/ TakeStray \/ EndTopic
  <2>1. phase # "infomap" /\ phase' # "infomap" /\ UNCHANGED <<member, clusters, faithful>>
    BY <1>1 DEF NothingToSplit, SkipSplit, AskSplit, TakeStray, EndTopic, Fail
  <2> QED
    BY <2>1, CoverStutters
<1>2. CASE BeginTopic
  <2>1. /\ phase # "infomap" /\ target' \in Ids /\ clusters' = clusters \cup {target'}
        /\ UNCHANGED <<phase, member, faithful>>
    BY <1>2, ClusterAssumption DEF BeginTopic
  <2>2. Covers' = Covers
    BY <2>1, CoverFrame
  <2>3. PICK k \in Ids : k = target'
    BY <2>1
  <2>4. Cover!Introduce(k)
    BY <2>1, <2>2, <2>3 DEF Cover!Introduce, Covers
  <2> QED
    BY <2>1, <2>4 DEF Cover!Next
<1>3. CASE TakeChunk
  <2> DEFINE x == Head(Head(topics))
  <2>1. /\ phase = "splitting" /\ target # None /\ UNCHANGED <<phase, clusters, faithful>>
        /\ x \in Chunks => x \in Children(largest)
        /\ member' = IF x \in Chunks THEN Link(Unlink(member, x, largest), x, target) ELSE member
    BY <1>3 DEF TakeChunk
  <2>2. target \in clusters /\ target \in Ids /\ largest \in Ids
    BY <1>0, <2>1 DEF LoopsHaveNodes, TypeOK
  <2> HIDE DEF x
  <2>3. CASE x \in Chunks
    <3>1. Holds(member, x, largest) /\ member' = Link(Unlink(member, x, largest), x, target)
      BY <2>1, <2>3 DEF Children, Holds
    <3>2. phase # "infomap"
      BY <2>1
    <3>3. Cover!Next
      BY ONLY ClusterInv, FaithfulInv, <2>1, <2>2, <2>3, <3>1, <3>2, MovesInCover
    <3> QED
      BY <3>3
  <2>4. CASE x \notin Chunks
    <3>1. phase # "infomap" /\ phase' # "infomap" /\ UNCHANGED <<member, clusters, faithful>>
      BY <2>1, <2>4
    <3> QED
      BY <3>1, CoverStutters
  <2> QED
    BY <2>3, <2>4
<1>4. CASE EndSplit
  <2>1. /\ phase = "splitting" /\ phase' = "regroup" /\ UNCHANGED <<member, faithful>>
        /\ clusters' = IF Children(largest) = {} THEN clusters \ {largest} ELSE clusters
    BY <1>4 DEF EndSplit
  <2>2. CASE Children(largest) = {}
    <3>1. largest \in Ids
      BY <1>0, <2>1 DEF LoopsHaveNodes
    <3>2. \A y \in Chunks : largest \notin Covers[y]
      BY <2>2 DEF Covers, In, Children
    <3>3. Covers' = Covers
      BY <2>1, CoverFrame
    <3>4. Cover!Drop(largest)
      BY <2>1, <2>2, <3>2, <3>3 DEF Cover!Drop, Covers
    <3> QED
      BY <2>1, <3>1, <3>4 DEF Cover!Next
  <2>3. CASE Children(largest) # {}
    <3>1. phase # "infomap" /\ phase' # "infomap" /\ UNCHANGED <<member, clusters, faithful>>
      BY <2>1, <2>3
    <3> QED
      BY <3>1, CoverStutters
  <2> QED
    BY <2>2, <2>3
<1> QED
  BY <1>1, <1>2, <1>3, <1>4 DEF Split

\* An operation of a batch moves a chunk, copies one if the batch was against its
\* prompt, introduces a cluster, or leaves the cover alone.
LEMMA ApplyCovers ==
  ASSUME ClusterInv, FaithfulInv, Apply
  PROVE  Cover!Next \/ UNCHANGED Cover!cvars
<1>0. TypeOK /\ member \in Counts
  BY DEF ClusterInv, TypeOK, Counts
<1>1. phase \in {"moving", "growing"} /\ UNCHANGED <<phase, faithful>> /\ at \in DOMAIN batch
  <2>1. at \in Nat \ {0} /\ batch \in Seq(Ops)
    BY <1>0 DEF TypeOK
  <2> QED
    BY <2>1 DEF Apply, ApplyMove, ApplyCreate, ApplyAdopt, SkipOp, Current
<1>2. batch[at] \in Ops
  <2>1. batch \in Seq(Ops)
    BY <1>0 DEF TypeOK
  <2> HIDE DEF Ops
  <2> QED
    BY <1>1, <2>1
<1>3. CASE ApplyAdopt \/ SkipOp
  <2>1. phase # "infomap" /\ phase' # "infomap" /\ UNCHANGED <<member, clusters, faithful>>
    BY <1>1, <1>3 DEF ApplyAdopt, SkipOp
  <2> QED
    BY <2>1, CoverStutters
<1>4. CASE ApplyCreate
  <2>1. clusters' = clusters \cup {batch[at].id} /\ UNCHANGED member /\ batch[at].op = "create"
    BY <1>4 DEF ApplyCreate, Current
  <2>2. batch[at].id \in Ids
    BY <1>2, <2>1 DEF Ops, MoveOps, CreateOps, AdoptOps
  <2>3. Covers' = Covers
    BY <2>1, CoverFrame
  <2>4. Cover!Introduce(batch[at].id)
    BY <1>1, <2>1, <2>3 DEF Cover!Introduce, Covers
  <2> QED
    BY <1>1, <2>2, <2>4 DEF Cover!Next
<1>5. CASE ApplyMove
  <2> DEFINE o == batch[at]
  <2>1. /\ o.op = "move" /\ Kept(at) /\ o.src \in clusters /\ o.dst \in clusters /\ o.chunk \in Chunks
        /\ UNCHANGED clusters
        /\ member' = Link(IF o.chunk \in Children(o.src) THEN Unlink(member, o.chunk, o.src)
                                                         ELSE member, o.chunk, o.dst)
    BY <1>5 DEF ApplyMove, Moves, Current
  <2>2. o.src \in Ids /\ o.dst \in Ids
    BY <1>0, <2>1 DEF TypeOK
  <2>3. phase # "infomap"
    BY <1>1
  <2>4. CASE o.chunk \in Children(o.src)
    <3>1. Holds(member, o.chunk, o.src) /\ member' = Link(Unlink(member, o.chunk, o.src), o.chunk, o.dst)
      BY <2>1, <2>4 DEF Children, Holds
    <3> HIDE DEF o
    <3>2. Cover!Next
      BY ONLY ClusterInv, FaithfulInv, <1>1, <2>1, <2>2, <2>3, <3>1, MovesInCover
    <3> QED
      BY <3>2
  <2>5. CASE o.chunk \notin Children(o.src)
    <3>1. ~faithful
      <4>1. SUFFICES ASSUME faithful PROVE FALSE
        OBVIOUS
      <4>2. CASE phase = "moving"
        <5>1. member[<<o.chunk, o.src>>] > 0
          <6>1. at \in Nat
            BY <1>0 DEF TypeOK
          <6>2. at >= at
            BY <6>1
          <6> QED
            BY <1>1, <2>1, <4>1, <4>2, <6>2 DEF FaithfulInv, MovesFit
        <5> QED
          BY <2>1, <2>5, <5>1 DEF Children
      <4>3. CASE phase = "growing"
        BY <1>1, <2>1, <4>1, <4>3 DEF FaithfulInv, TreeFits
      <4> QED
        BY <1>1, <4>2, <4>3
    <3>2. member' = Link(member, o.chunk, o.dst)
      BY <2>1, <2>5
    <3> HIDE DEF o
    <3>3. Covers' = [Covers EXCEPT ![o.chunk] = @ \cup {o.dst}]
      BY ONLY <1>0, <2>1, <2>2, <3>2, LinkExtendsCover
    <3>4. Cover!Copy(o.chunk, o.dst)
      BY <1>1, <2>1, <3>1, <3>3 DEF Cover!Copy, Covers
    <3> QED
      BY <2>1, <2>2, <2>3, <3>4 DEF Cover!Next
  <2> QED
    BY <2>4, <2>5
<1> QED
  BY <1>3, <1>4, <1>5 DEF Apply

\* Whatever Infomap and the language model answer, each step of the clustering
\* places the chunks, moves one to a cluster that is there, introduces a cluster,
\* drops an empty one, or copies a chunk after an answer against its prompt
\* (cluster_graph.py:112-226, graph_ops.py:23-89).
THEOREM ClusteringImplementsCover == Spec => ImplementsCover
<1>1. Init => Cover!Init
  <2> SUFFICES ASSUME Init PROVE Cover!Init
    OBVIOUS
  <2>1. ASSUME NEW x \in Chunks
        PROVE  In(x) = {}
    <3>1. member = [e \in Chunks \X Ids |-> 0]
      BY DEF Init
    <3>2. \A k \in Ids : member[<<x, k>>] = 0
      BY <3>1
    <3>3. \A k \in Ids : ~(member[<<x, k>>] > 0)
      BY <3>2
    <3> QED
      BY <3>3 DEF In
  <2> QED
    BY <2>1 DEF Init, Cover!Init
<1>2. ASSUME ClusterInv, FaithfulInv, [Next]_vars
      PROVE  Cover!Next \/ UNCHANGED Cover!cvars
  <2>1. CASE Assign
    BY <2>1, AssignPlaces DEF Cover!Next
  <2>2. CASE Split
    BY <1>2, <2>2, SplitCovers
  <2>3. CASE Apply
    BY <1>2, <2>3, ApplyCovers
  <2>4. CASE AskMoves \/ AskTree
    <3>1. /\ phase # "infomap" /\ phase' # "infomap" /\ UNCHANGED <<member, clusters>>
          /\ faithful' = faithful \/ faithful' = FALSE
      BY <2>4 DEF AskMoves, AskTree
    <3>2. Covers' = Covers
      BY <3>1, CoverFrame
    <3>3. CASE faithful' = faithful
      BY <3>1, <3>3, CoverStutters
    <3>4. CASE faithful' = FALSE
      <4>1. Cover!LoseTrust
        BY <3>1, <3>2, <3>4 DEF Cover!LoseTrust, Covers
      <4> QED
        BY <3>1, <4>1 DEF Cover!Next
    <3> QED
      BY <3>1, <3>3, <3>4
  <2>5. CASE EndMoves \/ Summarize \/ EndTree \/ LlmFails
    <3>1. phase # "infomap" /\ phase' # "infomap" /\ UNCHANGED <<member, clusters, faithful>>
      BY <2>5 DEF EndMoves, Summarize, EndTree, LlmFails, Fail
    <3> QED
      BY <3>1, CoverStutters
  <2>6. CASE UNCHANGED vars
    <3>1. UNCHANGED <<phase, member, clusters, faithful>>
      BY <2>6 DEF vars
    <3>2. Covers' = Covers
      BY <3>1, CoverFrame
    <3> QED
      BY <3>1, <3>2 DEF Cover!cvars, Covers
  <2> QED
    BY <1>2, <2>1, <2>2, <2>3, <2>4, <2>5, <2>6 DEF Next
<1> QED
  BY <1>1, <1>2, ClusterInvariant, FaithfulInvariant, PTL DEF Spec, ImplementsCover, Cover!Spec

=============================================================================
