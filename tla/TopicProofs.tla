----------------------------- MODULE TopicProofs -----------------------------
(***************************************************************************)
(* No chunk is lost by the rounds of TopicRounds but those that share an   *)
(* id, none that was sorted is offered again, and none is sorted in two    *)
(* rounds: for any chunks, rounds and topics, whatever the answers are.    *)
(***************************************************************************)
EXTENDS TopicRounds, TLAPS, FiniteSetTheorems

\* What the removing mode has sorted is in topics of exactly one round.
OneRoundEach ==
  mode = "removing" =>
    \A c \in All : topics[c] = {} \/ \E r \in 1..Tries : topics[c] = {r}

\* Chunks that share an id are offered together.
SharedLeave == \A c \in inputs, d \in All : Chunks[d] = Chunks[c] => d \in inputs

Inv == TypeOK /\ OfferedUntilSorted /\ NothingLost /\ OneRoundEach /\ SharedLeave

\* The chunks are numbered.
LEMMA ChunksAreNumbered == Len(Chunks) \in Nat /\ All = 1..Len(Chunks)
  BY RoundsAssumption DEF All

\* Of the chunks with one id, one comes last: the one from which the fewest
\* numbers go up to the last chunk.
LEMMA LastHasId ==
  ASSUME NEW c \in All
  PROVE  \E d \in All : c <= d /\ Chunks[d] = Chunks[c] /\ IsTarget(d)
  <1> DEFINE N == Len(Chunks)
             S == {d \in 1..N : Chunks[d] = Chunks[c]}
             T == {d..N : d \in S}
             O == StrictSubsetOrdering(1..N)
  <1>1. N \in Nat /\ c \in S /\ All = 1..N
    BY ChunksAreNumbered
  <1>2. IsFiniteSet(1..N)
    BY <1>1, FS_Interval
  <1>3. T \subseteq FiniteSubsetsOf(1..N) /\ T # {}
    <2>1. FiniteSubsetsOf(1..N) = SUBSET (1..N) BY <1>2, FS_FiniteSubsetsOfFinite
    <2>2. ASSUME NEW d \in S PROVE d..N \in SUBSET (1..N) BY <1>1
    <2> QED BY <1>1, <2>1, <2>2
  <1>4. IsWellFoundedOn(O, FiniteSubsetsOf(1..N))
    BY <1>2, FS_StrictSubsetOrderingWellFounded
  <1> HIDE DEF T, O
  <1>5. PICK X \in T : \A Y \in T : <<Y, X>> \notin O
    BY <1>3, <1>4, WFMin
  <1>6. PICK d \in S : X = d..N
    BY DEF T
  <1>7. ASSUME NEW e \in S PROVE e <= d
    <2>1. SUFFICES ASSUME d < e PROVE FALSE BY <1>1
    <2>2. e..N \in T BY DEF T
    <2>3. e..N \in SUBSET (1..N) /\ d..N \in SUBSET (1..N) BY <1>1
    <2>4. e..N \subseteq d..N /\ d \in d..N /\ d \notin e..N BY <1>1, <2>1
    <2>5. <<e..N, d..N>> \in O BY <2>3, <2>4 DEF O, StrictSubsetOrdering
    <2> QED BY <1>5, <1>6, <2>2, <2>5
  <1>8. d \in All /\ Chunks[d] = Chunks[c] /\ c <= d /\ IsTarget(d)
    BY <1>1, <1>7 DEF IsTarget
  <1> QED BY <1>8

LEMMA InvInit == Init => Inv
  <1> SUFFICES ASSUME Init PROVE Inv
    OBVIOUS
  <1>1. TypeOK
    BY RoundsAssumption DEF Init, TypeOK
  <1>2. OfferedUntilSorted /\ NothingLost /\ OneRoundEach /\ SharedLeave
    BY DEF Init, OfferedUntilSorted, NothingLost, OneRoundEach, SharedLeave
  <1> QED BY <1>1, <1>2 DEF Inv

\* A round counts up within its bound.
LEMMA RoundCounts ==
  ASSUME TypeOK, NEW name, Round(name)
  PROVE  round' \in 1..Tries /\ round' = round + 1 /\ mode = name
         /\ mode' = mode /\ at = "running"
  BY RoundsAssumption DEF TypeOK, Round

\* What Put does to the topics of a chunk.
LEMMA PutAdds ==
  ASSUME TypeOK, NEW chunks, Put(chunks), round' \in 1..Tries
  PROVE  /\ topics' \in [All -> SUBSET (1..Tries)]
         /\ \A c \in All \ chunks : topics'[c] = topics[c]
         /\ \A c \in All \cap chunks : topics'[c] = topics[c] \cup {round'}
  BY DEF TypeOK, Put

LEMMA InvNext == Inv /\ [Next]_vars => Inv'
  <1> SUFFICES ASSUME Inv, [Next]_vars PROVE Inv'
    OBVIOUS
  <1> USE DEF Inv
  <1>1. ASSUME NEW answer \in Answers, RemovingRound(answer) PROVE Inv'
    <2> DEFINE sorted == (UNION answer) \cap Offered
    <2>1. /\ Round("removing") /\ Put(Targets(sorted)) /\ inputs' = inputs \ Called(sorted)
          /\ UNCHANGED at
      BY <1>1 DEF RemovingRound
    <2>2. round' \in 1..Tries /\ mode' = mode /\ mode = "removing"
      BY <2>1, RoundCounts
    <2>3. /\ topics' \in [All -> SUBSET (1..Tries)]
          /\ \A c \in All \ Targets(sorted) : topics'[c] = topics[c]
          /\ \A c \in All \cap Targets(sorted) : topics'[c] = topics[c] \cup {round'}
      BY <2>1, <2>2, PutAdds
    <2>4. /\ Targets(sorted) = {c \in All : Chunks[c] \in sorted /\ IsTarget(c)}
          /\ Called(sorted) = {c \in All : Chunks[c] \in sorted}
      BY DEF Targets, Called
    <2>5. \A c \in Called(sorted) : topics[c] = {}
      <3>1. ASSUME NEW c \in Called(sorted) PROVE topics[c] = {}
        <4>1. PICK d \in inputs : Chunks[d] = Chunks[c]
          BY <2>4, <3>1 DEF Offered
        <4> QED BY <2>2, <2>4, <4>1 DEF OfferedUntilSorted
      <3> QED BY <3>1
    <2> HIDE DEF sorted
    <2>6. TypeOK'
      BY <2>1, <2>2, <2>3 DEF TypeOK
    <2>7. OfferedUntilSorted' /\ SharedLeave'
      BY <2>1, <2>2, <2>3, <2>4 DEF OfferedUntilSorted, SharedLeave, TypeOK
    <2>8. NothingLost'
      <3>1. ASSUME NEW c \in All, c \notin inputs'
            PROVE  \E d \in All : c <= d /\ Chunks[d] = Chunks[c] /\ topics'[d] # {}
        <4>1. CASE c \in Called(sorted)
          <5>1. PICK d \in All : c <= d /\ Chunks[d] = Chunks[c] /\ IsTarget(d)
            BY LastHasId
          <5>2. d \in Targets(sorted) BY <2>4, <4>1, <5>1
          <5> QED BY <2>3, <5>1, <5>2
        <4>2. CASE c \notin Called(sorted)
          <5>1. PICK d \in All : c <= d /\ Chunks[d] = Chunks[c] /\ topics[d] # {}
            BY <2>1, <3>1, <4>2 DEF NothingLost
          <5>2. topics'[d] # {} BY <2>3, <5>1
          <5> QED BY <5>1, <5>2
        <4> QED BY <4>1, <4>2
      <3> QED BY <3>1 DEF NothingLost
    <2>9. OneRoundEach'
      <3>1. Targets(sorted) \subseteq Called(sorted) BY <2>4
      <3> QED BY <2>2, <2>3, <2>5, <3>1 DEF OneRoundEach
    <2> QED BY <2>6, <2>7, <2>8, <2>9
  <1>2. ASSUME NEW named \in BOOLEAN, AnonymousRound(named) PROVE Inv'
    <2> DEFINE sorted == IF named /\ round = 0 THEN {Len(Chunks)} \cap All ELSE {}
    <2>1. /\ Round("anonymous") /\ Put(sorted)
          /\ UNCHANGED <<at, inputs>>
      BY <1>2 DEF AnonymousRound
    <2>2. round' \in 1..Tries /\ mode' = mode /\ mode = "anonymous"
      BY <2>1, RoundCounts
    <2> HIDE DEF sorted
    <2>3. /\ topics' \in [All -> SUBSET (1..Tries)]
          /\ \A c \in All \ sorted : topics'[c] = topics[c]
          /\ \A c \in All \cap sorted : topics'[c] = topics[c] \cup {round'}
      BY <2>1, <2>2, PutAdds
    <2>4. at' = at /\ inputs' = inputs
      BY <2>1
    <2>5. TypeOK' /\ SharedLeave'
      BY <2>4, <2>2, <2>3 DEF TypeOK, SharedLeave
    <2>6. \A c \in All : topics[c] # {} => topics'[c] # {}
      BY <2>3
    <2>7. NothingLost'
      BY <2>4, <2>6 DEF NothingLost
    <2> QED BY <2>2, <2>5, <2>7 DEF OfferedUntilSorted, OneRoundEach
  <1>3. CASE KeepingRound
    <2>1. Round("keeping") /\ at' = "failed" /\ UNCHANGED <<inputs, topics>>
      BY <1>3 DEF KeepingRound
    <2>2. round' \in 1..Tries /\ mode' = mode
      BY <2>1, RoundCounts
    <2>3. inputs' = inputs /\ topics' = topics
      BY <2>1
    <2>4. TypeOK'
      BY <2>1, <2>2, <2>3 DEF TypeOK
    <2> QED BY <2>2, <2>3, <2>4 DEF OfferedUntilSorted, NothingLost, OneRoundEach, SharedLeave
  <1>4. CASE Finish
    BY <1>4 DEF Finish, TypeOK, OfferedUntilSorted, NothingLost, OneRoundEach, SharedLeave
  <1>5. CASE Raise
    BY <1>5 DEF Raise, TypeOK, OfferedUntilSorted, NothingLost, OneRoundEach, SharedLeave
  <1>6. CASE UNCHANGED vars
    BY <1>6 DEF vars, TypeOK, OfferedUntilSorted, NothingLost, OneRoundEach, SharedLeave
  <1> QED BY <1>1, <1>2, <1>3, <1>4, <1>5, <1>6 DEF Next

\* Sets with at most one element have a cardinality of at most one.
LEMMA OneRoundCounts == OneRoundEach => SortedInOneRound
  <1> SUFFICES ASSUME OneRoundEach, mode = "removing", NEW c \in All
               PROVE  Cardinality(topics[c]) <= 1
    BY DEF SortedInOneRound
  <1>1. CASE topics[c] = {}
    BY <1>1, FS_EmptySet
  <1>2. CASE \E r \in 1..Tries : topics[c] = {r}
    BY <1>2, FS_Singleton
  <1> QED BY <1>1, <1>2 DEF OneRoundEach

\* In every state of ClusterStrategy's rounds a chunk that is not offered any
\* more is in a topic, or a later chunk with its id is, however ids are shared
\* (cluster.py:47-49, 60-83).
THEOREM ChunksAccountedFor == Spec => []NothingLost
  <1>1. Inv => NothingLost
    BY DEF Inv
  <1> QED BY <1>1, InvInit, InvNext, PTL DEF Spec

\* ClusterStrategy puts no chunk in topics of two rounds.
THEOREM SortedOnce == Spec => []SortedInOneRound
  <1>1. Inv => SortedInOneRound
    BY OneRoundCounts DEF Inv
  <1> QED BY <1>1, InvInit, InvNext, PTL DEF Spec

\* What is offered to the model shares its id with nothing that is in a topic
\* (cluster.py:74-78, 112-116).
THEOREM OfferedWhileUnsorted == Spec => []OfferedUntilSorted
  <1>1. Inv => OfferedUntilSorted
    BY DEF Inv
  <1> QED BY <1>1, InvInit, InvNext, PTL DEF Spec

\* The rounds are those the strategy allows, and what is offered and sorted are
\* chunks of the repository (cluster.py:60-101).
THEOREM RoundTypes == Spec => []TypeOK
  <1>1. Inv => TypeOK
    BY DEF Inv
  <1> QED BY <1>1, InvInit, InvNext, PTL DEF Spec
=============================================================================
