------------------------------ MODULE TopicRounds ------------------------------
(***************************************************************************)
(* How a language model sorts chunks into topics, in rounds: ClusterStrategy *)
(* (src/src/cluster/cluster.py) in its three modes.  Each round offers the   *)
(* chunks that are left, takes an answer that may name chunks that do not    *)
(* exist or were not offered, and takes the sorted ones away.  Chunks are    *)
(* known by their ids, which several chunks may share (python.py:161-162).   *)
(***************************************************************************)
EXTENDS Integers, Sequences, FiniteSets, SequencesExt

CONSTANTS
  Chunks,   \* the id of each chunk, in the order of the chunks
  Ghost,    \* a name that is no chunk's
  Tries,    \* the rounds a run may take
  Answers   \* what the model may answer: sets of topics, a topic a set of names

Names == ToSet(Chunks)
All   == DOMAIN Chunks

ASSUME RoundsAssumption ==
  /\ Tries \in Nat
  /\ Chunks \in Seq(Names)
  /\ Answers \subseteq SUBSET SUBSET (Names \cup {Ghost})

VARIABLES
  mode,      \* the arguments of run
  at,
  round,     \* the rounds taken
  inputs,    \* the chunks that are left
  topics     \* chunk -> the rounds whose topics hold it

vars == <<mode, at, round, inputs, topics>>

Modes == {"removing", "anonymous", "keeping"}

Init ==
  /\ mode \in Modes
  /\ at = "running" /\ round = 0
  /\ inputs = All /\ topics = [c \in All |-> {}]

\* name_to_chunk: of chunks with one id, the last.
IsTarget(c) == \A d \in All : Chunks[d] = Chunks[c] => d <= c

\* The chunks a set of names leads to, and all that are called by them.
Targets(names) == {c \in All : Chunks[c] \in names /\ IsTarget(c)}
Called(names)  == {c \in All : Chunks[c] \in names}

Offered == {Chunks[c] : c \in inputs}

\* The rounds end when too few are left.
FewLeft == 10 * Cardinality(inputs) < 3 * Len(Chunks)

Put(chunks) == topics' = [c \in All |-> topics[c] \cup (IF c \in chunks THEN {round'} ELSE {})]

Round(name) ==
  /\ at = "running" /\ mode = name
  /\ round < Tries /\ ~FewLeft
  /\ round' = round + 1
  /\ UNCHANGED mode

-----------------------------------------------------------------------------

\* Mutant of RemovingRound: names that were not offered are not skipped.
RemovingRoundAny(answer) ==
  /\ Round("removing")
  /\ LET sorted == (UNION answer) \cap Names
     IN  Put(Targets(sorted)) /\ inputs' = inputs \ Called(sorted)
  /\ UNCHANGED at

\* Mutant of RemovingRound: the chunks that were found are taken away, not all
\* that are called by their names.
RemovingRoundOne(answer) ==
  /\ Round("removing")
  /\ LET sorted == (UNION answer) \cap Offered
     IN  Put(Targets(sorted)) /\ inputs' = inputs \ Targets(sorted)
  /\ UNCHANGED at

\* Mutant of RemovingRound: a topic with a name that is no chunk's is dropped,
\* but what it names is taken away.
RemovingRoundDrops(answer) ==
  /\ Round("removing")
  /\ LET sorted == (UNION {t \in answer : t \subseteq Names}) \cap Offered
     IN  Put(Targets(sorted)) /\ inputs' = inputs \ Called(UNION answer)
  /\ UNCHANGED at

\* A name is looked up among the chunks and among this round's inputs; what is
\* called by the name of a sorted chunk is taken away.
RemovingRound(answer) ==
  /\ Round("removing")
  /\ LET sorted == (UNION answer) \cap Offered
     IN  Put(Targets(sorted)) /\ inputs' = inputs \ Called(sorted)
  /\ UNCHANGED at

\* use_anon_chunks: all inputs are given one name, which leads to the last of
\* them.  From then on they are called by it, so what was sorted stays, and in
\* the next rounds no name leads to a chunk.
AnonymousRound(named) ==
  /\ Round("anonymous")
  /\ Put(IF named /\ round = 0 THEN {Len(Chunks)} \cap All ELSE {})
  /\ UNCHANGED <<at, inputs>>

\* remove_classified = False: the message after the first round counts a list
\* that only the removal makes, and raises.
KeepingRound ==
  /\ Round("keeping")
  /\ at' = "failed"
  /\ UNCHANGED <<inputs, topics>>

Finish ==
  /\ at = "running" /\ (round = Tries \/ FewLeft)
  /\ at' = "done"
  /\ UNCHANGED <<mode, round, inputs, topics>>

\* The call of the model raises.
Raise ==
  /\ at = "running" /\ round < Tries /\ ~FewLeft
  /\ at' = "failed"
  /\ UNCHANGED <<mode, round, inputs, topics>>

Next ==
  \/ \E answer \in Answers : RemovingRound(answer)
  \/ \E named \in BOOLEAN : AnonymousRound(named)
  \/ KeepingRound \/ Finish \/ Raise

Spec == Init /\ [][Next]_vars

-----------------------------------------------------------------------------

\* Rounds stay within the number asked for; chunks and rounds are those of the run.
TypeOK ==
  /\ mode \in Modes
  /\ at \in {"running", "done", "failed"}
  /\ round \in 0..Tries
  /\ inputs \subseteq All
  /\ topics \in [All -> SUBSET (1..Tries)]

\* The model is not asked again about what is sorted: no chunk with the id of an
\* offered one is in a topic of an earlier round, though a name leads to one of
\* the chunks that share it only (cluster.py:47-49, 74-78).  With anonymous
\* chunks this fails, because they are not called by their ids any more.
OfferedUntilSorted ==
  mode # "anonymous" => \A c \in inputs, d \in All : Chunks[d] = Chunks[c] => topics[d] = {}

\* Whatever the answers name, a chunk leaves the inputs only when it is sorted,
\* or when a later chunk that has its id is: such a chunk is in no topic, and
\* nothing else loses one (cluster.py:47-49, 74-78, 112-119).
NothingLost ==
  \A c \in All \ inputs : \E d \in All : c <= d /\ Chunks[d] = Chunks[c] /\ topics[d] # {}

\* A name that was not offered is skipped: no chunk is in topics of two rounds,
\* whatever the answers are and whoever shares an id (cluster.py:112-116).
SortedInOneRound ==
  mode = "removing" => \A c \in All : Cardinality(topics[c]) <= 1
=============================================================================
