---------------------------- MODULE MCTopicRounds ----------------------------
(* An instance of TopicRounds for TLC: five chunks, two of which share an id, *)
(* so that a run can end with one left, and answers of at most two topics.    *)
EXTENDS TopicRounds

CONSTANTS k1, k2, k3, k4

FiveChunks == <<k1, k2, k3, k2, k4>>
Named      == SUBSET {k1, k2, k3, k4, Ghost}
TwoTopics  == {{s, t} : s \in Named, t \in Named}
=============================================================================
