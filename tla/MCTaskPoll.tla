------------------------------ MODULE MCTaskPoll ------------------------------
(* An instance of TaskPoll for TLC: three calls of one user, two of which   *)
(* submit one Task object.                                                 *)
EXTENDS TaskPoll

CONSTANTS u1, c1, c2, c3, t1, t2

ThreeCalls == {c1, c2, c3}
TwoTasks   == {t1, t2}
UserOfCall == [c \in ThreeCalls |-> u1]
TaskOfCall == [c \in ThreeCalls |-> IF c = c3 THEN t2 ELSE t1]
OneUser    == {u1}
OwnTask    == {t2}
Nothing    == {}
SameTask   == Permutations({c1, c2})

\* A poll changes nothing the queue reads: what follows its answer is in the
\* behaviours without a poll.
Unanswered == at \notin {"answered", "missed", "raised"}
=============================================================================
