---------------------------- MODULE MCTaskQueue ----------------------------
(* Instances of TaskQueue for TLC. *)
EXTENDS TaskQueue

CONSTANTS u1, u2, c1, c2, c3, t1, t2, t3

OneUser      == {u1}
TwoUsers     == {u1, u2}
SecondUser   == {u2}
NoUsers      == {}
TwoCalls     == {c1, c2}
ThreeCalls   == {c1, c2, c3}
TwoTasks     == {t1, t2}
ThreeTasks   == {t1, t2, t3}
PairUserOf   == (c1 :> u1) @@ (c2 :> u1)
SameUserOf   == (c1 :> u1) @@ (c2 :> u1) @@ (c3 :> u1)
TwoUserOf    == (c1 :> u1) @@ (c2 :> u1) @@ (c3 :> u2)
PairTaskOf   == (c1 :> t1) @@ (c2 :> t2)
OwnTaskOf    == (c1 :> t1) @@ (c2 :> t2) @@ (c3 :> t3)
SharedTaskOf == (c1 :> t1) @@ (c2 :> t1) @@ (c3 :> t2)

\* Two calls that submit one Task object for one user can be exchanged.
Interchange == Permutations({c1, c2})

\* No two first calls of one user race.
NoRace == KeepsLocks(Users)
=============================================================================
