-------------------------- MODULE MCRepoLifecycle --------------------------
(* Instances of RepoLifecycle for TLC. *)
EXTENDS RepoLifecycle, TLC

CONSTANTS u1, u2, n1, n2, p1, p2, q1, q2, q3, q4

TwoUsers      == {u1, u2}
OneRepo       == {n1}
TwoRepos      == {n1, n2}
OnePath       == {p1}
TwoPaths      == {p1, p2}
OnePathOf     == n1 :> p1
OwnPathOf     == (n1 :> p1) @@ (n2 :> p2)
ThreeRequests == {q1, q2, q3}
FirstPath     == {p1}
FourRequests  == {q1, q2, q3, q4}

\* Requests differ only in their names, and so do users.
Anonymous == Permutations(FourRequests) \cup Permutations(TwoUsers)
=============================================================================
