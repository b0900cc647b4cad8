----------------------------- MODULE MCFaissStore -----------------------------
(* An instance of FaissStore for TLC: three chunks, one of which changes its *)
(* text.                                                                     *)
EXTENDS FaissStore

CONSTANTS d1, d2, d3

ThreeDocuments == {d1, d2, d3}
TwoVersions    == {1, 2}
Two(v)         == (d1 :> v @@ d2 :> 1)
Three(v)       == (d1 :> v @@ d2 :> 1 @@ d3 :> 1)
History        == {Two(1), Two(2), Three(1), Three(2), d2 :> 1}

\* A run on files that were not written by one run keeps them so, and nothing
\* is promised of them: only the run that finds a file missing is followed.
Followed == past.torn => index = NoFile
=============================================================================
