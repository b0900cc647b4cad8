-------------------------- MODULE MCRequestSessions --------------------------
(* Instances of RequestSessions for TLC. *)
EXTENDS RequestSessions

CONSTANTS r1, r2, r3

TwoRequests   == {r1, r2}
ThreeRequests == {r1, r2, r3}
=============================================================================
