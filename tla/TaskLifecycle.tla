---------------------------- MODULE TaskLifecycle ----------------------------
(***************************************************************************)
(* What the task queue promises a caller of put_and_wait: its task is run  *)
(* once, by one thread, and the caller gets what that one run ended with.  *)
(* No lock, no list, no executor.  TaskQueue is shown to implement it      *)
(* unless two first calls of one user race for the user's lock.            *)
(***************************************************************************)
CONSTANTS Calls, Waiters

VARIABLES
  phase,   \* call -> "new", "accepted", "running", "ended" or "refused"
  result,  \* call -> "none", or how the run of its task ended
  reply    \* call -> "none", or what its caller got

lvars == <<phase, result, reply>>

Init ==
  /\ phase = [c \in Calls |-> "new"]
  /\ result = [c \in Calls |-> "none"]
  /\ reply = [c \in Calls |-> "none"]

Accept(c) ==
  /\ phase[c] = "new"
  /\ phase' = [phase EXCEPT ![c] = "accepted"]
  /\ UNCHANGED <<result, reply>>

Refuse(c) ==
  /\ phase[c] = "new"
  /\ phase' = [phase EXCEPT ![c] = "refused"]
  /\ reply' = [reply EXCEPT ![c] = "rejected"]
  /\ UNCHANGED result

Run(c) ==
  /\ phase[c] = "accepted"
  /\ phase' = [phase EXCEPT ![c] = "running"]
  /\ UNCHANGED <<result, reply>>

End(c) ==
  /\ phase[c] = "running"
  /\ phase' = [phase EXCEPT ![c] = "ended"]
  /\ \E outcome \in {"ok", "error"} : result' = [result EXCEPT ![c] = outcome]
  /\ UNCHANGED reply

Reply(c) ==
  /\ phase[c] = "ended" /\ c \in Waiters
  /\ reply[c] = "none"
  /\ reply' = [reply EXCEPT ![c] = result[c]]
  /\ UNCHANGED <<phase, result>>

Step(c) == Accept(c) \/ Refuse(c) \/ Run(c) \/ End(c) \/ Reply(c)

Next == \E c \in Calls : Step(c)

SafeSpec == Init /\ [][Next]_lvars

\* Once accepted, a task runs, ends and is reported.
Spec ==
  /\ SafeSpec
  /\ \A c \in Calls : WF_lvars(Run(c)) /\ WF_lvars(End(c)) /\ WF_lvars(Reply(c))
=============================================================================
