--------------------------- MODULE SessionProofs ---------------------------
(***************************************************************************)
(* For any number of requests, connections, threads and workers, no task   *)
(* of the queue ever waits for a connection and no answered request keeps  *)
(* one.                                                                    *)
(***************************************************************************)
EXTENDS RequestSessions, FiniteSetTheorems, TLAPS

\* What the invariant says of one request.
Fits(r) ==
  /\ place[r] \in {"new", "done"} => r \notin conns
  /\ r \in threads <=> place[r] \in InThread
  /\ loop = r <=> place[r] \in {"row", "report"}
  /\ phase[r] \in {"accepted", "running"} => place[r] = "wait" /\ r \in conns
  /\ HasArrived(r) /\ HeldFromTheStart(r) /\ TaskHasWaiter(r) /\ RowIsLeft(r)

\* How the connections may change in a step of one request.
Lends(r) == conns' \subseteq conns \/ (HasRoom /\ conns' = conns \cup {r})

\* The pool lends no more than it has.
LEMMA PoolBound ==
  ASSUME TypeOK, Cardinality(conns) <= PoolSize, NEW r \in Requests, Lends(r)
  PROVE  Cardinality(conns') <= PoolSize
<1>1. IsFiniteSet(conns) /\ Cardinality(conns) \in Nat /\ PoolSize \in Nat
  BY SessionsAssumption, FS_Subset, FS_CardinalityType DEF TypeOK
<1>2. CASE conns' \subseteq conns
  <2>1. Cardinality(conns') <= Cardinality(conns) /\ Cardinality(conns') \in Nat
    BY <1>1, <1>2, FS_Subset, FS_CardinalityType
  <2> QED
    BY <1>1, <2>1
<1>3. CASE HasRoom /\ conns' = conns \cup {r}
  <2>1. Cardinality(conns') \in {Cardinality(conns), Cardinality(conns) + 1}
    BY <1>1, <1>3, FS_AddElement
  <2> QED
    BY <1>1, <1>3, <2>1 DEF HasRoom
<1> QED
  BY <1>2, <1>3 DEF Lends

\* Every step of a request keeps the types and what the invariant says of it
\* and of the others.
LEMMA StepKeepsInv ==
  ASSUME SessionInv, NEW r \in Requests, Arrive(r) \/ Proceed(r)
  PROVE  TypeOK' /\ Lends(r) /\ \A s \in Requests : Fits(s)'
<1> USE DEF Move, LeaveThread, queueVars, Sync, Async, InThread, Wanting, Places
<1>0. TypeOK /\ \A s \in Requests : Fits(s)
  BY DEF SessionInv, NothingKept, TasksKeepConnection, Fits
<1>n. Nobody \notin Requests /\ MaxRepos \in Nat
  BY SessionsAssumption
<1>1. CASE Arrive(r)
  <2>1. TypeOK'
    BY <1>0, <1>n, <1>1 DEF Arrive, TypeOK
  <2>2. Lends(r)
    BY <1>0, <1>1 DEF Arrive, Lends, TypeOK
  <2>3. \A s \in Requests : Fits(s)'
    BY <1>0, <1>n, <1>1 DEF Arrive, TypeOK, Fits, HasArrived, HeldFromTheStart, TaskHasWaiter, RowIsLeft
  <2> QED
    BY <2>1, <2>2, <2>3
<1>2. CASE TakeThread(r)
  <2>1. TypeOK'
    BY <1>0, <1>n, <1>2 DEF TakeThread, TypeOK
  <2>2. Lends(r)
    BY <1>0, <1>2 DEF TakeThread, Lends, TypeOK
  <2>3. \A s \in Requests : Fits(s)'
    BY <1>0, <1>n, <1>2 DEF TakeThread, TypeOK, Fits, HasArrived, HeldFromTheStart, TaskHasWaiter, RowIsLeft
  <2> QED
    BY <2>1, <2>2, <2>3
<1>3. CASE Authenticate(r)
  <2>1. TypeOK'
    BY <1>0, <1>n, <1>3 DEF Authenticate, TypeOK
  <2>2. Lends(r)
    BY <1>0, <1>3 DEF Authenticate, Lends, TypeOK
  <2>3. \A s \in Requests : Fits(s)'
    BY <1>0, <1>n, <1>3 DEF Authenticate, TypeOK, Fits, HasArrived, HeldFromTheStart, TaskHasWaiter, RowIsLeft
  <2> QED
    BY <2>1, <2>2, <2>3
<1>4. CASE Dispatch(r)
  <2>1. TypeOK'
    BY <1>0, <1>n, <1>4 DEF Dispatch, TypeOK
  <2>2. Lends(r)
    BY <1>0, <1>4 DEF Dispatch, Lends, TypeOK
  <2>3. \A s \in Requests : Fits(s)'
    BY <1>0, <1>n, <1>4 DEF Dispatch, TypeOK, Fits, HasArrived, HeldFromTheStart, TaskHasWaiter, RowIsLeft
  <2> QED
    BY <2>1, <2>2, <2>3
<1>5. CASE Close(r)
  <2>1. TypeOK'
    BY <1>0, <1>n, <1>5 DEF Close, TypeOK
  <2>2. Lends(r)
    BY <1>0, <1>5 DEF Close, Lends, TypeOK
  <2>3. \A s \in Requests : Fits(s)'
    BY <1>0, <1>n, <1>5 DEF Close, TypeOK, Fits, HasArrived, HeldFromTheStart, TaskHasWaiter, RowIsLeft
  <2> QED
    BY <2>1, <2>2, <2>3
<1>6. CASE TimeoutInThread(r)
  <2>1. TypeOK'
    BY <1>0, <1>n, <1>6 DEF TimeoutInThread, TypeOK
  <2>2. Lends(r)
    BY <1>0, <1>6 DEF TimeoutInThread, Lends, TypeOK
  <2>3. \A s \in Requests : Fits(s)'
    BY <1>0, <1>n, <1>6 DEF TimeoutInThread, TypeOK, Fits, HasArrived, HeldFromTheStart, TaskHasWaiter, RowIsLeft
  <2> QED
    BY <2>1, <2>2, <2>3
<1>7. CASE TimeoutOnLoop(r)
  <2>1. TypeOK'
    BY <1>0, <1>n, <1>7 DEF TimeoutOnLoop, TypeOK
  <2>2. Lends(r)
    BY <1>0, <1>7 DEF TimeoutOnLoop, Lends, TypeOK
  <2>3. \A s \in Requests : Fits(s)'
    BY <1>0, <1>n, <1>7 DEF TimeoutOnLoop, TypeOK, Fits, HasArrived, HeldFromTheStart, TaskHasWaiter, RowIsLeft
  <2> QED
    BY <2>1, <2>2, <2>3
<1>8. CASE FirstQuery(r)
  <2>1. TypeOK'
    BY <1>0, <1>n, <1>8 DEF FirstQuery, TypeOK
  <2>2. Lends(r)
    BY <1>0, <1>8 DEF FirstQuery, Lends, TypeOK
  <2>3. \A s \in Requests : Fits(s)'
    BY <1>0, <1>n, <1>8 DEF FirstQuery, TypeOK, Fits, HasArrived, HeldFromTheStart, TaskHasWaiter, RowIsLeft
  <2> QED
    BY <2>1, <2>2, <2>3
<1>9. CASE Register(r)
  <2>1. TypeOK'
    BY <1>0, <1>n, <1>9 DEF Register, TypeOK
  <2>2. Lends(r)
    BY <1>0, <1>9 DEF Register, Lends, TypeOK
  <2>3. \A s \in Requests : Fits(s)'
    BY <1>0, <1>n, <1>9 DEF Register, TypeOK, Fits, HasArrived, HeldFromTheStart, TaskHasWaiter, RowIsLeft
  <2> QED
    BY <2>1, <2>2, <2>3
<1>10. CASE Refresh(r)
  <2>1. TypeOK'
    BY <1>0, <1>n, <1>10 DEF Refresh, TypeOK
  <2>2. Lends(r)
    BY <1>0, <1>10 DEF Refresh, Lends, TypeOK
  <2>3. \A s \in Requests : Fits(s)'
    BY <1>0, <1>n, <1>10 DEF Refresh, TypeOK, Fits, HasArrived, HeldFromTheStart, TaskHasWaiter, RowIsLeft
  <2> QED
    BY <2>1, <2>2, <2>3
<1>11. CASE List(r)
  <2>1. TypeOK'
    BY <1>0, <1>n, <1>11 DEF List, TypeOK
  <2>2. Lends(r)
    BY <1>0, <1>11 DEF List, Lends, TypeOK
  <2>3. \A s \in Requests : Fits(s)'
    BY <1>0, <1>n, <1>11 DEF List, TypeOK, Fits, HasArrived, HeldFromTheStart, TaskHasWaiter, RowIsLeft
  <2> QED
    BY <2>1, <2>2, <2>3
<1>12. CASE Read(r)
  <2>1. TypeOK'
    BY <1>0, <1>n, <1>12 DEF Read, TypeOK
  <2>2. Lends(r)
    BY <1>0, <1>12 DEF Read, Lends, TypeOK
  <2>3. \A s \in Requests : Fits(s)'
    BY <1>0, <1>n, <1>12 DEF Read, TypeOK, Fits, HasArrived, HeldFromTheStart, TaskHasWaiter, RowIsLeft
  <2> QED
    BY <2>1, <2>2, <2>3
<1>13. CASE Found(r)
  <2>1. TypeOK'
    BY <1>0, <1>n, <1>13 DEF Found, TypeOK
  <2>2. Lends(r)
    BY <1>0, <1>13 DEF Found, Lends, TypeOK
  <2>3. \A s \in Requests : Fits(s)'
    BY <1>0, <1>n, <1>13 DEF Found, TypeOK, Fits, HasArrived, HeldFromTheStart, TaskHasWaiter, RowIsLeft
  <2> QED
    BY <2>1, <2>2, <2>3
<1>14. CASE Submit(r)
  <2>1. TypeOK'
    BY <1>0, <1>n, <1>14 DEF Submit, Queue!Accept, TypeOK
  <2>2. Lends(r)
    BY <1>0, <1>14 DEF Submit, Queue!Accept, Lends, TypeOK
  <2>3. \A s \in Requests : Fits(s)'
    BY <1>0, <1>n, <1>14 DEF Submit, Queue!Accept, TypeOK, Fits, HasArrived, HeldFromTheStart, TaskHasWaiter, RowIsLeft
  <2> QED
    BY <2>1, <2>2, <2>3
<1>15. CASE RunTask(r)
  <2>1. TypeOK'
    BY <1>0, <1>n, <1>15 DEF RunTask, Queue!Run, TypeOK
  <2>2. Lends(r)
    BY <1>0, <1>15 DEF RunTask, Queue!Run, Lends, TypeOK
  <2>3. \A s \in Requests : Fits(s)'
    BY <1>0, <1>n, <1>15 DEF RunTask, Queue!Run, TypeOK, Fits, HasArrived, HeldFromTheStart, TaskHasWaiter, RowIsLeft
  <2> QED
    BY <2>1, <2>2, <2>3
<1>16. CASE EndTask(r)
  <2>1. TypeOK'
    BY <1>0, <1>n, <1>16 DEF EndTask, Queue!End, TypeOK
  <2>2. Lends(r)
    BY <1>0, <1>16 DEF EndTask, Queue!End, Lends, TypeOK
  <2>3. \A s \in Requests : Fits(s)'
    BY <1>0, <1>n, <1>16 DEF EndTask, Queue!End, TypeOK, Fits, HasArrived, HeldFromTheStart, TaskHasWaiter, RowIsLeft
  <2> QED
    BY <2>1, <2>2, <2>3
<1>17. CASE TaskAnswered(r)
  <2>1. TypeOK'
    BY <1>0, <1>n, <1>17 DEF TaskAnswered, Queue!Reply, TypeOK
  <2>2. Lends(r)
    BY <1>0, <1>17 DEF TaskAnswered, Queue!Reply, Lends, TypeOK
  <2>3. \A s \in Requests : Fits(s)'
    BY <1>0, <1>n, <1>17 DEF TaskAnswered, Queue!Reply, TypeOK, Fits, HasArrived, HeldFromTheStart, TaskHasWaiter, RowIsLeft
  <2> QED
    BY <2>1, <2>2, <2>3
<1>18. CASE Delete(r)
  <2>1. TypeOK'
    BY <1>0, <1>n, <1>18 DEF Delete, TypeOK
  <2>2. Lends(r)
    BY <1>0, <1>18 DEF Delete, Lends, TypeOK
  <2>3. \A s \in Requests : Fits(s)'
    BY <1>0, <1>n, <1>18 DEF Delete, TypeOK, Fits, HasArrived, HeldFromTheStart, TaskHasWaiter, RowIsLeft
  <2> QED
    BY <2>1, <2>2, <2>3
<1>19. CASE BeginDeleteAll(r)
  <2>1. TypeOK'
    BY <1>0, <1>n, <1>19 DEF BeginDeleteAll, TypeOK
  <2>2. Lends(r)
    BY <1>0, <1>19 DEF BeginDeleteAll, Lends, TypeOK
  <2>3. \A s \in Requests : Fits(s)'
    BY <1>0, <1>n, <1>19 DEF BeginDeleteAll, TypeOK, Fits, HasArrived, HeldFromTheStart, TaskHasWaiter, RowIsLeft
  <2> QED
    BY <2>1, <2>2, <2>3
<1>20. CASE DeleteRow(r)
  <2>1. TypeOK'
    BY <1>0, <1>n, <1>20 DEF DeleteRow, NextRow, TypeOK, Fits, RowIsLeft
  <2>2. Lends(r)
    BY <1>0, <1>20 DEF DeleteRow, NextRow, Lends, TypeOK
  <2>3. \A s \in Requests : Fits(s)'
    BY <1>0, <1>n, <1>20 DEF DeleteRow, NextRow, TypeOK, Fits, HasArrived, HeldFromTheStart, TaskHasWaiter, RowIsLeft
  <2> QED
    BY <2>1, <2>2, <2>3
<1>21. CASE RowGone(r)
  <2>1. TypeOK'
    BY <1>0, <1>n, <1>21 DEF RowGone, TypeOK
  <2>2. Lends(r)
    BY <1>0, <1>21 DEF RowGone, Lends, TypeOK
  <2>3. \A s \in Requests : Fits(s)'
    BY <1>0, <1>n, <1>21 DEF RowGone, TypeOK, Fits, HasArrived, HeldFromTheStart, TaskHasWaiter, RowIsLeft
  <2> QED
    BY <2>1, <2>2, <2>3
<1>22. CASE ReportRow(r)
  <2>1. TypeOK'
    BY <1>0, <1>n, <1>22 DEF ReportRow, NextRow, TypeOK, Fits, RowIsLeft
  <2>2. Lends(r)
    BY <1>0, <1>22 DEF ReportRow, NextRow, Lends, TypeOK
  <2>3. \A s \in Requests : Fits(s)'
    BY <1>0, <1>n, <1>22 DEF ReportRow, NextRow, TypeOK, Fits, HasArrived, HeldFromTheStart, TaskHasWaiter, RowIsLeft
  <2> QED
    BY <2>1, <2>2, <2>3
<1>23. CASE RejectToken(r)
  <2>1. TypeOK'
    BY <1>0, <1>n, <1>23 DEF RejectToken, TypeOK
  <2>2. Lends(r)
    BY <1>0, <1>23 DEF RejectToken, Lends, TypeOK
  <2>3. \A s \in Requests : Fits(s)'
    BY <1>0, <1>n, <1>23 DEF RejectToken, TypeOK, Fits, HasArrived, HeldFromTheStart, TaskHasWaiter, RowIsLeft
  <2> QED
    BY <2>1, <2>2, <2>3
<1> QED
  BY <1>1, <1>2, <1>3, <1>4, <1>5, <1>6, <1>7, <1>8, <1>9, <1>10, <1>11, <1>12, <1>13, <1>14, <1>15, <1>16, <1>17, <1>18, <1>19, <1>20, <1>21, <1>22, <1>23 DEF Proceed

-----------------------------------------------------------------------------
\* The invariant holds at the start, and every step keeps it.
LEMMA InitHolds ==
  ASSUME Init
  PROVE  SessionInv
<1>1. TypeOK
  BY SessionsAssumption DEF Init, TypeOK, Places, Queue!Init
<1>2. Cardinality(conns) <= PoolSize
  BY FS_EmptySet, SessionsAssumption DEF Init
<1> QED
  BY <1>1, <1>2, SessionsAssumption DEF Init, Queue!Init, SessionInv, NothingKept, TasksKeepConnection,
     InThread, HasArrived, HeldFromTheStart, TaskHasWaiter, RowIsLeft

LEMMA SessionInvariant == Spec => []SessionInv
<1>1. Init => SessionInv
  BY InitHolds
<1>2. SessionInv /\ [Next]_vars => SessionInv'
  <2> SUFFICES ASSUME SessionInv, [Next]_vars PROVE SessionInv'
    OBVIOUS
  <2>1. CASE Next
    <3>1. PICK r \in Requests : Arrive(r) \/ Proceed(r)
      BY <2>1 DEF Next
    <3>2. TypeOK' /\ Lends(r) /\ \A s \in Requests : Fits(s)'
      BY <3>1, StepKeepsInv
    <3>3. Cardinality(conns') <= PoolSize
      BY <3>2, PoolBound DEF SessionInv, NothingKept
    <3> QED
      BY <3>2, <3>3 DEF SessionInv, NothingKept, TasksKeepConnection, Fits
  <2>2. CASE UNCHANGED vars
    BY <2>2 DEF vars, queueVars, SessionInv, TypeOK, NothingKept, TasksKeepConnection, HasArrived,
       HeldFromTheStart, TaskHasWaiter, RowIsLeft
  <2> QED
    BY <2>1, <2>2
<1> QED
  BY <1>1, <1>2, PTL DEF Spec

\* No task waits for a connection, and an answered request keeps nothing:
\* for all sizes of the pool, the threadpool and the executor.
THEOREM SessionsReturn == Spec => [](TypeOK /\ NothingKept /\ TasksKeepConnection)
<1>1. SessionInv => TypeOK /\ NothingKept /\ TasksKeepConnection
  BY DEF SessionInv
<1> QED
  BY <1>1, SessionInvariant, PTL

\* A request that is answered holds neither a connection nor a thread, timeouts
\* and exceptions included (middleware/db.py:67-76).
COROLLARY AnsweredKeepNothing == Spec => []NothingKept
BY SessionsReturn, PTL

\* Requests stay at a place of their handler, and connections, threads and
\* workers are of requests (middleware/db.py:67-76, config.py:61-83).
COROLLARY SessionTypes == Spec => []TypeOK
BY SessionsReturn, PTL

\* Whatever requests, threads and connections do between the calls of the task
\* queue, they use it as TaskLifecycle allows, which is what TaskQueue
\* implements (repo/views.py:165-175, queue/core.py:60-83).
THEOREM SessionsUseTheQueue == Spec => Queue!SafeSpec
<1>1. Init => Queue!Init
  BY DEF Init
<1>2. [Next]_vars => [Queue!Next]_(Queue!lvars)
  <2> SUFFICES ASSUME [Next]_vars PROVE Queue!Next \/ UNCHANGED queueVars
    BY DEF Queue!lvars, queueVars
  <2>1. ASSUME NEW r \in Requests, Arrive(r) \/ Proceed(r)
        PROVE  Queue!Step(r) \/ UNCHANGED queueVars
    <3>1. CASE Submit(r) \/ RunTask(r) \/ EndTask(r) \/ TaskAnswered(r)
      BY <3>1 DEF Submit, RunTask, EndTask, TaskAnswered, Queue!Step
    <3>2. CASE ~(Submit(r) \/ RunTask(r) \/ EndTask(r) \/ TaskAnswered(r))
      BY <2>1, <3>2 DEF Arrive, Proceed, TakeThread, RejectToken, Authenticate, Dispatch, Close, TimeoutInThread,
         TimeoutOnLoop, FirstQuery, Register, Refresh, List, Read, Found, Delete, BeginDeleteAll,
         DeleteRow, RowGone, ReportRow
    <3> QED
      BY <3>1, <3>2
  <2>2. CASE UNCHANGED vars BY <2>2 DEF vars, queueVars
  <2>3. QED BY <2>1, <2>2 DEF Next, Queue!Next
<1>3. QED
  BY <1>1, <1>2, PTL DEF Spec, Queue!SafeSpec

-----------------------------------------------------------------------------
(* Nobody waits for ever, as far as guards can tell. *)

\* The guards of a request's steps.
CanGo(r) ==
  \/ place[r] \in {"sent", "dispatched"} /\ Cardinality(threads) < Tokens
  \/ place[r] \in Wanting
  \/ place[r] = "known" /\ kind[r] \in Sync \cup Async /\ loop = Nobody
  \/ place[r] = "handler" /\ kind[r] \in Sync
  \/ phase[r] = "accepted" /\ Cardinality(Running) < Workers
  \/ phase[r] = "running"
  \/ place[r] = "wait" /\ phase[r] = "ended" /\ reply[r] = "none"
  \/ place[r] = "row"
  \/ place[r] = "report" /\ (HasRoom \/ r \notin conns)
  \/ place[r] = "end" /\ loop = Nobody

Progress ==
  (\A r \in Requests : ~CanGo(r)) => \A r \in Requests : place[r] \in {"new", "done"}

\* A handler is that of its endpoint, a thread waits for a task that has not
\* been reported, and delete_all prints a row only without a connection.
Expected(r) ==
  /\ place[r] \in {"dispatched", "fresh", "handler"} => kind[r] \in Sync
  /\ place[r] = "wait" => phase[r] \in {"accepted", "running", "ended"}
  /\ place[r] \notin {"end", "done"} => reply[r] = "none"
  /\ place[r] = "report" => r \notin conns

ExpectedInv == \A r \in Requests : Expected(r)

LEMMA ExpectedStep ==
  ASSUME SessionInv, ExpectedInv, NEW r \in Requests, Arrive(r) \/ Proceed(r)
  PROVE  ExpectedInv'
<1>0. TypeOK /\ Expected(r) /\ Fits(r)
  BY DEF SessionInv, ExpectedInv, NothingKept, TasksKeepConnection, Fits
<1>1. ASSUME NEW s \in Requests, s # r
      PROVE  /\ kind'[s] = kind[s] /\ place'[s] = place[s] /\ phase'[s] = phase[s]
             /\ reply'[s] = reply[s] /\ (s \in conns' <=> s \in conns)
  <2> USE <1>0, <1>1 DEF TypeOK, Move, LeaveThread, queueVars
  <2>1. CASE Arrive(r) BY <2>1 DEF Arrive
  <2>2. CASE TakeThread(r) \/ RejectToken(r) \/ Authenticate(r) \/ Dispatch(r) \/ Close(r)
    BY <2>2 DEF TakeThread, RejectToken, Authenticate, Dispatch, Close
  <2>3. CASE TimeoutInThread(r) \/ TimeoutOnLoop(r) \/ FirstQuery(r) \/ Register(r) \/ Refresh(r)
    BY <2>3 DEF TimeoutInThread, TimeoutOnLoop, FirstQuery, Register, Refresh
  <2>4. CASE List(r) \/ Read(r) \/ Found(r) \/ Delete(r) \/ BeginDeleteAll(r)
    BY <2>4 DEF List, Read, Found, Delete, BeginDeleteAll
  <2>5. CASE Submit(r) \/ RunTask(r) \/ EndTask(r) \/ TaskAnswered(r)
    BY <2>5 DEF Submit, RunTask, EndTask, TaskAnswered, Queue!Accept, Queue!Run, Queue!End, Queue!Reply
  <2>6. CASE DeleteRow(r) \/ RowGone(r) \/ ReportRow(r)
    BY <2>6 DEF DeleteRow, RowGone, ReportRow, NextRow
  <2> QED
    BY <2>1, <2>2, <2>3, <2>4, <2>5, <2>6 DEF Proceed
<1>2. Expected(r)'
  <2> USE <1>0 DEF TypeOK, Expected, Move, LeaveThread, queueVars, Sync
  <2>1. CASE Arrive(r) BY <2>1 DEF Arrive, Fits, HasArrived
  <2>2. CASE TakeThread(r) BY <2>2 DEF TakeThread, Fits, HasArrived
  <2>3. CASE RejectToken(r) \/ Authenticate(r) \/ Dispatch(r) \/ Close(r)
    BY <2>3 DEF RejectToken, Authenticate, Dispatch, Close
  <2>4. CASE TimeoutInThread(r) \/ TimeoutOnLoop(r)
    BY <2>4 DEF TimeoutInThread, TimeoutOnLoop, Wanting
  <2>5. CASE FirstQuery(r) \/ Register(r) \/ Refresh(r) \/ List(r) \/ Read(r)
    BY <2>5 DEF FirstQuery, Register, Refresh, List, Read
  <2>6. CASE Found(r) \/ Delete(r) \/ BeginDeleteAll(r)
    BY <2>6 DEF Found, Delete, BeginDeleteAll
  <2>7. CASE Submit(r) BY <2>7 DEF Submit, Queue!Accept
  <2>8. CASE RunTask(r) BY <2>8 DEF RunTask, Queue!Run, Fits, TaskHasWaiter
  <2>9. CASE EndTask(r) BY <2>9 DEF EndTask, Queue!End, Fits, TaskHasWaiter
  <2>10. CASE TaskAnswered(r) BY <2>10 DEF TaskAnswered, Queue!Reply
  <2>11. CASE DeleteRow(r) \/ RowGone(r) \/ ReportRow(r)
    BY <2>11 DEF DeleteRow, RowGone, ReportRow, NextRow
  <2> QED
    BY <2>1, <2>2, <2>3, <2>4, <2>5, <2>6, <2>7, <2>8, <2>9, <2>10, <2>11 DEF Proceed
<1>3. ASSUME NEW s \in Requests PROVE Expected(s)'
  <2>1. CASE s = r BY <1>2, <2>1
  <2>2. CASE s # r
    <3>1. Expected(s) BY DEF ExpectedInv
    <3> QED BY <1>1, <2>2, <3>1 DEF Expected
  <2> QED
    BY <2>1, <2>2
<1> QED
  BY <1>3 DEF ExpectedInv

\* Requests, threads, connections, the event loop and the executor never wait
\* for each other in a circle: as long as a request is not answered some request
\* has a step, a timeout of the pool included (middleware/db.py:57-76,
\* repo/views.py:165-175, 292-306).
THEOREM SomeRequestCanGo == Spec => []Progress
<1>1. Init => SessionInv /\ ExpectedInv
  <2> SUFFICES ASSUME Init PROVE SessionInv /\ ExpectedInv
    OBVIOUS
  <2>1. SessionInv BY InitHolds
  <2>2. ExpectedInv BY DEF Init, ExpectedInv, Expected, Queue!Init
  <2> QED
    BY <2>1, <2>2
<1>2. SessionInv /\ ExpectedInv /\ [Next]_vars => ExpectedInv'
  <2>1. ASSUME SessionInv, ExpectedInv, UNCHANGED vars PROVE ExpectedInv'
    BY <2>1 DEF ExpectedInv, Expected, vars, queueVars
  <2> QED
    BY <2>1, ExpectedStep DEF Next
<1>3. SessionInv /\ ExpectedInv => Progress
  <2> SUFFICES ASSUME SessionInv, ExpectedInv, \A r \in Requests : ~CanGo(r), NEW r \in Requests
               PROVE  place[r] \in {"new", "done"}
    BY DEF Progress
  <2>1. TypeOK /\ \A s \in Requests : Expected(s) /\ Fits(s)
    BY DEF SessionInv, ExpectedInv, NothingKept, TasksKeepConnection, Fits
  <2>2. loop = Nobody
    <3>1. ASSUME NEW s \in Requests, loop = s PROVE FALSE
      BY <2>1, <3>1 DEF CanGo, Fits, Expected
    <3> QED
      BY <2>1, <3>1 DEF TypeOK
  <2>3. \A s \in Requests : phase[s] \notin {"accepted", "running"}
    <3>1. Running = {} BY DEF CanGo, Running
    <3>2. Cardinality(Running) < Workers
      BY <3>1, FS_EmptySet, SessionsAssumption
    <3> QED
      BY <3>2 DEF CanGo
  <2>4. \A s \in Requests : place[s] \notin InThread
    BY <2>1, <2>3 DEF CanGo, Expected, InThread, Wanting
  <2>5. threads = {}
    BY <2>1, <2>4 DEF Fits, TypeOK
  <2>6. Cardinality(threads) < Tokens
    BY <2>5, FS_EmptySet, SessionsAssumption
  <2>7. place[r] \in Places /\ kind[r] \in Sync \cup Async \cup {"none"} /\ (kind[r] = "none" <=> place[r] = "new")
    BY <2>1 DEF TypeOK, Fits, HasArrived
  <2>8. place[r] \notin InThread \cup {"sent", "dispatched", "known", "end", "row", "report"}
    <3>1. place[r] \notin {"sent", "dispatched", "end", "row"} BY <2>2, <2>6 DEF CanGo
    <3>2. place[r] # "known" BY <2>2, <2>7 DEF CanGo
    <3>3. place[r] # "report" BY <2>1 DEF CanGo, Expected
    <3> QED
      BY <2>4, <3>1, <3>2, <3>3
  <2> QED
    BY <2>7, <2>8 DEF Places, InThread
<1> QED
  BY <1>1, <1>2, <1>3, SessionInvariant, PTL DEF Spec
=============================================================================
