--------------------------- MODULE RequestSessions ---------------------------
(***************************************************************************)
(* How requests share the server's scarce things: the connections of the   *)
(* SQLAlchemy pool, the threads that run synchronous handlers, the one     *)
(* event loop, and the executor of the task queue.                         *)
(*                                                                         *)
(* DBMiddleware gives each request a session.  The session takes a         *)
(* connection at its first query, gives it back at a commit, takes one     *)
(* again when an object the commit expired is read, and gives it back for  *)
(* good when the middleware closes it, on the event loop.  The task queue  *)
(* is here by its abstract lifecycle, which TaskQueue implements.          *)
(***************************************************************************)
EXTENDS Naturals, FiniteSets

CONSTANTS
  Requests,  \* HTTP requests
  PoolSize,  \* pool_size + max_overflow of the engine
  Tokens,    \* threads for synchronous handlers and dependencies
  Workers,   \* max_workers of the task queue's executor
  MaxRepos,  \* bound: repositories that a delete_all finds
  Nobody     \* the event loop is free

ASSUME SessionsAssumption ==
  /\ IsFiniteSet(Requests)
  /\ PoolSize \in Nat \ {0} /\ Tokens \in Nat \ {0} /\ Workers \in Nat \ {0}
  /\ MaxRepos \in Nat
  /\ Nobody \notin Requests

VARIABLES
  kind,    \* request -> the endpoint it calls, or "none"
  place,   \* request -> where it is
  conns,   \* requests whose session holds a connection
  threads, \* requests that a thread of the threadpool works for
  loop,    \* the request in which the event loop is blocked, or Nobody
  left,    \* request -> repositories that its delete_all has still to delete
  phase,   \* request -> its task in the queue, see TaskLifecycle
  result,  \* request -> how its task ended
  reply    \* request -> what put_and_wait returned

queueVars == <<phase, result, reply>>
vars == <<kind, place, conns, threads, loop, left, phase, result, reply>>

Queue == INSTANCE TaskLifecycle WITH Calls <- Requests, Waiters <- Requests

Sync  == {"create", "list", "register"}
Async == {"poll", "read", "delete", "delete_all"}

\* Places at which a thread of the threadpool works for the request.
InThread == {"auth", "handler", "fresh", "expired", "wait"}

\* Places at which a thread needs a connection that the session does not have:
\* the first query, and an object that a commit has expired.
Wanting == {"auth", "fresh", "expired"}

Move(r, p) == place' = [place EXCEPT ![r] = p]
LeaveThread(r) == threads' = threads \ {r}
HasRoom == Cardinality(conns) < PoolSize

Running == {r \in Requests : phase[r] = "running"}

-----------------------------------------------------------------------------
(* DBMiddleware.dispatch and get_current_user *)

Arrive(r) ==
  /\ loop = Nobody /\ kind[r] = "none"
  /\ \E k \in Sync \cup Async :
       /\ kind' = [kind EXCEPT ![r] = k]
       /\ Move(r, IF k = "register" THEN "dispatched" ELSE "sent")
  /\ UNCHANGED <<conns, threads, loop, left, queueVars>>

\* A synchronous dependency or handler runs when a thread is free.
TakeThread(r) ==
  /\ Cardinality(threads) < Tokens
  /\ \/ place[r] = "sent" /\ Move(r, "auth")
     \/ place[r] = "dispatched" /\ Move(r, IF kind[r] = "register" THEN "fresh" ELSE "handler")
  /\ threads' = threads \cup {r}
  /\ UNCHANGED <<kind, conns, loop, left, queueVars>>

\* extract_user_email_jwt: a missing or malformed token is a 401 before any query,
\* for which a thread is taken for an instant.
RejectToken(r) ==
  /\ place[r] = "sent" /\ Cardinality(threads) < Tokens
  /\ Move(r, "end")
  /\ UNCHANGED <<kind, conns, threads, loop, left, queueVars>>

\* get_by_email: the session's first query; an unknown user is a 401.
Authenticate(r) ==
  /\ place[r] = "auth" /\ HasRoom
  /\ conns' = conns \cup {r}
  /\ Move(r, "known") \/ Move(r, "end")
  /\ LeaveThread(r)
  /\ UNCHANGED <<kind, loop, left, queueVars>>

\* The event loop goes on with an authenticated request.
Dispatch(r) ==
  /\ loop = Nobody /\ place[r] = "known" /\ kind[r] \in Sync
  /\ Move(r, "dispatched")
  /\ UNCHANGED <<kind, conns, threads, loop, left, queueVars>>

\* Mutant of Close: a failed creation skips the finally.
CloseOnSuccess(r) ==
  /\ loop = Nobody /\ place[r] = "end"
  /\ conns' = IF reply[r] = "error" THEN conns ELSE conns \ {r}
  /\ Move(r, "done")
  /\ UNCHANGED <<kind, threads, loop, left, queueVars>>

\* Whatever happened, the session is closed, on the event loop.
Close(r) ==
  /\ loop = Nobody /\ place[r] = "end"
  /\ conns' = conns \ {r}
  /\ Move(r, "done")
  /\ UNCHANGED <<kind, threads, loop, left, queueVars>>

\* QueuePool raises TimeoutError after 30 seconds without a connection.  In
\* delete_all the exception is caught, and printing it needs the row again.
TimeoutInThread(r) ==
  /\ place[r] \in Wanting /\ ~HasRoom
  /\ Move(r, "end")
  /\ LeaveThread(r)
  /\ UNCHANGED <<kind, conns, loop, left, queueVars>>

\* Mutant of TimeoutOnLoop: the pool waits for a connection without limit.
TimeoutNever(r) == FALSE

TimeoutOnLoop(r) ==
  /\ r \notin conns /\ ~HasRoom
  /\ \/ place[r] = "row" /\ Move(r, "report") /\ UNCHANGED <<loop, left>>
     \/ place[r] = "report" /\ Move(r, "end") /\ loop' = Nobody /\ left' = [left EXCEPT ![r] = 0]
  /\ UNCHANGED <<kind, conns, threads, queueVars>>

-----------------------------------------------------------------------------
(* register_user and the reading endpoints *)

\* The handler's first query, where there was no authentication.
FirstQuery(r) ==
  /\ place[r] = "fresh" /\ HasRoom
  /\ conns' = conns \cup {r}
  /\ Move(r, "handler")
  /\ UNCHANGED <<kind, threads, loop, left, queueVars>>

\* The email is taken, or the user is created; reading user.token after the
\* commit needs a connection again.
Register(r) ==
  /\ place[r] = "handler" /\ kind[r] = "register"
  /\ \/ Move(r, "end") /\ LeaveThread(r) /\ UNCHANGED conns
     \/ Move(r, "expired") /\ conns' = conns \ {r} /\ UNCHANGED threads
  /\ UNCHANGED <<kind, loop, left, queueVars>>

\* The object is read again, and the handler returns.
Refresh(r) ==
  /\ place[r] = "expired" /\ HasRoom
  /\ conns' = conns \cup {r}
  /\ Move(r, "end")
  /\ LeaveThread(r)
  /\ UNCHANGED <<kind, loop, left, queueVars>>

List(r) ==
  /\ place[r] = "handler" /\ kind[r] = "list"
  /\ Move(r, "end")
  /\ LeaveThread(r)
  /\ UNCHANGED <<kind, conns, loop, left, queueVars>>

\* get_repo_files, summarize_repo, chat, and /task/get.
Read(r) ==
  /\ loop = Nobody /\ place[r] = "known" /\ kind[r] \in {"read", "poll"}
  /\ Move(r, "end")
  /\ UNCHANGED <<kind, conns, threads, loop, left, queueVars>>

-----------------------------------------------------------------------------
(* create_repo_sync and its task *)

\* The repository is there and the user has it, or the lookup or the size
\* check raises; or the user is added, with a commit, and the row read again.
Found(r) ==
  /\ place[r] = "handler" /\ kind[r] = "create"
  /\ \/ Move(r, "end") /\ LeaveThread(r) /\ UNCHANGED conns
     \/ Move(r, "expired") /\ conns' = conns \ {r} /\ UNCHANGED threads
  /\ UNCHANGED <<kind, loop, left, queueVars>>

\* Mutant of Submit: the session is committed before the task is queued.
SubmitCommitted(r) ==
  /\ place[r] = "handler" /\ kind[r] = "create"
  /\ Queue!Accept(r)
  /\ Move(r, "wait")
  /\ conns' = conns \ {r}
  /\ UNCHANGED <<kind, threads, loop, left>>

\* put_and_wait: the thread waits, and the session keeps its connection.
Submit(r) ==
  /\ place[r] = "handler" /\ kind[r] = "create"
  /\ Queue!Accept(r)
  /\ Move(r, "wait")
  /\ UNCHANGED <<kind, conns, threads, loop, left>>

RunTask(r) ==
  /\ Cardinality(Running) < Workers
  /\ Queue!Run(r)
  /\ UNCHANGED <<kind, place, conns, threads, loop, left>>

\* The task's last act is a commit; an exception is not rolled back.
EndTask(r) ==
  /\ Queue!End(r)
  /\ conns' = IF result'[r] = "ok" THEN conns \ {r} ELSE conns
  /\ UNCHANGED <<kind, place, threads, loop, left>>

TaskAnswered(r) ==
  /\ place[r] = "wait"
  /\ Queue!Reply(r)
  /\ Move(r, "end")
  /\ LeaveThread(r)
  /\ UNCHANGED <<kind, conns, loop, left>>

-----------------------------------------------------------------------------
(* delete_repo, delete_user and delete_all_repos, on the event loop *)

\* Nothing to delete, or a deletion with its commit.
Delete(r) ==
  /\ loop = Nobody /\ place[r] = "known" /\ kind[r] = "delete"
  /\ conns' = conns \/ conns' = conns \ {r}
  /\ Move(r, "end")
  /\ UNCHANGED <<kind, threads, loop, left, queueVars>>

\* Mutant of NextRow: the loop goes one row too far.
NextRowLate(r) ==
  IF left[r] > 0
  THEN Move(r, "row") /\ UNCHANGED loop
  ELSE Move(r, "end") /\ loop' = Nobody

\* Leave the loop over the repositories with a commit, or go on to the next.
NextRow(r) ==
  IF left[r] > 1
  THEN Move(r, "row") /\ UNCHANGED loop
  ELSE Move(r, "end") /\ loop' = Nobody

\* All repositories are read, and one of them is deleted, with a commit, or
\* the deletion raises, which delete_all catches.
BeginDeleteAll(r) ==
  /\ loop = Nobody /\ place[r] = "known" /\ kind[r] = "delete_all"
  /\ \E n \in 0..MaxRepos :
       IF n > 1
       THEN /\ left' = [left EXCEPT ![r] = n - 1]
            /\ Move(r, "row") /\ loop' = r
            /\ conns' = conns \/ conns' = conns \ {r}
       ELSE Move(r, "end") /\ conns' = conns \ {r} /\ UNCHANGED <<left, loop>>
  /\ UNCHANGED <<kind, threads, queueVars>>

\* A row that a commit has expired is read and deleted in the same way.
DeleteRow(r) ==
  /\ place[r] = "row" /\ (r \in conns \/ HasRoom)
  /\ left' = [left EXCEPT ![r] = @ - 1]
  /\ NextRow(r)
  /\ \/ conns' = conns \ {r}
     \/ left[r] > 1 /\ conns' = conns \cup {r}
  /\ UNCHANGED <<kind, threads, queueVars>>

\* Someone else has deleted the row: reading it raises, and so does printing.
RowGone(r) ==
  /\ place[r] = "row" /\ (r \in conns \/ HasRoom)
  /\ conns' = conns \cup {r}
  /\ left' = [left EXCEPT ![r] = 0]
  /\ Move(r, "end") /\ loop' = Nobody
  /\ UNCHANGED <<kind, threads, queueVars>>

\* The row of the caught exception is read for the message, and skipped.
ReportRow(r) ==
  /\ place[r] = "report" /\ HasRoom
  /\ left' = [left EXCEPT ![r] = @ - 1]
  /\ NextRow(r)
  /\ conns' = IF left[r] > 1 THEN conns \cup {r} ELSE conns
  /\ UNCHANGED <<kind, threads, queueVars>>

-----------------------------------------------------------------------------
Init ==
  /\ kind = [r \in Requests |-> "none"]
  /\ place = [r \in Requests |-> "new"]
  /\ conns = {} /\ threads = {} /\ loop = Nobody
  /\ left = [r \in Requests |-> 0]
  /\ Queue!Init

\* What a request that has arrived does next.
Proceed(r) ==
  \/ TakeThread(r) \/ RejectToken(r) \/ Authenticate(r) \/ Dispatch(r) \/ Close(r)
  \/ TimeoutInThread(r) \/ TimeoutOnLoop(r)
  \/ FirstQuery(r) \/ Register(r) \/ Refresh(r) \/ List(r) \/ Read(r)
  \/ Found(r) \/ Submit(r) \/ RunTask(r) \/ EndTask(r) \/ TaskAnswered(r)
  \/ Delete(r) \/ BeginDeleteAll(r) \/ DeleteRow(r) \/ RowGone(r) \/ ReportRow(r)

Next == \E r \in Requests : Arrive(r) \/ Proceed(r)

Spec == Init /\ [][Next]_vars

\* Threads are scheduled, the loop turns, tasks end and the pool's timeout
\* elapses; nobody has to send a request.
FairSpec == Spec /\ \A r \in Requests : WF_vars(Proceed(r))

-----------------------------------------------------------------------------
(* Properties *)

Places == {"new", "sent", "auth", "known", "dispatched", "fresh", "handler",
           "expired", "wait", "row", "report", "end", "done"}

\* The types of all variables; delete_all never goes on past its last row.
TypeOK ==
  /\ kind \in [Requests -> Sync \cup Async \cup {"none"}]
  /\ place \in [Requests -> Places]
  /\ conns \subseteq Requests /\ threads \subseteq Requests
  /\ loop \in Requests \cup {Nobody}
  /\ left \in [Requests -> 0..MaxRepos]
  /\ phase \in [Requests -> {"new", "accepted", "running", "ended", "refused"}]
  /\ result \in [Requests -> {"none", "ok", "error"}]
  /\ reply \in [Requests -> {"none", "rejected", "ok", "error"}]

\* An answered request has given everything back, whichever of its steps
\* raised or timed out, and the pool never lends more than it has
\* (middleware/db.py:57-73, QueuePool).
NothingKept ==
  /\ Cardinality(conns) <= PoolSize
  /\ \A r \in Requests :
       /\ place[r] \in {"new", "done"} => r \notin conns
       /\ r \in threads <=> place[r] \in InThread
       /\ loop = r <=> place[r] \in {"row", "report"}

\* A task never waits for a connection: the session it works with got one
\* from the authentication of its request and keeps it until the task's last
\* commit, so the executor's threads and the pool never wait for each other
\* (auth/service.py:103-107, repo/views.py:131-175, repo/tasks.py:147-160).
TasksKeepConnection ==
  \A r \in Requests : phase[r] \in {"accepted", "running"} =>
    place[r] = "wait" /\ r \in conns

\* Every request is answered, although the event loop can be blocked by a
\* delete_all that waits for a connection which only the event loop can give
\* back (repo/views.py:292-306): the pool's timeout is what ends the wait.
EveryRequestAnswered == \A r \in Requests : kind[r] # "none" ~> place[r] = "done"

-----------------------------------------------------------------------------
(* The invariant that is inductive. *)

\* A session that authenticated its request holds a connection up to the
\* handler's first commit.
HeldFromTheStart(r) ==
  \/ place[r] \in {"known", "handler"}
  \/ place[r] = "dispatched" /\ kind[r] # "register"
  => r \in conns

\* A task is in the queue only while its request's thread waits for it.
TaskHasWaiter(r) ==
  /\ phase[r] \in {"accepted", "running"} => place[r] = "wait"
  /\ place[r] # "wait" /\ phase[r] # "new" => place[r] \in {"end", "done"}

HasArrived(r) == kind[r] = "none" <=> place[r] = "new"

\* delete_all reads a row only while there is one.
RowIsLeft(r) == place[r] \in {"row", "report"} => left[r] > 0

SessionInv ==
  /\ TypeOK
  /\ NothingKept
  /\ TasksKeepConnection
  /\ \A r \in Requests : HasArrived(r) /\ HeldFromTheStart(r) /\ TaskHasWaiter(r) /\ RowIsLeft(r)
=============================================================================
