------------------------------ MODULE TaskQueue ------------------------------
(***************************************************************************)
(* The in-process task queue of src/src/queue/core.py: one list of tasks   *)
(* and one lock per user, shared by the request threads that submit tasks  *)
(* (put, put_and_wait) and by the executor threads that run them.          *)
(*                                                                         *)
(* A step is what one thread does between two points where another thread  *)
(* can interfere: a dictionary operation, the acquisition of a lock, an    *)
(* operation on a list.  A call of put or put_and_wait is named by a       *)
(* member of Calls and has a client thread and, once the executor takes    *)
(* it, a worker thread.                                                    *)
(***************************************************************************)
EXTENDS Naturals, Sequences, FiniteSets, SequencesExt

CONSTANTS
  Users,       \* user ids, the keys of self.queue and of self.locks
  Calls,       \* calls of put and put_and_wait, one client thread each
  Tasks,       \* Task objects, identified by task_id
  UserOf,      \* the user a call submits for
  TaskOf,      \* the Task object a call submits
  Waiters,     \* the calls of put_and_wait; the others call put
  Warm,        \* users whose lock an earlier, finished call has created
  Drained,     \* users for whom get_all is called
  MaxWorkers,  \* max_workers of the ThreadPoolExecutor
  NoLock,      \* self.locks has no entry
  Nobody,      \* no thread holds the lock
  NoTask       \* get_all is not between its test and its assignment

ASSUME ConstantsAssumption ==
  /\ UserOf \in [Calls -> Users]
  /\ TaskOf \in [Calls -> Tasks]
  /\ Waiters \subseteq Calls
  /\ Warm \subseteq Users
  /\ Drained \subseteq Users
  /\ MaxWorkers \in Nat \ {0}
  /\ Users \cap Calls = {}
  /\ NoLock \notin Users \cup Calls
  /\ Nobody \notin {"client", "worker"} \X Calls
  /\ NoTask \notin Tasks

VARIABLES
  locks,    \* self.locks: user -> Lock object, or NoLock
  owner,    \* Lock object -> the thread that holds it, or Nobody
  ref,      \* thread -> the Lock object its last _acquire_lock returned
  queue,    \* self.queue: user -> list of tasks
  status,   \* task -> status
  marking,  \* user -> the task get_all has just found PENDING
  work,     \* the executor's FIFO of submitted calls
  pc,       \* thread -> where it is
  last,     \* call -> len(self.queue[user_id]) when the removal loop began
  pos,      \* call -> the loop variable i of the removal loop, from 1
  verdict,  \* call -> how _execute_and_complete ended
  event,    \* calls whose completion_event is set
  answer    \* call -> what the caller of put or put_and_wait got

vars == <<locks, owner, ref, queue, status, marking, work, pc, last, pos,
          verdict, event, answer>>

Client(c) == <<"client", c>>
Worker(c) == <<"worker", c>>
Threads   == {"client", "worker"} \X Calls

\* A Lock object is named by the call that created it, or by its user if it
\* was created before the behaviour starts.
Locks == Users \cup Calls

Pending  == "PENDING"
Started  == "STARTED"
Complete == "COMPLETE"
Failed   == "FAILED"

ClientAt == {"idle", "create", "fetch", "acquire", "append", "submit", "wait", "back"}
WorkerAt == {"idle", "queued", "fetch", "start", "run", "refetch", "reacquire",
             "scan", "pop", "signal", "resolve", "done"}

\* A worker that has run its task is at one of these places.
Ran == {"refetch", "reacquire", "scan", "pop", "signal", "resolve", "done"}

\* The places where a thread holds the lock it refers to.
Inside == {"append", "submit", "scan", "pop"}

\* The calls that occupy one of the executor's threads.
Running == {c \in Calls : pc[Worker(c)] \notin {"idle", "queued", "done"}}

Goto(th, place) == pc' = [pc EXCEPT ![th] = place]
Release(l) == owner' = [owner EXCEPT ![l] = Nobody]

\* The thread can take the lock it fetched.
LockFreeIgnored(th) == ref[th] # NoLock
LockFree(th) == owner[ref[th]] = Nobody

\* What the wait in put_and_wait waits for: the event, then the future.
EndedTooEarly(c) == pc[Worker(c)] \notin {"idle", "queued", "fetch", "start"}
Ended(c) == c \in event /\ pc[Worker(c)] = "done"

\* The events set by the finally clause of _execute_and_complete_with_event.
EventsWithoutFinally(c) == event \cup ({c} \cap Waiters \cap {d \in Calls : verdict[d] = "ok"})
EventsForAll(c) == event \cup {c}
EventsAfter(c) == event \cup ({c} \cap Waiters)

-----------------------------------------------------------------------------
(* put and put_and_wait, in the client's thread *)

\* _acquire_lock, the test: a user without a lock gets one, in a later step.
Lookup(c) ==
  /\ pc[Client(c)] = "idle"
  /\ IF locks[UserOf[c]] = NoLock
     THEN Goto(Client(c), "create") /\ UNCHANGED ref
     ELSE /\ ref' = [ref EXCEPT ![Client(c)] = locks[UserOf[c]]]
          /\ Goto(Client(c), "acquire")
  /\ UNCHANGED <<locks, owner, queue, status, marking, work, last, pos, verdict, event, answer>>

\* _acquire_lock, the assignment: it does not look again.
CreateLock(c) ==
  /\ pc[Client(c)] = "create"
  /\ locks' = [locks EXCEPT ![UserOf[c]] = c]
  /\ Goto(Client(c), "fetch")
  /\ UNCHANGED <<owner, ref, queue, status, marking, work, last, pos, verdict, event, answer>>

\* _acquire_lock, the return: the lock that is in the table by now.
FetchLock(c) ==
  /\ pc[Client(c)] = "fetch"
  /\ ref' = [ref EXCEPT ![Client(c)] = locks[UserOf[c]]]
  /\ Goto(Client(c), "acquire")
  /\ UNCHANGED <<locks, owner, queue, status, marking, work, last, pos, verdict, event, answer>>

EnterUnchecked(c) ==
  /\ pc[Client(c)] = "acquire"
  /\ LockFree(Client(c))
  /\ owner' = [owner EXCEPT ![ref[Client(c)]] = Client(c)]
  /\ Goto(Client(c), "append")
  /\ UNCHANGED <<locks, ref, queue, status, marking, work, last, pos, verdict, event, answer>>

\* Enter the with block and test the status.
Enter(c) ==
  /\ pc[Client(c)] = "acquire"
  /\ LockFree(Client(c))
  /\ status[TaskOf[c]] = Pending
  /\ owner' = [owner EXCEPT ![ref[Client(c)]] = Client(c)]
  /\ Goto(Client(c), "append")
  /\ UNCHANGED <<locks, ref, queue, status, marking, work, last, pos, verdict, event, answer>>

\* The ValueError: the with block releases the lock it has just taken.
Reject(c) ==
  /\ pc[Client(c)] = "acquire"
  /\ LockFree(Client(c))
  /\ status[TaskOf[c]] # Pending
  /\ answer' = [answer EXCEPT ![c] = "rejected"]
  /\ Goto(Client(c), "back")
  /\ UNCHANGED <<locks, owner, ref, queue, status, marking, work, last, pos, verdict, event>>

Enqueue(c) ==
  /\ pc[Client(c)] = "append"
  /\ queue' = [queue EXCEPT ![UserOf[c]] = Append(@, TaskOf[c])]
  /\ Goto(Client(c), "submit")
  /\ UNCHANGED <<locks, owner, ref, status, marking, work, last, pos, verdict, event, answer>>

\* executor.submit, the end of the with block, and put returns.
Submit(c) ==
  /\ pc[Client(c)] = "submit"
  /\ work' = Append(work, c)
  /\ Release(ref[Client(c)])
  /\ pc' = [pc EXCEPT ![Client(c)] = IF c \in Waiters THEN "wait" ELSE "back",
                      ![Worker(c)] = "queued"]
  /\ answer' = IF c \in Waiters THEN answer ELSE [answer EXCEPT ![c] = "accepted"]
  /\ UNCHANGED <<locks, ref, queue, status, marking, last, pos, verdict, event>>

\* completion_event.wait() and then future.result().
Return(c) ==
  /\ pc[Client(c)] = "wait"
  /\ Ended(c)
  /\ answer' = [answer EXCEPT ![c] = verdict[c]]
  /\ Goto(Client(c), "back")
  /\ UNCHANGED <<locks, owner, ref, queue, status, marking, work, last, pos, verdict, event>>

-----------------------------------------------------------------------------
(* _execute_and_complete, in a thread of the executor *)

TakeWork(c) ==
  /\ work # <<>> /\ Head(work) = c
  /\ Cardinality(Running) < MaxWorkers
  /\ work' = Tail(work)
  /\ Goto(Worker(c), "fetch")
  /\ UNCHANGED <<locks, owner, ref, queue, status, marking, last, pos, verdict, event, answer>>

\* _acquire_lock finds the lock its client found or created, or a later one.
WorkerFetch(c) ==
  /\ \/ pc[Worker(c)] = "fetch" /\ Goto(Worker(c), "start")
     \/ pc[Worker(c)] = "refetch" /\ Goto(Worker(c), "reacquire")
  /\ ref' = [ref EXCEPT ![Worker(c)] = locks[UserOf[c]]]
  /\ UNCHANGED <<locks, owner, queue, status, marking, work, last, pos, verdict, event, answer>>

\* A with block of one assignment: taken and released in one step.
Start(c) ==
  /\ pc[Worker(c)] = "start"
  /\ LockFree(Worker(c))
  /\ status' = [status EXCEPT ![TaskOf[c]] = Started]
  /\ Goto(Worker(c), "run")
  /\ UNCHANGED <<locks, owner, ref, queue, marking, work, last, pos, verdict, event, answer>>

FinishUnmarked(c) ==
  /\ pc[Worker(c)] = "run"
  /\ \/ /\ verdict' = [verdict EXCEPT ![c] = "ok"]
        /\ status' = [status EXCEPT ![TaskOf[c]] = Complete]
     \/ /\ verdict' = [verdict EXCEPT ![c] = "error"]
        /\ UNCHANGED status
  /\ Goto(Worker(c), "refetch")
  /\ UNCHANGED <<locks, owner, ref, queue, marking, work, last, pos, event, answer>>

\* task.task(...) returns or raises.
Finish(c) ==
  /\ pc[Worker(c)] = "run"
  /\ \/ /\ verdict' = [verdict EXCEPT ![c] = "ok"]
        /\ status' = [status EXCEPT ![TaskOf[c]] = Complete]
     \/ /\ verdict' = [verdict EXCEPT ![c] = "error"]
        /\ status' = [status EXCEPT ![TaskOf[c]] = Failed]
  /\ Goto(Worker(c), "refetch")
  /\ UNCHANGED <<locks, owner, ref, queue, marking, work, last, pos, event, answer>>

\* The finally block: take the lock and evaluate range(len(...)).
BeginRemoval(c) ==
  /\ pc[Worker(c)] = "reacquire"
  /\ LockFree(Worker(c))
  /\ owner' = [owner EXCEPT ![ref[Worker(c)]] = Worker(c)]
  /\ last' = [last EXCEPT ![c] = Len(queue[UserOf[c]])]
  /\ pos' = [pos EXCEPT ![c] = 1]
  /\ Goto(Worker(c), "scan")
  /\ UNCHANGED <<locks, ref, queue, status, marking, work, verdict, event, answer>>

\* One iteration of the loop, up to the comparison.
Compare(c) ==
  /\ pc[Worker(c)] = "scan"
  /\ pos[c] <= last[c]
  /\ pos[c] <= Len(queue[UserOf[c]])
  /\ IF queue[UserOf[c]][pos[c]] = TaskOf[c]
     THEN Goto(Worker(c), "pop") /\ UNCHANGED pos
     ELSE pos' = [pos EXCEPT ![c] = @ + 1] /\ UNCHANGED pc
  /\ UNCHANGED <<locks, owner, ref, queue, status, marking, work, last, verdict, event, answer>>

PopFirst(c) ==
  /\ pc[Worker(c)] = "pop"
  /\ pos[c] <= Len(queue[UserOf[c]])
  /\ queue' = [queue EXCEPT ![UserOf[c]] = Tail(@)]
  /\ Release(ref[Worker(c)])
  /\ Goto(Worker(c), "signal")
  /\ UNCHANGED <<locks, ref, status, marking, work, last, pos, verdict, event, answer>>

Pop(c) ==
  /\ pc[Worker(c)] = "pop"
  /\ pos[c] <= Len(queue[UserOf[c]])
  /\ queue' = [queue EXCEPT ![UserOf[c]] = RemoveAt(@, pos[c])]
  /\ Release(ref[Worker(c)])
  /\ Goto(Worker(c), "signal")
  /\ UNCHANGED <<locks, ref, status, marking, work, last, pos, verdict, event, answer>>

\* The loop runs to its end without a match.
NotFound(c) ==
  /\ pc[Worker(c)] = "scan"
  /\ pos[c] > last[c]
  /\ Release(ref[Worker(c)])
  /\ Goto(Worker(c), "signal")
  /\ UNCHANGED <<locks, ref, queue, status, marking, work, last, pos, verdict, event, answer>>

\* The list got shorter under the loop: an IndexError leaves the finally
\* block and replaces the task's own result or exception.
IndexError(c) ==
  /\ \/ pc[Worker(c)] = "scan" /\ pos[c] <= last[c]
     \/ pc[Worker(c)] = "pop"
  /\ pos[c] > Len(queue[UserOf[c]])
  /\ verdict' = [verdict EXCEPT ![c] = "broken"]
  /\ Release(ref[Worker(c)])
  /\ Goto(Worker(c), "signal")
  /\ UNCHANGED <<locks, ref, queue, status, marking, work, last, pos, event, answer>>

\* completion_event.set(), for put_and_wait only.
Signal(c) ==
  /\ pc[Worker(c)] = "signal"
  /\ event' = EventsAfter(c)
  /\ Goto(Worker(c), "resolve")
  /\ UNCHANGED <<locks, owner, ref, queue, status, marking, work, last, pos, verdict, answer>>

\* The executor stores the result in the future and its thread is free.
Resolve(c) ==
  /\ pc[Worker(c)] = "resolve"
  /\ Goto(Worker(c), "done")
  /\ UNCHANGED <<locks, owner, ref, queue, status, marking, work, last, pos, verdict, event, answer>>

-----------------------------------------------------------------------------
(* get_all: it takes no lock, and tests and assigns in two steps.          *)

DrainTest(u) ==
  /\ u \in Drained /\ marking[u] = NoTask
  /\ \E i \in DOMAIN queue[u] :
       /\ status[queue[u][i]] = Pending
       /\ marking' = [marking EXCEPT ![u] = queue[u][i]]
  /\ UNCHANGED <<locks, owner, ref, queue, status, work, pc, last, pos, verdict, event, answer>>

DrainMark(u) ==
  /\ marking[u] # NoTask
  /\ status' = [status EXCEPT ![marking[u]] = Started]
  /\ marking' = [marking EXCEPT ![u] = NoTask]
  /\ UNCHANGED <<locks, owner, ref, queue, work, pc, last, pos, verdict, event, answer>>

-----------------------------------------------------------------------------
Init ==
  /\ locks = [u \in Users |-> IF u \in Warm THEN u ELSE NoLock]
  /\ owner = [l \in Locks |-> Nobody]
  /\ ref = [th \in Threads |-> NoLock]
  /\ queue = [u \in Users |-> <<>>]
  /\ status = [t \in Tasks |-> Pending]
  /\ marking = [u \in Users |-> NoTask]
  /\ work = <<>>
  /\ pc = [th \in Threads |-> "idle"]
  /\ last = [c \in Calls |-> 0]
  /\ pos = [c \in Calls |-> 1]
  /\ verdict = [c \in Calls |-> "none"]
  /\ event = {}
  /\ answer = [c \in Calls |-> "none"]

ClientStep(c) ==
  \/ Lookup(c) \/ CreateLock(c) \/ FetchLock(c) \/ Enter(c) \/ Reject(c)
  \/ Enqueue(c) \/ Submit(c) \/ Return(c)

WorkerStep(c) ==
  \/ TakeWork(c) \/ WorkerFetch(c) \/ Start(c) \/ Finish(c) \/ BeginRemoval(c)
  \/ Compare(c) \/ Pop(c) \/ NotFound(c) \/ IndexError(c) \/ Signal(c) \/ Resolve(c)

Next ==
  \/ \E c \in Calls : ClientStep(c) \/ WorkerStep(c)
  \/ \E u \in Users : DrainTest(u) \/ DrainMark(u)

Spec == Init /\ [][Next]_vars

\* Started threads are scheduled and a task's body ends; a caller need not
\* call.  A lock is contended finitely often, so weak fairness is enough.
Fairness ==
  \A c \in Calls : /\ WF_vars(pc[Client(c)] # "idle" /\ ClientStep(c))
                   /\ WF_vars(WorkerStep(c))

FairSpec == Spec /\ Fairness

-----------------------------------------------------------------------------
(* Properties *)

\* Every variable keeps to the values the code can give it.
TypeOK ==
  /\ locks \in [Users -> Locks \cup {NoLock}]
  /\ owner \in [Locks -> Threads \cup {Nobody}]
  /\ ref \in [Threads -> Locks \cup {NoLock}]
  /\ queue \in [Users -> Seq(Tasks)]
  /\ status \in [Tasks -> {Pending, Started, Complete, Failed}]
  /\ marking \in [Users -> Tasks \cup {NoTask}]
  /\ work \in Seq(Calls)
  /\ pc \in [Threads -> ClientAt \cup WorkerAt]
  /\ last \in [Calls -> Nat]
  /\ pos \in [Calls -> Nat \ {0}]
  /\ verdict \in [Calls -> {"none", "ok", "error", "broken"}]
  /\ event \subseteq Waiters
  /\ answer \in [Calls -> {"none", "accepted", "rejected", "ok", "error", "broken"}]

\* The call's task is in its user's list: appended by the client and not yet
\* removed by the worker.
Listed(c) ==
  /\ pc[Client(c)] \in {"submit", "wait", "back"}
  /\ answer[c] # "rejected"
  /\ pc[Worker(c)] \notin {"signal", "resolve", "done"}

\* The with blocks of one user never overlap, whichever Lock objects the
\* threads hold (core.py:40-43 and the with blocks at 53, 61, 93 and 107).
OneInside ==
  \A th1, th2 \in Threads :
    /\ pc[th1] \in Inside /\ pc[th2] \in Inside
    /\ UserOf[th1[2]] = UserOf[th2[2]]
    => th1 = th2

\* A user's list holds a task once for every call that submitted it and is
\* unfinished: a removal loop never removes another call's entry, misses its
\* own, or leaves it behind (core.py:106-111 against core.py:57 and 65).
QueueTracksCalls ==
  \A u \in Users, t \in Tasks :
    Cardinality({i \in DOMAIN queue[u] : queue[u][i] = t})
      = Cardinality({c \in Calls : UserOf[c] = u /\ TaskOf[c] = t /\ Listed(c)})

\* Only the call's own worker marks its task: no other call submits the Task
\* object, and get_all is not called for its user.
Alone(c) ==
  /\ UserOf[c] \notin Drained
  /\ \A d \in Calls : TaskOf[d] = TaskOf[c] => d = c

\* put_and_wait returns the task's own outcome, and only once the task has
\* its final status: "Get the result or raise the exception if one
\* occurred" (core.py:75-81).  A task that others mark may be STARTED again
\* before its first caller is back.
AnswerIsOutcome ==
  \A c \in Waiters : Alone(c) /\ pc[Client(c)] = "back" =>
    \/ answer[c] = "rejected"
    \/ answer[c] = "ok" /\ status[TaskOf[c]] = Complete
    \/ answer[c] = "error" /\ status[TaskOf[c]] = Failed

\* Whatever put_and_wait reports, its task has run to its end: no caller
\* goes on while the task it submitted still runs (core.py:73, 86-90).
AnswerAfterEnd ==
  \A c \in Waiters : pc[Client(c)] = "back" /\ answer[c] # "rejected" =>
    /\ verdict[c] # "none"
    /\ Alone(c) => status[TaskOf[c]] \in {Complete, Failed}

\* The test of the status still holds when the task is appended: no task
\* is queued that a worker has already started (core.py:53-57, 93-94).
NoLateEnqueue ==
  [][\A c \in Calls : Len(queue'[UserOf[c]]) > Len(queue[UserOf[c]]) =>
       LET t == queue'[UserOf[c]][Len(queue'[UserOf[c]])]
       IN  TaskOf[c] = t => pc[Worker(c)] \notin {"run"} \cup Ran]_vars

\* A call that began comes back, and a task that was accepted ends, whatever
\* the body of the task does (core.py:60-111).
EveryCallEnds ==
  \A c \in Calls : pc[Client(c)] # "idle" ~>
    /\ pc[Client(c)] = "back"
    /\ answer[c] = "rejected" \/ pc[Worker(c)] = "done"

\* The same for the cold start, where there are too many states for the
\* temporal property: where nothing can go on, nobody is left waiting.  A
\* behaviour takes a bounded number of steps, so this is EveryCallEnds again.
NobodyStuck ==
  (\A c \in Calls : ~ENABLED ClientStep(c) /\ ~ENABLED WorkerStep(c)) =>
    \A c \in Calls : /\ pc[Client(c)] = "back"
                     /\ answer[c] = "rejected" \/ pc[Worker(c)] = "done"

-----------------------------------------------------------------------------
\* No two first calls of a user in S race: a lock in the table is not replaced.
KeepsLocks(S) == \A u \in S : locks[u] # NoLock => locks'[u] = locks[u]
LocksStay(S)  == [][KeepsLocks(S)]_vars

(* Strengthenings of the invariants above, for the proofs. *)

\* How a call's two threads, its answer and the executor's FIFO agree.
PhasesAgree(c) ==
  /\ pc[Client(c)] \in ClientAt /\ pc[Worker(c)] \in WorkerAt
  /\ pc[Client(c)] \in {"wait", "back"} /\ answer[c] # "rejected" <=> pc[Worker(c)] # "idle"
  /\ answer[c] = "rejected" => pc[Client(c)] = "back"
  /\ c \in Waiters /\ pc[Client(c)] = "back" /\ answer[c] # "rejected" =>
       pc[Worker(c)] = "done" /\ answer[c] = verdict[c]

FifoInv ==
  /\ IsInjective(work)
  /\ \A i \in DOMAIN work : pc[Worker(work[i])] = "queued"

PhaseInv == (\A c \in Calls : PhasesAgree(c)) /\ FifoInv

-----------------------------------------------------------------------------
\* The abstract lifecycle this queue implements: the call is accepted when
\* the executor has it, runs from the STARTED mark, and ends with its task.
PhaseOf(c) ==
  CASE answer[c] = "rejected" -> "refused"
    [] pc[Worker(c)] = "idle" /\ answer[c] # "rejected" -> "new"
    [] pc[Worker(c)] \in {"queued", "fetch", "start"} -> "accepted"
    [] pc[Worker(c)] = "run" -> "running"
    [] OTHER -> "ended"

Lifecycle == INSTANCE TaskLifecycle WITH
  phase <- [c \in Calls |-> PhaseOf(c)],
  result <- verdict,
  reply <- [c \in Calls |-> IF answer[c] = "accepted" THEN "none" ELSE answer[c]]

\* Every step is one of the lifecycle's or leaves it alone, and the queue
\* makes the progress the lifecycle promises (core.py:52-111).
ImplementsLifecycle == Lifecycle!Spec
=============================================================================
