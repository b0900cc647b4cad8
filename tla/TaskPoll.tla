------------------------------- MODULE TaskPoll -------------------------------
(***************************************************************************)
(* /task/get (src/src/queue/views.py): TaskQueue.get searches the live     *)
(* dictionary and its lists on the event loop, without a lock, while the   *)
(* request threads append to them and the executor's threads remove from   *)
(* them.  Nothing in a poll awaits, so there is one poll at a time.        *)
(***************************************************************************)
EXTENDS TaskQueue

CONSTANTS
  Asked,    \* the tasks polls ask for
  NoRead    \* the poll has not read the field yet

ASSUME PollAssumption ==
  /\ Asked \subseteq Tasks
  /\ NoRead \notin {"PENDING", "STARTED", "COMPLETE", "FAILED", "none", "ok", "error"}

VARIABLES
  keys,     \* the keys of self.queue, in the order of their insertion
  result,   \* task -> what its last run left in task.result
  at,       \* where the poll is
  wanted,   \* the task_id it searches for
  size,     \* the size of the dictionary when the iteration began
  row,      \* the key whose list is searched
  col,      \* the next index in that list
  seen,     \* the status it read
  carried,  \* the result it read
  since     \* history: what happened to the lists since the poll began

pollVars == <<at, wanted, size, row, col, seen, carried>>
allVars  == <<vars, keys, result, pollVars, since>>

PollAt == {"out", "list", "task", "found", "read", "answered", "missed", "raised"}

InLists(t) == \E u \in Users : t \in ToSet(queue[u])
Place(q, t) == SelectInSeq(q, LAMBDA x : x = t)

\* While the poll searches, a step of the queue can take the wanted task out
\* of its list, or move it towards the front.
Noticed ==
  {e \in {"absent", "moved"} : at \in {"list", "task"} /\
     \/ e = "absent" /\ \A u \in Users : wanted \notin ToSet(queue'[u])
     \/ e = "moved" /\ \E u \in Users : LET before == Place(queue[u], wanted)
                                           after  == Place(queue'[u], wanted)
                                       IN  after # 0 /\ after < before}

-----------------------------------------------------------------------------
(* Everybody else *)

InsertAgain(new) == keys' = keys \o SetToSeq(new)

\* self.queue is a defaultdict: the first use of a key inserts it.
Insert(new) == keys' = keys \o SetToSeq(new \ ToSet(keys))

\* A step of the queue.  The body of a task leaves its result in the task
\* before the status is set; the poll reads them in the other order, so the
\* two assignments may be taken together.
QueueStep ==
  /\ Next
  /\ Insert({u \in Users : queue'[u] # <<>>})
  /\ result' = [t \in Tasks |->
       IF \E c \in Calls : TaskOf[c] = t /\ pc[Worker(c)] = "run" /\ pc'[Worker(c)] # "run"
       THEN verdict'[CHOOSE c \in Calls : /\ TaskOf[c] = t /\ pc[Worker(c)] = "run"
                                          /\ pc'[Worker(c)] # "run"]
       ELSE result[t]]
  /\ since' = since \cup Noticed
  /\ UNCHANGED pollVars

\* /task/list looks at the first tasks of a list, and inserts the key.
Peak(u) ==
  /\ u \notin ToSet(keys)
  /\ Insert({u})
  /\ UNCHANGED <<vars, result, pollVars, since>>

-----------------------------------------------------------------------------
(* The poll *)

Ask(t) ==
  /\ at = "out"
  /\ at' = "list" /\ wanted' = t /\ size' = Len(keys) /\ row' = 0
  /\ since' = IF InLists(t) THEN {} ELSE {"absent"}
  /\ UNCHANGED <<vars, keys, result, col, seen, carried>>

\* The next value of the dictionary: an error if a key was inserted, None if
\* there is no further one, and the view takes None for a task.
NextList ==
  /\ at = "list"
  /\ IF Len(keys) # size THEN at' = "raised" /\ UNCHANGED <<row, col>>
     ELSE IF row = size THEN at' = "missed" /\ UNCHANGED <<row, col>>
     ELSE at' = "task" /\ row' = row + 1 /\ col' = 1
  /\ UNCHANGED <<vars, keys, result, wanted, size, seen, carried, since>>

NextTaskShort ==
  /\ at = "task"
  /\ IF col >= Len(queue[keys[row]]) THEN at' = "list" /\ UNCHANGED col
     ELSE IF queue[keys[row]][col] = wanted THEN at' = "found" /\ UNCHANGED col
     ELSE col' = col + 1 /\ UNCHANGED at
  /\ UNCHANGED <<vars, keys, result, wanted, size, row, seen, carried, since>>

\* The next element of the list that is there now.
NextTask ==
  /\ at = "task"
  /\ IF col > Len(queue[keys[row]]) THEN at' = "list" /\ UNCHANGED col
     ELSE IF queue[keys[row]][col] = wanted THEN at' = "found" /\ UNCHANGED col
     ELSE col' = col + 1 /\ UNCHANGED at
  /\ UNCHANGED <<vars, keys, result, wanted, size, row, seen, carried, since>>

ReadResultFirst ==
  /\ \/ at = "found" /\ at' = "read" /\ carried' = result[wanted] /\ UNCHANGED seen
     \/ at = "read" /\ at' = "answered" /\ seen' = status[wanted] /\ UNCHANGED carried
  /\ UNCHANGED <<vars, keys, result, wanted, size, row, col, since>>

\* TaskResponse(status=task.status, result=task.result).
Read ==
  /\ \/ at = "found" /\ at' = "read" /\ seen' = status[wanted] /\ UNCHANGED carried
     \/ at = "read" /\ at' = "answered" /\ carried' = result[wanted] /\ UNCHANGED seen
  /\ UNCHANGED <<vars, keys, result, wanted, size, row, col, since>>

-----------------------------------------------------------------------------
PollInit ==
  /\ Init
  /\ keys = <<>>
  /\ result = [t \in Tasks |-> "none"]
  /\ at = "out" /\ wanted = NoTask /\ size = 0 /\ row = 0 /\ col = 1
  /\ seen = NoRead /\ carried = NoRead /\ since = {}

Poll == (\E t \in Asked : Ask(t)) \/ NextList \/ NextTask \/ Read

PollNext == QueueStep \/ (\E u \in Users : Peak(u)) \/ Poll

PollSpec == PollInit /\ [][PollNext]_allVars

-----------------------------------------------------------------------------
(* Properties *)

\* The poll's variables keep to the values the code can give them.
PollTypeOK ==
  /\ keys \in Seq(Users) /\ IsInjective(keys)
  /\ result \in [Tasks -> {"none", "ok", "error"}]
  /\ at \in PollAt /\ wanted \in Tasks \cup {NoTask}
  /\ size \in 0..Cardinality(Users) /\ row \in 0..size /\ col \in Nat \ {0}
  /\ seen \in {Pending, Started, Complete, Failed, NoRead}
  /\ carried \in {"none", "ok", "error", NoRead}
  /\ since \subseteq {"absent", "moved"}

\* A poll that reports a final status carries the outcome of the task's run,
\* although it reads the two fields one after the other (views.py:59 against
\* core.py:98-104).  A task submitted twice may run again between the reads.
PollReportsOutcome ==
  at = "answered" /\ Cardinality({c \in Calls : TaskOf[c] = wanted}) = 1 =>
    /\ seen = Complete => carried = "ok"
    /\ seen = Failed => carried = "error"

\* A poll misses a task only if the task was in no list at some moment of
\* the poll, or another task ahead of it left the list under the search
\* (core.py:46-48 against core.py:110).
MissesExplained == at = "missed" => since # {}
=============================================================================
