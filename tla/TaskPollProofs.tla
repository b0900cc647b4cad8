--------------------------- MODULE TaskPollProofs ---------------------------
(***************************************************************************)
(* Theorems about TaskPoll, for any users, calls and tasks: a poll that    *)
(* reports a final status carries the outcome of the run, and a poll that  *)
(* misses a task has seen the lists change under it.  A poll never changes *)
(* the queue, so what TaskQueueProofs shows of the queue holds here too.   *)
(***************************************************************************)
EXTENDS TaskPoll, TaskQueueProofs

-----------------------------------------------------------------------------
(* Sequences *)

\* The least of a non-empty set of indices is one of them.
LEMMA MinIsIn ==
  ASSUME NEW N \in Nat, NEW S \in SUBSET (1..N), S # {}
  PROVE  Min(S) \in S
<1> DEFINE T == {1..x : x \in S}
           O == StrictSubsetOrdering(1..N)
<1>1. IsFiniteSet(1..N)
  BY FS_Interval
<1>2. T \subseteq FiniteSubsetsOf(1..N) /\ T # {}
  <2>1. FiniteSubsetsOf(1..N) = SUBSET (1..N) BY <1>1, FS_FiniteSubsetsOfFinite
  <2>2. ASSUME NEW x \in S PROVE 1..x \in SUBSET (1..N) OBVIOUS
  <2>3. T \subseteq SUBSET (1..N) /\ T # {} BY <2>2
  <2>4. QED BY <2>1, <2>3
<1>3. IsWellFoundedOn(O, FiniteSubsetsOf(1..N))
  BY <1>1, FS_StrictSubsetOrderingWellFounded
<1> HIDE DEF T, O
<1>4. PICK X \in T : \A Y \in T : <<Y, X>> \notin O
  BY <1>2, <1>3, WFMin
<1>5. PICK x \in S : X = 1..x
  BY DEF T
<1>6. ASSUME NEW y \in S PROVE x <= y
  <2>1. SUFFICES ASSUME y < x PROVE FALSE OBVIOUS
  <2>2. 1..y \in T BY DEF T
  <2>3. 1..y \in SUBSET (1..N) /\ 1..x \in SUBSET (1..N) OBVIOUS
  <2>4. 1..y \subseteq 1..x /\ 1..y # 1..x
    <3>1. x \in 1..x /\ x \notin 1..y BY <2>1
    <3>2. QED BY <2>1, <3>1
  <2>5. <<1..y, 1..x>> \in O
    BY <2>3, <2>4 DEF O, StrictSubsetOrdering
  <2>6. QED BY <1>4, <1>5, <2>2, <2>5
<1>7. QED
  BY <1>6 DEF Min

\* A task that is in a list has a place there.
LEMMA PlaceFacts ==
  ASSUME NEW S, NEW q \in Seq(S), NEW t \in ToSet(q)
  PROVE  Place(q, t) \in 1..Len(q) /\ q[Place(q, t)] = t
<1> DEFINE I == {i \in 1..Len(q) : q[i] = t}
<1>1. I # {} /\ I \in SUBSET (1..Len(q)) /\ Len(q) \in Nat
  BY DEF ToSet
<1>2. Place(q, t) = Min(I)
  BY <1>1 DEF Place, SelectInSeq
<1> HIDE DEF I
<1>3. Min(I) \in I
  BY <1>1, MinIsIn
<1>4. QED
  BY <1>2, <1>3 DEF I

\* The elements of a finite set, one after the other.
LEMMA SetToSeqFacts ==
  ASSUME NEW S, IsFiniteSet(S)
  PROVE  /\ SetToSeq(S) \in Seq(S) /\ IsInjective(SetToSeq(S))
         /\ \A x \in S : \E i \in DOMAIN SetToSeq(S) : SetToSeq(S)[i] = x
<1> DEFINE n == Cardinality(S)
           f == SetToSeq(S)
<1>1. n \in Nat /\ ExistsBijection(1..n, S)
  BY FS_CardinalityType
<1>2. \E g \in [1..n -> S] : IsInjective(g)
  BY <1>1 DEF ExistsBijection, Bijection, Injection
<1>3. f \in [1..n -> S] /\ IsInjective(f)
  BY <1>2 DEF SetToSeq
<1>4. f \in Seq(S)
  BY <1>1, <1>3
<1>5. f \in Surjection(1..n, S)
  <2>1. f \in Injection(1..n, S) BY <1>3 DEF Injection
  <2>2. Cardinality(1..n) = n
    <3>1. 1 \in Int /\ n \in Int BY <1>1
    <3>2. Cardinality(1..n) = IF 1 > n THEN 0 ELSE n - 1 + 1 BY ONLY <3>1, FS_Interval
    <3>3. QED BY ONLY <1>1, <3>2
  <2> HIDE DEF f
  <2>3. Cardinality(1..n) = Cardinality(S) <=> f \in Surjection(1..n, S)
    BY ONLY <2>1, FS_Injection, IsFiniteSet(S)
  <2>4. QED BY <2>2, <2>3
<1>6. QED
  BY <1>3, <1>4, <1>5 DEF Surjection

\* Inserting new keys leaves the old ones where they are, and adds each once.
LEMMA InsertFacts ==
  ASSUME IsFiniteSet(Users), keys \in Seq(Users), IsInjective(keys), NEW new \in SUBSET Users,
         Insert(new)
  PROVE  /\ keys' \in Seq(Users) /\ IsInjective(keys')
         /\ \A k \in DOMAIN keys : k \in DOMAIN keys' /\ keys'[k] = keys[k]
         /\ new \cup ToSet(keys) \subseteq ToSet(keys')
<1> DEFINE N == new \ ToSet(keys)
           m == SetToSeq(N)
<1>1. IsFiniteSet(N)
  BY FS_Subset
<1>2. /\ m \in Seq(N) /\ IsInjective(m)
      /\ \A x \in N : \E i \in DOMAIN m : m[i] = x
  BY <1>1, SetToSeqFacts
<1>3. keys' = keys \o m
  BY DEF Insert
<1> HIDE DEF N, m
<1>4. m \in Seq(Users) /\ \A i \in DOMAIN m : m[i] \in N
  <2>1. N \subseteq Users BY DEF N
  <2>2. QED BY <1>2, <2>1
<1>5. /\ keys' \in Seq(Users) /\ DOMAIN keys' = 1..(Len(keys) + Len(m))
      /\ Len(keys) \in Nat /\ Len(m) \in Nat /\ DOMAIN keys = 1..Len(keys) /\ DOMAIN m = 1..Len(m)
  BY <1>3, <1>4
<1>6. /\ \A k \in 1..Len(keys) : keys'[k] = keys[k]
      /\ \A k \in 1..(Len(keys) + Len(m)) : k > Len(keys) => keys'[k] = m[k - Len(keys)]
  BY <1>3, <1>4
<1>7. ASSUME NEW a \in DOMAIN keys', NEW b \in DOMAIN keys', keys'[a] = keys'[b] PROVE a = b
  <2>1. ASSUME NEW i \in DOMAIN keys, NEW j \in DOMAIN m PROVE keys[i] # m[j]
    BY <1>4 DEF N, ToSet
  <2>2. ASSUME NEW k \in DOMAIN keys', k > Len(keys)
        PROVE  k - Len(keys) \in DOMAIN m /\ keys'[k] = m[k - Len(keys)]
    BY <1>5, <1>6, <2>2
  <2>3. ASSUME NEW k \in DOMAIN keys', ~(k > Len(keys))
        PROVE  k \in DOMAIN keys /\ keys'[k] = keys[k]
    BY <1>5, <1>6, <2>3
  <2>4. a \in Int /\ b \in Int BY <1>5
  <2>5. CASE a > Len(keys) /\ b > Len(keys)
    <3>1. a - Len(keys) = b - Len(keys) BY <1>2, <1>7, <2>2, <2>5 DEF IsInjective
    <3>2. QED BY <1>5, <2>4, <3>1
  <2>6. CASE a > Len(keys) /\ ~(b > Len(keys)) BY <1>7, <2>1, <2>2, <2>3, <2>6
  <2>7. CASE ~(a > Len(keys)) /\ b > Len(keys) BY <1>7, <2>1, <2>2, <2>3, <2>7
  <2>8. CASE ~(a > Len(keys)) /\ ~(b > Len(keys)) BY <1>7, <2>3, <2>8 DEF IsInjective
  <2>9. QED BY <2>5, <2>6, <2>7, <2>8
<1>8. ASSUME NEW x \in new \cup ToSet(keys) PROVE x \in ToSet(keys')
  <2>1. CASE x \in ToSet(keys)
    <3>1. PICK i \in DOMAIN keys : keys[i] = x BY <2>1 DEF ToSet
    <3>2. i \in DOMAIN keys' /\ keys'[i] = x BY <1>5, <1>6, <3>1
    <3>3. QED BY <3>2 DEF ToSet
  <2>2. CASE x \in N
    <3>1. PICK i \in DOMAIN m : m[i] = x BY <1>2, <2>2
    <3>2. Len(keys) + i \in DOMAIN keys' /\ (Len(keys) + i) - Len(keys) = i /\ Len(keys) + i > Len(keys)
      BY <1>5
    <3>3. keys'[Len(keys) + i] = x BY <1>5, <1>6, <3>1, <3>2
    <3>4. QED BY <3>2, <3>3 DEF ToSet
  <2>3. QED BY <1>8, <2>1, <2>2 DEF N
<1>9. QED
  BY <1>5, <1>6, <1>7, <1>8 DEF IsInjective

\* A dictionary has no more keys than there are users.
LEMMA KeysFit ==
  ASSUME IsFiniteSet(Users), keys \in Seq(Users), IsInjective(keys)
  PROVE  Cardinality(Users) \in Nat /\ Len(keys) \in 0..Cardinality(Users)
<1> DEFINE n == Len(keys)
<1>1. n \in Nat /\ keys \in [1..n -> Users]
  OBVIOUS
<1>2. keys \in Injection(1..n, Users)
  BY <1>1 DEF Injection
<1>3. Cardinality(1..n) = n
  <2>1. 1 \in Int /\ n \in Int BY <1>1
  <2>2. Cardinality(1..n) = IF 1 > n THEN 0 ELSE n - 1 + 1 BY ONLY <2>1, FS_Interval
  <2>3. QED BY ONLY <1>1, <2>2
<1>4. Cardinality(1..n) <= Cardinality(Users)
  BY ONLY <1>2, FS_Injection, IsFiniteSet(Users)
<1>5. Cardinality(Users) \in Nat
  BY FS_CardinalityType
<1>6. QED
  BY <1>1, <1>3, <1>4, <1>5

-----------------------------------------------------------------------------
(* The queue under a poll *)

\* Nothing in a poll changes the queue.
LEMMA PollKeepsQueue == PollSpec => Spec
<1>1. PollInit => Init
  BY DEF PollInit
<1>2. [PollNext]_allVars => [Next]_vars
  <2> SUFFICES ASSUME [PollNext]_allVars PROVE [Next]_vars
    OBVIOUS
  <2>1. CASE QueueStep BY <2>1 DEF QueueStep
  <2>2. CASE \E u \in Users : Peak(u) BY <2>2 DEF Peak
  <2>3. CASE Poll BY <2>3 DEF Poll, Ask, NextList, NextTask, Read
  <2>4. CASE UNCHANGED allVars BY <2>4 DEF allVars
  <2>5. QED BY <2>1, <2>2, <2>3, <2>4 DEF PollNext
<1>3. QED
  BY <1>1, <1>2, PTL DEF PollSpec, Spec

\* A worker leaves the body of its task by Finish only.
LEMMA BodyEnds ==
  ASSUME TypeOK, PhaseInv, Next, NEW c \in Calls,
         pc[Worker(c)] = "run", pc'[Worker(c)] # "run"
  PROVE  Finish(c)
<1> USE ThreadFacts DEF TypeOK, Goto
<1>1. ASSUME NEW d \in Calls, ClientStep(d) PROVE FALSE
  <2>1. d = c /\ pc'[Worker(c)] = "queued" BY <1>1, ClientPlaces
  <2>2. pc[Client(c)] \in {"wait", "back"} BY DEF PhaseInv, PhasesAgree
  <2>3. Return(c)
    BY <1>1, <2>1, <2>2
       DEF ClientStep, Lookup, CreateLock, FetchLock, Enter, Reject, Enqueue, Submit
  <2>4. QED BY <2>3 DEF Return
<1>2. ASSUME NEW d \in Calls, WorkerStep(d) PROVE Finish(c)
  <2>1. d = c BY <1>2, WorkerPlaces
  <2>2. ~TakeWork(c)
    <3>1. SUFFICES ASSUME TakeWork(c) PROVE FALSE OBVIOUS
    <3>2. work # <<>> /\ work[1] = c /\ work \in Seq(Calls) BY <3>1 DEF TakeWork
    <3>3. 1 \in DOMAIN work BY <3>2
    <3>4. QED BY <3>2, <3>3 DEF PhaseInv, FifoInv
  <2>3. QED
    BY <1>2, <2>1, <2>2 DEF WorkerStep, WorkerFetch, Start, BeginRemoval, Compare, Pop, NotFound,
       IndexError, Signal, Resolve
<1>3. ASSUME NEW u \in Users, DrainTest(u) \/ DrainMark(u) PROVE FALSE
  BY <1>3 DEF DrainTest, DrainMark
<1>4. QED
  BY <1>1, <1>2, <1>3 DEF Next

\* What Finish leaves in the status, and in the verdict and so in the result.
LEMMA BodyLeaves ==
  ASSUME TypeOK, NEW c \in Calls, Finish(c)
  PROVE  /\ pc[Worker(c)] = "run" /\ pc'[Worker(c)] \in Ran
         /\ \/ verdict'[c] = "ok" /\ status'[TaskOf[c]] = Complete
            \/ verdict'[c] = "error" /\ status'[TaskOf[c]] = Failed
<1> USE ConstantsAssumption, ThreadFacts DEF TypeOK
<1>1. pc[Worker(c)] = "run" /\ pc' = [pc EXCEPT ![Worker(c)] = "refetch"]
  BY ONLY Finish(c) DEF Finish, Goto
<1>2. CASE /\ verdict' = [verdict EXCEPT ![c] = "ok"]
           /\ status' = [status EXCEPT ![TaskOf[c]] = Complete]
  BY <1>1, <1>2 DEF Ran
<1>3. CASE /\ verdict' = [verdict EXCEPT ![c] = "error"]
           /\ status' = [status EXCEPT ![TaskOf[c]] = Failed]
  BY <1>1, <1>3 DEF Ran
<1>4. QED
  BY ONLY Finish(c), <1>2, <1>3 DEF Finish

\* The result of a task is that of a worker that has just left its body, or
\* what it was.
LEMMA ResultStep ==
  ASSUME TypeOK, PhaseInv, QueueStep, NEW t \in Tasks
  PROVE  \/ result'[t] = result[t] /\ \A c \in Calls : TaskOf[c] = t => ~Finish(c)
         \/ \E c \in Calls : TaskOf[c] = t /\ Finish(c) /\ result'[t] = verdict'[c]
<1> DEFINE Left(c) == TaskOf[c] = t /\ pc[Worker(c)] = "run" /\ pc'[Worker(c)] # "run"
<1>1. result'[t] = IF \E c \in Calls : Left(c) THEN verdict'[CHOOSE c \in Calls : Left(c)]
                                              ELSE result[t]
  BY DEF QueueStep
<1>2. Next
  BY DEF QueueStep
<1>3. CASE \E c \in Calls : Left(c)
  <2>1. PICK c \in Calls : c = (CHOOSE d \in Calls : Left(d)) /\ Left(c) BY <1>3
  <2>2. Finish(c) BY <1>2, <2>1, BodyEnds
  <2>3. QED BY <1>1, <1>3, <2>1, <2>2
<1>4. CASE ~\E c \in Calls : Left(c)
  <2>1. ASSUME NEW c \in Calls, TaskOf[c] = t, Finish(c) PROVE FALSE
    <3>1. Left(c) BY <2>1, BodyLeaves DEF Ran
    <3>2. QED BY <1>4, <3>1
  <2>2. QED BY <1>1, <1>4, <2>1
<1>5. QED
  BY <1>3, <1>4

-----------------------------------------------------------------------------
(* Types *)

\* A poll under way searches for a task.
PollInv == PollTypeOK /\ (at # "out" => wanted \in Tasks)

LEMMA PollInvStep ==
  ASSUME IsFiniteSet(Users), TypeOK, TypeOK', PhaseInv, PollInv, [PollNext]_allVars
  PROVE  PollInv'
<1> USE DEF PollInv, PollTypeOK
<1>1. Cardinality(Users) \in Nat /\ Len(keys) \in 0..Cardinality(Users)
  BY KeysFit
<1>2. CASE QueueStep
  <2>1. {u \in Users : queue'[u] # <<>>} \in SUBSET Users OBVIOUS
  <2>2. Insert({u \in Users : queue'[u] # <<>>}) BY <1>2 DEF QueueStep
  <2>3. keys' \in Seq(Users) /\ IsInjective(keys)' BY <2>1, <2>2, InsertFacts DEF IsInjective
  <2>4. result' \in [Tasks -> {"none", "ok", "error"}]
    <3>1. ASSUME NEW t \in Tasks PROVE result'[t] \in {"none", "ok", "error"}
      <4>1. CASE result'[t] = result[t] BY <4>1
      <4>2. CASE \E c \in Calls : TaskOf[c] = t /\ Finish(c) /\ result'[t] = verdict'[c]
        BY <4>2, BodyLeaves
      <4>3. QED BY <1>2, <4>1, <4>2, ResultStep
    <3>2. result' = [t \in Tasks |-> result'[t]] BY <1>2 DEF QueueStep
    <3>3. QED BY <3>1, <3>2
  <2>5. since' \subseteq {"absent", "moved"} BY <1>2 DEF QueueStep, Noticed
  <2>6. UNCHANGED pollVars BY <1>2 DEF QueueStep
  <2>7. QED BY <2>3, <2>4, <2>5, <2>6 DEF pollVars
<1>3. ASSUME NEW u \in Users, Peak(u) PROVE PollInv'
  <2>1. Insert({u}) /\ UNCHANGED <<vars, result, pollVars, since>> BY <1>3 DEF Peak
  <2>2. keys' \in Seq(Users) /\ IsInjective(keys)' BY <2>1, InsertFacts DEF IsInjective
  <2>3. QED BY <2>1, <2>2 DEF pollVars
<1>4. ASSUME NEW t \in Asked, Ask(t) PROVE PollInv'
  <2>1. t \in Tasks BY PollAssumption
  <2>2. QED BY <1>1, <1>4, <2>1 DEF Ask, PollAt
<1>5. CASE NextList
  <2>1. CASE Len(keys) # size BY <1>5, <2>1 DEF NextList, PollAt
  <2>2. CASE Len(keys) = size /\ row = size BY <1>5, <2>2 DEF NextList, PollAt
  <2>3. CASE Len(keys) = size /\ row # size
    <3>1. row + 1 \in 0..size BY <2>3
    <3>2. QED BY <1>5, <2>3, <3>1 DEF NextList, PollAt
  <2>4. QED BY <2>1, <2>2, <2>3
<1>6. CASE NextTask
  <2>1. PICK a \in PollAt : at' = a BY <1>6 DEF NextTask, PollAt
  <2>2. col' \in Nat \ {0} BY <1>6 DEF NextTask
  <2>3. at # "out" /\ UNCHANGED <<keys, result, wanted, size, row, seen, carried, since>>
    BY <1>6 DEF NextTask
  <2>4. QED BY <2>1, <2>2, <2>3
<1>7. CASE Read
  <2>1. at # "out" /\ wanted \in Tasks BY <1>7 DEF Read
  <2>2. status[wanted] \in {Pending, Started, Complete, Failed} BY <2>1 DEF TypeOK
  <2>3. result[wanted] \in {"none", "ok", "error"} BY <2>1
  <2>4. QED BY <1>7, <2>1, <2>2, <2>3 DEF Read, PollAt
<1>8. CASE UNCHANGED allVars
  BY <1>8 DEF allVars, pollVars
<1>9. QED
  BY <1>2, <1>3, <1>4, <1>5, <1>6, <1>7, <1>8 DEF PollNext, Poll

LEMMA PollInvariant ==
  ASSUME IsFiniteSet(Users)
  PROVE  PollSpec => []PollInv
<1>1. PollInit => PollInv
  <2> SUFFICES ASSUME PollInit PROVE PollInv
    OBVIOUS
  <2>1. Cardinality(Users) \in Nat BY FS_CardinalityType
  <2>2. QED
    BY <2>1 DEF PollInit, PollInv, PollTypeOK, PollAt, IsInjective
<1>2. TypeOK /\ TypeOK' /\ PhaseInv /\ PollInv /\ [PollNext]_allVars => PollInv'
  BY PollInvStep
<1>3. QED
  BY <1>1, <1>2, PollKeepsQueue, TypeCorrect, PhaseInvariant, PTL DEF PollSpec

\* The poll's variables keep their types, for finitely many users: the index
\* of the list it searches stays within the dictionary it began with
\* (queue/core.py:46-48, queue/views.py:59-71).
THEOREM PollTypes ==
  ASSUME IsFiniteSet(Users)
  PROVE  PollSpec => []PollTypeOK
<1>1. PollInv => PollTypeOK
  BY DEF PollInv
<1>2. QED
  BY <1>1, PollInvariant, PTL

-----------------------------------------------------------------------------
(* A final status comes with the outcome of the run. *)

\* No other call submits the Task object.
Single(c) == \A d \in Calls : TaskOf[d] = TaskOf[c] => d = c

\* A final status is the one that the task's own run has left, and so is the
\* result beside it.
Settled(c, s) ==
  /\ s \in {Complete, Failed} => pc[Worker(c)] \in Ran
  /\ s = Complete => result[TaskOf[c]] = "ok"
  /\ s = Failed => result[TaskOf[c]] = "error"

\* That is so of the status a task has, and of the status a poll has read of
\* it, and what the poll read of the result agrees.
ResultFits(c) ==
  /\ Settled(c, status[TaskOf[c]])
  /\ at \in {"read", "answered"} /\ wanted = TaskOf[c] => Settled(c, seen)
  /\ at = "answered" /\ wanted = TaskOf[c] =>
       /\ seen = Complete => carried = "ok"
       /\ seen = Failed => carried = "error"

ResultInv == \A c \in Calls : Single(c) => ResultFits(c)

\* The status of a task is final because it was, or because its call's worker
\* has just finished.
LEMMA StatusSettles ==
  ASSUME TypeOK, PhaseInv, [Next]_vars, NEW c \in Calls, Single(c),
         status'[TaskOf[c]] \in {Complete, Failed}
  PROVE  status'[TaskOf[c]] = status[TaskOf[c]] \/ Finish(c)
<1> USE ConstantsAssumption DEF TypeOK
<1>1. ASSUME NEW d \in Calls, ClientStep(d) PROVE UNCHANGED status
  BY <1>1, ClientPlaces
<1>2. ASSUME NEW d \in Calls, WorkerStep(d)
      PROVE  status'[TaskOf[c]] = status[TaskOf[c]] \/ Finish(c)
  <2>1. CASE Start(d)
    <3>1. status' = [status EXCEPT ![TaskOf[d]] = Started] BY <2>1 DEF Start
    <3>2. TaskOf[d] # TaskOf[c] BY <3>1 DEF Started, Complete, Failed
    <3>3. QED BY <3>1, <3>2
  <2>2. CASE Finish(d)
    <3>1. CASE d = c BY <2>2, <3>1
    <3>2. CASE d # c
      <4>1. TaskOf[d] # TaskOf[c] BY <3>2 DEF Single
      <4>2. PICK s \in {Complete, Failed} : status' = [status EXCEPT ![TaskOf[d]] = s]
        BY ONLY <2>2 DEF Finish
      <4>3. QED BY <4>1, <4>2
    <3>3. QED BY <3>1, <3>2
  <2>3. CASE ~Start(d) /\ ~Finish(d)
    <3>1. UNCHANGED status
      BY ONLY <1>2, <2>3 DEF WorkerStep, TakeWork, WorkerFetch, BeginRemoval, Compare, Pop, NotFound,
         IndexError, Signal, Resolve
    <3>2. QED BY <3>1
  <2>4. QED BY <2>1, <2>2, <2>3
<1>3. ASSUME NEW u \in Users, DrainTest(u) PROVE UNCHANGED status
  BY <1>3 DEF DrainTest
<1>4. ASSUME NEW u \in Users, DrainMark(u) PROVE status'[TaskOf[c]] = status[TaskOf[c]]
  BY <1>4 DEF DrainMark, Started, Complete, Failed
<1>5. CASE UNCHANGED vars BY <1>5 DEF vars
<1>6. QED
  BY <1>1, <1>2, <1>3, <1>4, <1>5 DEF Next

\* A worker past the body of its task stays there.
LEMMA RanStays ==
  ASSUME TypeOK, PhaseInv, [Next]_vars, NEW c \in Calls, pc[Worker(c)] \in Ran
  PROVE  pc'[Worker(c)] \in Ran
<1>1. pc[Worker(c)] \notin {"idle", "run", "queued", "start"}
  BY DEF Ran
<1>2. ASSUME NEW d \in Calls, ClientStep(d) PROVE pc'[Worker(c)] = pc[Worker(c)]
  <2>1. CASE Submit(d)
    <3>1. pc[Worker(d)] = "idle" BY <2>1 DEF Submit, PhaseInv, PhasesAgree
    <3>2. QED BY <1>1, <1>2, <3>1, ClientPlaces, ThreadFacts, <2>1 DEF Submit, TypeOK
  <2>2. CASE ~Submit(d)
    BY <1>2, <2>2, ThreadFacts
       DEF TypeOK, ClientStep, Lookup, CreateLock, FetchLock, Enter, Reject, Enqueue, Return, Goto
  <2>3. QED BY <2>1, <2>2
<1>3. ASSUME NEW d \in Calls, WorkerStep(d) PROVE pc'[Worker(c)] \in Ran
  <2>1. CASE d # c BY <1>3, <2>1, WorkerPlaces
  <2>2. CASE d = c
    <3>1. ~Start(c) BY <1>1 DEF Start
    <3>2. pc[Worker(c)] \in Begun BY DEF Begun
    <3>3. QED BY <1>3, <2>2, <3>1, <3>2, WorkerPlaces
  <2>3. QED BY <2>1, <2>2
<1>4. ASSUME NEW u \in Users, DrainTest(u) \/ DrainMark(u) PROVE pc'[Worker(c)] \in Ran
  BY <1>4 DEF DrainTest, DrainMark
<1>5. CASE UNCHANGED vars BY <1>5 DEF vars
<1>6. QED
  BY <1>2, <1>3, <1>4, <1>5 DEF Next

\* What is settled stays so, and a status that becomes final is.
LEMMA SettledStays ==
  ASSUME TypeOK, PhaseInv, QueueStep, NEW c \in Calls, Single(c)
  PROVE  /\ \A s : Settled(c, s) => Settled(c, s)'
         /\ Settled(c, status[TaskOf[c]]) => Settled(c, status[TaskOf[c]])'
<1>1. [Next]_vars /\ TaskOf[c] \in Tasks
  BY ConstantsAssumption DEF QueueStep
<1>2. CASE Finish(c)
  <2>1. result'[TaskOf[c]] = verdict'[c]
    <3>1. PICK d \in Calls : TaskOf[d] = TaskOf[c] /\ result'[TaskOf[c]] = verdict'[d]
      BY <1>1, <1>2, ResultStep
    <3>2. d = c BY <3>1 DEF Single
    <3>3. QED BY <3>1, <3>2
  <2>2. /\ pc[Worker(c)] \notin Ran /\ pc'[Worker(c)] \in Ran
        /\ \/ verdict'[c] = "ok" /\ status'[TaskOf[c]] = Complete
           \/ verdict'[c] = "error" /\ status'[TaskOf[c]] = Failed
    BY <1>2, BodyLeaves DEF Ran
  <2>3. QED BY <2>1, <2>2 DEF Settled, Complete, Failed
<1>3. CASE ~Finish(c)
  <2>1. result'[TaskOf[c]] = result[TaskOf[c]]
    <3>1. ASSUME NEW d \in Calls, TaskOf[d] = TaskOf[c], Finish(d) PROVE FALSE
      BY <1>3, <3>1 DEF Single
    <3>2. QED BY <1>1, <3>1, ResultStep
  <2>2. pc[Worker(c)] \in Ran => pc'[Worker(c)] \in Ran BY <1>1, RanStays
  <2>3. status'[TaskOf[c]] \in {Complete, Failed} => status'[TaskOf[c]] = status[TaskOf[c]]
    BY <1>1, <1>3, StatusSettles
  <2>4. \A s : Settled(c, s) => Settled(c, s)' BY <2>1, <2>2 DEF Settled
  <2>5. Settled(c, status[TaskOf[c]]) => Settled(c, status[TaskOf[c]])'
    BY <2>1, <2>2, <2>3 DEF Settled
  <2>6. QED BY <2>4, <2>5
<1>4. QED
  BY <1>2, <1>3

LEMMA ResultInvStep ==
  ASSUME TypeOK, PhaseInv, ResultInv, [PollNext]_allVars
  PROVE  ResultInv'
<1> SUFFICES ASSUME NEW c \in Calls, Single(c) PROVE ResultFits(c)'
  BY DEF ResultInv, Single
<1>1. ResultFits(c)
  BY DEF ResultInv
<1>2. ASSUME UNCHANGED <<vars, result>> PROVE \A s : Settled(c, s)' = Settled(c, s)
  BY <1>2 DEF Settled, vars
<1>3. CASE QueueStep
  <2>1. UNCHANGED <<at, wanted, seen, carried>> BY <1>3 DEF QueueStep, pollVars
  <2>2. PICK s : s = seen OBVIOUS
  <2>3. Settled(c, s) => Settled(c, s)' BY <1>3, SettledStays
  <2>4. Settled(c, seen) => Settled(c, seen)' BY <2>1, <2>2, <2>3 DEF Settled
  <2>5. Settled(c, status[TaskOf[c]])' BY <1>1, <1>3, SettledStays DEF ResultFits
  <2>6. QED BY <1>1, <2>1, <2>4, <2>5 DEF ResultFits
<1>4. CASE (\E u \in Users : Peak(u)) \/ UNCHANGED allVars
  <2>1. UNCHANGED <<vars, result, at, wanted, seen, carried>>
    BY <1>4 DEF Peak, allVars, pollVars
  <2>2. UNCHANGED <<status, pc>> BY <2>1 DEF vars
  <2>3. QED BY <1>1, <2>1, <2>2 DEF ResultFits, Settled
<1>5. CASE (\E t \in Asked : Ask(t)) \/ NextList \/ NextTask
  <2>1. UNCHANGED <<vars, result>> /\ at' \notin {"read", "answered"}
    BY <1>5 DEF Ask, NextList, NextTask
  <2>2. UNCHANGED <<status, pc>> BY <2>1 DEF vars
  <2>3. QED BY <1>1, <2>1, <2>2 DEF ResultFits, Settled
<1>6. CASE Read
  <2>1. UNCHANGED <<vars, result, wanted>> BY <1>6 DEF Read
  <2>2. UNCHANGED <<status, pc>> BY <2>1 DEF vars
  <2>3. Settled(c, status[TaskOf[c]])' BY <1>1, <2>1, <2>2 DEF ResultFits, Settled
  <2>4. CASE at = "found" /\ at' = "read" /\ seen' = status[wanted]
    BY <1>1, <2>1, <2>2, <2>3, <2>4 DEF ResultFits, Settled
  <2>5. CASE at = "read" /\ carried' = result[wanted] /\ UNCHANGED seen
    BY <1>1, <2>1, <2>2, <2>3, <2>5 DEF ResultFits, Settled
  <2>6. QED BY <1>6, <2>4, <2>5 DEF Read
<1>7. QED
  BY <1>3, <1>4, <1>5, <1>6 DEF PollNext, Poll

\* A poll that reports a final status carries the outcome of the task's run,
\* for finitely many calls: the result is in place before the status, and the
\* poll reads them in the other order, so no step of the worker between its
\* two reads can spoil the pair (queue/views.py:59 against core.py:98-104).
THEOREM PollCarriesOutcome ==
  ASSUME IsFiniteSet(Calls)
  PROVE  PollSpec => []PollReportsOutcome
<1>1. PollInit => ResultInv
  BY ConstantsAssumption
     DEF PollInit, Init, ResultInv, ResultFits, Settled, Pending, Complete, Failed
<1>2. TypeOK /\ PhaseInv /\ ResultInv /\ [PollNext]_allVars => ResultInv'
  BY ResultInvStep
<1>3. ResultInv => PollReportsOutcome
  <2> DEFINE C == {c \in Calls : TaskOf[c] = wanted}
  <2> SUFFICES ASSUME ResultInv, at = "answered", Cardinality(C) = 1
               PROVE  /\ seen = Complete => carried = "ok"
                      /\ seen = Failed => carried = "error"
    BY DEF PollReportsOutcome
  <2>1. IsFiniteSet(C) BY FS_Subset
  <2>2. PICK c : C = {c} BY <2>1, FS_Singleton
  <2>3. c \in Calls /\ TaskOf[c] = wanted /\ Single(c) BY <2>2 DEF Single
  <2>4. QED BY <2>3 DEF ResultInv, ResultFits
<1>4. QED
  BY <1>1, <1>2, <1>3, PollKeepsQueue, TypeCorrect, PhaseInvariant, PTL DEF PollSpec

-----------------------------------------------------------------------------
(* A missed task was absent, or moved. *)

\* A key that has a task in its list is in the dictionary.
KeysInv == \A u \in Users : queue[u] # <<>> => u \in ToSet(keys)

\* The list of user u, at a place the search has still to come to, holds the
\* wanted task, or the search is in that list and has not reached the task.
Ahead(u, k) ==
  /\ k \in DOMAIN keys /\ keys[k] = u /\ k <= size
  /\ wanted \in ToSet(queue[u])
  /\ at = "list" => k > row
  /\ at = "task" => k > row \/ (k = row /\ Place(queue[u], wanted) >= col)

MissInv ==
  /\ at \in {"list", "task"} /\ since = {} => \E u \in Users, k \in Nat : Ahead(u, k)
  /\ MissesExplained

LEMMA KeysInvStep ==
  ASSUME IsFiniteSet(Users), PollInv, KeysInv, [PollNext]_allVars
  PROVE  KeysInv'
<1>0. keys \in Seq(Users) /\ IsInjective(keys)
  BY DEF PollInv, PollTypeOK
<1>1. CASE QueueStep
  <2> DEFINE new == {u \in Users : queue'[u] # <<>>}
  <2>1. new \in SUBSET Users /\ Insert(new) BY <1>1 DEF QueueStep
  <2>2. new \subseteq ToSet(keys') BY <1>0, <2>1, InsertFacts
  <2>3. QED BY <2>2 DEF KeysInv
<1>2. ASSUME NEW u \in Users, Peak(u) PROVE KeysInv'
  <2>1. Insert({u}) /\ UNCHANGED vars BY <1>2 DEF Peak
  <2>2. ToSet(keys) \subseteq ToSet(keys') BY <1>0, <2>1, InsertFacts
  <2>3. QED BY <2>1, <2>2 DEF KeysInv, vars
<1>3. CASE Poll \/ UNCHANGED allVars
  <2>1. UNCHANGED <<queue, keys>>
    BY <1>3 DEF Poll, Ask, NextList, NextTask, Read, allVars, vars
  <2>2. QED BY <2>1 DEF KeysInv
<1>4. QED
  BY <1>1, <1>2, <1>3 DEF PollNext

\* A step of the queue that takes nothing out of the wanted task's list, nor
\* moves it, leaves it ahead of the search.
LEMMA AheadStays ==
  ASSUME IsFiniteSet(Users), TypeOK, TypeOK', PollInv, MarkInv, MarkInv',
         \A c, d \in Calls : TaskOf[c] = TaskOf[d] => UserOf[c] = UserOf[d],
         QueueStep, at \in {"list", "task"}, since' = {},
         NEW u \in Users, NEW k \in Nat, Ahead(u, k)
  PROVE  Ahead(u, k)'
<1>1. Noticed = {} /\ UNCHANGED pollVars
  BY DEF QueueStep
<1>2. PICK v \in Users : wanted \in ToSet(queue'[v])
  <2>1. "absent" \notin Noticed BY <1>1
  <2>2. QED BY <2>1 DEF Noticed
<1>3. v = u
  <2>1. wanted \in TasksOf(u)
    <3>1. queue[u] \in Seq(TasksOf(u)) BY DEF MarkInv
    <3>2. QED BY <3>1 DEF Ahead, ToSet
  <2>2. wanted \in TasksOf(v)
    <3>1. queue'[v] \in Seq(TasksOf(v)) BY DEF MarkInv, TasksOf
    <3>2. QED BY <1>2, <3>1 DEF ToSet
  <2>3. QED BY <2>1, <2>2 DEF TasksOf
<1>4. Place(queue'[u], wanted) \in Nat /\ Place(queue'[u], wanted) >= Place(queue[u], wanted)
  <2> DEFINE before == Place(queue[u], wanted)
             after == Place(queue'[u], wanted)
  <2>1. queue[u] \in Seq(Tasks) /\ queue'[u] \in Seq(Tasks) BY DEF TypeOK
  <2>2. before \in 1..Len(queue[u]) BY <2>1, PlaceFacts DEF Ahead
  <2>3. after \in 1..Len(queue'[u]) BY <1>2, <1>3, <2>1, PlaceFacts
  <2>4. before \in Nat /\ after \in Nat /\ after # 0 BY <2>1, <2>2, <2>3
  <2>5. ~(after # 0 /\ after < before)
    <3>1. "moved" \notin Noticed BY <1>1
    <3>2. QED BY <3>1 DEF Noticed
  <2> HIDE DEF before, after
  <2>6. after >= before BY <2>4, <2>5
  <2>7. QED BY <2>4, <2>6 DEF before, after
<1>5. k \in DOMAIN keys' /\ keys'[k] = keys[k]
  <2>1. keys \in Seq(Users) /\ IsInjective(keys) BY DEF PollInv, PollTypeOK
  <2>2. {x \in Users : queue'[x] # <<>>} \in SUBSET Users OBVIOUS
  <2>3. Insert({x \in Users : queue'[x] # <<>>}) BY DEF QueueStep
  <2>4. QED BY <2>1, <2>2, <2>3, InsertFacts DEF Ahead
<1>6. Place(queue[u], wanted) >= col => Place(queue'[u], wanted) >= col
  <2>1. queue[u] \in Seq(Tasks) BY DEF TypeOK
  <2>2. Place(queue[u], wanted) \in 1..Len(queue[u]) BY <2>1, PlaceFacts DEF Ahead
  <2>3. Place(queue[u], wanted) \in Nat /\ col \in Nat BY <2>1, <2>2 DEF PollInv, PollTypeOK
  <2>4. QED BY <1>4, <2>3
<1>7. /\ UNCHANGED <<at, wanted, size, row, col>> /\ wanted \in ToSet(queue'[u])
  BY <1>1, <1>2, <1>3 DEF pollVars
<1>8. QED
  BY <1>5, <1>6, <1>7 DEF Ahead

\* The search that finds no further list has passed the one with the task; the
\* search that goes on does not pass it.
LEMMA SearchGoesOn ==
  ASSUME TypeOK, PollInv, NEW u \in Users, NEW k \in Nat, Ahead(u, k),
         NextList \/ NextTask
  PROVE  at' # "missed" /\ (at' \in {"list", "task"} => Ahead(u, k)')
<1>1. /\ row \in Nat /\ size \in Nat /\ col \in Nat \ {0} /\ row <= size
      /\ queue[u] \in Seq(Tasks)
  <2>1. Cardinality(Users) \in Nat \/ size \in Int BY DEF PollInv, PollTypeOK
  <2>2. row \in 0..size /\ size \in 0..Cardinality(Users) BY DEF PollInv, PollTypeOK
  <2>3. QED BY <2>2 DEF PollInv, PollTypeOK, TypeOK
<1>2. Place(queue[u], wanted) \in 1..Len(queue[u]) /\ queue[u][Place(queue[u], wanted)] = wanted
  BY <1>1, PlaceFacts DEF Ahead
<1>3. k \in DOMAIN keys /\ keys[k] = u /\ k <= size /\ wanted \in ToSet(queue[u])
  BY DEF Ahead
<1>4. CASE NextList
  <2>1. /\ at = "list" /\ k > row
        /\ UNCHANGED <<queue, keys, wanted, size>>
    BY <1>4 DEF NextList, Ahead, vars
  <2>2. row # size BY <1>1, <1>3, <2>1
  <2>3. CASE Len(keys) # size
    <3>1. at' = "raised" BY <1>4, <2>3 DEF NextList
    <3>2. QED BY <3>1
  <2>4. CASE Len(keys) = size
    <3>1. at' = "task" /\ row' = row + 1 /\ col' = 1 BY <1>4, <2>2, <2>4 DEF NextList
    <3>2. k > row' \/ k = row' BY <1>1, <2>1, <3>1
    <3>3. Place(queue[u], wanted) >= col' BY <1>1, <1>2, <3>1
    <3>4. QED BY <1>3, <2>1, <3>1, <3>2, <3>3 DEF Ahead
  <2>5. QED BY <2>3, <2>4
<1>5. CASE NextTask
  <2>1. /\ at = "task" /\ (k > row \/ (k = row /\ Place(queue[u], wanted) >= col))
        /\ UNCHANGED <<queue, keys, wanted, size, row>>
    BY <1>5 DEF NextTask, Ahead, vars
  <2>2. CASE col > Len(queue[keys[row]])
    <3>1. at' = "list" BY <1>5, <2>2 DEF NextTask
    <3>2. k # row
      <4>1. SUFFICES ASSUME k = row PROVE FALSE OBVIOUS
      <4>2. Len(queue[u]) \in Nat /\ col > Len(queue[u]) BY <1>1, <1>3, <2>2, <4>1
      <4>3. Place(queue[u], wanted) >= col BY <1>1, <2>1, <4>1
      <4>4. QED BY <1>1, <1>2, <4>2, <4>3
    <3>3. QED BY <1>3, <2>1, <3>1, <3>2 DEF Ahead
  <2>3. CASE ~(col > Len(queue[keys[row]])) /\ queue[keys[row]][col] = wanted
    <3>1. at' = "found" BY <1>5, <2>3 DEF NextTask
    <3>2. QED BY <3>1
  <2>4. CASE ~(col > Len(queue[keys[row]])) /\ queue[keys[row]][col] # wanted
    <3>1. at' = "task" /\ col' = col + 1 BY <1>5, <2>1, <2>4 DEF NextTask
    <3>2. k = row => Place(queue[u], wanted) >= col + 1
      <4>1. SUFFICES ASSUME k = row PROVE Place(queue[u], wanted) >= col + 1 OBVIOUS
      <4>2. Place(queue[u], wanted) # col BY <1>2, <1>3, <2>4, <4>1
      <4>3. Place(queue[u], wanted) >= col /\ Place(queue[u], wanted) \in Nat
        BY <1>1, <1>2, <2>1, <4>1
      <4>4. QED BY <1>1, <4>2, <4>3
    <3>3. QED BY <1>1, <1>3, <2>1, <3>1, <3>2 DEF Ahead
  <2>5. QED BY <2>2, <2>3, <2>4
<1>6. QED
  BY <1>4, <1>5

LEMMA MissInvStep ==
  ASSUME IsFiniteSet(Users), TypeOK, TypeOK', PollInv, KeysInv, MarkInv, MarkInv', MissInv,
         \A c, d \in Calls : TaskOf[c] = TaskOf[d] => UserOf[c] = UserOf[d],
         [PollNext]_allVars
  PROVE  MissInv'
<1> USE DEF MissInv, MissesExplained
<1>1. CASE QueueStep
  <2>1. UNCHANGED pollVars /\ since' = since \cup Noticed BY <1>1 DEF QueueStep
  <2>2. ASSUME at' \in {"list", "task"}, since' = {}
        PROVE  \E u \in Users, k \in Nat : Ahead(u, k)'
    <3>1. at \in {"list", "task"} /\ since = {} BY <2>1, <2>2 DEF pollVars
    <3>2. PICK u \in Users, k \in Nat : Ahead(u, k) BY <3>1
    <3>3. Ahead(u, k)' BY <1>1, <2>2, <3>1, <3>2, AheadStays
    <3>4. QED BY <3>3
  <2>3. at' = "missed" => since' # {} BY <2>1 DEF pollVars
  <2>4. QED BY <2>2, <2>3
<1>2. ASSUME NEW v \in Users, Peak(v) PROVE MissInv'
  <2>1. Insert({v}) /\ UNCHANGED <<queue, pollVars, since>> BY <1>2 DEF Peak, vars
  <2>2. keys \in Seq(Users) /\ IsInjective(keys) BY DEF PollInv, PollTypeOK
  <2>3. \A k \in DOMAIN keys : k \in DOMAIN keys' /\ keys'[k] = keys[k]
    BY <2>1, <2>2, InsertFacts
  <2>4. UNCHANGED <<at, wanted, size, row, col>> BY <2>1 DEF pollVars
  <2>5. ASSUME NEW u \in Users, NEW k \in Nat, Ahead(u, k) PROVE Ahead(u, k)'
    BY <2>1, <2>3, <2>4, <2>5 DEF Ahead
  <2>6. QED BY <2>1, <2>4, <2>5
<1>3. ASSUME NEW t \in Asked, Ask(t) PROVE MissInv'
  <2>1. /\ at' = "list" /\ wanted' = t /\ size' = Len(keys) /\ row' = 0
        /\ since' = IF InLists(t) THEN {} ELSE {"absent"}
        /\ UNCHANGED <<queue, keys>>
    BY <1>3 DEF Ask, vars
  <2>2. ASSUME since' = {} PROVE \E u \in Users, k \in Nat : Ahead(u, k)'
    <3>1. InLists(t) BY <2>1, <2>2
    <3>2. PICK u \in Users : t \in ToSet(queue[u]) BY <3>1 DEF InLists
    <3>3. queue[u] # <<>> BY <3>2 DEF ToSet
    <3>4. PICK k \in DOMAIN keys : keys[k] = u BY <3>3 DEF KeysInv, ToSet
    <3>5. keys \in Seq(Users) BY DEF PollInv, PollTypeOK
    <3>6. k \in Nat /\ k <= Len(keys) /\ k > 0 BY <3>4, <3>5
    <3>7. Ahead(u, k)' BY <2>1, <3>2, <3>4, <3>6 DEF Ahead
    <3>8. QED BY <3>6, <3>7
  <2>3. QED BY <2>1, <2>2
<1>4. CASE NextList \/ NextTask
  <2>1. at \in {"list", "task"} /\ UNCHANGED since BY <1>4 DEF NextList, NextTask
  <2>2. CASE since = {}
    <3>1. PICK u \in Users, k \in Nat : Ahead(u, k) BY <2>1, <2>2
    <3>2. QED BY <1>4, <2>1, <3>1, SearchGoesOn
  <2>3. CASE since # {} BY <2>1, <2>3
  <2>4. QED BY <2>2, <2>3
<1>5. CASE Read
  BY <1>5 DEF Read
<1>6. CASE UNCHANGED allVars
  <2>1. UNCHANGED <<queue, keys, at, wanted, size, row, col, since>>
    BY <1>6 DEF allVars, vars, pollVars
  <2>2. QED BY <2>1 DEF Ahead
<1>7. QED
  BY <1>1, <1>2, <1>3, <1>4, <1>5, <1>6 DEF PollNext, Poll

\* A poll misses a task only if the task was in no list at some moment of the
\* poll, or moved towards the front of its list because another one left it,
\* for finitely many users and when a Task object is submitted for one user
\* only (queue/core.py:46-48 against core.py:57 and 110).
THEOREM MissesHaveReasons ==
  ASSUME IsFiniteSet(Users),
         \A c, d \in Calls : TaskOf[c] = TaskOf[d] => UserOf[c] = UserOf[d]
  PROVE  PollSpec => []MissesExplained
<1>1. PollInit => KeysInv /\ MissInv
  BY DEF PollInit, Init, KeysInv, MissInv, MissesExplained
<1>2. PollInv /\ KeysInv /\ [PollNext]_allVars => KeysInv'
  BY KeysInvStep
<1>3. TypeOK /\ TypeOK' /\ PollInv /\ KeysInv /\ MarkInv /\ MarkInv' /\ MissInv
        /\ [PollNext]_allVars => MissInv'
  BY MissInvStep
<1>4. MissInv => MissesExplained
  BY DEF MissInv
<1>5. QED
  BY <1>1, <1>2, <1>3, <1>4, PollKeepsQueue, TypeCorrect, MarkInvariant, PollInvariant, PTL
     DEF PollSpec
=============================================================================
