-------------------------- MODULE TaskQueueProofs --------------------------
(***************************************************************************)
(* Theorems about TaskQueue, for any users, calls, tasks and pool size:    *)
(* types, locks and phases first; then what callers get, the refinement of *)
(* TaskLifecycle, what the lists hold, and that somebody can always go on. *)
(***************************************************************************)
EXTENDS TaskQueue, TLAPS, FiniteSetTheorems

\* Taking an element out of a sequence leaves a sequence over the same set.
LEMMA RemoveAtType ==
  ASSUME NEW S, NEW s \in Seq(S), NEW i \in 1..Len(s)
  PROVE  RemoveAt(s, i) \in Seq(S)
BY DEF RemoveAt

\* Sequences without repetition stay so when a new element is appended, and
\* when the first one or any other is taken out.
LEMMA AppendFresh ==
  ASSUME NEW S, NEW s \in Seq(S), NEW e \in S
  PROVE  /\ DOMAIN Append(s, e) = 1..(Len(s) + 1)
         /\ \A i \in DOMAIN s : Append(s, e)[i] = s[i]
         /\ Append(s, e)[Len(s) + 1] = e
         /\ IsInjective(s) /\ (\A i \in DOMAIN s : s[i] # e) => IsInjective(Append(s, e))
<1>1. /\ DOMAIN Append(s, e) = 1..(Len(s) + 1)
      /\ \A i \in DOMAIN s : Append(s, e)[i] = s[i]
      /\ Append(s, e)[Len(s) + 1] = e
  OBVIOUS
<1>2. DOMAIN s = 1..Len(s) /\ Len(s) \in Nat
  OBVIOUS
<1>3. ASSUME IsInjective(s), \A i \in DOMAIN s : s[i] # e,
             NEW i \in DOMAIN Append(s, e), NEW j \in DOMAIN Append(s, e),
             Append(s, e)[i] = Append(s, e)[j]
      PROVE  i = j
  <2>1. CASE i = Len(s) + 1 /\ j \in DOMAIN s BY ONLY <1>1, <1>2, <1>3, <2>1
  <2>2. CASE j = Len(s) + 1 /\ i \in DOMAIN s BY ONLY <1>1, <1>2, <1>3, <2>2
  <2>3. CASE i \in DOMAIN s /\ j \in DOMAIN s BY ONLY <1>1, <1>3, <2>3 DEF IsInjective
  <2>4. QED BY ONLY <1>1, <1>2, <1>3, <2>1, <2>2, <2>3
<1>4. QED
  BY <1>1, <1>3 DEF IsInjective

LEMMA TailFacts ==
  ASSUME NEW S, NEW s \in Seq(S), s # <<>>
  PROVE  /\ DOMAIN Tail(s) = 1..(Len(s) - 1)
         /\ \A i \in DOMAIN Tail(s) : i + 1 \in DOMAIN s /\ i + 1 # 1 /\ Tail(s)[i] = s[i + 1]
         /\ 1 \in DOMAIN s /\ Head(s) = s[1]
         /\ IsInjective(s) => IsInjective(Tail(s))
<1>1. /\ DOMAIN Tail(s) = 1..(Len(s) - 1)
      /\ 1 \in DOMAIN s /\ Head(s) = s[1]
      /\ DOMAIN s = 1..Len(s) /\ Len(s) \in Nat
  OBVIOUS
<1>2. ASSUME NEW i \in DOMAIN Tail(s)
      PROVE  i + 1 \in DOMAIN s /\ i + 1 # 1 /\ Tail(s)[i] = s[i + 1]
  BY <1>1
<1>3. ASSUME IsInjective(s), NEW i \in DOMAIN Tail(s), NEW j \in DOMAIN Tail(s),
             Tail(s)[i] = Tail(s)[j]
      PROVE  i = j
  <2>1. i + 1 = j + 1 BY ONLY <1>2, <1>3 DEF IsInjective
  <2>2. QED BY ONLY <1>1, <1>3, <2>1
<1>4. QED
  BY <1>1, <1>2, <1>3 DEF IsInjective

\* Threads and their two components.
LEMMA ThreadFacts ==
  ASSUME NEW c \in Calls
  PROVE  /\ Client(c) \in Threads /\ Worker(c) \in Threads
         /\ Client(c)[2] = c /\ Worker(c)[2] = c
         /\ Client(c) # Nobody /\ Worker(c) # Nobody
         /\ \A d \in Calls : Client(c) # Worker(d)
         /\ \A d \in Calls : Client(c) = Client(d) => c = d
         /\ \A d \in Calls : Worker(c) = Worker(d) => c = d
BY ConstantsAssumption DEF Client, Worker, Threads

\* The variables always hold values of their types (queue/core.py:30-152).
THEOREM TypeCorrect == Spec => []TypeOK
<1>1. Init => TypeOK
  BY ConstantsAssumption DEF Init, TypeOK, Locks, Pending, WorkerAt, ClientAt
<1>2. TypeOK /\ [Next]_vars => TypeOK'
  <2> SUFFICES ASSUME TypeOK, [Next]_vars PROVE TypeOK'
    OBVIOUS
  <2> USE ConstantsAssumption DEF TypeOK, Goto, Release, Locks, ClientAt, WorkerAt,
         Pending, Started, Complete, Failed
  <2>1. ASSUME NEW c \in Calls, ClientStep(c) PROVE TypeOK'
    <3> USE ThreadFacts
    <3>1. CASE Lookup(c)
      <4>1. CASE /\ Goto(Client(c), "create") /\ UNCHANGED ref
        BY <3>1, <4>1 DEF Lookup
      <4>2. CASE /\ ref' = [ref EXCEPT ![Client(c)] = locks[UserOf[c]]]
                 /\ Goto(Client(c), "acquire")
        BY <3>1, <4>2 DEF Lookup
      <4>3. QED BY ONLY <3>1, <4>1, <4>2 DEF Lookup
    <3>2. CASE CreateLock(c) BY <3>2 DEF CreateLock
    <3>3. CASE FetchLock(c) BY <3>3 DEF FetchLock
    <3>4. CASE Enter(c) BY <3>4 DEF Enter
    <3>5. CASE Reject(c) BY <3>5 DEF Reject
    <3>6. CASE Enqueue(c) BY <3>6 DEF Enqueue
    <3>7. CASE Submit(c)
      <4>1. work' \in Seq(Calls) BY <3>7 DEF Submit
      <4>2. pc' \in [Threads -> ClientAt \cup WorkerAt] BY <3>7 DEF Submit
      <4>3. answer' \in [Calls -> {"none", "accepted", "rejected", "ok", "error", "broken"}]
        BY <3>7 DEF Submit
      <4>4. owner' \in [Locks -> Threads \cup {Nobody}] BY <3>7 DEF Submit
      <4>5. QED BY <3>7, <4>1, <4>2, <4>3, <4>4 DEF Submit
    <3>8. CASE Return(c) BY <3>8 DEF Return
    <3>9. QED BY <2>1, <3>1, <3>2, <3>3, <3>4, <3>5, <3>6, <3>7, <3>8 DEF ClientStep
  <2>2. ASSUME NEW c \in Calls, WorkerStep(c) PROVE TypeOK'
    <3> USE ThreadFacts
    <3>1. CASE TakeWork(c) BY <3>1 DEF TakeWork
    <3>2. CASE WorkerFetch(c)
      <4>1. pc' \in [Threads -> ClientAt \cup WorkerAt]
        <5>1. PICK p \in {"start", "reacquire"} : Goto(Worker(c), p)
          BY ONLY <3>2 DEF WorkerFetch
        <5>2. QED BY <5>1
      <4>2. ref' \in [Threads -> Locks \cup {NoLock}] BY <3>2 DEF WorkerFetch
      <4>3. QED BY <3>2, <4>1, <4>2 DEF WorkerFetch
    <3>3. CASE Start(c) BY <3>3 DEF Start
    <3>4. CASE Finish(c)
      <4>1. PICK s \in {Complete, Failed} : status' = [status EXCEPT ![TaskOf[c]] = s]
        BY ONLY <3>4 DEF Finish
      <4>2. verdict' \in [Calls -> {"none", "ok", "error", "broken"}] BY <3>4 DEF Finish
      <4>3. pc' \in [Threads -> ClientAt \cup WorkerAt] BY <3>4 DEF Finish
      <4>4. QED BY <3>4, <4>1, <4>2, <4>3 DEF Finish
    <3>5. CASE BeginRemoval(c)
      <4>1. Len(queue[UserOf[c]]) \in Nat OBVIOUS
      <4>2. last' \in [Calls -> Nat] /\ pos' \in [Calls -> Nat \ {0}] BY <3>5, <4>1 DEF BeginRemoval
      <4>3. owner' \in [Locks -> Threads \cup {Nobody}] BY <3>5 DEF BeginRemoval
      <4>4. pc' \in [Threads -> ClientAt \cup WorkerAt] BY <3>5 DEF BeginRemoval
      <4>5. QED BY <3>5, <4>2, <4>3, <4>4 DEF BeginRemoval
    <3>6. CASE Compare(c)
      <4>1. CASE Goto(Worker(c), "pop") /\ UNCHANGED pos
        BY <3>6, <4>1 DEF Compare
      <4>2. CASE pos' = [pos EXCEPT ![c] = @ + 1] /\ UNCHANGED pc
        BY <3>6, <4>2 DEF Compare
      <4>3. QED BY ONLY <3>6, <4>1, <4>2 DEF Compare
    <3>7. CASE Pop(c)
      <4>1. RemoveAt(queue[UserOf[c]], pos[c]) \in Seq(Tasks)
        BY <3>7, RemoveAtType DEF Pop
      <4>2. QED BY <3>7, <4>1 DEF Pop
    <3>8. CASE NotFound(c) BY <3>8 DEF NotFound
    <3>9. CASE IndexError(c) BY <3>9 DEF IndexError
    <3>10. CASE Signal(c) BY <3>10 DEF Signal, EventsAfter
    <3>11. CASE Resolve(c) BY <3>11 DEF Resolve
    <3>12. QED
      BY <2>2, <3>1, <3>2, <3>3, <3>4, <3>5, <3>6, <3>7, <3>8, <3>9, <3>10, <3>11 DEF WorkerStep
  <2>3. ASSUME NEW u \in Users, DrainTest(u) \/ DrainMark(u) PROVE TypeOK'
    <3>1. CASE DrainTest(u)
      <4>1. \A i \in DOMAIN queue[u] : queue[u][i] \in Tasks OBVIOUS
      <4>2. marking' \in [Users -> Tasks \cup {NoTask}] BY <3>1, <4>1 DEF DrainTest
      <4>3. QED BY <3>1, <4>2 DEF DrainTest
    <3>2. CASE DrainMark(u) BY <3>2 DEF DrainMark
    <3>3. QED BY <2>3, <3>1, <3>2
  <2>4. CASE UNCHANGED vars
    BY <2>4 DEF vars
  <2>5. QED
    BY <2>1, <2>2, <2>3, <2>4 DEF Next
<1>3. QED
  BY <1>1, <1>2, PTL DEF Spec

-----------------------------------------------------------------------------
\* The places a thread can leave, for the two threads of a call.
LEMMA PhaseInvStep ==
  ASSUME TypeOK, PhaseInv, [Next]_vars
  PROVE  PhaseInv'
<1> USE ConstantsAssumption, ThreadFacts DEF PhaseInv, PhasesAgree, FifoInv, TypeOK, Goto,
       IsInjective, ClientAt, WorkerAt
<1>1. ASSUME NEW c \in Calls, ClientStep(c) PROVE PhaseInv'
  <2>1. CASE Lookup(c)
    <3>1. PICK p \in {"create", "acquire"} : Goto(Client(c), p) BY ONLY <2>1 DEF Lookup
    <3>2. pc[Client(c)] = "idle" /\ UNCHANGED <<work, verdict, answer>> BY <2>1 DEF Lookup
    <3>3. QED BY <3>1, <3>2
  <2>2. CASE CreateLock(c) BY <2>2 DEF CreateLock
  <2>3. CASE FetchLock(c) BY <2>3 DEF FetchLock
  <2>4. CASE Enter(c) BY <2>4 DEF Enter
  <2>5. CASE Reject(c) BY <2>5 DEF Reject
  <2>6. CASE Enqueue(c) BY <2>6 DEF Enqueue
  <2>7. CASE Submit(c)
    <3>1. pc[Client(c)] = "submit" /\ pc[Worker(c)] = "idle"
      BY <2>7 DEF Submit
    <3>2. pc' = [pc EXCEPT ![Client(c)] = IF c \in Waiters THEN "wait" ELSE "back",
                           ![Worker(c)] = "queued"]
      BY <2>7 DEF Submit
    <3>3. ASSUME NEW d \in Calls PROVE PhasesAgree(d)'
      <4>1. CASE d = c BY <2>7, <3>1, <3>2, <4>1 DEF Submit
      <4>2. CASE d # c
        <5>1. pc'[Client(d)] = pc[Client(d)] /\ pc'[Worker(d)] = pc[Worker(d)]
          BY <3>2, <4>2
        <5>2. answer'[d] = answer[d] /\ verdict'[d] = verdict[d]
          BY <2>7, <4>2 DEF Submit
        <5>3. QED BY <5>1, <5>2
      <4>3. QED BY <4>1, <4>2
    <3>4. FifoInv'
      <4>1. work' = Append(work, c) BY <2>7 DEF Submit
      <4>2. \A i \in DOMAIN work : work[i] # c BY <3>1
      <4>3. \A i \in DOMAIN work : pc'[Worker(work[i])] = "queued" BY <3>2, <4>2
      <4>4. pc'[Worker(c)] = "queued" BY <3>2
      <4>5. IsInjective(work')
        <5>1. work \in Seq(Calls) /\ IsInjective(work) OBVIOUS
        <5>2. IsInjective(Append(work, c)) BY ONLY <4>2, <5>1, AppendFresh, c \in Calls
        <5>3. QED BY ONLY <4>1, <5>2
      <4>6. ASSUME NEW i \in DOMAIN work' PROVE pc'[Worker(work'[i])] = "queued"
        <5>1. CASE i \in DOMAIN work BY <4>1, <4>3, <5>1, AppendFresh
        <5>2. CASE i = Len(work) + 1 BY <4>1, <4>4, <5>2, AppendFresh
        <5>3. QED BY <4>1, <4>6, <5>1, <5>2, AppendFresh
      <4>7. QED BY ONLY <4>5, <4>6 DEF FifoInv
    <3>5. QED BY <3>3, <3>4
  <2>8. CASE Return(c)
    <3>1. answer' = [answer EXCEPT ![c] = verdict[c]] /\ verdict[c] # "rejected"
      BY <2>8 DEF Return
    <3>2. Goto(Client(c), "back") /\ pc[Client(c)] = "wait" /\ pc[Worker(c)] = "done"
      BY <2>8 DEF Return, Ended
    <3>3. UNCHANGED <<work, verdict>> BY <2>8 DEF Return
    <3>4. ASSUME NEW d \in Calls PROVE PhasesAgree(d)'
      <4>1. CASE d = c BY <3>1, <3>2, <3>3, <4>1
      <4>2. CASE d # c BY <3>1, <3>2, <3>3, <4>2
      <4>3. QED BY <4>1, <4>2
    <3>5. FifoInv' BY <3>2, <3>3
    <3>6. QED BY <3>4, <3>5
  <2>9. QED BY <1>1, <2>1, <2>2, <2>3, <2>4, <2>5, <2>6, <2>7, <2>8 DEF ClientStep
<1>2. ASSUME NEW c \in Calls, WorkerStep(c) PROVE PhaseInv'
  <2>1. CASE TakeWork(c)
    <3>1. work # <<>> /\ c = work[1] /\ work' = Tail(work) /\ Goto(Worker(c), "fetch")
      BY <2>1 DEF TakeWork
    <3>2. UNCHANGED <<verdict, answer>> BY <2>1 DEF TakeWork
    <3>3. pc[Worker(c)] = "queued" BY <3>1
    <3>4. \A d \in Calls : PhasesAgree(d)' BY <3>1, <3>2, <3>3
    <3>5. FifoInv'
      <4>1. IsInjective(work') BY <3>1, TailFacts
      <4>2. ASSUME NEW i \in DOMAIN work' PROVE pc'[Worker(work'[i])] = "queued"
        <5>1. i + 1 \in DOMAIN work /\ i + 1 # 1 /\ work'[i] = work[i + 1] /\ 1 \in DOMAIN work
          BY <3>1, <4>2, TailFacts
        <5>2. work[i + 1] # c BY <3>1, <5>1
        <5>3. pc[Worker(work[i + 1])] = "queued" /\ work[i + 1] \in Calls BY <5>1
        <5>4. Worker(work[i + 1]) # Worker(c) BY <5>2, <5>3, ThreadFacts
        <5>5. QED BY <3>1, <5>1, <5>3, <5>4
      <4>3. QED BY ONLY <4>1, <4>2 DEF FifoInv
    <3>6. QED BY <3>4, <3>5
  <2>2. CASE WorkerFetch(c)
    <3>1. PICK p \in {"start", "reacquire"} : Goto(Worker(c), p) BY ONLY <2>2 DEF WorkerFetch
    <3>2. pc[Worker(c)] \in {"fetch", "refetch"} /\ UNCHANGED <<work, verdict, answer>>
      BY <2>2 DEF WorkerFetch
    <3>3. QED BY <3>1, <3>2
  <2>3. CASE Start(c) BY <2>3 DEF Start
  <2>4. CASE Finish(c) BY <2>4 DEF Finish
  <2>5. CASE BeginRemoval(c) BY <2>5 DEF BeginRemoval
  <2>6. CASE Compare(c) BY <2>6 DEF Compare
  <2>7. CASE Pop(c) BY <2>7 DEF Pop
  <2>8. CASE NotFound(c) BY <2>8 DEF NotFound
  <2>9. CASE IndexError(c) BY <2>9 DEF IndexError
  <2>10. CASE Signal(c) BY <2>10 DEF Signal
  <2>11. CASE Resolve(c) BY <2>11 DEF Resolve
  <2>12. QED
    BY <1>2, <2>1, <2>2, <2>3, <2>4, <2>5, <2>6, <2>7, <2>8, <2>9, <2>10, <2>11 DEF WorkerStep
<1>3. ASSUME NEW u \in Users, DrainTest(u) \/ DrainMark(u) PROVE PhaseInv'
  BY <1>3 DEF DrainTest, DrainMark
<1>4. CASE UNCHANGED vars
  BY <1>4 DEF vars
<1>5. QED
  BY <1>1, <1>2, <1>3, <1>4 DEF Next

LEMMA PhaseInvariant == Spec => []PhaseInv
<1>1. Init => PhaseInv
  BY ThreadFacts DEF Init, PhaseInv, PhasesAgree, FifoInv, ClientAt, WorkerAt, IsInjective
<1>2. TypeOK /\ PhaseInv /\ [Next]_vars => PhaseInv'
  BY PhaseInvStep
<1>3. QED
  BY <1>1, <1>2, TypeCorrect, PTL DEF Spec

-----------------------------------------------------------------------------
(* A Lock object excludes: it is held by the thread inside a with block that *)
(* refers to it, whichever and however many locks the table has had.         *)

NeedsRef == {"acquire", "append", "submit", "start", "reacquire", "scan", "pop"}

\* A thread that needs its lock has one, and a call that has looked has a lock
\* to look up again.
RefsAreLocks ==
  /\ \A th \in Threads : pc[th] \in NeedsRef => ref[th] # NoLock
  /\ \A c \in Calls : pc[Client(c)] \notin {"idle", "create"} => locks[UserOf[c]] # NoLock

HoldersAreInside ==
  \A l \in Locks, th \in Threads : owner[l] = th <=> pc[th] \in Inside /\ ref[th] = l

LockInv == RefsAreLocks /\ HoldersAreInside

\* Taking a lock, leaving it, and moving outside of the with blocks.
LEMMA TakeHolds ==
  ASSUME TypeOK, HoldersAreInside, NEW th \in Threads, ref[th] \in Locks, LockFree(th),
         NEW place \in Inside, pc[th] \notin Inside,
         owner' = [owner EXCEPT ![ref[th]] = th], Goto(th, place), UNCHANGED ref
  PROVE  HoldersAreInside'
<1>0. th # Nobody BY ConstantsAssumption DEF Threads
<1>1. ASSUME NEW l \in Locks, NEW o \in Threads
      PROVE  owner'[l] = o <=> pc'[o] \in Inside /\ ref'[o] = l
  <2>1. owner[l] = o <=> pc[o] \in Inside /\ ref[o] = l BY DEF HoldersAreInside
  <2>2. CASE o = th BY <2>1, <2>2 DEF TypeOK, Goto
  <2>3. CASE o # th
    <3>1. pc'[o] = pc[o] /\ ref'[o] = ref[o] BY <2>3 DEF TypeOK, Goto
    <3>2. CASE l = ref[th]
      <4>1. owner'[l] = th /\ owner[l] = Nobody BY <3>2 DEF TypeOK, LockFree
      <4>2. o # Nobody BY ConstantsAssumption DEF Threads
      <4>3. QED BY <2>1, <2>3, <3>1, <4>1, <4>2
    <3>3. CASE l # ref[th]
      <4>1. owner'[l] = owner[l] BY <3>3 DEF TypeOK
      <4>2. QED BY <2>1, <3>1, <4>1
    <3>4. QED BY <3>2, <3>3
  <2>4. QED BY <2>2, <2>3
<1>2. QED BY <1>1 DEF HoldersAreInside

LEMMA LeaveHolds ==
  ASSUME TypeOK, HoldersAreInside, NEW th \in Threads, ref[th] \in Locks, pc[th] \in Inside,
         Release(ref[th]), UNCHANGED ref, pc'[th] \notin Inside,
         \A o \in Threads : o # th => (pc'[o] \in Inside <=> pc[o] \in Inside)
  PROVE  HoldersAreInside'
<1>1. ASSUME NEW l \in Locks, NEW o \in Threads
      PROVE  owner'[l] = o <=> pc'[o] \in Inside /\ ref'[o] = l
  <2>1. owner[l] = o <=> pc[o] \in Inside /\ ref[o] = l BY DEF HoldersAreInside
  <2>2. owner[ref[th]] = th BY DEF HoldersAreInside
  <2>3. o # Nobody BY ConstantsAssumption DEF Threads
  <2>4. CASE l = ref[th]
    <3>1. owner'[l] = Nobody BY <2>4 DEF TypeOK, Release
    <3>2. QED BY <2>1, <2>2, <2>3, <2>4, <3>1
  <2>5. CASE l # ref[th]
    <3>1. owner'[l] = owner[l] BY <2>5 DEF TypeOK, Release
    <3>2. QED BY <2>1, <2>5, <3>1
  <2>6. QED BY <2>4, <2>5
<1>2. QED BY <1>1 DEF HoldersAreInside

LEMMA OutsideHolds ==
  ASSUME HoldersAreInside, UNCHANGED owner,
         \A o \in Threads : /\ pc'[o] \in Inside <=> pc[o] \in Inside
                            /\ pc[o] \in Inside => ref'[o] = ref[o]
  PROVE  HoldersAreInside'
BY DEF HoldersAreInside

LEMMA RefsStep ==
  ASSUME TypeOK, PhaseInv, RefsAreLocks, [Next]_vars
  PROVE  RefsAreLocks'
<1> USE ThreadFacts, ConstantsAssumption DEF TypeOK, Goto, RefsAreLocks
<1>1. ASSUME UNCHANGED <<locks, ref>>,
             \A o \in Threads : pc'[o] = pc[o] \/ pc'[o] \notin NeedsRef
                                \/ pc[o] \in NeedsRef,
             \A d \in Calls : pc'[Client(d)] \notin {"idle", "create"} =>
                                pc[Client(d)] \notin {"idle", "create"}
      PROVE  RefsAreLocks'
  BY <1>1
<1>2. ASSUME NEW c \in Calls, ClientStep(c) PROVE RefsAreLocks'
  <2>1. CASE Lookup(c)
    <3>1. CASE locks[UserOf[c]] = NoLock
      <4>1. pc' = [pc EXCEPT ![Client(c)] = "create"] /\ UNCHANGED <<locks, ref>>
        BY <2>1, <3>1 DEF Lookup
      <4>2. QED BY <4>1 DEF NeedsRef
    <3>2. CASE locks[UserOf[c]] # NoLock
      <4>1. /\ pc' = [pc EXCEPT ![Client(c)] = "acquire"] /\ UNCHANGED locks
            /\ ref' = [ref EXCEPT ![Client(c)] = locks[UserOf[c]]]
        BY <2>1, <3>2 DEF Lookup
      <4>2. QED BY <3>2, <4>1 DEF NeedsRef
    <3>3. QED BY <3>1, <3>2
  <2>2. CASE CreateLock(c)
    <3>1. /\ pc' = [pc EXCEPT ![Client(c)] = "fetch"] /\ UNCHANGED ref
          /\ locks' = [locks EXCEPT ![UserOf[c]] = c] /\ c # NoLock
      BY <2>2 DEF CreateLock
    <3>2. QED BY <3>1 DEF NeedsRef
  <2>3. CASE FetchLock(c)
    <3>1. /\ pc[Client(c)] = "fetch" /\ pc' = [pc EXCEPT ![Client(c)] = "acquire"]
          /\ UNCHANGED locks /\ ref' = [ref EXCEPT ![Client(c)] = locks[UserOf[c]]]
      BY <2>3 DEF FetchLock
    <3>2. QED BY <3>1 DEF NeedsRef
  <2>4. CASE Enter(c) BY <2>4 DEF Enter, NeedsRef
  <2>5. CASE Reject(c) BY <2>5 DEF Reject, NeedsRef
  <2>6. CASE Enqueue(c) BY <2>6 DEF Enqueue, NeedsRef
  <2>7. CASE Submit(c)
    <3>1. /\ pc[Client(c)] = "submit" /\ UNCHANGED <<locks, ref>>
          /\ pc'[Client(c)] \in {"wait", "back"} /\ pc'[Worker(c)] = "queued"
          /\ \A o \in Threads \ {Client(c), Worker(c)} : pc'[o] = pc[o]
      BY <2>7 DEF Submit
    <3>2. pc'[Client(c)] \notin NeedsRef /\ pc'[Worker(c)] \notin NeedsRef
      BY <3>1 DEF NeedsRef
    <3>3. \A d \in Calls : pc'[Client(d)] \notin {"idle", "create"} =>
                              pc[Client(d)] \notin {"idle", "create"}
      <4>1. \A d \in Calls : Client(d) # Client(c) => Client(d) \in Threads \ {Client(c), Worker(c)}
        OBVIOUS
      <4>2. QED BY ONLY <3>1, <4>1
    <3>4. \A o \in Threads : pc'[o] = pc[o] \/ pc'[o] \notin NeedsRef \/ pc[o] \in NeedsRef
      BY ONLY <3>1, <3>2
    <3>5. QED BY ONLY <1>1, <3>1, <3>3, <3>4
  <2>8. CASE Return(c) BY <2>8 DEF Return, NeedsRef
  <2>9. QED BY <1>2, <2>1, <2>2, <2>3, <2>4, <2>5, <2>6, <2>7, <2>8 DEF ClientStep
<1>3. ASSUME NEW c \in Calls, WorkerStep(c) PROVE RefsAreLocks'
  <2>1. CASE TakeWork(c) BY <2>1 DEF TakeWork, NeedsRef
  <2>2. CASE WorkerFetch(c)
    <3>1. PICK p \in {"start", "reacquire"} : Goto(Worker(c), p) BY ONLY <2>2 DEF WorkerFetch
    <3>2. /\ pc[Worker(c)] \in {"fetch", "refetch"} /\ UNCHANGED locks
          /\ ref' = [ref EXCEPT ![Worker(c)] = locks[UserOf[c]]]
      BY <2>2 DEF WorkerFetch
    <3>3. pc[Client(c)] \in {"wait", "back"} BY <3>2 DEF PhaseInv, PhasesAgree
    <3>4. locks[UserOf[c]] # NoLock BY <3>3
    <3>5. QED BY <3>1, <3>2, <3>4
  <2>3. CASE Start(c) BY <2>3 DEF Start, NeedsRef
  <2>4. CASE Finish(c) BY <2>4 DEF Finish, NeedsRef
  <2>5. CASE BeginRemoval(c) BY <2>5 DEF BeginRemoval, NeedsRef
  <2>6. CASE Compare(c)
    <3>1. pc[Worker(c)] = "scan" /\ UNCHANGED <<locks, ref>> BY <2>6 DEF Compare
    <3>2. Goto(Worker(c), "pop") \/ UNCHANGED pc BY <2>6 DEF Compare
    <3>3. QED BY <3>1, <3>2 DEF NeedsRef
  <2>7. CASE Pop(c) BY <2>7 DEF Pop, NeedsRef
  <2>8. CASE NotFound(c) BY <2>8 DEF NotFound, NeedsRef
  <2>9. CASE IndexError(c) BY <2>9 DEF IndexError, NeedsRef
  <2>10. CASE Signal(c) BY <2>10 DEF Signal, NeedsRef
  <2>11. CASE Resolve(c) BY <2>11 DEF Resolve, NeedsRef
  <2>12. QED
    BY <1>3, <2>1, <2>2, <2>3, <2>4, <2>5, <2>6, <2>7, <2>8, <2>9, <2>10, <2>11 DEF WorkerStep
<1>4. ASSUME NEW u \in Users, DrainTest(u) \/ DrainMark(u) PROVE RefsAreLocks'
  BY <1>4 DEF DrainTest, DrainMark
<1>5. CASE UNCHANGED vars BY <1>5 DEF vars
<1>6. QED BY <1>2, <1>3, <1>4, <1>5 DEF Next

LEMMA HoldersStep ==
  ASSUME TypeOK, PhaseInv, RefsAreLocks, HoldersAreInside, [Next]_vars
  PROVE  HoldersAreInside'
<1> USE ThreadFacts
<1>0. /\ \A th \in Threads : pc[th] \in NeedsRef => ref[th] \in Locks
      /\ \A th \in Threads : pc[th] \in Inside => pc[th] \in NeedsRef
  BY DEF TypeOK, RefsAreLocks, Inside, NeedsRef
<1>1. ASSUME NEW c \in Calls, ClientStep(c) PROVE HoldersAreInside'
  <2>1. CASE Lookup(c)
    <3>1. PICK p \in {"create", "acquire"} : Goto(Client(c), p) BY ONLY <2>1 DEF Lookup
    <3>2. /\ pc[Client(c)] = "idle" /\ UNCHANGED owner
          /\ \A o \in Threads \ {Client(c)} : ref'[o] = ref[o]
      BY <2>1 DEF Lookup, TypeOK
    <3>3. QED BY <3>1, <3>2, OutsideHolds DEF TypeOK, Goto, Inside
  <2>2. CASE CreateLock(c) BY <2>2, OutsideHolds DEF CreateLock, TypeOK, Goto, Inside
  <2>3. CASE FetchLock(c) BY <2>3, OutsideHolds DEF FetchLock, TypeOK, Goto, Inside
  <2>4. CASE Enter(c)
    <3>1. pc[Client(c)] = "acquire" BY <2>4 DEF Enter
    <3>2. QED BY <1>0, <2>4, <3>1, TakeHolds DEF Enter, Inside, NeedsRef
  <2>5. CASE Reject(c) BY <2>5, OutsideHolds DEF Reject, TypeOK, Goto, Inside
  <2>6. CASE Enqueue(c) BY <2>6, OutsideHolds DEF Enqueue, TypeOK, Goto, Inside
  <2>7. CASE Submit(c)
    <3>1. /\ pc[Client(c)] = "submit" /\ Release(ref[Client(c)]) /\ UNCHANGED ref
          /\ pc'[Client(c)] \in {"wait", "back"} /\ pc'[Worker(c)] = "queued"
          /\ \A o \in Threads \ {Client(c), Worker(c)} : pc'[o] = pc[o]
      BY <2>7 DEF Submit, TypeOK
    <3>2. pc[Worker(c)] = "idle" BY <3>1 DEF PhaseInv, PhasesAgree
    <3>3. /\ pc[Client(c)] \in Inside /\ pc'[Client(c)] \notin Inside
          /\ \A o \in Threads : o # Client(c) => (pc'[o] \in Inside <=> pc[o] \in Inside)
      BY ONLY <3>1, <3>2 DEF Inside
    <3>4. QED BY <1>0, <3>1, <3>3, LeaveHolds
  <2>8. CASE Return(c) BY <2>8, OutsideHolds DEF Return, TypeOK, Goto, Inside
  <2>9. QED BY <1>1, <2>1, <2>2, <2>3, <2>4, <2>5, <2>6, <2>7, <2>8 DEF ClientStep
<1>2. ASSUME NEW c \in Calls, WorkerStep(c) PROVE HoldersAreInside'
  <2>1. ASSUME pc[Worker(c)] \notin Inside, UNCHANGED <<owner, ref>>, NEW p, p \notin Inside,
               Goto(Worker(c), p)
        PROVE  HoldersAreInside'
    BY <2>1, OutsideHolds DEF TypeOK, Goto
  <2>2. ASSUME pc[Worker(c)] \in Inside, Release(ref[Worker(c)]), UNCHANGED ref, Goto(Worker(c), "signal")
        PROVE  HoldersAreInside'
    <3>1. /\ pc'[Worker(c)] \notin Inside
          /\ \A o \in Threads : o # Worker(c) => (pc'[o] \in Inside <=> pc[o] \in Inside)
      BY <2>2 DEF TypeOK, Goto, Inside
    <3>2. QED BY <1>0, <2>2, <3>1, LeaveHolds
  <2>3. CASE TakeWork(c)
    <3>1. work # <<>> /\ work[1] = c /\ work \in Seq(Calls) BY <2>3 DEF TakeWork, TypeOK
    <3>2. 1 \in DOMAIN work BY <3>1
    <3>3. pc[Worker(c)] = "queued" BY <3>1, <3>2 DEF PhaseInv, FifoInv
    <3>4. QED BY <2>1, <2>3, <3>3 DEF TakeWork, Inside
  <2>4. CASE WorkerFetch(c)
    <3>1. PICK p \in {"start", "reacquire"} : Goto(Worker(c), p) BY ONLY <2>4 DEF WorkerFetch
    <3>2. /\ pc[Worker(c)] \in {"fetch", "refetch"} /\ UNCHANGED owner
          /\ \A o \in Threads \ {Worker(c)} : ref'[o] = ref[o]
      BY <2>4 DEF WorkerFetch, TypeOK
    <3>3. QED BY <3>1, <3>2, OutsideHolds DEF TypeOK, Goto, Inside
  <2>5. CASE Start(c) BY <2>1, <2>5 DEF Start, Inside
  <2>6. CASE Finish(c) BY <2>1, <2>6 DEF Finish, Inside
  <2>7. CASE BeginRemoval(c)
    <3>1. pc[Worker(c)] = "reacquire" BY <2>7 DEF BeginRemoval
    <3>2. QED BY <1>0, <2>7, <3>1, TakeHolds DEF BeginRemoval, Inside, NeedsRef
  <2>8. CASE Compare(c)
    <3>1. pc[Worker(c)] = "scan" /\ UNCHANGED <<owner, ref>> BY <2>8 DEF Compare
    <3>2. Goto(Worker(c), "pop") \/ UNCHANGED pc BY <2>8 DEF Compare
    <3>3. QED BY <3>1, <3>2, OutsideHolds DEF TypeOK, Goto, Inside
  <2>9. CASE Pop(c) BY <2>2, <2>9 DEF Pop, Inside
  <2>10. CASE NotFound(c) BY <2>2, <2>10 DEF NotFound, Inside
  <2>11. CASE IndexError(c)
    <3>1. pc[Worker(c)] \in Inside BY <2>11 DEF IndexError, Inside
    <3>2. QED BY <2>2, <2>11, <3>1 DEF IndexError
  <2>12. CASE Signal(c) BY <2>1, <2>12 DEF Signal, Inside
  <2>13. CASE Resolve(c) BY <2>1, <2>13 DEF Resolve, Inside
  <2>14. QED
    BY <1>2, <2>3, <2>4, <2>5, <2>6, <2>7, <2>8, <2>9, <2>10, <2>11, <2>12, <2>13 DEF WorkerStep
<1>3. ASSUME NEW u \in Users, DrainTest(u) \/ DrainMark(u) PROVE HoldersAreInside'
  BY <1>3 DEF DrainTest, DrainMark, HoldersAreInside
<1>4. CASE UNCHANGED vars BY <1>4 DEF vars, HoldersAreInside
<1>5. QED BY <1>1, <1>2, <1>3, <1>4 DEF Next

\* Two threads inside with blocks never hold one Lock object, and a thread
\* inside holds the lock it refers to (queue/core.py:40-43, 53, 61, 93, 107).
LEMMA LockInvariant == Spec => []LockInv
<1>1. Init => LockInv
  <2> SUFFICES ASSUME Init PROVE LockInv OBVIOUS
  <2>1. RefsAreLocks BY ThreadFacts DEF Init, RefsAreLocks, NeedsRef
  <2>2. \A th \in Threads : th # Nobody BY ConstantsAssumption DEF Threads
  <2>3. HoldersAreInside BY <2>2 DEF Init, HoldersAreInside, Inside
  <2>4. QED BY <2>1, <2>3 DEF LockInv
<1>2. TypeOK /\ PhaseInv /\ LockInv /\ [Next]_vars => LockInv'
  BY RefsStep, HoldersStep DEF LockInv
<1>3. QED
  BY <1>1, <1>2, TypeCorrect, PhaseInvariant, PTL DEF Spec

-----------------------------------------------------------------------------
(* What holds of the users in S when no two first calls of theirs race, so *)
(* that the table keeps one lock for each of them.                         *)

\* A thread refers to the lock that is in the table for its user.
OneLock(S) ==
  \A th \in Threads : pc[th] \in NeedsRef /\ UserOf[th[2]] \in S => ref[th] = locks[UserOf[th[2]]]

OneInsideOf(S) ==
  \A th1, th2 \in Threads :
    /\ pc[th1] \in Inside /\ pc[th2] \in Inside
    /\ UserOf[th1[2]] = UserOf[th2[2]] /\ UserOf[th1[2]] \in S
    => th1 = th2

LEMMA OneLockStep ==
  ASSUME NEW S \in SUBSET Users, TypeOK, PhaseInv, LockInv, OneLock(S), KeepsLocks(S), [Next]_vars
  PROVE  OneLock(S)'
<1> USE ConstantsAssumption, ThreadFacts
\* A step keeps a reference, gives it the lock in the table, or ends its use.
<1>1. ASSUME \A th \in Threads :
               pc'[th] \in NeedsRef => \/ pc[th] \in NeedsRef /\ ref'[th] = ref[th]
                                       \/ ref'[th] = locks'[UserOf[th[2]]]
      PROVE  OneLock(S)'
  <2> SUFFICES ASSUME NEW th \in Threads, pc'[th] \in NeedsRef, UserOf[th[2]] \in S
               PROVE  ref'[th] = locks'[UserOf[th[2]]]
    BY DEF OneLock
  <2>1. CASE pc[th] \in NeedsRef /\ ref'[th] = ref[th]
    <3>1. ref[th] = locks[UserOf[th[2]]] /\ ref[th] # NoLock
      BY <2>1 DEF OneLock, LockInv, RefsAreLocks
    <3>2. locks'[UserOf[th[2]]] = locks[UserOf[th[2]]] BY <3>1 DEF KeepsLocks
    <3>3. QED BY <2>1, <3>1, <3>2
  <2>2. QED BY <1>1, <2>1
<1>2. ASSUME NEW c \in Calls, ClientStep(c) PROVE OneLock(S)'
  <2> USE DEF TypeOK, Goto
  <2>1. CASE Lookup(c)
    <3>1. CASE locks[UserOf[c]] = NoLock
      <4>1. pc' = [pc EXCEPT ![Client(c)] = "create"] /\ UNCHANGED ref
        BY <2>1, <3>1 DEF Lookup
      <4>2. QED BY <1>1, <4>1 DEF NeedsRef
    <3>2. CASE locks[UserOf[c]] # NoLock
      <4>1. /\ pc' = [pc EXCEPT ![Client(c)] = "acquire"] /\ UNCHANGED locks
            /\ ref' = [ref EXCEPT ![Client(c)] = locks[UserOf[c]]]
        BY <2>1, <3>2 DEF Lookup
      <4>2. QED BY <1>1, <4>1 DEF NeedsRef
    <3>3. QED BY <3>1, <3>2
  <2>2. CASE CreateLock(c) BY <1>1, <2>2 DEF CreateLock, NeedsRef
  <2>3. CASE FetchLock(c) BY <1>1, <2>3 DEF FetchLock, NeedsRef
  <2>4. CASE Enter(c) BY <1>1, <2>4 DEF Enter, NeedsRef
  <2>5. CASE Reject(c) BY <1>1, <2>5 DEF Reject, NeedsRef
  <2>6. CASE Enqueue(c) BY <1>1, <2>6 DEF Enqueue, NeedsRef
  <2>7. CASE Submit(c)
    <3>1. /\ UNCHANGED ref /\ pc'[Client(c)] \in {"wait", "back"} /\ pc'[Worker(c)] = "queued"
          /\ \A o \in Threads \ {Client(c), Worker(c)} : pc'[o] = pc[o]
      BY <2>7 DEF Submit
    <3>2. \A o \in Threads : pc'[o] \in NeedsRef => pc[o] \in NeedsRef /\ ref'[o] = ref[o]
      BY ONLY <3>1 DEF NeedsRef
    <3>3. QED BY <1>1, <3>2
  <2>8. CASE Return(c) BY <1>1, <2>8 DEF Return, NeedsRef
  <2>9. QED BY <1>2, <2>1, <2>2, <2>3, <2>4, <2>5, <2>6, <2>7, <2>8 DEF ClientStep
<1>3. ASSUME NEW c \in Calls, WorkerStep(c) PROVE OneLock(S)'
  <2> USE DEF TypeOK, Goto
  <2>1. CASE TakeWork(c) BY <1>1, <2>1 DEF TakeWork, NeedsRef
  <2>2. CASE WorkerFetch(c)
    <3>1. PICK p \in {"start", "reacquire"} : Goto(Worker(c), p) BY ONLY <2>2 DEF WorkerFetch
    <3>2. UNCHANGED locks /\ ref' = [ref EXCEPT ![Worker(c)] = locks[UserOf[c]]]
      BY <2>2 DEF WorkerFetch
    <3>3. QED BY <1>1, <3>1, <3>2
  <2>3. CASE Start(c) BY <1>1, <2>3 DEF Start, NeedsRef
  <2>4. CASE Finish(c) BY <1>1, <2>4 DEF Finish, NeedsRef
  <2>5. CASE BeginRemoval(c) BY <1>1, <2>5 DEF BeginRemoval, NeedsRef
  <2>6. CASE Compare(c)
    <3>1. pc[Worker(c)] = "scan" /\ UNCHANGED ref BY <2>6 DEF Compare
    <3>2. Goto(Worker(c), "pop") \/ UNCHANGED pc BY <2>6 DEF Compare
    <3>3. QED BY <1>1, <3>1, <3>2 DEF NeedsRef
  <2>7. CASE Pop(c) BY <1>1, <2>7 DEF Pop, NeedsRef
  <2>8. CASE NotFound(c) BY <1>1, <2>8 DEF NotFound, NeedsRef
  <2>9. CASE IndexError(c) BY <1>1, <2>9 DEF IndexError, NeedsRef
  <2>10. CASE Signal(c) BY <1>1, <2>10 DEF Signal, NeedsRef
  <2>11. CASE Resolve(c) BY <1>1, <2>11 DEF Resolve, NeedsRef
  <2>12. QED
    BY <1>3, <2>1, <2>2, <2>3, <2>4, <2>5, <2>6, <2>7, <2>8, <2>9, <2>10, <2>11 DEF WorkerStep
<1>4. ASSUME NEW u \in Users, DrainTest(u) \/ DrainMark(u) PROVE OneLock(S)'
  BY <1>1, <1>4 DEF DrainTest, DrainMark
<1>5. CASE UNCHANGED vars BY <1>1, <1>5 DEF vars
<1>6. QED BY <1>2, <1>3, <1>4, <1>5 DEF Next

\* Unless two first calls of a user race, the user's with blocks never overlap.
LEMMA InsideAlone ==
  ASSUME NEW S \in SUBSET Users
  PROVE  Spec /\ LocksStay(S) => [](OneLock(S) /\ OneInsideOf(S))
<1>1. Init => OneLock(S)
  BY DEF Init, OneLock, NeedsRef
<1>2. TypeOK /\ PhaseInv /\ LockInv /\ OneLock(S) /\ [Next]_vars /\ [KeepsLocks(S)]_vars => OneLock(S)'
  <2>1. UNCHANGED vars => KeepsLocks(S) BY DEF vars, KeepsLocks
  <2>2. QED BY <2>1, OneLockStep
<1>3. TypeOK /\ LockInv /\ OneLock(S) => OneInsideOf(S)
  <2> SUFFICES ASSUME TypeOK, LockInv, OneLock(S), NEW th1 \in Threads, NEW th2 \in Threads,
                      pc[th1] \in Inside, pc[th2] \in Inside,
                      UserOf[th1[2]] = UserOf[th2[2]], UserOf[th1[2]] \in S
               PROVE  th1 = th2
    BY DEF OneInsideOf
  <2>1. pc[th1] \in NeedsRef /\ pc[th2] \in NeedsRef BY DEF Inside, NeedsRef
  <2>2. ref[th1] = ref[th2] BY <2>1 DEF OneLock
  <2>3. ref[th1] \in Locks BY <2>1 DEF LockInv, RefsAreLocks, TypeOK
  <2>4. owner[ref[th1]] = th1 /\ owner[ref[th1]] = th2
    BY <2>2, <2>3 DEF LockInv, HoldersAreInside
  <2>5. QED BY <2>4
<1>4. QED
  BY <1>1, <1>2, <1>3, TypeCorrect, PhaseInvariant, LockInvariant, PTL DEF Spec, LocksStay

\* Unless two first calls of one user race, two with blocks of one user never
\* overlap (queue/core.py:40-43, 53, 61, 93, 107).
THEOREM MutualExclusion == Spec /\ LocksStay(Users) => []OneInside
<1>1. ASSUME NEW S \in SUBSET Users, S = Users
      PROVE  Spec /\ LocksStay(Users) => []OneInside
  <2>1. Spec /\ LocksStay(S) => [](OneLock(S) /\ OneInsideOf(S)) BY ONLY InsideAlone
  <2>2. KeepsLocks(Users) <=> KeepsLocks(S) BY <1>1
  <2>3. OneInsideOf(S) => OneInside
    BY <1>1, ConstantsAssumption DEF OneInsideOf, OneInside, Threads
  <2>4. QED BY <2>1, <2>2, <2>3, PTL DEF LocksStay
<1>2. QED BY <1>1

\* A lock that an earlier call has created is never replaced, whatever the
\* first calls of other users do (queue/core.py:41-42).
LEMMA WarmLocksStay == Spec => LocksStay(Warm)
<1> DEFINE Settled ==
      \A u \in Warm : /\ locks[u] # NoLock
                      /\ \A c \in Calls : UserOf[c] = u => pc[Client(c)] # "create"
<1>1. Init => Settled
  BY ThreadFacts, ConstantsAssumption DEF Init
<1>2. TypeOK /\ Settled /\ [Next]_vars => Settled' /\ [KeepsLocks(Warm)]_vars
  <2> SUFFICES ASSUME TypeOK, Settled, [Next]_vars PROVE Settled' /\ KeepsLocks(Warm)
    OBVIOUS
  <2> USE ThreadFacts, ConstantsAssumption DEF TypeOK, Goto
  <2>1. ASSUME \A u \in Warm : locks'[u] = locks[u],
               \A c \in Calls : pc'[Client(c)] = "create" => \/ pc[Client(c)] = "create"
                                                             \/ locks[UserOf[c]] = NoLock
        PROVE  Settled' /\ KeepsLocks(Warm)
    BY <2>1 DEF KeepsLocks
  <2>2. ASSUME NEW c \in Calls, ClientStep(c) PROVE Settled' /\ KeepsLocks(Warm)
    <3>1. CASE Lookup(c)
      <4>1. UNCHANGED locks BY <3>1 DEF Lookup
      <4>2. \/ locks[UserOf[c]] = NoLock /\ pc' = [pc EXCEPT ![Client(c)] = "create"]
            \/ pc' = [pc EXCEPT ![Client(c)] = "acquire"]
        BY ONLY <3>1 DEF Lookup, Goto
      <4>3. QED BY <2>1, <4>1, <4>2
    <3>2. CASE CreateLock(c)
      <4>1. UserOf[c] \notin Warm BY <3>2 DEF CreateLock
      <4>2. QED BY <2>1, <3>2, <4>1 DEF CreateLock
    <3>3. CASE FetchLock(c) BY <2>1, <3>3 DEF FetchLock
    <3>4. CASE Enter(c) BY <2>1, <3>4 DEF Enter
    <3>5. CASE Reject(c) BY <2>1, <3>5 DEF Reject
    <3>6. CASE Enqueue(c) BY <2>1, <3>6 DEF Enqueue
    <3>7. CASE Submit(c) BY <2>1, <3>7 DEF Submit
    <3>8. CASE Return(c) BY <2>1, <3>8 DEF Return
    <3>9. QED BY <2>2, <3>1, <3>2, <3>3, <3>4, <3>5, <3>6, <3>7, <3>8 DEF ClientStep
  <2>3. ASSUME NEW c \in Calls, WorkerStep(c) PROVE Settled' /\ KeepsLocks(Warm)
    <3>1. UNCHANGED locks /\ \A d \in Calls : pc'[Client(d)] = pc[Client(d)]
      BY <2>3 DEF WorkerStep, TakeWork, WorkerFetch, Start, Finish, BeginRemoval, Compare, Pop,
                  NotFound, IndexError, Signal, Resolve
    <3>2. QED BY <2>1, <3>1
  <2>4. ASSUME NEW u \in Users, DrainTest(u) \/ DrainMark(u) PROVE Settled' /\ KeepsLocks(Warm)
    BY <2>1, <2>4 DEF DrainTest, DrainMark
  <2>5. CASE UNCHANGED vars BY <2>1, <2>5 DEF vars
  <2>6. QED BY <2>2, <2>3, <2>4, <2>5 DEF Next
<1> HIDE DEF Settled
<1>3. QED
  BY <1>1, <1>2, TypeCorrect, PTL DEF Spec, LocksStay

-----------------------------------------------------------------------------
(* What a caller of put_and_wait gets is its own task's outcome: once every *)
(* user's lock exists, no removal loop meets a list that another thread     *)
(* shortens, so no IndexError replaces an outcome; and a Task object that   *)
(* is submitted once, for a user whose tasks get_all does not mark, is      *)
(* marked by its own worker.                                                *)

\* A removal loop sees a list that does not get shorter under it.
ScanFits(c) ==
  pc[Worker(c)] \in {"scan", "pop"} =>
    /\ last[c] = Len(queue[UserOf[c]])
    /\ pc[Worker(c)] = "pop" => pos[c] <= last[c]

\* After the body of the task, the verdict and the status say the same.
VerdictFits(c) ==
  pc[Worker(c)] \in Ran =>
    \/ verdict[c] = "ok" /\ status[TaskOf[c]] = Complete
    \/ verdict[c] = "error" /\ status[TaskOf[c]] = Failed

ScanInv(S) == \A c \in Calls : UserOf[c] \in S => ScanFits(c)

VerdictInv(S) == \A c \in Calls : UserOf[c] \in S /\ Alone(c) => VerdictFits(c)

\* A user's list, and what get_all found in it, are tasks of the user's calls.
TasksOf(u) == {TaskOf[c] : c \in {d \in Calls : UserOf[d] = u}}

MarkInv ==
  \A u \in Users :
    /\ queue[u] \in Seq(TasksOf(u))
    /\ marking[u] # NoTask => u \in Drained /\ marking[u] \in TasksOf(u)

\* What a step of call c leaves alone: other calls' workers and outcomes, other
\* tasks, and the lists of other users; its own list too, unless it is inside.
InsideAs(c) == pc[Client(c)] \in Inside \/ pc[Worker(c)] \in Inside

Frame(c) ==
  /\ \A u \in Users : queue'[u] = queue[u] \/ (u = UserOf[c] /\ InsideAs(c))
  /\ \A t \in Tasks : t # TaskOf[c] => status'[t] = status[t]
  /\ \A d \in Calls : d # c =>
       /\ pc'[Worker(d)] = pc[Worker(d)]
       /\ last'[d] = last[d] /\ pos'[d] = pos[d] /\ verdict'[d] = verdict[d]
  /\ marking' = marking

LEMMA OthersScan ==
  ASSUME NEW S, OneInsideOf(S), NEW c \in Calls, Frame(c),
         NEW d \in Calls, UserOf[d] \in S, d # c, ScanFits(d)
  PROVE  ScanFits(d)'
<1>1. pc'[Worker(d)] = pc[Worker(d)] /\ last'[d] = last[d] /\ pos'[d] = pos[d]
  BY DEF Frame
<1>2. ASSUME pc[Worker(d)] \in {"scan", "pop"} PROVE queue'[UserOf[d]] = queue[UserOf[d]]
  <2>1. pc[Worker(d)] \in Inside BY <1>2 DEF Inside
  <2>2. CASE UserOf[d] # UserOf[c] BY <2>2, ConstantsAssumption DEF Frame
  <2>3. CASE UserOf[d] = UserOf[c]
    <3>1. /\ Worker(d) \in Threads /\ Worker(c) \in Threads /\ Client(c) \in Threads
          /\ Worker(d)[2] = d /\ Worker(c)[2] = c /\ Client(c)[2] = c
          /\ Client(c) # Worker(d) /\ Worker(c) # Worker(d)
      BY ThreadFacts
    <3>2. ~InsideAs(c) BY <2>1, <2>3, <3>1 DEF OneInsideOf, InsideAs
    <3>3. QED BY <3>2, ConstantsAssumption DEF Frame
  <2>4. QED BY <2>2, <2>3
<1>3. QED
  BY <1>1, <1>2 DEF ScanFits

LEMMA OthersVerdict ==
  ASSUME NEW c \in Calls, Frame(c), NEW d \in Calls, d # c, Alone(d), VerdictFits(d)
  PROVE  VerdictFits(d)'
<1>1. pc'[Worker(d)] = pc[Worker(d)] /\ verdict'[d] = verdict[d]
  BY DEF Frame
<1>2. status'[TaskOf[d]] = status[TaskOf[d]]
  BY ConstantsAssumption DEF Frame, Alone
<1>3. QED
  BY <1>1, <1>2 DEF VerdictFits

\* A step of a client leaves its own worker where it is, or has just queued it.
LEMMA ClientFrame ==
  ASSUME TypeOK, NEW c \in Calls, ClientStep(c)
  PROVE  /\ Frame(c)
         /\ UNCHANGED <<status, last, pos, verdict, marking>>
         /\ \A d \in Calls : pc'[Worker(d)] = pc[Worker(d)] \/ (d = c /\ pc'[Worker(d)] = "queued")
         /\ queue' = queue \/ Enqueue(c)
<1> USE ConstantsAssumption, ThreadFacts DEF TypeOK, Goto, InsideAs, Inside
<1>1. /\ UNCHANGED <<status, last, pos, verdict, marking>>
      /\ \A d \in Calls : pc'[Worker(d)] = pc[Worker(d)] \/ (d = c /\ pc'[Worker(d)] = "queued")
  <2>1. CASE Lookup(c)
    <3>1. PICK p \in {"create", "acquire"} : Goto(Client(c), p) BY ONLY <2>1 DEF Lookup
    <3>2. QED BY <2>1, <3>1 DEF Lookup
  <2>2. CASE CreateLock(c) BY <2>2 DEF CreateLock
  <2>3. CASE FetchLock(c) BY <2>3 DEF FetchLock
  <2>4. CASE Enter(c) BY <2>4 DEF Enter
  <2>5. CASE Reject(c) BY <2>5 DEF Reject
  <2>6. CASE Enqueue(c) BY <2>6 DEF Enqueue
  <2>7. CASE Submit(c) BY <2>7 DEF Submit
  <2>8. CASE Return(c) BY <2>8 DEF Return
  <2>9. QED BY <2>1, <2>2, <2>3, <2>4, <2>5, <2>6, <2>7, <2>8 DEF ClientStep
<1>2. queue' = queue \/ Enqueue(c)
  BY DEF ClientStep, Lookup, CreateLock, FetchLock, Enter, Reject, Submit, Return
<1>3. ASSUME Enqueue(c)
      PROVE  pc[Client(c)] \in Inside /\ \A u \in Users : u # UserOf[c] => queue'[u] = queue[u]
  BY <1>3 DEF Enqueue
<1>4. Frame(c)
  BY ONLY <1>1, <1>2, <1>3 DEF Frame, InsideAs
<1>5. QED
  BY <1>1, <1>2, <1>4

LEMMA WorkerFrame ==
  ASSUME TypeOK, NEW c \in Calls, WorkerStep(c)
  PROVE  Frame(c)
<1> USE ConstantsAssumption, ThreadFacts DEF TypeOK, Goto, Frame, InsideAs, Inside
<1>1. CASE TakeWork(c) BY <1>1 DEF TakeWork
<1>2. CASE WorkerFetch(c)
  <2>1. /\ \/ pc[Worker(c)] = "fetch" /\ pc' = [pc EXCEPT ![Worker(c)] = "start"]
           \/ pc[Worker(c)] = "refetch" /\ pc' = [pc EXCEPT ![Worker(c)] = "reacquire"]
        /\ UNCHANGED <<queue, status, last, pos, verdict, marking>>
    BY ONLY <1>2 DEF WorkerFetch, Goto
  <2>2. QED BY <2>1
<1>3. CASE Start(c) BY <1>3 DEF Start
<1>4. CASE Finish(c)
  <2>1. /\ pc' = [pc EXCEPT ![Worker(c)] = "refetch"]
        /\ UNCHANGED <<queue, last, pos, marking>>
    BY ONLY <1>4 DEF Finish, Goto
  <2>2. CASE /\ verdict' = [verdict EXCEPT ![c] = "ok"]
             /\ status' = [status EXCEPT ![TaskOf[c]] = Complete]
    BY <2>1, <2>2
  <2>3. CASE /\ verdict' = [verdict EXCEPT ![c] = "error"]
             /\ status' = [status EXCEPT ![TaskOf[c]] = Failed]
    BY <2>1, <2>3
  <2>4. QED BY ONLY <1>4, <2>2, <2>3 DEF Finish
<1>5. CASE BeginRemoval(c)
  BY <1>5 DEF BeginRemoval
<1>6. CASE Compare(c)
  <2>1. /\ pc[Worker(c)] = "scan" /\ pos[c] <= last[c]
        /\ UNCHANGED <<queue, status, last, verdict, marking>>
    BY ONLY <1>6 DEF Compare
  <2>2. CASE Goto(Worker(c), "pop") /\ UNCHANGED pos BY <2>1, <2>2
  <2>3. CASE pos' = [pos EXCEPT ![c] = @ + 1] /\ UNCHANGED pc BY <2>1, <2>3
  <2>4. QED BY ONLY <1>6, <2>2, <2>3 DEF Compare
<1>7. CASE Pop(c)
  <2>1. /\ pc[Worker(c)] = "pop" /\ pc' = [pc EXCEPT ![Worker(c)] = "signal"]
        /\ \A u \in Users : u # UserOf[c] => queue'[u] = queue[u]
        /\ UNCHANGED <<status, last, pos, verdict, marking>>
    BY <1>7 DEF Pop
  <2>2. QED BY <2>1
<1>8. CASE NotFound(c) BY <1>8 DEF NotFound
<1>9. CASE IndexError(c) BY <1>9 DEF IndexError
<1>10. CASE Signal(c) BY <1>10 DEF Signal
<1>11. CASE Resolve(c) BY <1>11 DEF Resolve
<1>12. QED
  BY ONLY WorkerStep(c), <1>1, <1>2, <1>3, <1>4, <1>5, <1>6, <1>7, <1>8, <1>9, <1>10, <1>11
     DEF WorkerStep

\* The list a removal loop works on is its own, so a step of the client of a user
\* in S leaves it alone.
LEMMA ClientFits ==
  ASSUME TypeOK, NEW S, OneInsideOf(S), NEW c \in Calls, UserOf[c] \in S, ScanFits(c), ClientStep(c)
  PROVE  ScanFits(c)' /\ (VerdictFits(c) => VerdictFits(c)')
<1> USE ThreadFacts DEF Inside
<1>1. /\ UNCHANGED <<status, last, pos, verdict, marking>>
      /\ \A d \in Calls : pc'[Worker(d)] = pc[Worker(d)] \/ (d = c /\ pc'[Worker(d)] = "queued")
  BY ClientFrame
<1>2. queue' = queue \/ Enqueue(c)
  BY ClientFrame
<1>3. Enqueue(c) => pc[Client(c)] \in Inside
  BY DEF Enqueue
<1>5. pc'[Worker(c)] \in {"scan", "pop"} => pc[Worker(c)] \in {"scan", "pop"} /\ queue' = queue
                                            /\ pc'[Worker(c)] = pc[Worker(c)]
  <2>1. SUFFICES ASSUME pc'[Worker(c)] \in {"scan", "pop"}
                 PROVE  pc'[Worker(c)] = pc[Worker(c)] /\ queue' = queue
    OBVIOUS
  <2>2. pc'[Worker(c)] = pc[Worker(c)] BY <1>1, <2>1
  <2>3. pc[Worker(c)] \in Inside BY <2>1, <2>2
  <2>4. ~Enqueue(c)
    <3>1. SUFFICES ASSUME Enqueue(c) PROVE FALSE OBVIOUS
    <3>2. Client(c) = Worker(c) BY <1>3, <2>3, <3>1 DEF OneInsideOf
    <3>3. QED BY <3>2
  <2>5. QED BY <1>2, <2>2, <2>4
<1>6. ScanFits(c)'
  BY ONLY <1>1, <1>5, ScanFits(c) DEF ScanFits
<1>7. VerdictFits(c) => VerdictFits(c)'
  BY ONLY <1>1, c \in Calls DEF VerdictFits, Ran
<1>8. QED
  BY <1>6, <1>7

\* A step of a worker.  Its own list is as long as when its loop began, so the
\* IndexError cannot happen.
LEMMA WorkerFits ==
  ASSUME TypeOK, NEW c \in Calls, ScanFits(c), WorkerStep(c)
  PROVE  ScanFits(c)' /\ (VerdictFits(c) => VerdictFits(c)')
<1> USE ConstantsAssumption, ThreadFacts DEF TypeOK, Goto, ScanFits, VerdictFits, Ran
<1>1. CASE TakeWork(c) BY <1>1 DEF TakeWork
<1>2. CASE WorkerFetch(c)
  <2>1. /\ \/ pc[Worker(c)] = "fetch" /\ pc' = [pc EXCEPT ![Worker(c)] = "start"]
           \/ pc[Worker(c)] = "refetch" /\ pc' = [pc EXCEPT ![Worker(c)] = "reacquire"]
        /\ UNCHANGED <<queue, status, last, pos, verdict, marking>>
    BY ONLY <1>2 DEF WorkerFetch, Goto
  <2>2. QED BY <2>1
<1>3. CASE Start(c) BY <1>3 DEF Start
<1>4. CASE Finish(c)
  <2>1. /\ pc' = [pc EXCEPT ![Worker(c)] = "refetch"]
        /\ UNCHANGED <<queue, last, pos, marking>>
    BY ONLY <1>4 DEF Finish, Goto
  <2>2. CASE /\ verdict' = [verdict EXCEPT ![c] = "ok"]
             /\ status' = [status EXCEPT ![TaskOf[c]] = Complete]
    BY <2>1, <2>2
  <2>3. CASE /\ verdict' = [verdict EXCEPT ![c] = "error"]
             /\ status' = [status EXCEPT ![TaskOf[c]] = Failed]
    BY <2>1, <2>3
  <2>4. QED BY ONLY <1>4, <2>2, <2>3 DEF Finish
<1>5. CASE BeginRemoval(c)
  BY <1>5 DEF BeginRemoval
<1>6. CASE Compare(c)
  <2>1. /\ pc[Worker(c)] = "scan" /\ pos[c] <= last[c]
        /\ UNCHANGED <<queue, status, last, verdict, marking>>
    BY ONLY <1>6 DEF Compare
  <2>2. CASE Goto(Worker(c), "pop") /\ UNCHANGED pos BY <2>1, <2>2
  <2>3. CASE pos' = [pos EXCEPT ![c] = @ + 1] /\ UNCHANGED pc BY <2>1, <2>3
  <2>4. QED BY ONLY <1>6, <2>2, <2>3 DEF Compare
<1>7. CASE Pop(c)
  <2>1. /\ pc[Worker(c)] = "pop" /\ pc' = [pc EXCEPT ![Worker(c)] = "signal"]
        /\ \A u \in Users : u # UserOf[c] => queue'[u] = queue[u]
        /\ UNCHANGED <<status, last, pos, verdict, marking>>
    BY <1>7 DEF Pop
  <2>2. QED BY <2>1
<1>8. CASE NotFound(c) BY <1>8 DEF NotFound
<1>9. CASE IndexError(c)
  <2>1. pos[c] \in Nat /\ last[c] \in Nat OBVIOUS
  <2>2. pc[Worker(c)] \in {"scan", "pop"} BY <1>9 DEF IndexError
  <2>3. last[c] = Len(queue[UserOf[c]]) /\ pos[c] <= last[c] BY <1>9, <2>2 DEF IndexError
  <2>4. pos[c] > Len(queue[UserOf[c]]) BY <1>9 DEF IndexError
  <2>5. FALSE BY ONLY <2>1, <2>3, <2>4
  <2>6. QED BY <2>5
<1>10. CASE Signal(c) BY <1>10 DEF Signal
<1>11. CASE Resolve(c) BY <1>11 DEF Resolve
<1>12. QED
  BY ONLY WorkerStep(c), <1>1, <1>2, <1>3, <1>4, <1>5, <1>6, <1>7, <1>8, <1>9, <1>10, <1>11
     DEF WorkerStep

LEMMA ScanInvariant ==
  ASSUME NEW S \in SUBSET Users
  PROVE  Spec /\ LocksStay(S) => []ScanInv(S)
<1>1. Init => ScanInv(S)
  BY ThreadFacts DEF Init, ScanInv, ScanFits
<1>2. TypeOK /\ OneInsideOf(S) /\ ScanInv(S) /\ [Next]_vars => ScanInv(S)'
  <2> SUFFICES ASSUME TypeOK, OneInsideOf(S), ScanInv(S), [Next]_vars PROVE ScanInv(S)'
    OBVIOUS
  <2>1. ASSUME NEW c \in Calls, ClientStep(c) \/ WorkerStep(c) PROVE ScanInv(S)'
    <3>1. Frame(c) BY <2>1, ClientFrame, WorkerFrame
    <3>2. UserOf[c] \in S => ScanFits(c)' BY <2>1, ClientFits, WorkerFits DEF ScanInv
    <3>3. QED BY <3>1, <3>2, OthersScan DEF ScanInv
  <2>2. ASSUME NEW u \in Users, DrainTest(u) \/ DrainMark(u) PROVE ScanInv(S)'
    BY <2>2 DEF DrainTest, DrainMark, ScanInv, ScanFits
  <2>3. CASE UNCHANGED vars BY <2>3 DEF vars, ScanInv, ScanFits
  <2>4. QED BY <2>1, <2>2, <2>3 DEF Next
<1>3. QED
  BY <1>1, <1>2, TypeCorrect, InsideAlone, PTL DEF Spec

LEMMA MarkInvariant == Spec => []MarkInv
<1>1. Init => MarkInv
  BY DEF Init, MarkInv
<1>2. TypeOK /\ MarkInv /\ [Next]_vars => MarkInv'
  <2> SUFFICES ASSUME TypeOK, MarkInv, [Next]_vars PROVE MarkInv'
    OBVIOUS
  <2>1. ASSUME NEW c \in Calls, ClientStep(c) PROVE MarkInv'
    <3>1. UNCHANGED marking /\ (queue' = queue \/ Enqueue(c))
      BY <2>1 DEF ClientStep, Lookup, CreateLock, FetchLock, Enter, Reject, Enqueue, Submit, Return
    <3>2. CASE Enqueue(c)
      <4>1. TaskOf[c] \in TasksOf(UserOf[c]) BY DEF TasksOf
      <4>2. Append(queue[UserOf[c]], TaskOf[c]) \in Seq(TasksOf(UserOf[c]))
        BY <4>1, ConstantsAssumption DEF MarkInv
      <4>3. QED BY <3>1, <3>2, <4>2 DEF Enqueue, TypeOK, MarkInv
    <3>3. QED BY <3>1, <3>2 DEF MarkInv
  <2>2. ASSUME NEW c \in Calls, WorkerStep(c) PROVE MarkInv'
    <3>1. UNCHANGED marking /\ (queue' = queue \/ Pop(c))
      BY <2>2 DEF WorkerStep, TakeWork, WorkerFetch, Start, Finish, BeginRemoval, Compare, Pop,
                  NotFound, IndexError, Signal, Resolve
    <3>2. CASE Pop(c)
      <4>1. queue[UserOf[c]] \in Seq(TasksOf(UserOf[c])) /\ pos[c] \in 1..Len(queue[UserOf[c]])
        BY <3>2, ConstantsAssumption DEF Pop, TypeOK, MarkInv
      <4>2. RemoveAt(queue[UserOf[c]], pos[c]) \in Seq(TasksOf(UserOf[c]))
        BY <4>1, RemoveAtType
      <4>3. QED BY <3>1, <3>2, <4>2 DEF Pop, TypeOK, MarkInv
    <3>3. QED BY <3>1, <3>2 DEF MarkInv
  <2>3. ASSUME NEW u \in Users, DrainTest(u) PROVE MarkInv'
    <3>1. PICK i \in DOMAIN queue[u] : marking' = [marking EXCEPT ![u] = queue[u][i]]
      BY <2>3 DEF DrainTest
    <3>2. u \in Drained /\ queue[u][i] \in TasksOf(u) /\ queue' = queue
      BY <2>3, <3>1 DEF DrainTest, MarkInv
    <3>3. QED BY <3>1, <3>2 DEF MarkInv, TypeOK
  <2>4. ASSUME NEW u \in Users, DrainMark(u) PROVE MarkInv'
    BY <2>4 DEF DrainMark, MarkInv, TypeOK
  <2>5. CASE UNCHANGED vars BY <2>5 DEF vars, MarkInv
  <2>6. QED BY <2>1, <2>2, <2>3, <2>4, <2>5 DEF Next
<1>3. QED
  BY <1>1, <1>2, TypeCorrect, PTL DEF Spec

\* get_all does not mark the task of a call that is alone with it.
LEMMA OthersMark ==
  ASSUME TypeOK, MarkInv, NEW u \in Users, DrainMark(u), NEW d \in Calls, Alone(d)
  PROVE  status'[TaskOf[d]] = status[TaskOf[d]]
<1>1. marking[u] \in TasksOf(u) /\ u \in Drained BY DEF DrainMark, MarkInv
<1>2. PICK c \in Calls : UserOf[c] = u /\ TaskOf[c] = marking[u] BY <1>1 DEF TasksOf
<1>3. marking[u] # TaskOf[d] BY <1>1, <1>2 DEF Alone
<1>4. QED BY <1>3, ConstantsAssumption DEF DrainMark, TypeOK

LEMMA VerdictInvStep ==
  ASSUME NEW S, TypeOK, OneInsideOf(S), ScanInv(S), MarkInv, VerdictInv(S), [Next]_vars
  PROVE  VerdictInv(S)'
<1>1. ASSUME NEW c \in Calls, ClientStep(c) \/ WorkerStep(c) PROVE VerdictInv(S)'
  <2>1. Frame(c) BY <1>1, ClientFrame, WorkerFrame
  <2>2. UserOf[c] \in S /\ Alone(c) => VerdictFits(c)'
    BY <1>1, ClientFits, WorkerFits DEF ScanInv, VerdictInv
  <2>3. \A d \in Calls : UserOf[d] \in S /\ Alone(d) => VerdictFits(d)'
    BY <2>1, <2>2, OthersVerdict DEF VerdictInv
  <2>4. QED BY <2>3 DEF VerdictInv, Alone
<1>2. ASSUME NEW u \in Users, DrainTest(u) PROVE VerdictInv(S)'
  BY <1>2 DEF DrainTest, VerdictInv, VerdictFits, Alone
<1>3. ASSUME NEW u \in Users, DrainMark(u) PROVE VerdictInv(S)'
  <2>1. ASSUME NEW d \in Calls, Alone(d) PROVE status'[TaskOf[d]] = status[TaskOf[d]]
    BY <1>3, <2>1, OthersMark
  <2>2. UNCHANGED <<pc, verdict>> BY <1>3 DEF DrainMark
  <2>3. QED BY <2>1, <2>2 DEF VerdictInv, VerdictFits, Alone
<1>4. CASE UNCHANGED vars BY <1>4 DEF vars, VerdictInv, VerdictFits, Alone
<1>5. QED BY <1>1, <1>2, <1>3, <1>4 DEF Next

OutcomesOf(S) ==
  \A c \in Waiters : UserOf[c] \in S /\ Alone(c) /\ pc[Client(c)] = "back" =>
    \/ answer[c] = "rejected"
    \/ answer[c] = "ok" /\ status[TaskOf[c]] = Complete
    \/ answer[c] = "error" /\ status[TaskOf[c]] = Failed

LEMMA OutcomesAlone ==
  ASSUME NEW S \in SUBSET Users
  PROVE  Spec /\ LocksStay(S) => []OutcomesOf(S)
<1>1. Init => VerdictInv(S)
  BY ThreadFacts DEF Init, VerdictInv, VerdictFits, Ran
<1>2. TypeOK /\ OneInsideOf(S) /\ ScanInv(S) /\ MarkInv /\ VerdictInv(S) /\ [Next]_vars => VerdictInv(S)'
  BY VerdictInvStep
<1>3. TypeOK /\ PhaseInv /\ VerdictInv(S) => OutcomesOf(S)
  <2> SUFFICES ASSUME TypeOK, PhaseInv, VerdictInv(S), NEW c \in Waiters, UserOf[c] \in S, Alone(c),
                      pc[Client(c)] = "back", answer[c] # "rejected"
               PROVE  \/ answer[c] = "ok" /\ status[TaskOf[c]] = Complete
                      \/ answer[c] = "error" /\ status[TaskOf[c]] = Failed
    BY DEF OutcomesOf
  <2>1. c \in Calls BY ConstantsAssumption
  <2>2. pc[Worker(c)] = "done" /\ answer[c] = verdict[c]
    BY <2>1 DEF PhaseInv, PhasesAgree
  <2>3. VerdictFits(c) BY <2>1 DEF VerdictInv
  <2>4. QED BY <2>2, <2>3 DEF VerdictFits, Ran
<1>4. QED
  BY <1>1, <1>2, <1>3, ScanInvariant, MarkInvariant, TypeCorrect, PhaseInvariant, InsideAlone,
     PTL DEF Spec

\* Unless two first calls of one user race, put_and_wait never reports anything
\* but what its own task ended with, when it has ended, for every call whose
\* task no other call submits and get_all does not mark (queue/core.py:60-124).
THEOREM CallersGetTheirOutcome == Spec /\ LocksStay(Users) => []AnswerIsOutcome
<1>1. ASSUME NEW S \in SUBSET Users, S = Users
      PROVE  Spec /\ LocksStay(Users) => []AnswerIsOutcome
  <2>1. Spec /\ LocksStay(S) => []OutcomesOf(S) BY ONLY OutcomesAlone
  <2>2. KeepsLocks(Users) <=> KeepsLocks(S) BY <1>1
  <2>3. OutcomesOf(S) => AnswerIsOutcome
    BY <1>1, ConstantsAssumption DEF OutcomesOf, AnswerIsOutcome
  <2>4. QED BY <2>1, <2>2, <2>3, PTL DEF LocksStay
<1>2. QED BY <1>1

-----------------------------------------------------------------------------
(* Nobody goes on early, whether the locks exist or not. *)

\* Once the body of the task is over the call has an outcome, and the task a
\* final status unless others mark it.
EndFits(c) ==
  pc[Worker(c)] \in Ran =>
    /\ verdict[c] # "none"
    /\ Alone(c) => status[TaskOf[c]] \in {Complete, Failed}

EndInv == \A c \in Calls : EndFits(c)

\* A step of call c marks its own task only, and leaves other calls' workers alone.
LEMMA OwnMarks ==
  ASSUME TypeOK, NEW c \in Calls, ClientStep(c) \/ WorkerStep(c)
  PROVE  /\ \A t \in Tasks : t # TaskOf[c] => status'[t] = status[t]
         /\ \A d \in Calls : d # c => /\ pc'[Worker(d)] = pc[Worker(d)]
                                      /\ verdict'[d] = verdict[d]
BY ThreadFacts
   DEF TypeOK, ClientStep, WorkerStep, Goto, Lookup, CreateLock, FetchLock, Enter, Reject, Enqueue,
       Submit, Return, TakeWork, WorkerFetch, Start, Finish, BeginRemoval, Compare, Pop, NotFound,
       IndexError, Signal, Resolve

LEMMA OwnEnd ==
  ASSUME TypeOK, NEW c \in Calls, EndFits(c), ClientStep(c) \/ WorkerStep(c)
  PROVE  EndFits(c)'
<1> USE ConstantsAssumption, ThreadFacts DEF TypeOK, Goto, EndFits, Ran, Alone
<1>1. CASE ClientStep(c)
  <2>1. UNCHANGED <<status, verdict>>
    BY <1>1 DEF ClientStep, Lookup, CreateLock, FetchLock, Enter, Reject, Enqueue, Submit, Return
  <2>2. pc'[Worker(c)] = pc[Worker(c)] \/ pc'[Worker(c)] = "queued"
    BY <1>1 DEF ClientStep, Lookup, CreateLock, FetchLock, Enter, Reject, Enqueue, Submit, Return
  <2>3. QED BY <2>1, <2>2
<1>2. CASE Finish(c)
  <2>1. verdict'[c] \in {"ok", "error"} /\ status'[TaskOf[c]] \in {Complete, Failed}
    BY <1>2 DEF Finish
  <2>2. QED BY <2>1
<1>3. CASE IndexError(c)
  <2>1. pc[Worker(c)] \in Ran BY <1>3 DEF IndexError
  <2>2. verdict'[c] = "broken" /\ status' = status BY <1>3 DEF IndexError
  <2>3. QED BY <2>1, <2>2
<1>4. CASE Start(c)
  <2>1. pc'[Worker(c)] = "run" BY <1>4 DEF Start
  <2>2. QED BY <2>1
<1>5. CASE TakeWork(c) \/ WorkerFetch(c)
  <2>1. UNCHANGED <<status, verdict>> BY <1>5 DEF TakeWork, WorkerFetch
  <2>2. pc'[Worker(c)] \in Ran => pc[Worker(c)] \in Ran BY <1>5 DEF TakeWork, WorkerFetch
  <2>3. QED BY <2>1, <2>2
<1>6. CASE BeginRemoval(c) \/ Compare(c) \/ Pop(c) \/ NotFound(c) \/ Signal(c) \/ Resolve(c)
  <2>1. UNCHANGED <<status, verdict>> /\ pc[Worker(c)] \in Ran
    BY <1>6 DEF BeginRemoval, Compare, Pop, NotFound, Signal, Resolve
  <2>2. QED BY <2>1
<1>7. QED
  BY ONLY <1>1, <1>2, <1>3, <1>4, <1>5, <1>6, ClientStep(c) \/ WorkerStep(c) DEF WorkerStep

LEMMA EndInvariant == Spec => []EndInv
<1>1. Init => EndInv
  BY ThreadFacts DEF Init, EndInv, EndFits, Ran
<1>2. TypeOK /\ MarkInv /\ EndInv /\ [Next]_vars => EndInv'
  <2> SUFFICES ASSUME TypeOK, MarkInv, EndInv, [Next]_vars PROVE EndInv'
    OBVIOUS
  <2>1. ASSUME NEW c \in Calls, ClientStep(c) \/ WorkerStep(c) PROVE EndInv'
    <3>1. EndFits(c)' BY <2>1, OwnEnd DEF EndInv
    <3>2. ASSUME NEW d \in Calls, d # c PROVE EndFits(d)'
      <4>1. pc'[Worker(d)] = pc[Worker(d)] /\ verdict'[d] = verdict[d] BY <2>1, <3>2, OwnMarks
      <4>2. Alone(d) => status'[TaskOf[d]] = status[TaskOf[d]]
        BY <2>1, <3>2, OwnMarks, ConstantsAssumption DEF Alone
      <4>3. QED BY <4>1, <4>2 DEF EndInv, EndFits, Alone
    <3>3. QED BY <3>1, <3>2 DEF EndInv
  <2>2. ASSUME NEW u \in Users, DrainTest(u) PROVE EndInv'
    BY <2>2 DEF DrainTest, EndInv, EndFits, Alone
  <2>3. ASSUME NEW u \in Users, DrainMark(u) PROVE EndInv'
    <3>1. ASSUME NEW d \in Calls, Alone(d) PROVE status'[TaskOf[d]] = status[TaskOf[d]]
      BY <2>3, <3>1, OthersMark
    <3>2. UNCHANGED <<pc, verdict>> BY <2>3 DEF DrainMark
    <3>3. QED BY <3>1, <3>2 DEF EndInv, EndFits, Alone
  <2>4. CASE UNCHANGED vars BY <2>4 DEF vars, EndInv, EndFits, Alone
  <2>5. QED BY <2>1, <2>2, <2>3, <2>4 DEF Next
<1>3. QED
  BY <1>1, <1>2, TypeCorrect, MarkInvariant, PTL DEF Spec

\* No caller of put_and_wait goes on before its task has run to its end, on the
\* first use of a user's lock too, where an outcome can be lost: the event is
\* set after the finally clause whatever leaves it (queue/core.py:83-111).
THEOREM NobodyGoesOnEarly == Spec => []AnswerAfterEnd
<1>1. PhaseInv /\ EndInv => AnswerAfterEnd
  <2> SUFFICES ASSUME PhaseInv, EndInv, NEW c \in Waiters, pc[Client(c)] = "back",
                      answer[c] # "rejected"
               PROVE  /\ verdict[c] # "none"
                      /\ Alone(c) => status[TaskOf[c]] \in {Complete, Failed}
    BY DEF AnswerAfterEnd
  <2>1. c \in Calls BY ConstantsAssumption
  <2>2. pc[Worker(c)] \in Ran BY <2>1 DEF PhaseInv, PhasesAgree, Ran
  <2>3. QED BY <2>1, <2>2 DEF EndInv, EndFits
<1>2. QED
  BY <1>1, PhaseInvariant, EndInvariant, PTL

-----------------------------------------------------------------------------
(* The queue implements TaskLifecycle. *)

\* What a call has been answered while it is still under way: nothing.
WaitInv ==
  \A c \in Calls :
    /\ pc[Client(c)] # "back" => answer[c] = "none"
    /\ pc[Client(c)] = "wait" => c \in Waiters

LEMMA WaitInvariant == Spec => []WaitInv
<1>1. Init => WaitInv
  BY ThreadFacts DEF Init, WaitInv
<1>2. TypeOK /\ WaitInv /\ [Next]_vars => WaitInv'
  <2> SUFFICES ASSUME TypeOK, WaitInv, [Next]_vars PROVE WaitInv'
    OBVIOUS
  <2> USE ThreadFacts DEF TypeOK, WaitInv, Goto
  <2>1. ASSUME NEW c \in Calls, ClientStep(c) PROVE WaitInv'
    <3>1. CASE Lookup(c)
      <4>1. PICK p \in {"create", "acquire"} : Goto(Client(c), p) BY ONLY <3>1 DEF Lookup
      <4>2. pc[Client(c)] = "idle" /\ UNCHANGED answer BY <3>1 DEF Lookup
      <4>3. QED BY <4>1, <4>2
    <3>2. CASE CreateLock(c) BY <3>2 DEF CreateLock
    <3>3. CASE FetchLock(c) BY <3>3 DEF FetchLock
    <3>4. CASE Enter(c) BY <3>4 DEF Enter
    <3>5. CASE Reject(c) BY <3>5 DEF Reject
    <3>6. CASE Enqueue(c) BY <3>6 DEF Enqueue
    <3>7. CASE Submit(c)
      <4>1. CASE c \in Waiters BY <3>7, <4>1 DEF Submit
      <4>2. CASE c \notin Waiters BY <3>7, <4>2 DEF Submit
      <4>3. QED BY <4>1, <4>2
    <3>8. CASE Return(c) BY <3>8 DEF Return
    <3>9. QED BY <2>1, <3>1, <3>2, <3>3, <3>4, <3>5, <3>6, <3>7, <3>8 DEF ClientStep
  <2>2. ASSUME NEW c \in Calls, WorkerStep(c) PROVE WaitInv'
    <3>1. answer' = answer /\ \E p : Goto(Worker(c), p) \/ UNCHANGED pc
      BY <2>2 DEF WorkerStep, TakeWork, WorkerFetch, Start, Finish, BeginRemoval, Compare, Pop,
                  NotFound, IndexError, Signal, Resolve
    <3>2. QED BY <3>1
  <2>3. ASSUME NEW u \in Users, DrainTest(u) \/ DrainMark(u) PROVE WaitInv'
    BY <2>3 DEF DrainTest, DrainMark
  <2>4. CASE UNCHANGED vars BY <2>4 DEF vars
  <2>5. QED BY <2>1, <2>2, <2>3, <2>4 DEF Next
<1>3. QED
  BY <1>1, <1>2, TypeCorrect, PTL DEF Spec

ReplyOf(c) == IF answer[c] = "accepted" THEN "none" ELSE answer[c]

\* A step of call c changes what the lifecycle sees of c only.
Local(c) ==
  \A d \in Calls \ {c} :
    PhaseOf(d)' = PhaseOf(d) /\ verdict'[d] = verdict[d] /\ ReplyOf(d)' = ReplyOf(d)

LEMMA LocalStep ==
  ASSUME TypeOK, NEW c \in Calls, ClientStep(c) \/ WorkerStep(c)
  PROVE  Local(c)
<1>1. ASSUME NEW d \in Calls, d # c
      PROVE  pc'[Worker(d)] = pc[Worker(d)] /\ answer'[d] = answer[d] /\ verdict'[d] = verdict[d]
  BY <1>1, ThreadFacts
     DEF TypeOK, ClientStep, WorkerStep, Goto, Lookup, CreateLock, FetchLock, Enter, Reject, Enqueue,
         Submit, Return, TakeWork, WorkerFetch, Start, Finish, BeginRemoval, Compare, Pop, NotFound,
         IndexError, Signal, Resolve
<1>2. QED
  BY <1>1 DEF Local, PhaseOf, ReplyOf

\* The lifecycle's functions change at c, to the values given here.
LEMMA Changes ==
  ASSUME TypeOK, TypeOK', NEW c \in Calls, Local(c)
  PROVE  /\ [d \in Calls |-> PhaseOf(d)]' = [[d \in Calls |-> PhaseOf(d)] EXCEPT ![c] = PhaseOf(c)']
         /\ verdict' = [verdict EXCEPT ![c] = verdict'[c]]
         /\ [d \in Calls |-> ReplyOf(d)]' = [[d \in Calls |-> ReplyOf(d)] EXCEPT ![c] = ReplyOf(c)']
<1>1. \A d \in Calls \ {c} : PhaseOf(d)' = PhaseOf(d) /\ verdict'[d] = verdict[d]
                              /\ ReplyOf(d)' = ReplyOf(d)
  BY DEF Local
<1>2. QED
  BY <1>1 DEF TypeOK

\* What a step of call c does to its phase, its result and its reply.
Same(c) == PhaseOf(c)' = PhaseOf(c) /\ verdict'[c] = verdict[c] /\ ReplyOf(c)' = ReplyOf(c)

Moved(c, from, to) == PhaseOf(c) = from /\ PhaseOf(c)' = to

Advances(c) ==
  \/ Moved(c, "new", "accepted") /\ verdict'[c] = verdict[c] /\ ReplyOf(c)' = ReplyOf(c)
  \/ Moved(c, "new", "refused") /\ verdict'[c] = verdict[c] /\ ReplyOf(c)' = "rejected"
  \/ Moved(c, "accepted", "running") /\ verdict'[c] = verdict[c] /\ ReplyOf(c)' = ReplyOf(c)
  \/ Moved(c, "running", "ended") /\ verdict'[c] \in {"ok", "error"} /\ ReplyOf(c)' = ReplyOf(c)
  \/ /\ Moved(c, "ended", "ended") /\ verdict'[c] = verdict[c]
     /\ c \in Waiters /\ ReplyOf(c) = "none" /\ ReplyOf(c)' = verdict[c]

LEMMA ClientMaps ==
  ASSUME TypeOK, PhaseInv, WaitInv, NEW c \in Calls, ClientStep(c)
  PROVE  Same(c) \/ Advances(c)
<1> USE ThreadFacts DEF TypeOK, PhaseInv, PhasesAgree, WaitInv, Goto
<1>1. ASSUME pc'[Worker(c)] = pc[Worker(c)], UNCHANGED <<answer, verdict>> PROVE Same(c)
  BY ONLY <1>1 DEF Same, PhaseOf, ReplyOf
<1>2. CASE Lookup(c)
  <2>1. PICK p \in {"create", "acquire"} : Goto(Client(c), p) BY ONLY <1>2 DEF Lookup
  <2>2. UNCHANGED <<answer, verdict>> BY <1>2 DEF Lookup
  <2>3. QED BY <1>1, <2>1, <2>2
<1>3. CASE CreateLock(c) BY <1>1, <1>3 DEF CreateLock
<1>4. CASE FetchLock(c) BY <1>1, <1>4 DEF FetchLock
<1>5. CASE Enter(c) BY <1>1, <1>5 DEF Enter
<1>6. CASE Reject(c)
  <2>1. pc[Worker(c)] = "idle" /\ answer[c] = "none" BY <1>6 DEF Reject
  <2>2. answer'[c] = "rejected" /\ verdict'[c] = verdict[c] /\ pc'[Worker(c)] = "idle"
    BY <1>6, <2>1 DEF Reject
  <2>3. QED BY ONLY <2>1, <2>2 DEF Advances, Moved, PhaseOf, ReplyOf
<1>7. CASE Enqueue(c) BY <1>1, <1>7 DEF Enqueue
<1>8. CASE Submit(c)
  <2>1. pc[Worker(c)] = "idle" /\ answer[c] = "none" BY <1>8 DEF Submit
  <2>2. /\ pc'[Worker(c)] = "queued" /\ answer'[c] \in {"none", "accepted"}
        /\ verdict'[c] = verdict[c]
    BY <1>8, <2>1 DEF Submit
  <2>3. QED BY ONLY <2>1, <2>2 DEF Advances, Moved, PhaseOf, ReplyOf
<1>9. CASE Return(c)
  <2>1. /\ pc[Worker(c)] = "done" /\ answer[c] = "none" /\ c \in Waiters
        /\ verdict[c] \in {"none", "ok", "error", "broken"}
    BY <1>9 DEF Return, Ended
  <2>2. /\ pc'[Worker(c)] = "done" /\ answer'[c] = verdict[c] /\ verdict'[c] = verdict[c]
    BY <1>9, <2>1 DEF Return
  <2>3. QED BY ONLY <2>1, <2>2 DEF Advances, Moved, PhaseOf, ReplyOf
<1>10. QED
  BY ONLY ClientStep(c), <1>2, <1>3, <1>4, <1>5, <1>6, <1>7, <1>8, <1>9 DEF ClientStep

LEMMA WorkerMaps ==
  ASSUME TypeOK, PhaseInv, NEW c \in Calls, ScanFits(c), WorkerStep(c)
  PROVE  Same(c) \/ Advances(c)
<1> USE ThreadFacts DEF TypeOK, Goto
<1>1. UNCHANGED answer
  BY DEF WorkerStep, TakeWork, WorkerFetch, Start, Finish, BeginRemoval, Compare, Pop, NotFound,
         IndexError, Signal, Resolve
<1>2. pc[Worker(c)] # "idle" => answer[c] # "rejected"
  BY DEF PhaseInv, PhasesAgree
<1> DEFINE Waiting == {"queued", "fetch", "start"}
<1>3. ASSUME verdict' = verdict,
             \/ pc[Worker(c)] \in Waiting /\ pc'[Worker(c)] \in Waiting
             \/ pc[Worker(c)] \in Ran /\ pc'[Worker(c)] \in Ran
      PROVE  Same(c)
  BY ONLY <1>1, <1>3 DEF Same, PhaseOf, ReplyOf, Ran
<1>4. CASE TakeWork(c)
  <2>1. pc[Worker(c)] = "queued"
    <3>1. work # <<>> /\ work[1] = c BY <1>4 DEF TakeWork
    <3>2. 1 \in DOMAIN work BY <3>1
    <3>3. QED BY <3>1, <3>2 DEF PhaseInv, FifoInv
  <2>2. pc'[Worker(c)] = "fetch" /\ verdict' = verdict BY <1>4 DEF TakeWork
  <2>3. QED BY <1>3, <2>1, <2>2
<1>5. CASE WorkerFetch(c)
  <2>1. /\ \/ pc[Worker(c)] = "fetch" /\ pc' = [pc EXCEPT ![Worker(c)] = "start"]
           \/ pc[Worker(c)] = "refetch" /\ pc' = [pc EXCEPT ![Worker(c)] = "reacquire"]
        /\ verdict' = verdict
    BY ONLY <1>5 DEF WorkerFetch, Goto
  <2>2. QED BY <1>3, <2>1 DEF Ran
<1>6. CASE Start(c)
  <2>1. /\ pc[Worker(c)] = "start" /\ pc'[Worker(c)] = "run" /\ verdict' = verdict
        /\ answer[c] # "rejected"
    BY <1>2, <1>6 DEF Start
  <2>2. QED BY ONLY <1>1, <2>1 DEF Advances, Moved, PhaseOf, ReplyOf
<1>7. CASE Finish(c)
  <2>1. pc[Worker(c)] = "run" /\ pc'[Worker(c)] = "refetch" /\ answer[c] # "rejected"
    BY <1>2, <1>7 DEF Finish
  <2>2. verdict'[c] \in {"ok", "error"}
    <3>1. PICK v \in {"ok", "error"} : verdict' = [verdict EXCEPT ![c] = v]
      BY ONLY <1>7 DEF Finish
    <3>2. QED BY <3>1
  <2>3. QED BY ONLY <1>1, <2>1, <2>2 DEF Advances, Moved, PhaseOf, ReplyOf
<1>8. CASE BeginRemoval(c) BY <1>3, <1>8 DEF BeginRemoval, Ran
<1>9. CASE Compare(c)
  <2>1. pc[Worker(c)] = "scan" /\ verdict' = verdict BY <1>9 DEF Compare
  <2>2. pc'[Worker(c)] \in {"scan", "pop"}
    <3>1. Goto(Worker(c), "pop") \/ UNCHANGED pc BY ONLY <1>9 DEF Compare
    <3>2. QED BY <2>1, <3>1
  <2>3. QED BY <1>3, <2>1, <2>2 DEF Ran
<1>10. CASE Pop(c) BY <1>3, <1>10 DEF Pop, Ran
<1>11. CASE NotFound(c) BY <1>3, <1>11 DEF NotFound, Ran
<1>12. CASE IndexError(c)
  <2>1. pos[c] \in Nat /\ last[c] \in Nat OBVIOUS
  <2>2. pc[Worker(c)] \in {"scan", "pop"} BY <1>12 DEF IndexError
  <2>3. last[c] = Len(queue[UserOf[c]]) /\ pos[c] <= last[c]
    BY <1>12, <2>2 DEF IndexError, ScanFits
  <2>4. pos[c] > Len(queue[UserOf[c]]) BY <1>12 DEF IndexError
  <2>5. QED BY ONLY <2>1, <2>3, <2>4
<1>13. CASE Signal(c) BY <1>3, <1>13 DEF Signal, Ran
<1>14. CASE Resolve(c) BY <1>3, <1>14 DEF Resolve, Ran
<1>15. QED
  BY ONLY WorkerStep(c), <1>4, <1>5, <1>6, <1>7, <1>8, <1>9, <1>10, <1>11, <1>12, <1>13, <1>14
     DEF WorkerStep

\* What a call does to its own phase, result and reply is a step of the
\* lifecycle.
LEMMA AdvancesIsStep ==
  ASSUME TypeOK, TypeOK', NEW c \in Calls, Local(c), Same(c) \/ Advances(c)
  PROVE  Lifecycle!Step(c) \/ UNCHANGED Lifecycle!lvars
<1> DEFINE ph == [d \in Calls |-> PhaseOf(d)]
           rp == [d \in Calls |-> ReplyOf(d)]
<1>1. /\ ph' = [ph EXCEPT ![c] = PhaseOf(c)'] /\ ph[c] = PhaseOf(c)
      /\ verdict' = [verdict EXCEPT ![c] = verdict'[c]]
      /\ rp' = [rp EXCEPT ![c] = ReplyOf(c)'] /\ rp[c] = ReplyOf(c)
  BY Changes
<1>2. ph = [ph EXCEPT ![c] = PhaseOf(c)] /\ rp = [rp EXCEPT ![c] = ReplyOf(c)]
      /\ verdict = [verdict EXCEPT ![c] = verdict[c]]
  BY DEF TypeOK
<1>3. rp = [d \in Calls |-> IF answer[d] = "accepted" THEN "none" ELSE answer[d]]
  BY DEF ReplyOf
<1> HIDE DEF ph, rp
<1>4. CASE Same(c)
  <2>1. ph' = ph /\ verdict' = verdict /\ rp' = rp BY ONLY <1>1, <1>2, <1>4 DEF Same
  <2>2. QED BY ONLY <1>3, <2>1 DEF Lifecycle!lvars, ph, rp, ReplyOf
<1>5. CASE Advances(c)
  <2>1. CASE Moved(c, "new", "accepted") /\ verdict'[c] = verdict[c] /\ ReplyOf(c)' = ReplyOf(c)
    <3>1. /\ ph[c] = "new" /\ ph' = [ph EXCEPT ![c] = "accepted"]
          /\ verdict' = verdict /\ rp' = rp
      BY ONLY <1>1, <1>2, <2>1 DEF Moved
    <3>2. Lifecycle!Accept(c) BY ONLY <3>1 DEF Lifecycle!Accept, ph, rp, ReplyOf
    <3>3. QED BY <3>2 DEF Lifecycle!Step
  <2>2. CASE Moved(c, "new", "refused") /\ verdict'[c] = verdict[c] /\ ReplyOf(c)' = "rejected"
    <3>1. /\ ph[c] = "new" /\ ph' = [ph EXCEPT ![c] = "refused"]
          /\ verdict' = verdict /\ rp' = [rp EXCEPT ![c] = "rejected"]
      BY ONLY <1>1, <1>2, <2>2 DEF Moved
    <3>2. Lifecycle!Refuse(c) BY ONLY <3>1 DEF Lifecycle!Refuse, ph, rp, ReplyOf
    <3>3. QED BY <3>2 DEF Lifecycle!Step
  <2>3. CASE Moved(c, "accepted", "running") /\ verdict'[c] = verdict[c] /\ ReplyOf(c)' = ReplyOf(c)
    <3>1. /\ ph[c] = "accepted" /\ ph' = [ph EXCEPT ![c] = "running"]
          /\ verdict' = verdict /\ rp' = rp
      BY ONLY <1>1, <1>2, <2>3 DEF Moved
    <3>2. Lifecycle!Run(c) BY ONLY <3>1 DEF Lifecycle!Run, ph, rp, ReplyOf
    <3>3. QED BY <3>2 DEF Lifecycle!Step
  <2>4. CASE /\ Moved(c, "running", "ended") /\ verdict'[c] \in {"ok", "error"}
             /\ ReplyOf(c)' = ReplyOf(c)
    <3>1. /\ ph[c] = "running" /\ ph' = [ph EXCEPT ![c] = "ended"]
          /\ verdict' = [verdict EXCEPT ![c] = verdict'[c]] /\ rp' = rp
      BY ONLY <1>1, <1>2, <2>4 DEF Moved
    <3>2. Lifecycle!End(c) BY ONLY <2>4, <3>1 DEF Lifecycle!End, ph, rp, ReplyOf
    <3>3. QED BY <3>2 DEF Lifecycle!Step
  <2>5. CASE /\ Moved(c, "ended", "ended") /\ verdict'[c] = verdict[c]
             /\ c \in Waiters /\ ReplyOf(c) = "none" /\ ReplyOf(c)' = verdict[c]
    <3>1. /\ ph[c] = "ended" /\ ph' = ph /\ rp[c] = "none"
          /\ verdict' = verdict /\ rp' = [rp EXCEPT ![c] = verdict[c]] /\ c \in Waiters
      BY ONLY <1>1, <1>2, <2>5 DEF Moved
    <3>2. Lifecycle!Reply(c) BY ONLY <3>1 DEF Lifecycle!Reply, ph, rp, ReplyOf
    <3>3. QED BY <3>2 DEF Lifecycle!Step
  <2>6. QED BY ONLY <1>5, <2>1, <2>2, <2>3, <2>4, <2>5 DEF Advances
<1>6. QED
  BY <1>4, <1>5

\* Unless two first calls of one user race, the queue with its locks, lists and
\* threads does what TaskLifecycle promises and nothing else: each task is run
\* once, and each caller gets its own run's result (queue/core.py:52-111).
THEOREM QueueImplementsLifecycle == Spec /\ LocksStay(Users) => Lifecycle!SafeSpec
<1>1. Init => Lifecycle!Init
  BY ThreadFacts DEF Init, Lifecycle!Init, PhaseOf
<1>2. ASSUME TypeOK, TypeOK', PhaseInv, WaitInv, ScanInv(Users), [Next]_vars
      PROVE  Lifecycle!Next \/ UNCHANGED Lifecycle!lvars
  <2>1. ASSUME NEW c \in Calls, ClientStep(c) \/ WorkerStep(c)
        PROVE  Lifecycle!Next \/ UNCHANGED Lifecycle!lvars
    <3>1. Local(c) BY <1>2, <2>1, LocalStep
    <3>2. Same(c) \/ Advances(c) BY <1>2, <2>1, ClientMaps, WorkerMaps, ConstantsAssumption DEF ScanInv
    <3>3. Lifecycle!Step(c) \/ UNCHANGED Lifecycle!lvars BY <1>2, <3>1, <3>2, AdvancesIsStep
    <3>4. QED BY <3>3 DEF Lifecycle!Next
  <2>2. CASE \/ \E u \in Users : DrainTest(u) \/ DrainMark(u)
             \/ UNCHANGED vars
    <3>1. UNCHANGED <<pc, answer, verdict>> BY <2>2 DEF DrainTest, DrainMark, vars
    <3>2. QED BY <3>1 DEF Lifecycle!lvars, PhaseOf
  <2>3. QED BY <1>2, <2>1, <2>2 DEF Next
<1>3. ASSUME NEW S \in SUBSET Users, S = Users
      PROVE  Spec /\ LocksStay(Users) => []ScanInv(Users)
  <2>1. Spec /\ LocksStay(S) => []ScanInv(S) BY ONLY ScanInvariant
  <2>2. (KeepsLocks(Users) <=> KeepsLocks(S)) /\ (ScanInv(S) <=> ScanInv(Users)) BY <1>3
  <2>3. QED BY <2>1, <2>2, PTL DEF LocksStay
<1>4. Spec /\ LocksStay(Users) => []ScanInv(Users)
  BY <1>3
<1>5. QED
  BY <1>1, <1>2, <1>4, TypeCorrect, PhaseInvariant, WaitInvariant, PTL
     DEF Spec, Lifecycle!SafeSpec

\* What is left of a sequence when one element is taken out.
LEMMA RemoveAtFacts ==
  ASSUME NEW S, NEW s \in Seq(S), NEW i \in 1..Len(s)
  PROVE  /\ Len(RemoveAt(s, i)) = Len(s) - 1 /\ DOMAIN RemoveAt(s, i) = 1..(Len(s) - 1)
         /\ \A j \in 1..(Len(s) - 1) : RemoveAt(s, i)[j] = s[IF j < i THEN j ELSE j + 1]
<1> DEFINE a == SubSeq(s, 1, i - 1)
           b == SubSeq(s, i + 1, Len(s))
<1>1. /\ a \in Seq(S) /\ Len(a) = i - 1
      /\ \A j \in 1..(i - 1) : a[j] = s[j]
  OBVIOUS
<1>2. /\ b \in Seq(S) /\ Len(b) = Len(s) - i
      /\ \A j \in 1..(Len(s) - i) : b[j] = s[i + j]
  OBVIOUS
<1>3. RemoveAt(s, i) = a \o b
  BY DEF RemoveAt
<1> HIDE DEF a, b
<1>4. /\ Len(a \o b) = Len(s) - 1 /\ DOMAIN (a \o b) = 1..(Len(s) - 1)
      /\ \A j \in 1..(Len(s) - 1) : (a \o b)[j] = IF j < i THEN a[j] ELSE b[j - (i - 1)]
  <2>0. a \in Seq(S) /\ b \in Seq(S) BY <1>1, <1>2
  <2>1. /\ a \o b \in Seq(S) /\ Len(a \o b) = Len(a) + Len(b)
        /\ \A j \in 1..(Len(a) + Len(b)) :
             (a \o b)[j] = IF j <= Len(a) THEN a[j] ELSE b[j - Len(a)]
    BY ONLY <2>0
  <2>2. i \in Int /\ Len(s) \in Nat /\ Len(a) + Len(b) = Len(s) - 1 BY <1>1, <1>2
  <2>3. \A j \in 1..(Len(s) - 1) : j <= Len(a) <=> j < i BY <1>1, <2>2
  <2>4. DOMAIN (a \o b) = 1..(Len(s) - 1) BY <2>1, <2>2
  <2>5. QED BY <1>1, <2>1, <2>2, <2>3, <2>4
<1>5. ASSUME NEW j \in 1..(Len(s) - 1) PROVE (a \o b)[j] = s[IF j < i THEN j ELSE j + 1]
  <2>1. CASE j < i BY <1>1, <1>4, <2>1
  <2>2. CASE ~(j < i)
    <3>1. j - (i - 1) \in 1..(Len(s) - i) BY <2>2
    <3>2. b[j - (i - 1)] = s[i + (j - (i - 1))] BY ONLY <1>2, <3>1
    <3>3. i + (j - (i - 1)) = j + 1 OBVIOUS
    <3>4. QED BY <1>4, <2>2, <3>2, <3>3
  <2>3. QED BY <2>1, <2>2
<1>6. QED
  BY <1>3, <1>4, <1>5

-----------------------------------------------------------------------------
(* The test of the status still holds when the task is appended.           *)

Begun == {"run"} \cup Ran

\* A PENDING task has not been started, and is not while a client of its user
\* is between its test and its append.
PendingInv(S) ==
  /\ \A c \in Calls : status[TaskOf[c]] = Pending => pc[Worker(c)] \notin Begun
  /\ \A c, d \in Calls :
       pc[Client(d)] = "append" /\ UserOf[d] \in S /\ UserOf[c] = UserOf[d] /\ TaskOf[c] = TaskOf[d] =>
         pc[Worker(c)] \notin Begun

\* What a step of a client does to the places and to the statuses.
LEMMA ClientPlaces ==
  ASSUME TypeOK, NEW c \in Calls, ClientStep(c)
  PROVE  /\ UNCHANGED status
         /\ \A d \in Calls : pc'[Worker(d)] = pc[Worker(d)] \/ (d = c /\ pc'[Worker(d)] = "queued")
         /\ \A d \in Calls : pc'[Client(d)] = "append" => pc[Client(d)] = "append" \/ (d = c /\ Enter(c))
<1> USE ThreadFacts DEF TypeOK, Goto
<1>1. CASE Lookup(c)
  <2>1. PICK p \in {"create", "acquire"} : Goto(Client(c), p) BY ONLY <1>1 DEF Lookup
  <2>2. QED BY <1>1, <2>1 DEF Lookup
<1>2. CASE CreateLock(c) BY <1>2 DEF CreateLock
<1>3. CASE FetchLock(c) BY <1>3 DEF FetchLock
<1>4. CASE Enter(c) BY <1>4 DEF Enter
<1>5. CASE Reject(c) BY <1>5 DEF Reject
<1>6. CASE Enqueue(c) BY <1>6 DEF Enqueue
<1>7. CASE Submit(c) BY <1>7 DEF Submit
<1>8. CASE Return(c) BY <1>8 DEF Return
<1>9. QED BY <1>1, <1>2, <1>3, <1>4, <1>5, <1>6, <1>7, <1>8 DEF ClientStep

\* What a step of a worker does to the places and to the statuses: a task is
\* begun under the lock of its user.
LEMMA WorkerPlaces ==
  ASSUME TypeOK, PhaseInv, NEW c \in Calls, WorkerStep(c)
  PROVE  /\ \A d \in Calls : pc'[Client(d)] = pc[Client(d)]
         /\ \A d \in Calls \ {c} : pc'[Worker(d)] = pc[Worker(d)]
         /\ \A t \in Tasks : status'[t] = Pending => status[t] = Pending
         /\ \/ pc[Worker(c)] \notin Begun /\ pc'[Worker(c)] \notin Begun /\ UNCHANGED status
            \/ Start(c)
            \/ pc[Worker(c)] \in Begun /\ pc'[Worker(c)] \in Ran
<1> USE ThreadFacts DEF TypeOK, Goto, Begun, Ran, Pending, Started, Complete, Failed
<1>1. CASE TakeWork(c)
  <2>1. pc[Worker(c)] = "queued"
    <3>1. work # <<>> /\ work[1] = c /\ work \in Seq(Calls) BY <1>1 DEF TakeWork
    <3>2. 1 \in DOMAIN work BY <3>1
    <3>3. QED BY <3>1, <3>2 DEF PhaseInv, FifoInv
  <2>2. QED BY <1>1, <2>1 DEF TakeWork
<1>2. CASE WorkerFetch(c)
  <2>1. /\ \/ pc[Worker(c)] = "fetch" /\ pc' = [pc EXCEPT ![Worker(c)] = "start"]
           \/ pc[Worker(c)] = "refetch" /\ pc' = [pc EXCEPT ![Worker(c)] = "reacquire"]
        /\ UNCHANGED status
    BY ONLY <1>2 DEF WorkerFetch, Goto
  <2>2. QED BY <2>1
<1>3. CASE Start(c) BY <1>3 DEF Start
<1>4. CASE Finish(c)
  <2>1. PICK s \in {Complete, Failed} : status' = [status EXCEPT ![TaskOf[c]] = s]
    BY ONLY <1>4 DEF Finish
  <2>2. pc[Worker(c)] = "run" /\ pc' = [pc EXCEPT ![Worker(c)] = "refetch"]
    BY ONLY <1>4 DEF Finish, Goto
  <2>3. QED BY <2>1, <2>2
<1>5. CASE BeginRemoval(c) BY <1>5 DEF BeginRemoval
<1>6. CASE Compare(c)
  <2>1. pc[Worker(c)] = "scan" /\ UNCHANGED status BY ONLY <1>6 DEF Compare
  <2>2. pc' = [pc EXCEPT ![Worker(c)] = "pop"] \/ UNCHANGED pc BY ONLY <1>6 DEF Compare, Goto
  <2>3. QED BY <2>1, <2>2
<1>7. CASE Pop(c) BY <1>7 DEF Pop
<1>8. CASE NotFound(c) BY <1>8 DEF NotFound
<1>9. CASE IndexError(c)
  <2>1. /\ pc[Worker(c)] \in {"scan", "pop"} /\ UNCHANGED status
        /\ pc' = [pc EXCEPT ![Worker(c)] = "signal"]
    BY <1>9 DEF IndexError
  <2>2. QED BY <2>1
<1>10. CASE Signal(c) BY <1>10 DEF Signal
<1>11. CASE Resolve(c) BY <1>11 DEF Resolve
<1>12. QED
  BY ONLY WorkerStep(c), <1>1, <1>2, <1>3, <1>4, <1>5, <1>6, <1>7, <1>8, <1>9, <1>10, <1>11
     DEF WorkerStep

LEMMA PendingInvStep ==
  ASSUME NEW S, TypeOK, LockInv, OneLock(S), PhaseInv, PendingInv(S), [Next]_vars
  PROVE  PendingInv(S)'
<1>1. ASSUME NEW c \in Calls, ClientStep(c) PROVE PendingInv(S)'
  <2>1. \A d \in Calls : pc'[Worker(d)] \in Begun => pc[Worker(d)] \in Begun
    BY <1>1, ClientPlaces DEF Begun, Ran
  <2>2. ASSUME NEW b \in Calls, NEW d \in Calls, pc'[Client(d)] = "append",
               UserOf[d] \in S, UserOf[b] = UserOf[d], TaskOf[b] = TaskOf[d]
        PROVE  pc'[Worker(b)] \notin Begun
    <3>1. CASE pc[Client(d)] = "append" BY <2>1, <2>2, <3>1 DEF PendingInv
    <3>2. CASE Enter(d)
      <4>1. status[TaskOf[b]] = Pending BY <2>2, <3>2 DEF Enter
      <4>2. QED BY <2>1, <4>1 DEF PendingInv
    <3>3. QED BY <1>1, <2>2, <3>1, <3>2, ClientPlaces
  <2>3. UNCHANGED status BY <1>1, ClientPlaces
  <2>4. QED BY <2>1, <2>2, <2>3 DEF PendingInv
<1>2. ASSUME NEW c \in Calls, WorkerStep(c) PROVE PendingInv(S)'
  <2>1. /\ \A d \in Calls : pc'[Client(d)] = pc[Client(d)]
        /\ \A d \in Calls \ {c} : pc'[Worker(d)] = pc[Worker(d)]
        /\ \A t \in Tasks : status'[t] = Pending => status[t] = Pending
    BY <1>2, WorkerPlaces
  <2>2. CASE Start(c)
    <3>1. /\ pc[Worker(c)] = "start" /\ owner[ref[Worker(c)]] = Nobody
          /\ status' = [status EXCEPT ![TaskOf[c]] = Started]
      BY <2>2 DEF Start, LockFree
    <3>2. status'[TaskOf[c]] = Started /\ Started # Pending
      BY <3>1, ConstantsAssumption DEF TypeOK, Started, Pending
    <3>3. UserOf[c] \in S => ref[Worker(c)] = locks[UserOf[c]]
      BY <3>1, ThreadFacts DEF OneLock, NeedsRef
    <3>4. ASSUME NEW d \in Calls, pc[Client(d)] = "append", UserOf[d] \in S PROVE UserOf[d] # UserOf[c]
      <4>0. pc[Client(d)] \in NeedsRef /\ Client(d) \in Threads BY <3>4, ThreadFacts DEF NeedsRef
      <4>1. ref[Client(d)] = locks[UserOf[d]] /\ ref[Client(d)] \in Locks
        <5>1. ref[Client(d)] = locks[UserOf[d]] BY <3>4, <4>0, ThreadFacts DEF OneLock
        <5>2. ref[Client(d)] \in Locks BY <4>0 DEF LockInv, RefsAreLocks, TypeOK
        <5>3. QED BY <5>1, <5>2
      <4>2. owner[ref[Client(d)]] = Client(d)
        BY <3>4, <4>1, ThreadFacts DEF LockInv, HoldersAreInside, Inside
      <4>3. QED BY <3>1, <3>3, <3>4, <4>1, <4>2, ThreadFacts
    <3>5. ASSUME NEW d \in Calls, status'[TaskOf[d]] = Pending PROVE pc'[Worker(d)] \notin Begun
      <4>1. d # c /\ status[TaskOf[d]] = Pending BY <2>1, <3>2, <3>5, ConstantsAssumption
      <4>2. QED BY <2>1, <4>1 DEF PendingInv
    <3>6. ASSUME NEW b \in Calls, NEW d \in Calls, pc'[Client(d)] = "append",
                 UserOf[d] \in S, UserOf[b] = UserOf[d], TaskOf[b] = TaskOf[d]
          PROVE  pc'[Worker(b)] \notin Begun
      <4>1. b # c BY <2>1, <3>4, <3>6
      <4>2. QED BY <2>1, <3>6, <4>1 DEF PendingInv
    <3>7. QED BY <3>5, <3>6 DEF PendingInv
  <2>3. CASE ~Start(c)
    <3>1. pc'[Worker(c)] \in Begun => pc[Worker(c)] \in Begun
      BY <1>2, <2>3, WorkerPlaces
    <3>2. \A d \in Calls : pc'[Worker(d)] \in Begun => pc[Worker(d)] \in Begun
      BY <2>1, <3>1
    <3>3. \A d \in Calls : TaskOf[d] \in Tasks BY ConstantsAssumption
    <3>4. QED BY ONLY PendingInv(S), <2>1, <3>2, <3>3 DEF PendingInv
  <2>4. QED BY <2>2, <2>3
<1>3. ASSUME NEW u \in Users, DrainTest(u) \/ DrainMark(u) PROVE PendingInv(S)'
  <2>1. UNCHANGED pc /\ \A t \in Tasks : status'[t] = Pending => status[t] = Pending
    BY <1>3 DEF DrainTest, DrainMark, TypeOK, Started, Pending
  <2>2. \A d \in Calls : TaskOf[d] \in Tasks BY ConstantsAssumption
  <2>3. QED BY ONLY PendingInv(S), <2>1, <2>2 DEF PendingInv
<1>4. CASE UNCHANGED vars BY <1>4 DEF vars, PendingInv
<1>5. QED BY <1>1, <1>2, <1>3, <1>4 DEF Next

\* Unless two first calls of one user race, the status a task was accepted with
\* is still its status when it is appended to the list: put never queues a task
\* that a worker has begun (queue/core.py:52-57, 93-94).
THEOREM AcceptedArePending == Spec /\ LocksStay(Users) => NoLateEnqueue
<1>1. Init => PendingInv(Users)
  BY ThreadFacts DEF Init, PendingInv, Begun, Ran
<1>2. TypeOK /\ LockInv /\ OneLock(Users) /\ PhaseInv /\ PendingInv(Users) /\ [Next]_vars
        => PendingInv(Users)'
  BY PendingInvStep
<1> DEFINE Late == \A c \in Calls : Len(queue'[UserOf[c]]) > Len(queue[UserOf[c]]) =>
                     LET t == queue'[UserOf[c]][Len(queue'[UserOf[c]])]
                     IN  TaskOf[c] = t => pc[Worker(c)] \notin {"run"} \cup Ran
<1>3. TypeOK /\ PendingInv(Users) /\ [Next]_vars => [Late]_vars
  <2> SUFFICES ASSUME TypeOK, PendingInv(Users), Next, NEW c \in Calls,
                      Len(queue'[UserOf[c]]) > Len(queue[UserOf[c]]),
                      TaskOf[c] = queue'[UserOf[c]][Len(queue'[UserOf[c]])]
               PROVE  pc[Worker(c)] \notin Begun
    BY DEF Begun
  <2>1. UserOf[c] \in Users /\ queue[UserOf[c]] \in Seq(Tasks)
    BY ConstantsAssumption DEF TypeOK
  <2>2. PICK d \in Calls : Enqueue(d)
    <3>1. SUFFICES ASSUME \A d \in Calls : ~Enqueue(d) PROVE FALSE OBVIOUS
    <3>2. queue' # queue BY <2>1
    <3>3. PICK d \in Calls : Pop(d)
      BY <3>1, <3>2 DEF Next, ClientStep, WorkerStep, Lookup, CreateLock, FetchLock, Enter, Reject,
         Submit, Return, TakeWork, WorkerFetch, Start, Finish, BeginRemoval, Compare, NotFound,
         IndexError, Signal, Resolve, DrainTest, DrainMark
    <3>4. queue' = [queue EXCEPT ![UserOf[d]] = RemoveAt(@, pos[d])] /\ pos[d] <= Len(queue[UserOf[d]])
      BY <3>3 DEF Pop
    <3>5. UserOf[d] = UserOf[c] BY <2>1, <3>4 DEF TypeOK
    <3>6. pos[d] \in 1..Len(queue[UserOf[c]]) BY <2>1, <3>4, <3>5 DEF TypeOK
    <3>7. Len(RemoveAt(queue[UserOf[c]], pos[d])) = Len(queue[UserOf[c]]) - 1
      BY <2>1, <3>6, RemoveAtFacts
    <3>8. QED BY <2>1, <3>4, <3>5, <3>7 DEF TypeOK
  <2>3. /\ pc[Client(d)] = "append"
        /\ queue' = [queue EXCEPT ![UserOf[d]] = Append(@, TaskOf[d])]
    BY <2>2 DEF Enqueue
  <2>4. UserOf[c] = UserOf[d] BY <2>1, <2>3 DEF TypeOK
  <2>5. TaskOf[c] = TaskOf[d]
    <3>1. queue'[UserOf[c]] = Append(queue[UserOf[c]], TaskOf[d]) BY <2>1, <2>3, <2>4 DEF TypeOK
    <3>2. QED BY <2>1, <3>1, ConstantsAssumption
  <2>6. QED BY <2>1, <2>3, <2>4, <2>5 DEF PendingInv
<1>4. ASSUME NEW S \in SUBSET Users, S = Users
      PROVE  Spec /\ LocksStay(Users) => []OneLock(Users)
  <2>1. Spec /\ LocksStay(S) => [](OneLock(S) /\ OneInsideOf(S)) BY ONLY InsideAlone
  <2>2. (KeepsLocks(Users) <=> KeepsLocks(S)) /\ (OneLock(S) <=> OneLock(Users)) BY <1>4
  <2>3. QED BY <2>1, <2>2, PTL DEF LocksStay
<1>5. Spec /\ LocksStay(Users) => []OneLock(Users)
  BY <1>4
<1>6. QED
  BY <1>1, <1>2, <1>3, <1>5, TypeCorrect, PhaseInvariant, LockInvariant, PTL DEF Spec, NoLateEnqueue

-----------------------------------------------------------------------------
(* A user's list holds a task once for every call that is listed.          *)

Occurrences(s, t) == {i \in DOMAIN s : s[i] = t}
Callers(u, t)     == {c \in Calls : UserOf[c] = u /\ TaskOf[c] = t /\ Listed(c)}

\* How often a task is in a list, after an append and after a removal.
LEMMA OccurrencesCount ==
  ASSUME NEW S, NEW s \in Seq(S), NEW t
  PROVE  IsFiniteSet(Occurrences(s, t)) /\ Cardinality(Occurrences(s, t)) \in Nat
<1>1. IsFiniteSet(1..Len(s)) BY FS_Interval
<1>2. Occurrences(s, t) \subseteq 1..Len(s) BY DEF Occurrences
<1>3. QED BY <1>1, <1>2, FS_Subset, FS_CardinalityType

LEMMA AppendCounts ==
  ASSUME NEW S, NEW s \in Seq(S), NEW e \in S, NEW t
  PROVE  Cardinality(Occurrences(Append(s, e), t))
           = Cardinality(Occurrences(s, t)) + (IF e = t THEN 1 ELSE 0)
<1>1. /\ DOMAIN Append(s, e) = 1..(Len(s) + 1) /\ Append(s, e)[Len(s) + 1] = e
      /\ \A i \in DOMAIN s : Append(s, e)[i] = s[i]
      /\ DOMAIN s = 1..Len(s) /\ Len(s) \in Nat
  BY AppendFresh
<1>2. IsFiniteSet(Occurrences(s, t)) /\ Cardinality(Occurrences(s, t)) \in Nat
  BY OccurrencesCount
<1>3. CASE e = t
  <2>1. Occurrences(Append(s, e), t) = Occurrences(s, t) \cup {Len(s) + 1}
    BY <1>1, <1>3 DEF Occurrences
  <2>2. Len(s) + 1 \notin Occurrences(s, t) BY <1>1 DEF Occurrences
  <2>3. QED BY <1>2, <1>3, <2>1, <2>2, FS_AddElement
<1>4. CASE e # t
  <2>1. Occurrences(Append(s, e), t) = Occurrences(s, t)
    BY <1>1, <1>4 DEF Occurrences
  <2>2. QED BY <1>2, <1>4, <2>1
<1>5. QED BY <1>3, <1>4

LEMMA RemoveCounts ==
  ASSUME NEW S, NEW s \in Seq(S), NEW i \in 1..Len(s), NEW t
  PROVE  Cardinality(Occurrences(RemoveAt(s, i), t))
           = Cardinality(Occurrences(s, t)) - (IF s[i] = t THEN 1 ELSE 0)
<1> DEFINE left == RemoveAt(s, i)
           O    == Occurrences(left, t)
           rest == Occurrences(s, t) \ {i}
           f    == [j \in O |-> IF j < i THEN j ELSE j + 1]
<1> HIDE DEF left
<1>0. /\ DOMAIN left = 1..(Len(s) - 1)
      /\ \A j \in 1..(Len(s) - 1) : left[j] = s[IF j < i THEN j ELSE j + 1]
  BY RemoveAtFacts DEF left
<1>1. /\ DOMAIN left = 1..(Len(s) - 1) /\ DOMAIN s = 1..Len(s) /\ Len(s) \in Nat
      /\ \A j \in 1..(Len(s) - 1) : left[j] = s[IF j < i THEN j ELSE j + 1]
  BY <1>0
<1>2. \A j \in O : f[j] \in rest
  BY <1>1 DEF Occurrences
<1>3. \A j, k \in O : f[j] = f[k] => j = k
  BY <1>1 DEF Occurrences
<1>4. ASSUME NEW k \in rest PROVE \E j \in O : f[j] = k
  <2>1. CASE k < i BY <1>1, <1>4, <2>1 DEF Occurrences
  <2>2. CASE k > i
    <3>1. k - 1 \in O BY <1>1, <1>4, <2>2 DEF Occurrences
    <3>2. f[k - 1] = k BY <1>1, <1>4, <2>2, <3>1 DEF Occurrences
    <3>3. QED BY <3>1, <3>2
  <2>3. QED BY <1>1, <1>4, <2>1, <2>2 DEF Occurrences
<1>5. ExistsBijection(O, rest)
  <2>1. f \in [O -> rest] /\ DOMAIN f = O BY <1>2
  <2> HIDE DEF f, O, rest
  <2>2. f \in Injection(O, rest) BY <1>3, <2>1 DEF Injection, IsInjective
  <2>3. f \in Surjection(O, rest) BY <1>4, <2>1 DEF Surjection
  <2>4. QED BY <2>2, <2>3 DEF ExistsBijection, Bijection
<1>6. left \in Seq(S) BY RemoveAtType DEF left
<1>7. IsFiniteSet(O) BY <1>6, OccurrencesCount
<1>8. Cardinality(rest) = Cardinality(O)
  BY <1>5, <1>7, FS_Bijection
<1>9. IsFiniteSet(Occurrences(s, t)) /\ Cardinality(Occurrences(s, t)) \in Nat
  BY OccurrencesCount
<1>10. i \in Occurrences(s, t) <=> s[i] = t
  BY DEF Occurrences
<1>11. Cardinality(rest) = Cardinality(Occurrences(s, t)) - (IF s[i] = t THEN 1 ELSE 0)
  <2> DEFINE all == Occurrences(s, t)
  <2> HIDE DEF all
  <2>1. Cardinality(all \ {i}) = IF i \in all THEN Cardinality(all) - 1 ELSE Cardinality(all)
    BY <1>9, FS_RemoveElement DEF all
  <2>2. QED BY <1>9, <1>10, <2>1 DEF all
<1>12. QED
  BY <1>8, <1>11 DEF left

\* The part of the list that a removal loop has passed does not hold its task.
Searched(c) ==
  pc[Worker(c)] \in {"scan", "pop"} =>
    /\ \A i \in DOMAIN queue[UserOf[c]] : i < pos[c] => queue[UserOf[c]][i] # TaskOf[c]
    /\ pc[Worker(c)] = "pop" =>
         pos[c] \in DOMAIN queue[UserOf[c]] /\ queue[UserOf[c]][pos[c]] = TaskOf[c]

Tracks(u, t) ==
  /\ IsFiniteSet(Callers(u, t))
  /\ Cardinality(Occurrences(queue[u], t)) = Cardinality(Callers(u, t))

TrackInv(S) ==
  /\ \A u \in S, t \in Tasks : Tracks(u, t)
  /\ \A c \in Calls : UserOf[c] \in S => Searched(c)

\* A step of a client lists its call by appending the task, and changes nothing
\* else that is listed.
LEMMA ClientLists ==
  ASSUME TypeOK, PhaseInv, NEW c \in Calls, ClientStep(c)
  PROVE  /\ \A d \in Calls \ {c} : Listed(d)' <=> Listed(d)
         /\ \/ Enqueue(c) /\ ~Listed(c) /\ Listed(c)'
            \/ queue' = queue /\ (Listed(c)' <=> Listed(c))
<1>1. \A d \in Calls \ {c} : /\ pc'[Client(d)] = pc[Client(d)] /\ pc'[Worker(d)] = pc[Worker(d)]
                              /\ answer'[d] = answer[d]
  BY ThreadFacts
     DEF TypeOK, ClientStep, Goto, Lookup, CreateLock, FetchLock, Enter, Reject, Enqueue, Submit, Return
<1>2. \A d \in Calls \ {c} : Listed(d)' <=> Listed(d)
  BY <1>1 DEF Listed
<1> USE ThreadFacts DEF TypeOK, Goto
<1>3. PhasesAgree(c) BY DEF PhaseInv
<1>4. ASSUME pc[Client(c)] \notin {"submit", "wait", "back"}, pc'[Client(c)] \notin {"submit", "wait", "back"}
      PROVE  Listed(c)' <=> Listed(c)
  BY <1>4 DEF Listed
<1>5. CASE Lookup(c)
  <2>1. PICK p \in {"create", "acquire"} : Goto(Client(c), p) BY ONLY <1>5 DEF Lookup
  <2>2. QED BY <1>2, <1>4, <1>5, <2>1 DEF Lookup
<1>6. CASE CreateLock(c) BY <1>2, <1>4, <1>6 DEF CreateLock
<1>7. CASE FetchLock(c) BY <1>2, <1>4, <1>7 DEF FetchLock
<1>8. CASE Enter(c) BY <1>2, <1>4, <1>8 DEF Enter
<1>9. CASE Reject(c)
  <2>1. pc[Client(c)] = "acquire" /\ answer'[c] = "rejected" /\ queue' = queue
    BY <1>9 DEF Reject
  <2>2. QED BY <1>2, <2>1 DEF Listed
<1>10. CASE Enqueue(c)
  <2>1. pc[Client(c)] = "append" /\ pc'[Client(c)] = "submit" /\ pc'[Worker(c)] = pc[Worker(c)]
        /\ answer' = answer
    BY <1>10 DEF Enqueue
  <2>2. pc[Worker(c)] = "idle" /\ answer[c] # "rejected"
    BY ONLY <1>3, <2>1 DEF PhasesAgree, ClientAt, WorkerAt
  <2>3. QED BY <1>2, <1>10, <2>1, <2>2 DEF Listed
<1>11. CASE Submit(c)
  <2>1. /\ pc[Client(c)] = "submit" /\ pc'[Client(c)] \in {"wait", "back"} /\ pc'[Worker(c)] = "queued"
        /\ answer'[c] \in {answer[c], "accepted"} /\ queue' = queue
    BY <1>11 DEF Submit
  <2>2. pc[Worker(c)] = "idle" /\ answer[c] # "rejected"
    BY ONLY <1>3, <2>1 DEF PhasesAgree, ClientAt, WorkerAt
  <2>3. QED BY <1>2, <2>1, <2>2 DEF Listed
<1>12. CASE Return(c)
  <2>1. pc[Worker(c)] = "done" /\ pc'[Worker(c)] = "done" /\ queue' = queue
    BY <1>12 DEF Return, Ended
  <2>2. QED BY <1>2, <2>1 DEF Listed
<1>13. QED
  BY ONLY ClientStep(c), <1>5, <1>6, <1>7, <1>8, <1>9, <1>10, <1>11, <1>12 DEF ClientStep

\* A step of a worker changes nothing that is listed but its own call.
LEMMA OthersListed ==
  ASSUME TypeOK, NEW c \in Calls, WorkerStep(c)
  PROVE  \A d \in Calls \ {c} : Listed(d)' <=> Listed(d)
<1>1. \A d \in Calls \ {c} : pc'[Client(d)] = pc[Client(d)] /\ pc'[Worker(d)] = pc[Worker(d)]
  BY ThreadFacts
     DEF TypeOK, Goto, WorkerStep, TakeWork, WorkerFetch, Start, Finish, BeginRemoval, Compare, Pop,
         NotFound, IndexError, Signal, Resolve
<1>2. answer' = answer
  BY DEF WorkerStep, TakeWork, WorkerFetch, Start, Finish, BeginRemoval, Compare, Pop, NotFound,
         IndexError, Signal, Resolve
<1>3. QED
  BY <1>1, <1>2 DEF Listed

\* A step of a worker takes its own call off the list by removing its task, or
\* leaves what is listed alone: the loop ends at its task and nowhere else.
LEMMA WorkerLists ==
  ASSUME TypeOK, PhaseInv, NEW c \in Calls, ScanFits(c), Searched(c), Tracks(UserOf[c], TaskOf[c]),
         WorkerStep(c)
  PROVE  /\ \A d \in Calls \ {c} : Listed(d)' <=> Listed(d)
         /\ \/ Pop(c) /\ Listed(c) /\ ~Listed(c)'
            \/ queue' = queue /\ (Listed(c)' <=> Listed(c))
         /\ Searched(c)'
<1> USE ThreadFacts DEF TypeOK, Goto
<1>2. pc'[Client(c)] = pc[Client(c)] /\ answer' = answer
  BY DEF WorkerStep, TakeWork, WorkerFetch, Start, Finish, BeginRemoval, Compare, Pop, NotFound,
         IndexError, Signal, Resolve
<1>3. \A d \in Calls \ {c} : Listed(d)' <=> Listed(d)
  BY OthersListed
<1>4. pc[Worker(c)] # "idle" => pc[Client(c)] \in {"wait", "back"} /\ answer[c] # "rejected"
  BY DEF PhaseInv, PhasesAgree
<1> DEFINE Early == {"idle", "queued", "fetch", "start", "run", "refetch", "reacquire"}
           Late  == {"signal", "resolve", "done"}
<1>5. ASSUME queue' = queue, \/ pc[Worker(c)] \in Early /\ pc'[Worker(c)] \in Early
                             \/ pc[Worker(c)] \in Late /\ pc'[Worker(c)] \in Late
      PROVE  queue' = queue /\ (Listed(c)' <=> Listed(c)) /\ Searched(c)'
  BY ONLY <1>2, <1>5 DEF Listed, Searched
<1>6. CASE TakeWork(c)
  <2>1. pc[Worker(c)] = "queued"
    <3>1. work # <<>> /\ work[1] = c /\ work \in Seq(Calls) BY <1>6 DEF TakeWork
    <3>2. 1 \in DOMAIN work BY <3>1
    <3>3. QED BY <3>1, <3>2 DEF PhaseInv, FifoInv
  <2>2. QED BY <1>3, <1>5, <1>6, <2>1 DEF TakeWork
<1>7. CASE WorkerFetch(c)
  <2>1. /\ \/ pc[Worker(c)] = "fetch" /\ pc' = [pc EXCEPT ![Worker(c)] = "start"]
           \/ pc[Worker(c)] = "refetch" /\ pc' = [pc EXCEPT ![Worker(c)] = "reacquire"]
        /\ queue' = queue
    BY ONLY <1>7 DEF WorkerFetch, Goto
  <2>2. QED BY <1>3, <1>5, <2>1
<1>8. CASE Start(c) BY <1>3, <1>5, <1>8 DEF Start
<1>9. CASE Finish(c) BY <1>3, <1>5, <1>9 DEF Finish
<1>10. CASE BeginRemoval(c)
  <2>1. /\ pc[Worker(c)] = "reacquire" /\ pc'[Worker(c)] = "scan" /\ pos'[c] = 1 /\ queue' = queue
    BY <1>10 DEF BeginRemoval
  <2>2. DOMAIN queue[UserOf[c]] = 1..Len(queue[UserOf[c]]) /\ Len(queue[UserOf[c]]) \in Nat
    BY ConstantsAssumption
  <2>3. Searched(c)' BY ONLY <2>1, <2>2 DEF Searched
  <2>4. Listed(c)' <=> Listed(c) BY ONLY <1>2, <2>1 DEF Listed
  <2>5. QED BY <1>3, <2>1, <2>3, <2>4
<1>11. CASE Compare(c)
  <2>1. /\ pc[Worker(c)] = "scan" /\ pos[c] \in DOMAIN queue[UserOf[c]] /\ queue' = queue
        /\ pos[c] \in Nat
    BY <1>11, ConstantsAssumption DEF Compare
  <2>2. \A i \in DOMAIN queue[UserOf[c]] : i < pos[c] => queue[UserOf[c]][i] # TaskOf[c]
    BY <2>1 DEF Searched
  <2>3. CASE queue[UserOf[c]][pos[c]] = TaskOf[c]
    <3>1. pc'[Worker(c)] = "pop" /\ pos' = pos BY <1>11, <2>1, <2>3 DEF Compare
    <3>2. QED BY ONLY <1>2, <1>3, <2>1, <2>2, <2>3, <3>1 DEF Searched, Listed
  <2>4. CASE queue[UserOf[c]][pos[c]] # TaskOf[c]
    <3>1. pc' = pc /\ pos'[c] = pos[c] + 1 BY <1>11, <2>1, <2>4 DEF Compare
    <3>2. \A i \in DOMAIN queue[UserOf[c]] : i < pos[c] + 1 => queue[UserOf[c]][i] # TaskOf[c]
      BY <2>1, <2>2, <2>4, ConstantsAssumption
    <3>3. QED BY ONLY <1>2, <1>3, <2>1, <3>1, <3>2 DEF Searched, Listed
  <2>5. QED BY <2>3, <2>4
<1>12. CASE Pop(c)
  <2>1. pc[Worker(c)] = "pop" /\ pc'[Worker(c)] = "signal" BY <1>12 DEF Pop
  <2>2. QED BY <1>2, <1>3, <1>4, <1>12, <2>1 DEF Listed, Searched
<1>13. CASE NotFound(c)
  <2>1. pc[Worker(c)] = "scan" /\ pos[c] > last[c] BY <1>13 DEF NotFound
  <2>2. last[c] = Len(queue[UserOf[c]]) BY <2>1 DEF ScanFits
  <2>3. Occurrences(queue[UserOf[c]], TaskOf[c]) = {}
    BY <2>1, <2>2, ConstantsAssumption DEF Searched, Occurrences
  <2>4. c \in Callers(UserOf[c], TaskOf[c]) BY <1>4, <2>1 DEF Callers, Listed
  <2>5. QED BY ONLY <2>3, <2>4, Tracks(UserOf[c], TaskOf[c]), FS_EmptySet DEF Tracks
<1>14. CASE IndexError(c)
  <2>1. pos[c] \in Nat /\ last[c] \in Nat OBVIOUS
  <2>2. pc[Worker(c)] \in {"scan", "pop"} BY <1>14 DEF IndexError
  <2>3. last[c] = Len(queue[UserOf[c]]) /\ pos[c] <= last[c]
    BY <1>14, <2>2 DEF IndexError, ScanFits
  <2>4. pos[c] > Len(queue[UserOf[c]]) BY <1>14 DEF IndexError
  <2>5. QED BY ONLY <2>1, <2>3, <2>4
<1>15. CASE Signal(c) BY <1>3, <1>5, <1>15 DEF Signal
<1>16. CASE Resolve(c) BY <1>3, <1>5, <1>16 DEF Resolve
<1>17. QED
  BY ONLY WorkerStep(c), <1>6, <1>7, <1>8, <1>9, <1>10, <1>11, <1>12, <1>13, <1>14, <1>15, <1>16
     DEF WorkerStep

\* One call more or less in the lists, and one entry more or less.
LEMMA TracksStep ==
  ASSUME TypeOK, NEW c \in Calls, \A d \in Calls \ {c} : Listed(d)' <=> Listed(d),
         \/ queue' = queue /\ (Listed(c)' <=> Listed(c))
         \/ Enqueue(c) /\ ~Listed(c) /\ Listed(c)'
         \/ Pop(c) /\ pos[c] \in DOMAIN queue[UserOf[c]] /\ queue[UserOf[c]][pos[c]] = TaskOf[c]
            /\ Listed(c) /\ ~Listed(c)',
         NEW u \in Users, NEW t \in Tasks, Tracks(u, t)
  PROVE  Tracks(u, t)'
<1> DEFINE q == queue[u]
           calls == Callers(u, t)
<1>1. /\ IsFiniteSet(calls) /\ Cardinality(calls) \in Nat
      /\ Cardinality(Occurrences(q, t)) = Cardinality(calls)
  BY FS_CardinalityType DEF Tracks
<1>2. q \in Seq(Tasks) /\ UserOf[c] \in Users /\ TaskOf[c] \in Tasks
  BY ConstantsAssumption DEF TypeOK
<1>3. ASSUME Callers(u, t)' = calls, Cardinality(Occurrences(queue'[u], t)) = Cardinality(Occurrences(q, t))
      PROVE  Tracks(u, t)'
  BY ONLY <1>1, <1>3 DEF Tracks, Callers
<1>4. CASE queue' = queue /\ (Listed(c)' <=> Listed(c))
  <2>1. Callers(u, t)' = calls BY <1>4 DEF Callers
  <2>2. QED BY <1>3, <1>4, <2>1
<1>5. CASE /\ ~(u = UserOf[c] /\ t = TaskOf[c])
           /\ \/ Enqueue(c)
              \/ Pop(c) /\ pos[c] \in DOMAIN queue[UserOf[c]] /\ queue[UserOf[c]][pos[c]] = TaskOf[c]
  <2>1. Callers(u, t)' = calls BY <1>5 DEF Callers
  <2>2. CASE u # UserOf[c]
    <3>1. queue'[u] = q BY <1>5, <2>2 DEF Enqueue, Pop, TypeOK
    <3>2. QED BY <1>3, <2>1, <3>1
  <2>3. CASE u = UserOf[c] /\ Enqueue(c)
    <3>1. queue'[u] = Append(q, TaskOf[c]) /\ TaskOf[c] # t BY <1>5, <2>3 DEF Enqueue, TypeOK
    <3>2. Cardinality(Occurrences(Append(q, TaskOf[c]), t)) = Cardinality(Occurrences(q, t))
      BY <1>1, <1>2, <3>1, AppendCounts
    <3>3. QED BY <1>3, <2>1, <3>1, <3>2
  <2>4. CASE u = UserOf[c] /\ Pop(c) /\ ~Enqueue(c)
    <3>1. /\ queue'[u] = RemoveAt(q, pos[c]) /\ TaskOf[c] # t
          /\ pos[c] \in 1..Len(q) /\ q[pos[c]] = TaskOf[c]
      <4>1. pos[c] \in DOMAIN q /\ q[pos[c]] = TaskOf[c]
        BY <1>5, <2>4
      <4>2. QED BY <1>2, <1>5, <2>4, <4>1 DEF Pop, TypeOK
    <3>2. Cardinality(Occurrences(RemoveAt(q, pos[c]), t)) = Cardinality(Occurrences(q, t))
      BY <1>1, <1>2, <3>1, RemoveCounts
    <3>3. QED BY <1>3, <2>1, <3>1, <3>2
  <2>5. QED BY <1>5, <2>2, <2>3, <2>4
<1>6. CASE u = UserOf[c] /\ t = TaskOf[c] /\ Enqueue(c) /\ ~Listed(c) /\ Listed(c)'
  <2>1. Callers(u, t)' = calls \cup {c} /\ c \notin calls BY <1>6 DEF Callers
  <2>2. IsFiniteSet(Callers(u, t)') /\ Cardinality(Callers(u, t)') = Cardinality(calls) + 1
    <3> HIDE DEF calls
    <3>1. QED BY <1>1, <2>1, FS_AddElement
  <2>3. queue'[u] = Append(q, t) BY <1>6 DEF Enqueue, TypeOK
  <2>4. Cardinality(Occurrences(queue'[u], t)) = Cardinality(Occurrences(q, t)) + 1
    BY <1>2, <2>3, AppendCounts
  <2>5. QED BY ONLY <1>1, <2>2, <2>4 DEF Tracks, Callers
<1>7. CASE /\ u = UserOf[c] /\ t = TaskOf[c] /\ Pop(c) /\ Listed(c) /\ ~Listed(c)'
           /\ pos[c] \in DOMAIN queue[UserOf[c]] /\ queue[UserOf[c]][pos[c]] = TaskOf[c]
  <2>1. Callers(u, t)' = calls \ {c} /\ c \in calls BY <1>7 DEF Callers
  <2>2. IsFiniteSet(Callers(u, t)') /\ Cardinality(Callers(u, t)') = Cardinality(calls) - 1
    <3> HIDE DEF calls
    <3>1. QED BY <1>1, <2>1, FS_RemoveElement
  <2>3. queue'[u] = RemoveAt(q, pos[c]) /\ pos[c] \in 1..Len(q) /\ q[pos[c]] = t
    BY <1>2, <1>7 DEF Pop, TypeOK
  <2>4. Cardinality(Occurrences(queue'[u], t)) = Cardinality(Occurrences(q, t)) - 1
    BY <1>2, <2>3, RemoveCounts
  <2>5. QED BY ONLY <1>1, <2>2, <2>4 DEF Tracks, Callers
<1>8. QED
  BY <1>4, <1>5, <1>6, <1>7

\* While a worker searches the list of a user in S, nobody else changes it.
LEMMA SearchIsAlone ==
  ASSUME NEW S, OneInsideOf(S), NEW c \in Calls, NEW d \in Calls, UserOf[d] \in S,
         pc[Worker(d)] \in {"scan", "pop"}, Frame(c), c = d => pc[Client(c)] \in Inside \/ queue' = queue
  PROVE  queue'[UserOf[d]] = queue[UserOf[d]]
<1>1. pc[Worker(d)] \in Inside BY DEF Inside
<1>2. UserOf[d] \in Users BY ConstantsAssumption
<1>3. CASE UserOf[c] = UserOf[d] /\ queue' # queue
  <2>1. ~InsideAs(c)
    <3>1. pc[Client(c)] \notin Inside
      BY <1>1, <1>3, ThreadFacts DEF OneInsideOf
    <3>2. c # d BY <1>3, <3>1
    <3>3. pc[Worker(c)] \notin Inside
      BY <1>1, <1>3, <3>2, ThreadFacts DEF OneInsideOf
    <3>4. QED BY <3>1, <3>3 DEF InsideAs
  <2>2. QED BY <1>2, <2>1 DEF Frame
<1>4. QED BY <1>2, <1>3 DEF Frame

LEMMA TrackInvStep ==
  ASSUME NEW S \in SUBSET Users, TypeOK, OneInsideOf(S), PhaseInv, ScanInv(S), TrackInv(S), [Next]_vars
  PROVE  TrackInv(S)'
<1>1. ASSUME NEW c \in Calls, NEW d \in Calls, UserOf[d] \in S, Searched(d), pos'[d] = pos[d],
             pc'[Worker(d)] \in {"scan", "pop"} => pc'[Worker(d)] = pc[Worker(d)],
             Frame(c), c = d => pc[Client(c)] \in Inside \/ queue' = queue
      PROVE  Searched(d)'
  <2>1. SUFFICES ASSUME pc'[Worker(d)] \in {"scan", "pop"} PROVE Searched(d)'
    BY DEF Searched
  <2>2. pc[Worker(d)] \in {"scan", "pop"} /\ pc'[Worker(d)] = pc[Worker(d)] BY <1>1, <2>1
  <2>3. queue'[UserOf[d]] = queue[UserOf[d]] BY <1>1, <2>2, SearchIsAlone
  <2>4. QED BY <1>1, <2>2, <2>3 DEF Searched
<1>2. ASSUME NEW c \in Calls, ClientStep(c) PROVE TrackInv(S)'
  <2>1. /\ \A d \in Calls \ {c} : Listed(d)' <=> Listed(d)
        /\ \/ Enqueue(c) /\ ~Listed(c) /\ Listed(c)'
           \/ queue' = queue /\ (Listed(c)' <=> Listed(c))
    BY <1>2, ClientLists
  <2>2. \A u \in S, t \in Tasks : Tracks(u, t)'
    BY <2>1, TracksStep DEF TrackInv
  <2>3. /\ Frame(c) /\ UNCHANGED pos
        /\ \A d \in Calls : pc'[Worker(d)] = pc[Worker(d)] \/ (d = c /\ pc'[Worker(d)] = "queued")
    BY <1>2, ClientFrame
  <2>4. pc[Client(c)] \in Inside \/ queue' = queue
    BY <2>1 DEF Enqueue, Inside
  <2>5. ASSUME NEW d \in Calls, UserOf[d] \in S PROVE Searched(d)'
    <3>1. Searched(d) BY <2>5 DEF TrackInv
    <3>2. QED BY <1>1, <2>3, <2>4, <2>5, <3>1
  <2>6. QED BY <2>2, <2>5 DEF TrackInv
<1>3. ASSUME NEW c \in Calls, WorkerStep(c) PROVE TrackInv(S)'
  <2>1. Frame(c) /\ \A d \in Calls \ {c} : Listed(d)' <=> Listed(d)
    BY <1>3, WorkerFrame, OthersListed
  <2>2. ASSUME NEW d \in Calls \ {c}, UserOf[d] \in S PROVE Searched(d)'
    <3>1. pc'[Worker(d)] = pc[Worker(d)] /\ pos'[d] = pos[d] BY <2>1, <2>2 DEF Frame
    <3>2. Searched(d) BY <2>2 DEF TrackInv
    <3>3. QED BY <1>1, <2>1, <2>2, <3>1, <3>2
  <2>3. CASE UserOf[c] \in S
    <3>1. ScanFits(c) /\ Searched(c) /\ Tracks(UserOf[c], TaskOf[c])
      BY <2>3, ConstantsAssumption DEF ScanInv, TrackInv
    <3>2. /\ \/ Pop(c) /\ Listed(c) /\ ~Listed(c)'
             \/ queue' = queue /\ (Listed(c)' <=> Listed(c))
          /\ Searched(c)'
      BY <1>3, <3>1, WorkerLists
    <3>3. Pop(c) => pos[c] \in DOMAIN queue[UserOf[c]] /\ queue[UserOf[c]][pos[c]] = TaskOf[c]
      BY <3>1 DEF Pop, Searched
    <3>4. \A u \in S, t \in Tasks : Tracks(u, t)'
      BY <2>1, <3>2, <3>3, TracksStep DEF TrackInv
    <3>5. QED BY <2>2, <3>2, <3>4 DEF TrackInv
  <2>4. CASE UserOf[c] \notin S
    <3>1. ASSUME NEW u \in S, NEW t \in Tasks PROVE Tracks(u, t)'
      <4>1. queue'[u] = queue[u] BY <2>1, <2>4, <3>1 DEF Frame
      <4>2. Callers(u, t)' = Callers(u, t) BY <2>1, <2>4, <3>1 DEF Callers
      <4>3. Tracks(u, t) BY <3>1 DEF TrackInv
      <4>4. QED BY ONLY <4>1, <4>2, <4>3 DEF Tracks, Callers
    <3>2. QED BY <2>2, <2>4, <3>1 DEF TrackInv
  <2>5. QED BY <2>3, <2>4
<1>4. ASSUME UNCHANGED <<queue, pc, pos, answer>> PROVE TrackInv(S)'
  BY <1>4 DEF TrackInv, Tracks, Searched, Callers, Listed
<1>5. ASSUME NEW u \in Users, DrainTest(u) \/ DrainMark(u) PROVE TrackInv(S)'
  BY <1>4, <1>5 DEF DrainTest, DrainMark
<1>6. CASE UNCHANGED vars BY <1>4, <1>6 DEF vars
<1>7. QED BY <1>2, <1>3, <1>5, <1>6 DEF Next

TracksOf(S) ==
  \A u \in S, t \in Tasks : Cardinality(Occurrences(queue[u], t)) = Cardinality(Callers(u, t))

LEMMA TracksAlone ==
  ASSUME NEW S \in SUBSET Users
  PROVE  Spec /\ LocksStay(S) => []TracksOf(S)
<1>1. Init => TrackInv(S)
  <2> SUFFICES ASSUME Init PROVE TrackInv(S) OBVIOUS
  <2>1. ASSUME NEW u \in S, NEW t \in Tasks PROVE Tracks(u, t)
    <3>1. Callers(u, t) = {} BY ThreadFacts DEF Init, Callers, Listed
    <3>2. Occurrences(queue[u], t) = {} BY DEF Init, Occurrences
    <3>3. QED BY <3>1, <3>2, FS_EmptySet DEF Tracks
  <2>2. QED BY <2>1, ThreadFacts DEF TrackInv, Searched, Init
<1>2. TypeOK /\ OneInsideOf(S) /\ PhaseInv /\ ScanInv(S) /\ TrackInv(S) /\ [Next]_vars => TrackInv(S)'
  BY TrackInvStep
<1>3. TrackInv(S) => TracksOf(S)
  BY DEF TrackInv, Tracks, TracksOf
<1>4. QED
  BY <1>1, <1>2, <1>3, TypeCorrect, PhaseInvariant, InsideAlone, ScanInvariant, PTL DEF Spec

\* Unless two first calls of one user race, a user's list holds a task once for
\* every unfinished call that submitted it: a removal loop takes out one entry of
\* its own task, always finds it, and leaves none behind (queue/core.py:57, 65,
\* 106-111).
THEOREM ListsTrackCalls == Spec /\ LocksStay(Users) => []QueueTracksCalls
<1>1. ASSUME NEW S \in SUBSET Users, S = Users
      PROVE  Spec /\ LocksStay(Users) => []QueueTracksCalls
  <2>1. Spec /\ LocksStay(S) => []TracksOf(S) BY ONLY TracksAlone
  <2>2. KeepsLocks(Users) <=> KeepsLocks(S) BY <1>1
  <2>3. TracksOf(S) => QueueTracksCalls
    BY <1>1 DEF TracksOf, QueueTracksCalls, Occurrences, Callers
  <2>4. QED BY <2>1, <2>2, <2>3, PTL DEF LocksStay
<1>2. QED BY <1>1

\* Users whose lock an earlier call has created are safe whatever the first
\* calls of other users do to theirs: their with blocks never overlap, their
\* callers get their own outcomes, and their lists hold exactly their unfinished
\* submissions (queue/core.py:40-111).
THEOREM WarmUsersAreSafe == Spec => [](OneInsideOf(Warm) /\ OutcomesOf(Warm) /\ TracksOf(Warm))
<1>1. ASSUME NEW S \in SUBSET Users, S = Warm
      PROVE  Spec => [](OneInsideOf(Warm) /\ OutcomesOf(Warm) /\ TracksOf(Warm))
  <2>1. Spec /\ LocksStay(S) => [](OneLock(S) /\ OneInsideOf(S)) BY ONLY InsideAlone
  <2>2. Spec /\ LocksStay(S) => []OutcomesOf(S) BY ONLY OutcomesAlone
  <2>3. Spec /\ LocksStay(S) => []TracksOf(S) BY ONLY TracksAlone
  <2>4. KeepsLocks(Warm) <=> KeepsLocks(S) BY <1>1
  <2>5. /\ OneInsideOf(S) <=> OneInsideOf(Warm)
        /\ OutcomesOf(S) <=> OutcomesOf(Warm)
        /\ TracksOf(S) <=> TracksOf(Warm)
    BY <1>1
  <2>6. QED BY <2>1, <2>2, <2>3, <2>4, <2>5, WarmLocksStay, PTL DEF LocksStay
<1>2. QED BY <1>1, ConstantsAssumption

-----------------------------------------------------------------------------
(* Nobody is left waiting, whether the locks exist or not.                 *)

\* The guards of the steps of a call's two threads.
ClientCanGo(c) ==
  \/ pc[Client(c)] \in {"idle", "create", "fetch", "append", "submit"}
  \/ pc[Client(c)] = "acquire" /\ LockFree(Client(c))
  \/ pc[Client(c)] = "wait" /\ Ended(c)

WorkerCanGo(c) ==
  \/ work # <<>> /\ Head(work) = c /\ Cardinality(Running) < MaxWorkers
  \/ pc[Worker(c)] \in {"fetch", "run", "refetch", "scan", "pop", "signal", "resolve"}
  \/ pc[Worker(c)] \in {"start", "reacquire"} /\ LockFree(Worker(c))

\* Where no thread can take a step, every call is over.
Progress ==
  (\A c \in Calls : ~ClientCanGo(c) /\ ~WorkerCanGo(c)) =>
    \A c \in Calls : /\ pc[Client(c)] = "back"
                     /\ answer[c] = "rejected" \/ pc[Worker(c)] = "done"

\* A worker that is queued is in the executor's FIFO, and one that is past its
\* finally clause has set its event.
NobodyForgotten ==
  \A c \in Calls :
    /\ pc[Worker(c)] = "queued" => \E i \in DOMAIN work : work[i] = c
    /\ pc[Worker(c)] \in {"resolve", "done"} /\ c \in Waiters => c \in event

LEMMA ForgottenStep ==
  ASSUME TypeOK, PhaseInv, NobodyForgotten, [Next]_vars
  PROVE  NobodyForgotten'
<1> USE ThreadFacts DEF TypeOK, Goto, NobodyForgotten
<1>1. ASSUME UNCHANGED <<work, event>>,
             \A d \in Calls : pc'[Worker(d)] \in {"queued", "resolve", "done"} =>
               pc'[Worker(d)] = pc[Worker(d)] \/ (pc[Worker(d)] = "resolve" /\ pc'[Worker(d)] = "done")
      PROVE  NobodyForgotten'
  BY <1>1
<1>2. ASSUME NEW c \in Calls, ClientStep(c) PROVE NobodyForgotten'
  <2>1. CASE Submit(c)
    <3>1. /\ work' = Append(work, c) /\ UNCHANGED event /\ pc'[Worker(c)] = "queued"
          /\ \A d \in Calls \ {c} : pc'[Worker(d)] = pc[Worker(d)]
      BY <2>1 DEF Submit
    <3>2. /\ DOMAIN work' = 1..(Len(work) + 1) /\ work'[Len(work) + 1] = c
          /\ \A i \in DOMAIN work : i \in DOMAIN work' /\ work'[i] = work[i]
      BY <3>1, AppendFresh
    <3>3. ASSUME NEW d \in Calls, pc'[Worker(d)] = "queued" PROVE \E i \in DOMAIN work' : work'[i] = d
      <4>1. CASE d = c
        <5>1. Len(work) + 1 \in DOMAIN work' BY <3>2
        <5>2. QED BY <3>2, <4>1, <5>1
      <4>2. CASE d # c
        <5>1. PICK i \in DOMAIN work : work[i] = d BY <3>1, <3>3, <4>2
        <5>2. QED BY <3>2, <5>1
      <4>3. QED BY <4>1, <4>2
    <3>4. QED BY <3>1, <3>3
  <2>2. CASE ~Submit(c)
    <3>1. UNCHANGED <<work, event>> /\ \A d \in Calls : pc'[Worker(d)] = pc[Worker(d)]
      BY <1>2, <2>2 DEF ClientStep, Lookup, CreateLock, FetchLock, Enter, Reject, Enqueue, Return
    <3>2. QED BY <1>1, <3>1
  <2>3. QED BY <2>1, <2>2
<1>3. ASSUME NEW c \in Calls, WorkerStep(c) PROVE NobodyForgotten'
  <2>0. \A d \in Calls \ {c} : pc'[Worker(d)] = pc[Worker(d)]
    BY <1>3 DEF WorkerStep, TakeWork, WorkerFetch, Start, Finish, BeginRemoval, Compare, Pop, NotFound,
         IndexError, Signal, Resolve
  <2>1. CASE TakeWork(c)
    <3>1. /\ work # <<>> /\ work[1] = c /\ work' = Tail(work) /\ UNCHANGED event
          /\ pc'[Worker(c)] = "fetch"
      BY <2>1 DEF TakeWork
    <3>2. ASSUME NEW d \in Calls, pc'[Worker(d)] = "queued" PROVE \E i \in DOMAIN work' : work'[i] = d
      <4>1. d # c BY <3>1, <3>2
      <4>2. PICK i \in DOMAIN work : work[i] = d BY <2>0, <3>2, <4>1
      <4>3. i # 1 /\ i \in 1..Len(work) /\ Len(work) \in Nat BY <3>1, <4>1, <4>2
      <4>4. i - 1 \in 1..(Len(work) - 1) /\ (i - 1) + 1 = i BY ONLY <4>3
      <4>5. i - 1 \in DOMAIN work' /\ work'[i - 1] = work[i]
        BY <3>1, <4>4, TailFacts
      <4>6. QED BY <4>2, <4>5
    <3>3. QED BY <2>0, <3>1, <3>2
  <2>2. CASE Signal(c)
    <3>1. /\ event' = event \cup ({c} \cap Waiters) /\ UNCHANGED work /\ pc'[Worker(c)] = "resolve"
      BY <2>2 DEF Signal, EventsAfter
    <3>2. QED BY <2>0, <3>1
  <2>3. CASE Resolve(c) BY <1>1, <2>0, <2>3 DEF Resolve
  <2>4. CASE ~TakeWork(c) /\ ~Signal(c) /\ ~Resolve(c)
    <3>1. UNCHANGED <<work, event>>
      BY <1>3, <2>4 DEF WorkerStep, WorkerFetch, Start, Finish, BeginRemoval, Compare, Pop, NotFound,
         IndexError
    <3>2. pc'[Worker(c)] = pc[Worker(c)] \/ pc'[Worker(c)] \notin {"queued", "resolve", "done"}
      BY <1>3, <2>4 DEF WorkerStep, WorkerFetch, Start, Finish, BeginRemoval, Compare, Pop, NotFound,
         IndexError
    <3>3. QED BY <1>1, <2>0, <3>1, <3>2
  <2>5. QED BY <2>1, <2>2, <2>3, <2>4
<1>4. ASSUME NEW u \in Users, DrainTest(u) \/ DrainMark(u) PROVE NobodyForgotten'
  BY <1>4 DEF DrainTest, DrainMark
<1>5. CASE UNCHANGED vars BY <1>5 DEF vars
<1>6. QED BY <1>2, <1>3, <1>4, <1>5 DEF Next

\* In no reachable state, the first use of a user's lock included, is everybody
\* waiting for somebody else: unless every call is over some thread passes the
\* guard of its next step (queue/core.py:40-43, 60-111).
THEOREM SomebodyCanGo == Spec => []Progress
<1>1. Init => NobodyForgotten
  BY ThreadFacts DEF Init, NobodyForgotten
<1>2. TypeOK /\ PhaseInv /\ NobodyForgotten /\ [Next]_vars => NobodyForgotten'
  BY ForgottenStep
<1>3. TypeOK /\ PhaseInv /\ LockInv /\ WaitInv /\ NobodyForgotten => Progress
  <2> SUFFICES ASSUME TypeOK, PhaseInv, LockInv, WaitInv, NobodyForgotten,
                      \A c \in Calls : ~ClientCanGo(c) /\ ~WorkerCanGo(c),
                      NEW d \in Calls
               PROVE  pc[Client(d)] = "back" /\ (answer[d] = "rejected" \/ pc[Worker(d)] = "done")
    BY DEF Progress
  <2>1. \A c \in Calls : /\ pc[Client(c)] \in {"acquire", "wait", "back"}
                         /\ pc[Worker(c)] \in {"idle", "queued", "start", "reacquire", "done"}
    BY DEF ClientCanGo, WorkerCanGo, PhaseInv, PhasesAgree, ClientAt, WorkerAt
  <2>2. \A th \in Threads : pc[th] \notin Inside
    <3>1. \A th \in Threads : \E c \in Calls : th = Client(c) \/ th = Worker(c)
      BY DEF Threads, Client, Worker
    <3>2. QED BY <2>1, <3>1 DEF Inside
  <2>3. \A th \in Threads : pc[th] \in NeedsRef => LockFree(th)
    BY <2>2 DEF LockInv, HoldersAreInside, RefsAreLocks, LockFree, TypeOK
  <2>4. \A c \in Calls : /\ pc[Client(c)] \in {"wait", "back"}
                         /\ pc[Worker(c)] \in {"idle", "queued", "done"}
    BY <2>1, <2>3, ThreadFacts DEF ClientCanGo, WorkerCanGo, NeedsRef
  <2>5. Cardinality(Running) < MaxWorkers
    <3>1. Running = {} BY <2>4 DEF Running
    <3>2. QED BY <3>1, FS_EmptySet, ConstantsAssumption
  <2>6. work = <<>>
    <3>1. SUFFICES ASSUME work # <<>> PROVE FALSE OBVIOUS
    <3>2. Head(work) \in Calls BY <3>1 DEF TypeOK
    <3>3. QED BY <2>5, <3>1, <3>2 DEF WorkerCanGo
  <2>7. pc[Worker(d)] # "queued"
    BY <2>6 DEF NobodyForgotten
  <2>8. PhasesAgree(d) BY DEF PhaseInv
  <2>9. CASE pc[Client(d)] = "wait"
    <3>1. answer[d] # "rejected" /\ pc[Worker(d)] # "idle" BY <2>8, <2>9 DEF PhasesAgree
    <3>2. pc[Worker(d)] = "done" BY <2>4, <2>7, <3>1
    <3>3. d \in event BY <2>9, <3>2 DEF WaitInv, NobodyForgotten
    <3>4. QED BY <2>9, <3>2, <3>3 DEF ClientCanGo, Ended
  <2>10. CASE pc[Client(d)] = "back"
    BY <2>4, <2>7, <2>8, <2>10 DEF PhasesAgree
  <2>11. QED BY <2>4, <2>9, <2>10
<1>4. QED
  BY <1>1, <1>2, <1>3, TypeCorrect, PhaseInvariant, LockInvariant, WaitInvariant, PTL DEF Spec
=============================================================================
