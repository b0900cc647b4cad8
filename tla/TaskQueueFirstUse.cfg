SPECIFICATION Spec
CONSTANTS
  u1 = u1  u2 = u2
  c1 = c1  c2 = c2  c3 = c3
  t1 = t1  t2 = t2  t3 = t3
  NoLock = NoLock  Nobody = Nobody  NoTask = NoTask
  Users <- OneUser
  Calls <- TwoCalls
  Tasks <- TwoTasks
  UserOf <- PairUserOf
  TaskOf <- PairTaskOf
  Waiters <- TwoCalls
  Warm <- NoUsers
  Drained <- NoUsers
  MaxWorkers = 2
CHECK_DEADLOCK FALSE
INVARIANTS AnswerIsOutcome
