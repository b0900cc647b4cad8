SPECIFICATION Spec
CONSTANTS
  u1 = u1  u2 = u2
  c1 = c1  c2 = c2  c3 = c3
  t1 = t1  t2 = t2  t3 = t3
  NoLock = NoLock  Nobody = Nobody  NoTask = NoTask
  Users <- OneUser
  Calls <- ThreeCalls
  Tasks <- TwoTasks
  UserOf <- SameUserOf
  TaskOf <- SharedTaskOf
  Waiters <- ThreeCalls
  Warm <- NoUsers
  Drained <- NoUsers
  MaxWorkers = 2
CHECK_DEADLOCK FALSE
INVARIANTS AnswerAfterEnd NobodyStuck
SYMMETRY Interchange
