SPECIFICATION PollSpec
CONSTANTS
  u1 = u1
  c1 = c1  c2 = c2  c3 = c3
  t1 = t1  t2 = t2
  NoLock = NoLock  Nobody = Nobody  NoTask = NoTask  NoRead = NoRead
  Users <- OneUser
  Calls <- ThreeCalls
  Tasks <- TwoTasks
  UserOf <- UserOfCall
  TaskOf <- TaskOfCall
  Waiters <- Nothing
  Asked <- OwnTask
  Warm <- OneUser
  Drained <- OneUser
  MaxWorkers = 2
CHECK_DEADLOCK FALSE
SYMMETRY SameTask
CONSTRAINT Unanswered
INVARIANTS PollTypeOK QueueTracksCalls PollReportsOutcome MissesExplained
PROPERTIES NoLateEnqueue
