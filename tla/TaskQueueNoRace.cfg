SPECIFICATION FairSpec
CONSTANTS
  u1 = u1  u2 = u2
  c1 = c1  c2 = c2  c3 = c3
  t1 = t1  t2 = t2  t3 = t3
  NoLock = NoLock  Nobody = Nobody  NoTask = NoTask
  Users <- TwoUsers
  Calls <- ThreeCalls
  Tasks <- ThreeTasks
  UserOf <- TwoUserOf
  TaskOf <- OwnTaskOf
  Waiters <- TwoCalls
  Warm <- SecondUser
  Drained <- SecondUser
  MaxWorkers = 2
ACTION_CONSTRAINT NoRace
CHECK_DEADLOCK FALSE
INVARIANTS TypeOK OneInside AnswerIsOutcome
PROPERTIES ImplementsLifecycle EveryCallEnds
