SPECIFICATION Spec
CONSTANTS
  k1 = k1  k2 = k2  k3 = k3  k4 = k4
  Ghost = Ghost
  Chunks <- FiveChunks
  Answers <- TwoTopics
  Tries = 3
CHECK_DEADLOCK FALSE
INVARIANTS OfferedUntilSorted NothingLost SortedInOneRound
