SPECIFICATION Spec
CONSTANTS
  Chunks = {c1, c2, c3}
  Unknown = unknown
  None = none
  Ids <- MCIds
  InfomapIds <- MCInfomapIds
  SplitIds <- MCSplitIds
  Threshold = 2
  SplitAnswers <- MCSplitAnswers
  MoveAnswers <- MCMoveAnswers
  TreeAnswers <- MCTreeAnswers
  MoveSources = {1, 2}
  MoveTargets = {1, 2}
  Created = {90}
  Adopting = {1}
  MaxTree = 1
SYMMETRY Symmetry
CHECK_DEADLOCK FALSE
INVARIANT Partitioned
