SPECIFICATION Spec
CONSTANTS
  Chunks = {c1, c2, c3}
  Unknown = unknown
  None = none
  Ids <- MCIds
  InfomapIds <- MCInfomapIds
  SplitIds <- MCSplitIds
  Threshold = 2
  SplitAnswers <- MCSplitAnswers
  MoveAnswers <- MCMoveAnswers
  TreeAnswers <- MCTreeAnswers
  MoveSources = {1, 2, 40}
  MoveTargets = {2, 40, 90}
  Created = {1, 90}
  Adopting = {1, 2, 40}
  MaxTree = 2
SYMMETRY Symmetry
CHECK_DEADLOCK FALSE
INVARIANTS TypeOK NoChunkLost EdgesHaveEnds OneClusterEach TwoTier
PROPERTY ImplementsCover
