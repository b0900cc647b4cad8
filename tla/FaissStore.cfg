SPECIFICATION Spec
CONSTANTS
  d1 = d1  d2 = d2  d3 = d3
  NoFile = NoFile
  Documents <- ThreeDocuments
  Versions <- TwoVersions
  MaxId = 3
  Snapshots <- History
CONSTRAINT Followed
INVARIANTS TypeOK IdsAgree CurrentAreFound OthersAreExplained
PROPERTY ImplementsDirectory
