SPECIFICATION ChunkSpec
CONSTANTS
  a = a  b = b  m = m  n1 = n1  n2 = n2
  NoName = NoName
  Files <- TwoFiles
  Names <- TwoNames
  Modules <- TwoModules
  Foreign <- NoModules
  LastRow <- FewRows
  Root <- Ends
  Lines <- SomeLines
  MaxChunks <- FewChunks
  MaxRow = 1
  MaxScopes <- FewScopes
  MaxImports <- TwoImports
  MaxRefs <- SomeRefs
  IdLength = 2
CHECK_DEADLOCK FALSE
SYMMETRY Renaming
CONSTRAINT Interesting
INVARIANTS TypeOK ParentsNest ExportsAreTopLevel LinksAreImports MissingLinksExplained
