CONSTANTS
  Chars   <- MCChars
  Vars    <- MCVars
  Program <- MCProgram
SPECIFICATION FairSpec
INVARIANTS
  FramesFollowCursor
  CallSeesCaptures
PROPERTIES
  ResumptionEnds
  KeepsPromise
