CONSTANTS
  Subjects      <- MCSubjects
  MaxFrames     = 3
  CallStackMax  = 4
  PatternEvalIn <- Anywhere
SPECIFICATION Spec
INVARIANTS
  GlobalsKept
  CallFramesHeld
