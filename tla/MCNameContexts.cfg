CONSTANTS
  Vars      <- MCVars
  Values    = {w1, w2}
  Functions <- MCFunctions
  MaxFrames = 3
  MaxNames  = 3
  MaxChain  = 3
SYMMETRY ValueSymmetry
SPECIFICATION Spec
INVARIANTS
  OwnNames
  SkippingIsInvisible
