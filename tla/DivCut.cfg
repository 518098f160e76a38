CONSTANTS
  Free    <- MCFree
  MakeTerms <- TermsOf
  UnifyArgs <- UnifyAll
  MakeGoal  <- GoalBox
  Program <- CutProgram
SPECIFICATION Spec
INVARIANT CutHitsOwner
