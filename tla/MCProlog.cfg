CONSTANTS
  Free    <- MCFree
  MakeTerms <- TermsOf
  UnifyArgs <- UnifyAll
  MakeGoal  <- GoalBox
  Program <- MCProgram
SPECIFICATION FairSpec
INVARIANTS
  TypeOK
  GoalsBuilt
  BindingsTrailed
  FailureUnbinds
  ResumedAfterGamma
  CutTargetRestored
  FirstSolution
PROPERTY Termination
