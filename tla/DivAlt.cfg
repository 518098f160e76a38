CONSTANTS
  Chars   <- MCChars
  Vars    <- MCVars
  Program <- AltProgram
SPECIFICATION Spec
INVARIANT CompleteSearch
