CONSTANTS
  Chars   <- MCChars
  Vars    <- MCVars
  Program <- MCProgram
SPECIFICATION FairSpec
INVARIANTS
  TypeOK
  SpanIsMatch
  CursorInSubject
  NamesUnwound
  PopsOwnPush
  ResumedAfterGamma
  CursorRestored
  FirstMatch
  EffectOfMatch
PROPERTY Termination
