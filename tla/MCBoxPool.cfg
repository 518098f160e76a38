CONSTANTS
  PageSize <- MCPageSize
  PoolSize <- MCPoolSize
  Sizes    <- MCSizes
SPECIFICATION Spec
INVARIANTS
  TypeOK
  NoSharedPage
  OpenBufferWritable
  SealedCodeExecutable
\* abort() ends the process
CHECK_DEADLOCK FALSE
