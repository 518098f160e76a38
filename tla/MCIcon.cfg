SPECIFICATION Spec
CONSTANTS
  Program <- IconPrograms
  NestedMax = 2
  FrameMax = 4
  MaxList = 5
  Keys = {1, 2, 3}
  Buckets = 4
  Hash <- MCHash
  MaxCells = 5
INVARIANTS TypeOK Delivers KeysOnce
