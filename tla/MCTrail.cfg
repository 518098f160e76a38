CONSTANTS
  Free = free
  Vars = {x, y, z, u}
  Named = {x, y, z}
  Terms = {s, t}
  MaxMarks = 3
SPECIFICATION Spec
INVARIANTS
  TrailListsBound
PROPERTY RestoresCopies
