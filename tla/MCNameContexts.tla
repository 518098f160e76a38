--------------------------- MODULE MCNameContexts ---------------------------
(* One function that saves a variable and one that saves none; the values    *)
(* are only ever compared, so they are interchangeable.                      *)
EXTENDS NameContexts, TLC
MCVars        == {"X", "Y"}
MCFunctions   == {{}, {"X"}}
ValueSymmetry == Permutations(Values)
=============================================================================
