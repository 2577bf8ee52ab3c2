CONSTANTS
    Quoted = {"'k'", "''"}
    Good = {"true"}
    Bad = {"oops"}
    Contents <- MCContents
    Bodies <- MCBodies
    MaxLength = 9
    MaxRaw = 3
SPECIFICATION Spec
INVARIANTS ReadsWellFormed FindsTheOnlyOne StrictExact
PROPERTY TruncatedReturns
CHECK_DEADLOCK FALSE
