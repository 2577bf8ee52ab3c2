CONSTANTS
    Quoted = {"'k'", "''"}
    Good = {"true"}
    Bad = {"oops"}
    Contents <- MCContents
    Bodies <- MCBodies
    MaxLength = 5
    MaxRaw = 2
SPECIFICATION Spec
PROPERTY ParseReturns
CHECK_DEADLOCK FALSE
