CONSTANTS
    N = 2
    MaxRecords = 2
    TooMany = 2
    MaxLines = 6
SPECIFICATION Spec
INVARIANTS TypeOK NoUseAfterCleanUp AnswersAreFinished
PROPERTY EndsUnlessSilent
CHECK_DEADLOCK FALSE
