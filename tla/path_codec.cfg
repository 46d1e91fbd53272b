SPECIFICATION Spec
CONSTANTS
    WordBytes = 2
    Rounds = 8
    TeaKey <- MCKey
    Delta <- MCDelta
    FinalSum <- MCFinalSum
    XorByte <- MCXor
    Column = 24
    Paths <- MCPaths
    SumTexts <- MCSums
    FileLen <- MCFileLen
    FileID <- MCFileID
    TaskID <- MCTaskID
    Fill = {65, 93}
INVARIANT TypeOK PathArrives CutArrives HeaderTaken
CHECK_DEADLOCK FALSE
