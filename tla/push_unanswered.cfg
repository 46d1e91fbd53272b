SPECIFICATION FairSpec
CONSTANTS
    Nodes = {n1}
    Files = {f1}
    Keys = {k1}
    Texts = {t1, t2}
    Blank = Blank
    Absent = Absent
    NoSum = NoSum
    Garbled = Garbled
    NoJob = NoJob
    NoWrite = NoWrite
    Events <- Writes
    MaxLive = 1
PROPERTY PushAnswered
CHECK_DEADLOCK FALSE
