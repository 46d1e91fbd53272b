SPECIFICATION FairSpec
CONSTANTS
    Nodes = {n1}
    Files = {f1}
    Keys = {k1, k2}
    Texts = {t1}
    Blank = Blank
    Absent = Absent
    NoSum = NoSum
    Garbled = Garbled
    NoJob = NoJob
    NoWrite = NoWrite
    Events <- MildEvents
    MaxLive = 2
PROPERTY PushAnswered
