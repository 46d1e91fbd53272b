SPECIFICATION Spec
CONSTANTS
    Nodes = {n1}
    Files = {f1}
    Keys = {k1, k2, k3}
    Texts = {t1, t2}
    Blank = Blank
    Absent = Absent
    NoSum = NoSum
    Garbled = Garbled
    NoJob = NoJob
    NoWrite = NoWrite
    Events <- Refusals
    MaxLive = 1
SYMMETRY Symmetry
INVARIANT SuccessMeansWhole RefusalMeansLocalChange SumTracksDisk
