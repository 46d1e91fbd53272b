SPECIFICATION Spec
CONSTANTS
    Nodes = {n1}
    Files = {f1}
    Keys = {k1, k2}
    Texts = {t1}
    Blank = Blank
    Absent = Absent
    NoSum = NoSum
    Garbled = Garbled
    NoJob = NoJob
    NoWrite = NoWrite
    Events <- AllFaults
    MaxLive = 2
SYMMETRY KeySymmetry
INVARIANT TypeOK VerdictSound
PROPERTY KeepsPromise
