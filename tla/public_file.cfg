SPECIFICATION Spec
CONSTANTS
    Nodes = {n1, n2}
    Files = {f1}
    Keys = {k1, k2, k3}
    Texts = {t1, t2}
    Blank = Blank
    Absent = Absent
    NoSum = NoSum
    Garbled = Garbled
    NoJob = NoJob
    NoWrite = NoWrite
    Events <- NoFaults
    MaxLive = 1
INVARIANT PushedCopyAccepted
