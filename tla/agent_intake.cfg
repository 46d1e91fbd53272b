SPECIFICATION Spec
CONSTANTS
    Conns = {c1, c2}
    Paces = {TRUE, FALSE}
    MaxFd = 2
    MaxThreads = 4
    MaxReports = 0
    Free = Free
    Stdin = Stdin
    Leaked = Leaked
    Awaited = Awaited
    Junk = Junk
    Nobody = Nobody
PROPERTY KeepsIntake
SYMMETRY Interchangeable
CHECK_DEADLOCK FALSE
