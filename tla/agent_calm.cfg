SPECIFICATION FairSpec
CONSTANTS
    Conns = {c1, c2}
    Paces = {TRUE}
    MaxFd = 3
    MaxThreads = 4
    MaxReports = 2
    Free = Free
    Stdin = Stdin
    Leaked = Leaked
    Awaited = Awaited
    Junk = Junk
    Nobody = Nobody
INVARIANT TypeOK PushesOwnTask DescriptorsReturned NoCommandStuck
PROPERTY CommandTaken
CHECK_DEADLOCK FALSE
