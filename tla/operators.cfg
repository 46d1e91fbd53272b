SPECIFICATION FairSpec
CONSTANTS
    Browsers = {b1, b2}
    Watched = b1
    MaxId = 2
    Creds = {p1, p2}
    Veadmin = p1
    Locked = Locked
    NoRow = NoRow
    NoSession = NoSession
    Idle = Idle
    Hours = 1
    Minutes = 2
    Seconds = 2
    Base = 3
    Limit = 2
    MaxEdits = 1
INVARIANT TypeOK
PROPERTY RevokedSoon RevokedEnds
