\* A page with a channel of two events, two lines and two connections that break,
\* under fair scheduling.
SPECIFICATION FairSpec
CONSTANTS
    Browsers = {b1}
    Last = 2
    BufCap = 2
    MaxLines = 2
    MaxLen = 2
    MaxDrops = 2
INVARIANTS TypeOK TerminalEventIsDue QuietPageIsCurrent
PROPERTIES PageNeverGoesBack LateComerIsTold
CHECK_DEADLOCK FALSE
