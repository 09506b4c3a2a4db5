\* The job ends between the snapshot and the registration.
SPECIFICATION FairSpec
CONSTANTS
    Browsers = {b1}
    Last = 2
    BufCap = 8
    MaxLines = 1
    MaxLen = 1
    MaxDrops = 0
PROPERTY SubscriberIsTold
CHECK_DEADLOCK FALSE
