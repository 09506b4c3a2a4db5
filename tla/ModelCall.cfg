\* The code's own numbers: three attempts, five rounds.
SPECIFICATION FairSpec
CONSTANTS
    MaxAttempts = 3
    MaxToolRounds = 5
INVARIANTS SpendingIsBounded GivesUpLate BookedIsBilled
PROPERTY CallReturns
CHECK_DEADLOCK FALSE
