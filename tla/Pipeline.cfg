\* Three changes of which a model is shown two, and a channel of one event, under fair scheduling.
SPECIFICATION FairSpec
CONSTANTS
    NumChanges = 3
    MaxAdvisory = 2
    EventCap = 1
    MaxAnswers = 2
INVARIANTS TypeOK ResultIsWhole SpendingIsGated ReportMatchesAnalysis
PROPERTIES ImplementsRunProgress RunEnds
CHECK_DEADLOCK FALSE
