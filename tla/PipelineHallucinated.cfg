\* A verdict that names only changes nobody offered.
SPECIFICATION Spec
CONSTANTS
    NumChanges = 1
    MaxAdvisory = 1
    EventCap = 2
    MaxAnswers = 1
INVARIANT SubstantiveIsAnalysed
CHECK_DEADLOCK FALSE
