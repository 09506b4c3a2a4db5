\* Two nodes record at the same time, three lines, one failed row write.
SPECIFICATION Spec
CONSTANTS
    Writers = {w1, w2}
    MaxEntries = 3
    MaxLen = 2
    MaxFaults = 1
SYMMETRY WriterSymmetry
INVARIANTS TypeOK StreamsAreUnbroken RowsFollow SentIsStored
PROPERTY SentOnlyGrows
CHECK_DEADLOCK FALSE
