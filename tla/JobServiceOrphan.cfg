\* A full queue leaves a job behind that stays queued.
SPECIFICATION FairSpec
CONSTANTS
    Jobs = {j1, j2}
    NoJob = NoJob
    Nodes = {"assemble"}
    PaidNodes = {}
    GatedNodes = {}
    FinalNode = "assemble"
    QueueCap = 1
    Concurrency = 1
    MaxRestarts = 0
    MaxFaults = 0
PROPERTY NothingStaysQueued
CHECK_DEADLOCK FALSE
