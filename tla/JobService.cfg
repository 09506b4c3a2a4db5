\* Two uploads, a queue of one and a pool of one: a full queue, a failed row
\* write and a restart, in every order, under fair scheduling.
SPECIFICATION FairSpec
CONSTANTS
    Jobs = {j1, j2}
    NoJob = NoJob
    Nodes = {"analyze", "assemble"}
    PaidNodes = {"analyze"}
    GatedNodes = {"analyze"}
    FinalNode = "assemble"
    QueueCap = 1
    Concurrency = 1
    MaxRestarts = 1
    MaxFaults = 1
INVARIANTS IInv AnnouncedIsDurable SurvivesRestart NoOrphans
PROPERTIES OutcomeIsFinal DurableForever ImplementsLifecycle AdmittedFinishes
CHECK_DEADLOCK FALSE
