\* Two local databases, two invocations cut short anywhere by failures, interrupts and kills.
SPECIFICATION Spec
CONSTANTS
    neo4j = neo4j
    memgraph = memgraph
    Databases <- TwoDatabases
    Local <- TwoDatabases
    Workloads = 1
    Rounds = 2
    Attempts = 2
    Results = {"ok"}
    Requests <- AnyOrder
    MaxRuns = 2
    Kills = TRUE
    InspectFails = FALSE
INVARIANTS TypeOK ValidMeansMeasuredOnce CompleteRowsStandOnRaw SharedHostIsRecorded
