\* Operations that fail and answers that are wrong, over two invocations of a remote database.
SPECIFICATION Spec
CONSTANTS
    neo4j = neo4j
    memgraph = memgraph
    Databases <- OneDatabase
    Local <- NoneLocal
    Workloads = 2
    Rounds = 2
    Attempts = 1
    Results = {"ok", "wrong", "failed"}
    Requests <- TheOne
    MaxRuns = 2
    Kills = FALSE
    InspectFails = FALSE
INVARIANTS CompleteHopsAreCorrect SummarisedFailuresAreListed
