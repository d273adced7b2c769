\* A failure of one invocation and what a later one publishes.
SPECIFICATION Spec
CONSTANTS
    neo4j = neo4j
    falkordb = falkordb
    Falkor = falkordb
    Databases <- TwoDatabases
    Local <- TwoDatabases
    NumLevels = 1
    Requests <- BothOrFirst
    MaxRuns = 2
    Kills = FALSE
    InspectFails = FALSE
INVARIANTS FailuresAreKept
