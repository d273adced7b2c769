\* Two local databases, two invocations, the second for both or for one.
SPECIFICATION Spec
CONSTANTS
    neo4j = neo4j
    falkordb = falkordb
    Falkor = falkordb
    Databases <- TwoDatabases
    Local <- TwoDatabases
    NumLevels = 1
    Requests <- BothOrOne
    MaxRuns = 2
    Kills = FALSE
    InspectFails = FALSE
INVARIANTS CompetitorsStopped
