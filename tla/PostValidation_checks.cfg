\* A remote database and two local ones, any containers up and any graphs to begin with.
SPECIFICATION FairSpec
CONSTANTS
    cognodb = cognodb
    neo4j = neo4j
    falkordb = falkordb
    Falkor = falkordb
    Databases <- MCDatabases
    Local <- MCLocal
    Order <- MCOrder
    InspectFails = FALSE
INVARIANTS CompetitorsStopped PassedAfterRepair WrittenIsComplete
PROPERTY InvocationEnds
