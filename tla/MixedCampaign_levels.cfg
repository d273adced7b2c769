\* One database, two levels, two invocations killed or interrupted anywhere.
SPECIFICATION FairSpec
CONSTANTS
    neo4j = neo4j
    falkordb = falkordb
    Falkor = falkordb
    Databases <- OneDatabase
    Local <- OneDatabase
    NumLevels = 2
    Requests <- TheOne
    MaxRuns = 2
    Kills = TRUE
    InspectFails = TRUE
INVARIANTS CampaignInv OneRowPerLevel FreshRowsAreBacked SummariesAgree FlushedFailuresAreIndexed
PROPERTY InvocationEnds
