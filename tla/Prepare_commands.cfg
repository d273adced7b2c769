\* Any remains; statements that fail with or without effect, killed processes, or no fault at all.
SPECIFICATION FairSpec
CONSTANTS
    u1 = u1
    u2 = u2
    u3 = u3
    v1 = v1
    v2 = v2
    v3 = v3
    NodeRows <- Users
    RelRows <- Votes
    Source <- VoteSource
    Target <- VoteTarget
    Size = 2
    Engines <- AllEngines
INVARIANTS TypeOK ReadyMeansCanonical
PROPERTY PrepareRepairs
