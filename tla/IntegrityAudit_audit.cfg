\* What an audit passes, with one database, several campaigns and a configuration that changes.
SPECIFICATION Spec
CONSTANTS
    neo4j = neo4j
    Databases <- OneDatabase
    NumLevels = 2
    Configurations = {1, 2}
    Frozen = 1
    Full = 2
    MaxRuns = 3
INVARIANTS TypeOK AuditedMeansMeasuredOnce FrozenReadsAreAudited
