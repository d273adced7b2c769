\* Two levels, whose operations may hang for ever: stragglers of one phase beside
\* the next, the ledger, and the end of the stage and of the process.
SPECIFICATION FairSpec
CONSTANTS
    NumLevels = 2
    Concurrency <- OneThenOne
    MaxOps <- Ops0601
INVARIANTS PublishedRowsHaveEvidence FourReadsToOneWrite
PROPERTIES ImplementsLedger StageEnds ProcessEnds
