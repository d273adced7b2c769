\* Kills, failed writes, truncated downloads and changed seeds.
SPECIFICATION FairSpec
CONSTANTS
    Missing = Missing
    Empty = Empty
    Seeds <- MCSeeds
    NumNodes = 3
    NumEdges = 4
    MinEdges = 2
INVARIANTS ReadyMeansWhole MetadataDescribeTheSource
PROPERTY PrepareRepairs
