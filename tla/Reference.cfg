\* Every list of five samples: equal and different durations, failures, warm-ups.
\* Every multigraph of four edges on three nodes: loops, duplicates, cycles.
SPECIFICATION RefSpec
CONSTANTS
    Durations = {0, 1, 5}
    Successes = {TRUE, FALSE}
    Warmups = {TRUE, FALSE}
    MaxSamples = 5
    Nodes = {n1, n2, n3}
    MaxEdges = 4
INVARIANTS
    AuditAgrees PercentilesSplitTheSamples CountsAreOfWalks QueriesAgree
CHECK_DEADLOCK FALSE
