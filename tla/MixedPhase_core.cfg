\* Two workers share one phase's counters, samples and queue.
SPECIFICATION Spec
CONSTANTS
    NumLevels = 1
    Concurrency <- Two
    MaxOps <- Ops12
INVARIANTS AttemptsAreContiguous InFlightIsExact IInv
PROPERTIES DecidedPhaseIsQuiet
