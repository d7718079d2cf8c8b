CONSTANTS
    Flows <- MCFlows
    Nodes <- MCNodes
    Apps <- MCApps
    States <- MCStates
    Surfaces <- MCSurfaces
    Main = "main"
    NoSurface = "none"
    Stuck = "stuck"
    Compared <- MCCompared
    Limit = 60
SPECIFICATION Spec
CHECK_DEADLOCK FALSE
INVARIANTS
    BlockRunsToItsEnd
    ExportsFromPassOnly
    EveryStepReported
    MeansTheFlow
PROPERTIES
    FailedIsFinal
    RunEnds
