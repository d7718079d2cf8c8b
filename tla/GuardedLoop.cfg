\* A flow with a repeat: inside a when:, recorded and replayed.
CONSTANTS
    Flows <- MCGuarded
    Nodes <- MCNodes
    Apps <- MCApps
    States <- MCStates
    Surfaces <- MCSurfaces
    Main = "main"
    NoSurface = "none"
    Stuck = "stuck"
    Compared <- MCCompared
    Limit = 60
SPECIFICATION Spec
CHECK_DEADLOCK FALSE
INVARIANT BlockRunsToItsEnd
