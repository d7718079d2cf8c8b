SPECIFICATION Spec
CONSTANTS
    Fields = {"f", "g"}
    Tokens = {"f"}
    Positional = {}
    Rejects = {"bad", "worse"}
    LastScreen = 2
    MaxReplans = 3
    MaxActions = 4
    MaxAttempts = 2
    Projects <- MCProjects
INVARIANTS KeptReproduces ReuseInOrder
PROPERTIES PassMatchesFile CommandEnds
CHECK_DEADLOCK FALSE
