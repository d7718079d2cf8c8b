SPECIFICATION Spec
CONSTANTS
    Fields = {"f", "g"}
    Tokens = {"f"}
    Positional = {}
    Rejects = {"bad", "worse"}
    LastScreen = 2
    MaxReplans = 3
    MaxActions = 4
    MaxAttempts = 2
    Projects <- MatrixOnly
PROPERTIES RepairStaysPut
CHECK_DEADLOCK FALSE
