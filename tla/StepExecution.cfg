CONSTANTS
    Rungs = 2
    Text <- MCText
    Pages <- MCPages
    MaxRetries = 2
    Flows <- MCFlows
    Budget = 2
    Patience = 3
    QuietRounds = 1
    BusyRounds = 2
SPECIFICATION Spec
CHECK_DEADLOCK FALSE
INVARIANTS
    NothingRepeated
    InputTook
    FailedOnEvidence
    GoneWasRead
    DownloadsAreNew
PROPERTIES
    ReadyBeforeInput
    DialogsAccounted
    FlowEnds
