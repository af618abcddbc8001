CONSTANTS
    ann = ann
    another = another
    other = other
    Kinds <- MCKinds
    Senders <- MCSenders
    People <- MCPeople
    Newcomers <- MCPeople
    Words <- MCWords
    Cooldown = 2
    Window = 1
    Threshold = 2
    MaxKept = 2
    MaxTime = 3
    Concurrency = 1
    Attempts = 2
    MaxRequests = 2
SPECIFICATION Spec
INVARIANTS TypeOK BulkFailuresReported ToldAsStored
PROPERTIES OneAlertPerWindow RequestsEnd
CHECK_DEADLOCK FALSE
