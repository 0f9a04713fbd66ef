CONSTANTS
    None = None
    a1 = a1
    a2 = a2
    j1 = j1
    j2 = j2
    j3 = j3
    Sensors <- OneSensor
    Tasks <- TwoTasks
    Delays <- OneDelay
    MaxWait = 1
    Early = 1
    Crashes = TRUE
    WritesFail = TRUE
SPECIFICATION FairSpec

    
PROPERTIES
    TripsForCause
    PendingEnds
