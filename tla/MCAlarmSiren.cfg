CONSTANTS
    None = None
    a1 = a1
    a2 = a2
    j1 = j1
    j2 = j2
    j3 = j3
    Sensors <- OneSensor
    Tasks <- TwoTasks
    Delays <- ShortDelays
    MaxWait = 1
    Early = 1
    Crashes = TRUE
    WritesFail = FALSE
SPECIFICATION Spec
SYMMETRY Symmetry
INVARIANTS
    TriggerHeard
