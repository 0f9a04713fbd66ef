CONSTANTS
    a1 = a1
    a2 = a2
    d1 = d1
    t1 = t1
    t2 = t2
    t3 = t3
    None = None
    Automations <- TwoAutomations
    Devices <- OneDevice
    Tasks <- ThreeTasks
    Crashes = TRUE
    QuietResets = TRUE
SPECIFICATION Spec
SYMMETRY Alike
INVARIANTS
    
    
    NewestWins
    NoWaitForDevices
PROPERTIES
    QuietOnceAsked
