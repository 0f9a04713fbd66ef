CONSTANTS
    s1 = s1
    s2 = s2
    pass = pass
    z1 = z1
    here = here
    east = east
    fajr = fajr
    None = None
    Sensors <- OneSensor
    Tasks <- TwoSlots
    Delays <- ShortDelays
    MaxWait = 1
    Early = 1
    Crashes = FALSE
    WritesFail = FALSE
    Rooms <- SmartRooms
    Levels <- TwoLevels
    Slots <- TwoSlots
    Pass = pass
    Calm = TRUE
    Places <- TwoPlaces
    Prayers <- OnePrayer
    Hour = 3
    Day = 6
    Zone <- HomeZones
    Clock <- HomeClock
    Grace = 2
    MaxTime = 9
    Macs <- TwoMacs
    Brokers <- TwoPlaces
    Bus <- OneBus
    LiveMax = 1
    Hurried = FALSE
    Requests <- TwoSlots
SPECIFICATION RestedSpec
SYMMETRY Alike
CONSTRAINT Bounds
INVARIANTS
    OccupancyFollows
    BoostTracked
    
    
