CONSTANTS
    x1 = x1
    x2 = x2
    y1 = y1
    y2 = y2
    z1 = z1
    z2 = z2
    None = None
    Path = Path
    Installs <- Pair
    LastVersion = 3
    MaxHalts = 2
    Domains <- Two
    TunnelJobs <- Pair
    Relays <- Two
    MaxCodes = 3
    Owners <- Pair
    Guests <- One
    PushTokens <- Pair
    PushJobs <- Two
    Events <- Pair
    Nonces <- Pair
    ReminderJobs <- Two
    Skew = 1
    NonceRetention = 2
    MaxEvents = 1
    ReminderTime = 3
    Shellies <- One
    Adds <- Pair
    Removals <- Pair
    Sweeps <- Pair
    MaxMints = 3
    Phone = z1
    Strangers <- Other
    LoginJobs <- Pair
    MaxFailures = 2
    LockoutSteps <- TwoSteps
    MaxEntries = 1
    ChallengeTTL = 1
    MaxChallenges = 2
    MaxIssued = 3
    LoginTime = 1
    Rooms <- One
    Viewers <- Pair
    TicketTTL = 1
    MaxTickets = 2
    MaxVer = 2
    MaxViews = 3
    ViewTime = 1
SPECIFICATION FocusSpec
SYMMETRY Alike
CHECK_DEADLOCK FALSE
ACTION_CONSTRAINT Focused
INVARIANTS
    CodeKept
    
    
    
    
    
