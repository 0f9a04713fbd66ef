CONSTANTS
    q1 = q1
    q2 = q2
    l1 = l1
    c1 = c1
    k1 = k1
    e1 = e1
    e2 = e2
    d1 = d1
    d2 = d2
    t1 = t1
    t2 = t2
    m1 = m1
    None = None
    Requests <- Two
    Lights <- OneLight
    Acs <- OneAc
    Modes <- Cool
    Fresh = Fresh
    Taps <- OffAndOn
    StartProfile <- OneLight
    Extend = 0
    MaxAge = 1
    Unset = Unset
    Nowhere = Nowhere
    Area = Area
    New = New
    Ents <- TwoEnts
    HaArea <- AllInArea
    GangEnt = e1
    Devs <- TwoDevs
    Tags <- TwoTags
    Keys <- OneKey
    Payloads <- AllDevices
    GangPayloads <- AllGangs
    MaxReceipts = 2
    Members <- OneMember
    Jobs <- Two
    Year <- TwoRamadans
    Retention = 2
    MaxRows = 2
    MaxSets = 2
SPECIFICATION FocusSpec
SYMMETRY Alike
CONSTRAINT OneAway
ACTION_CONSTRAINT Focused
INVARIANTS
    AnsweredOnce
    Orderly
    
PROPERTIES
    
    PlacesStay
