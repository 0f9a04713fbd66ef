CONSTANTS
    None = None
    p1 = p1
    p2 = p2
    p3 = p3
    q1 = q1
    q2 = q2
    q3 = q3
    s1 = s1
    s2 = s2
    s3 = s3
    k1 = k1
    k2 = k2
    k3 = k3
    m1 = m1
    m2 = m2
    Phones <- TwoPhones
    Requests <- TwoRequests
    Stickers <- ThreeStickers
    Cards <- ThreeCards
    MemberCodes <- TwoMembers
    QuietResets = FALSE
    LeaveWhileArming = TRUE
    StopWhileMinting = TRUE
SPECIFICATION Spec
SYMMETRY Symmetry
INVARIANTS
    OneOwner
    OneUsePerCode
PROPERTIES
    UnclaimedNeedsSticker
