CONSTANTS
    q1 = q1
    q2 = q2
    m1 = m1
    p1 = p1
    p2 = p2
    p3 = p3
    w1 = w1
    w2 = w2
    None = None
    Requests <- TwoRequests
    Members <- OneMember
    Slots <- TwoSlots
    Plans <- ThreePlans
    SlotOf <- TheirSlots
    Rules <- OneRule
    WritesFail = TRUE
    QuitsAtRelease = TRUE
SPECIFICATION Spec
SYMMETRY Alike
INVARIANT
    RunsOnce
