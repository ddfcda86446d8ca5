SPECIFICATION FairSpec

CONSTANTS
    c1 = c1
    c2 = c2
    t1 = t1
    t2 = t2
    o1 = o1
    o2 = o2
    o3 = o3
    o4 = o4
    Null = Null
    Call <- TwoCalls
    Ticket <- TwoTickets
    Object <- FourObjects
    Start <- TwoStarts
    Faults = {"outage", "audit", "revocation"}

INVARIANT TypeOK
INVARIANT FollowsTheAuthority
PROPERTY DecisionAppliesOnce
PROPERTY DecisionArrives

CHECK_DEADLOCK FALSE
