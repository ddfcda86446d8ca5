SPECIFICATION FairSpec

CONSTANTS
    r1 = r1
    c1 = c1
    c2 = c2
    c3 = c3
    c4 = c4
    boss = boss
    deputy = deputy
    user = user
    Nobody = Nobody
    NoCall = NoCall
    Request <- OneRequest
    Requester = user
    Manager = boss
    Call <- ThreeCalls
    Approver <- TwoApprovers
    Authority = {}
    Faults = {"provider"}

CHECK_DEADLOCK FALSE

PROPERTY EveryCallEnds
PROPERTY FulfillingIsResolved
