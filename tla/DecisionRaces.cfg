SPECIFICATION Spec

CONSTANTS
    r1 = r1
    c1 = c1
    c2 = c2
    c3 = c3
    c4 = c4
    boss = boss
    deputy = deputy
    user = user
    Nobody = Nobody
    NoCall = NoCall
    Request <- OneRequest
    Requester = user
    Manager = boss
    Call <- FourCalls
    Approver <- ApproverAndRequester
    Authority = {"entra"}
    Faults = {"audit", "provider"}

SYMMETRY CallSymmetry

CHECK_DEADLOCK FALSE

INVARIANT TypeOK
INVARIANT SingleGrant
INVARIANT GrantNeedsApproval
PROPERTY ClosedStaysClosed
PROPERTY ImplementsGrant
