SPECIFICATION Spec

CONSTANTS
    t1 = t1
    t2 = t2
    k1 = k1
    c1 = c1
    c2 = c2
    e1 = e1
    e2 = e2
    e3 = e3
    Null = Null
    Tenant <- TwoTenants
    Capability <- OneName
    Provides <- Common
    Call <- TwoCalls
    Entry <- ThreeEntries
    Faults = {"activate", "suspend", "dispose"}

SYMMETRY Interchangeable

INVARIANT TypeOK
INVARIANT RegisteredHasPlugin
PROPERTY InstanceStartsAfresh
