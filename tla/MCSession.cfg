\* Two pages of one browser.
SPECIFICATION Spec
CONSTANTS
    p1 = p1
    p2 = p2
    c1 = c1
    c2 = c2
    Pages = {p1, p2}
    Calls = {c1, c2}
    Flights <- TwoAndOne
    MaxSignIns = 1
    MaxRotations = 1
    MaxFaults = 1
INVARIANTS
    TypeOK
    OneLiveToken
    NeverRacesItself
    SignOutEnds
    WaitersAreServed
CHECK_DEADLOCK FALSE
