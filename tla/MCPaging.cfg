\* Tables up to and past the deepest page, with overlapping requests.
SPECIFICATION FairSpec
CONSTANTS
    MaxRows = 5
    MaxPageSize = 2
    MaxOffset = 2
    MaxInFlight = 2
INVARIANTS
    TypeOK
    OfferedIsServed
    ShownIsAsked
    SortedWalkIsComplete
PROPERTIES
    TurnedToIsShown
CHECK_DEADLOCK FALSE
