CONSTANTS
    Items = {p1, p2, p3}
    Users = {u1, u2, u3}
    Ids = {i1, i2}
    MaxSizes = {0, 1, 2}
    PoiInvalid = PoiInvalid
    Unknown = Unknown
    Nobody = Nobody
SPECIFICATION FairSpec
INVARIANTS
    InFlightExact
    Limit
    SingleOwner
    WaiterNotOvertaken
    PoolAssertions
    RecoverTargetsInFlight
PROPERTIES
    LendSpec
    WaiterServed
