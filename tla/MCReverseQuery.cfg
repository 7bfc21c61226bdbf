SPECIFICATION Spec
CONSTANTS
    CountCap = 3
    OffsetCap = 30
    StreetWidth = 2
    AdminWidth = 2
    NodeCap = 3
    HoleCap = 2
    MinHole = 1
    LeadingDigits <- MCLeadingDigits
    MaxDist = 4
    PoiDist = 2
    Worlds <- MCWorlds
    Positions <- MCPositions
    Sides <- MCSides
    AdminDefaults <- MCAdminDefaults
    AdminByCountry <- MCAdminByCountry
CHECK_DEADLOCK FALSE
INVARIANTS FilesReadBack AddressIsRight AreasAreRight InterpolatedInRange
