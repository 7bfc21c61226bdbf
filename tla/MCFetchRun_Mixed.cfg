CONSTANTS
    LastPub = 1
    AllContinents <- TwoContinents
    Scope <- PlanetScope
    Psvs <- TwoReleases
    StateBodies <- Bodies
    Parallel = 1
    Crontabs <- PlanetAndExtract
SPECIFICATION Spec
INVARIANTS
    NoMixedPbf
