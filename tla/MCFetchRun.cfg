CONSTANTS
    LastPub = 1
    AllContinents <- TwoContinents
    Scope <- PlanetScope
    Psvs <- TwoReleases
    StateBodies <- Bodies
    Parallel = 1
    Crontabs <- AllCrontabs
SPECIFICATION Spec
INVARIANTS ReportsTruthful NoMixedPbf RefreshWorks
PROPERTIES LiveFilesSurvive
