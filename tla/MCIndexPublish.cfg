SPECIFICATION PublishSpec
CONSTANTS
    Files = {"strings", "poi_cells"}
    Optional = {"poi_cells"}
    Gens = {"g1", "g2", "g3"}
    Size <- MCSize
    NoBuild = NoBuild
INVARIANTS ManifestVouches QuietLoadIsWhole
