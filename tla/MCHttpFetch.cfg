SPECIFICATION FairSpec
CONSTANTS
    LastPub = 2
    Release <- FreshRelease
    Size <- FreshSize
    Upstreams <- AllUpstreams
    Options <- AllOptions
INVARIANTS DestWhole
PROPERTIES EtagCachedIsCurrent ImplementsAtomicInstall Converges
