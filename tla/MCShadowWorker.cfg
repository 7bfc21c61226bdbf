SPECIFICATION ShadowFairSpec
CONSTANTS
    Jobs = {j1, j2, j3}
    QueueCapacity = 1
    InflightCap = 2
    DailyCap = 4
    RpsCap = 2
    BackoffLen = 1
    DayLen = 2
INVARIANTS DailyCapHolds LeakAtMostOne RpsWithinOne
PROPERTIES EveryJobReported
