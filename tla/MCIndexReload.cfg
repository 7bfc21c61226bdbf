SPECIFICATION Spec
CONSTANTS
    MaxVersion = 4
    MaxKills = 2
    MaxRestarts = 2
    StartRaces = FALSE
CHECK_DEADLOCK FALSE
INVARIANTS AckIsServed
PROPERTIES PicksUp UnkilledConverges
