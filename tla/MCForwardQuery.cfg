SPECIFICATION Spec
CONSTANTS
  Worlds <- MCWorlds
  Questions <- MCQuestions
  NearbyQuestions <- MCNearbyQuestions
  Houses <- MCHouses
  Postcodes <- MCPostcodes
  Rural <- MCRural
  UnitWords <- MCUnitWords
  Slashed <- MCSlashed
  Hashed <- MCHashed
  StateNames <- MCStateNames
  CountryNames <- MCCountryNames
  Variants <- MCVariants
  StreetTypes <- MCStreetTypes
  NonLatin <- MCNonLatin
  ShortWords <- MCShortWords
  WofAliases <- MCWofAliases
  JoinOf <- MCJoinOf
  Misspelt <- MCMisspelt
  SpellingRatio = 2
  NearRadius = 10
  MaxCandidates = 16
  MaxStrict = 6
  Page = 5
  Requests = {r1, r2}
  Tails <- MCTails
  CacheWorlds <- MCCacheWorlds
  CacheCap = 2
CHECK_DEADLOCK FALSE
INVARIANTS AnswersAreMeant AddressesAreMeant RankingHolds CacheHolds
