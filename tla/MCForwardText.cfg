SPECIFICATION TextSpec
CONSTANTS
  Abbrev <- MCAbbrev
  StreetTypes <- MCStreetTypes
  Directional <- MCDirectional
  OrdinalOf <- MCOrdinalOf
  NumberOrdinal <- MCNumberOrdinal
  CompoundOf <- MCCompoundOf
  PlaceFold <- MCPlaceFold
  UnitWords <- MCUnitWords
  NumLen <- MCNumLen
  DigitLed <- MCDigitLed
  OneLetter <- MCOneLetter
  PostcodeShape <- MCPostcodeShape
  SpacedCode <- MCSpacedCode
  StateOf <- MCStateOf
  Texts <- MCTexts
  Filters <- MCFilters
CHECK_DEADLOCK FALSE
INVARIANTS IndexMatchesQuery ParsedWhole
