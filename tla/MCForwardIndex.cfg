SPECIFICATION Spec
CONSTANTS
  Datasets <- MCDatasets
  Updates <- MCUpdates
  Admin <- MCAdmin
  Tokens <- MCTokens
  ShortForm <- MCShortForm
  Boroughs <- MCBoroughs
  Countries <- MCCountries
  MaxBuilds <- MCMaxBuilds
CHECK_DEADLOCK FALSE
INVARIANTS BuildsAreWhole PlacesStayFindable
PROPERTIES ShowsLastCommit
