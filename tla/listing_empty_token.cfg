SPECIFICATION ListingSpec
CONSTANTS
  Rules = {r1, r2}
  RuleTenants = {front, back}
  EmptyLastToken = TRUE
PROPERTY ListingEnds
