CONSTANTS
  MaxRevision = 1
  MaxExchanges = 0
  MaxLate = 0
SPECIFICATION FairSpec
PROPERTY
  DisableRetires
