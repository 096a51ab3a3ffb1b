CONSTANTS
  MaxRevision = 3
  MaxExchanges = 2
  MaxLate = 1
SPECIFICATION FairSpec
INVARIANTS
  RowIsOfBundle
  AdvertisedIsCurrent
PROPERTIES
  CommittedSurvives
  ReplacementSettles
  StalePendingDropped
