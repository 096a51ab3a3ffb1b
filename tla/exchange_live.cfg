CONSTANTS
  MaxExchanges = 2
  MaxLate = 0
  FaultsStop = TRUE
  Reboots = FALSE
  PollWithinBackoff = FALSE
SPECIFICATION FairSpec
PROPERTIES
  CommittedCompletes
  InitiatorResolves
