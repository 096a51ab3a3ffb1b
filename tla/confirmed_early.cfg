CONSTANTS
  MaxExchanges = 1
  MaxLate = 0
  FaultsStop = FALSE
  Reboots = FALSE
  PollWithinBackoff = TRUE
SPECIFICATION Spec
INVARIANTS ConfirmedIsComplete
