CONSTANTS
  MaxExchanges = 2
  MaxLate = 0
  FaultsStop = FALSE
  Reboots = TRUE
  PollWithinBackoff = TRUE
SPECIFICATION Spec
INVARIANTS
  InstalledOnlyCommitted
  KernelKeyIsSaved
  ResponderInstallsFirst
PROPERTIES
  KeyNeverRollsBack
