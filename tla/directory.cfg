CONSTANTS
  Ranges <- MCRanges
  MaxCidr = 5
  MaxPeer = 5
  NewAddrs = {4}
  MaxRevision = 3
  MaxExchange = 2
  PageLimit = 4
  ShortPage = 3
  PeerActive = 1
  GlobalActive = 2
  Walker = 2
SPECIFICATION LiveSpec
INVARIANTS ActivePairsAllowed RecordsCurrent QuotaHolds TreeWellFormed
PROPERTIES WalkIsSnapshot WalkEnds
CHECK_DEADLOCK FALSE
