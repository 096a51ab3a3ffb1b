CONSTANTS
  Ranges <- MCRanges
  NewRanges <- MCNewRanges
  Admins = {2}
  MaxCommands = 2
  MaxCidr = 5
  MaxPeer = 4
  NewAddrs = {3, 6}
  MaxRevision = 5
  MaxExchange = 0
  PageLimit = 4
  ShortPage = 4
  PeerActive = 1
  GlobalActive = 1
  Walker = 2
SPECIFICATION AdminLiveSpec
INVARIANTS RedeemedByItsInvite
PROPERTIES OnlyAdminEnables RevocationTakesEffect
CHECK_DEADLOCK FALSE
