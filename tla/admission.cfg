CONSTANTS
  Peers = {p1, p2, p3}
  Unit = 2
  PeerRate = 2
  PeerBurst = 3
  PeerWrites = 2
  GlobalRate = 3
  GlobalBurst = 5
  GlobalWrites = 2
  PeerIds = 2
  Reads = 1
  Delay = 1
  MaxTime = 2
SPECIFICATION Spec
INVARIANTS RecoveryAdmitted
CHECK_DEADLOCK FALSE
SYMMETRY PeerSymmetry
