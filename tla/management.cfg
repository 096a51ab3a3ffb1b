CONSTANTS
  Peers = {1, 2}
  Managed = {1}
  MaxSecret = 3
  Trusted = {}
  MaxFaults = 1
SPECIFICATION LiveSpec
INVARIANTS CommonSecret SettledAgree
PROPERTIES PskNeverStripped ServerComesBack
CHECK_DEADLOCK FALSE
