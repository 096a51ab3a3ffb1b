CONSTANTS
  Peers = {1, 2}
  Enrolled = {1}
  Permissive = TRUE
  MaxCand = 1
  MaxChanges = 1
  MaxFaults = 1
SPECIFICATION LiveSpec
PROPERTIES GateHolds KernelCatchesUp ConfirmedReopens
