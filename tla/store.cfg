CONSTANTS
  Procs = {1, 2}
  MaxValue = 4
  MaxFaults = 3
SPECIFICATION Spec
INVARIANTS SeenSurvives ExportedStays
PROPERTIES ImplementsCell
CHECK_DEADLOCK FALSE
