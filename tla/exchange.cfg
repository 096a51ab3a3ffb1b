CONSTANTS
  MaxExchanges = 2
  MaxLate = 1
  FaultsStop = FALSE
  Reboots = FALSE
  PollWithinBackoff = TRUE
SPECIFICATION Spec
INVARIANTS
  TypeOK
  CounterpartHoldsKey
  ConfirmationMeansSharedKey
  GateOpenOnlyOnKey
  SequenceNamesExchange
PROPERTIES
  ConfirmsComplete
  ImplementsAgreement
  OutcomeIsFinal
  NoCommitAfterLapse
