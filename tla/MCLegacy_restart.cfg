CONSTANTS
  Sessions <- MCSessions
  Earlier <- MCEarlier
  SwapRequests <- MCSwapRequests
  MaxSessions = 2
  MaxInterludes = 1
  AmountModulus = 8
  MaxBuffered = 6
  AbandonsOutputs = TRUE
SPECIFICATION Spec
CHECK_DEADLOCK FALSE
INVARIANTS
  NewTransactionStartsClean
