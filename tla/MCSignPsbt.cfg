SPECIFICATION FairSpec
CONSTANTS
  NoUtxo = NoUtxo
  NoDeriv = NoDeriv
  NoScript = NoScript
  NoSwap = NoSwap
  NoHashes = NoHashes
  None = None
  Requests <- MCRequests
  MaxInputs = 2
  MaxChange = 1
  AmountModulus = 16

  Families = {"screens", "utxos", "odd", "swap"}
INVARIANTS
  OutputsApproved FeeApproved SwapAsRequested
  SignedAmountsWereCounted  
PROPERTIES
  FollowsFlows Ends
