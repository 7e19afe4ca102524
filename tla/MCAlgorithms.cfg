SPECIFICATION Spec
CHECK_DEADLOCK FALSE
CONSTANTS
  SizeT = 1024
  Hardened = 512
  Rank <- MCRank
  AMOUNT_BYTES = 2
  DECIMALS = 3
  SCRATCH_SIZE = 6
  MAX_BIP44_ACCOUNT_RECOMMENDED = 3
  MAX_BIP44_ADDRESS_INDEX_RECOMMENDED = 5
  CHUNK = 3
  MAX_MESSAGE = 10
  SCALAR = 2
  Undefined = Undefined
INVARIANTS
  
  
  EncodingsReadBack
  KeysAgree
