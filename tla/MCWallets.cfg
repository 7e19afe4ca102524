SPECIFICATION Spec
CONSTANTS
  SizeT = 256
  Hardened = 128
  MaxAccount = 100
  MaxIndex = 90
  CoinTypes = {0, 1}
  MaxCommands = 3
  Indexes = {3, 91, 128}
  Rank <- MCRank
  Length <- MCChars
  ParsedTemplate <- MCparse_policy_map
  ParsedKey <- MCparse_policy_map_key_info
  ScriptStart <- MCStartMachine
  ScriptDone <- MCMachineDone
  ScriptRound <- MCRound
  ScriptAddress <- MCget_script_address
  ReferenceScript <- MCScriptOf
  OwnXpub <- MCOwnXpub
  Serializations <- MCSerializations
  Asked <- MCAsked
INVARIANTS
  RegisteredAsReviewed  AddressesAreRight HonestServed
CHECK_DEADLOCK FALSE
