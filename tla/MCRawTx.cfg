SPECIFICATION Spec
CHECK_DEADLOCK FALSE
CONSTANTS
  Cases <- MCCases
  Chunk = 3
  Word = 2
  Amount = 2
  VarintOne = 4
  MaxScript = 7
  Unset = Unset
  SigLens = {0, 5}
  ScriptLens = {0, 7}
INVARIANTS   HonestAccepted
