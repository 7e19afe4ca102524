SPECIFICATION FairSpec
CONSTANTS
  Worlds <- MCWorlds
  Payload = 7
  HashLen = 2
  OutLen = 3
  MaxMistakes = 1
  None = None
  Failed = Failed
  Leftover = Leftover
  MaxLeaves = 9
  LongIn = {2, 5}
  Lengths = {0, 3, 4, 13}
INVARIANTS HonestLookupsSucceed QueueDrained
PROPERTIES  LookupEnds
