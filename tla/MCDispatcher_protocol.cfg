SPECIFICATION MCFairSpec
CONSTANTS
  None = None
  Deny = "send_deny_sw"
  MixedInputs = FALSE
  Command <- MCCommand
  Processor <- MCProcessor
  Handler <- MCHandler
  Exits <- MCExits
  Asking <- MCAsking
  Tolerant <- MCTolerant
  Host = {"barge"}
  ProcessingTicks = 1
  InterruptionTicks = 2
  Wraps = FALSE
  MaxCommands = 3
  MaxAsks = 2
INVARIANTS DiscardedNeverResumes
  OneResponsePerRequest ResponseBeforeTermination
  RestOnMenu ApprovalGate NoRunAfterAnswer

   
