SPECIFICATION Spec
CONSTANTS
  None = None
  Deny = "send_deny_sw"
  MixedInputs = FALSE
  Command <- MCCommand
  Processor <- MCProcessor
  Handler <- MCHandler
  Exits <- MCExits
  Asking <- MCAsking
  Tolerant <- MCTolerant
  Host = {"barge", "unknown"}
  ProcessingTicks = 1
  InterruptionTicks = 2
  Wraps = FALSE
  MaxCommands = 2
  MaxAsks = 1
INVARIANTS
  DiscardedNeverResumes
