SPECIFICATION Spec
CONSTANTS
  None = None
  Deny = "send_deny_sw"
  MixedInputs = TRUE
  Command <- MCCommand
  Processor <- MCProcessor
  Handler <- MCHandler
  Exits <- MCExits
  Asking <- MCAsking
  Tolerant <- MCTolerant
  Host = {"stray", "barge", "unknown", "malformed", "usb"}
  ProcessingTicks = 1
  InterruptionTicks = 2
  Wraps = TRUE
  MaxCommands = 2
  MaxAsks = 1
INVARIANTS
  NoReentrancy
