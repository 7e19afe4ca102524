SPECIFICATION Spec
CONSTANTS
  TickModulus = 8
  ProcessingTicks = 2
  InterruptionTicks = 3
PROPERTIES
  NeverEarly ImplementsAges
CHECK_DEADLOCK TRUE
