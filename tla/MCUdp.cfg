SPECIFICATION Spec
CONSTANTS
  Sizes = {2}
  circular_buffer_size = 13
  Width = 4
  Inputs <- MCInputs
  FastRetries = 1
  MaxRecv = 4
  MaxSignals = 2
INVARIANTS
  Framing
  NoGaps
PROPERTIES
  ClosedIsFinal
  ImplementsChannel
  ReadEnds
CHECK_DEADLOCK FALSE
