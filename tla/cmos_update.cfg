SPECIFICATION Spec
CONSTANTS
  Base = 3
  MaxTicks = 2
INVARIANT WithinSecond
