SPECIFICATION Spec
CONSTANTS
  NUM_TASKS = 5
  PRIORITY = 2
  SleepMs = {}
  WORD = 64
  MaxJiffies = 2
INVARIANT WaitAnySeesZombie
CHECK_DEADLOCK FALSE
