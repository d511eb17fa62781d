SPECIFICATION Spec
CONSTANTS
  NUM_TASKS = 5
  PRIORITY = 3
  SleepMs = {}
  WORD = 64
  MaxJiffies = 8
PROPERTY SearchTakesBest
CHECK_DEADLOCK FALSE
