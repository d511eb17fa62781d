SPECIFICATION Spec
CONSTANTS
  NUM_TASKS = 4
  PRIORITY = 2
  SleepMs = {}
  WORD = 64
  MaxJiffies = 3
PROPERTY ForkedSliceIsPriority
CHECK_DEADLOCK FALSE
