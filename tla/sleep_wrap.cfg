SPECIFICATION Spec
CONSTANTS
  NUM_TASKS = 3
  PRIORITY = 2
  SleepMs = {10, 30}
  WORD = 40
  MaxJiffies = 40
PROPERTY DueSleepersWoken
CHECK_DEADLOCK FALSE
