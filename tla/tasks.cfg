SPECIFICATION Spec
CONSTANTS
  NUM_TASKS = 5
  PRIORITY = 2
  SleepMs = {10, 20}
  WORD = 64
  MaxJiffies = 4
CONSTRAINT Bounds
INVARIANTS OneRunning ParentAlive TreeRooted WaiterHasLiveChild WokenWaiterHasZombie TypeOK QueuesMatchStates NoEmptySlice
PROPERTY WakesOnTime
CHECK_DEADLOCK FALSE
