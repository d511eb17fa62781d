SPECIFICATION Spec
CONSTANT Alarms = {}
INVARIANT SecondsSince1970
CHECK_DEADLOCK FALSE
