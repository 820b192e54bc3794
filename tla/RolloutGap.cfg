CONSTANTS
  MaxPods = 2
  MaxFaults = 0
  FirstStep = "owner"
SPECIFICATION OperatorSpec
PROPERTY RolloutServes
CHECK_DEADLOCK FALSE
