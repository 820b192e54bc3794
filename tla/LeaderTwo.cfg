CONSTANTS
  MaxPods = 2
  MaxFaults = 0
  FirstStep = "owner"
SPECIFICATION OperatorSpec
INVARIANT AtMostOneLeader
CHECK_DEADLOCK FALSE
