SPECIFICATION Spec
CONSTANTS
  Keys = {k1, k2}
  MaxRequests = 1
  MaxStarts = 2
  GracefulTimeout = 1
  Faults = {"startup", "listen", "rotate", "signal", "overdue"}
  None = None
CHECK_DEADLOCK FALSE
PROPERTIES ShutdownEnds DeadServersReplaced RefusedOnlyAfterRotation
