SPECIFICATION Spec
CONSTANTS
  Keys = {k1}
  MaxRequests = 1
  MaxStarts = 1
  GracefulTimeout = 1
  Faults = {"signal"}
  None = None
CHECK_DEADLOCK FALSE
PROPERTIES CutsWaitForTheTimeout
