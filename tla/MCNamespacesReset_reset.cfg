SPECIFICATION Spec
CONSTANTS
  Users = {u1}
  Members = {m1, m2}
  Kinds = {dev, stage}
  MaxRequests = 2
  MaxInstances = 1
  None = None
SYMMETRY Symmetry
INVARIANTS AcceptedMeansReset
PROPERTIES QuietResetSucceeds OnlyTheTargetIsReset
