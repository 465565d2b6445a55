SPECIFICATION Spec
CONSTANTS
  Users = {u1}
  Viewer = Viewer
  OuterSpace = s1
  InnerSpace = s2
  OwningUser = u1
  Spaces = {s1, s2}
  Members = {m1, m2}
  Parent <- TwoLevels
  Owner <- SameOwner
  Rank <- InnerFirst
  None = None
  MaxChanges = 2
SYMMETRY Symmetry
INVARIANTS TypeOK ForwardedWithinRights SteadyAccessIsForwarded ListIsRight QuietVerdict
