SPECIFICATION ActivationSpec
CONSTANTS
  Users = {u1, u2}
  Replicas = {p1}
  Phones = {}
  Codes = {}
  Events = {e1}
  Claims = {t1}
  Absent = Absent
  FreshReads = TRUE
  MaxTime = 2
  External = {"approve"}
  None = None
  MaxVersions = 0
  NoEvent = NoEvent
  MaxRequests = 4
  MaxInFlight = 1
  MaxTries = 2
  VerifierMode = "disabled"
  VerificationEnabled = TRUE
  CaptchaEnabled = TRUE
  ExcludedUsers = {}
  CrtAdmins = {}
  WriteErrors = FALSE
  VerifyingEvents = {}
  MaxActivations = 4
  AttemptsAllowed = 2
  Capacity <- SameCapacity
  Opens <- SameOpening
  Closes <- SameClosing
  Seats = 1
  OpensAt = 1
  ClosesAt = 1
SYMMETRY Symmetry
INVARIANTS AttemptsLimited CapacityHolds
