SPECIFICATION ActivationSpec
CONSTANTS
  Users = {u1}
  Replicas = {p1}
  Phones = {}
  Codes = {}
  Events = {e1}
  Claims = {t1}
  Absent = Absent
  FreshReads = FALSE
  MaxTime = 0
  External = {"approve", "admin", "delete"}
  None = None
  MaxVersions = 0
  NoEvent = NoEvent
  MaxRequests = 2
  MaxInFlight = 2
  MaxTries = 2
  VerifierMode = "enabled"
  VerificationEnabled = TRUE
  CaptchaEnabled = FALSE
  ExcludedUsers = {}
  CrtAdmins = {}
  WriteErrors = TRUE
  VerifyingEvents = {}
  MaxActivations = 2
  AttemptsAllowed = 2
  Capacity <- SameCapacity
  Opens <- SameOpening
  Closes <- SameClosing
  Seats = 1
  OpensAt = 0
  ClosesAt = 1
INVARIANTS OkMeansAttending
PROPERTIES OthersKept EveryActivationAnswered
