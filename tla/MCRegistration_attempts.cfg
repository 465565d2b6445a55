SPECIFICATION Spec
CONSTANTS
  Users = {u1}
  Replicas = {p1}
  Phones = {ph1}
  Codes = {c1, c2, c3}
  Events = {e2}
  Claims = {t1}
  Absent = Absent
  None = None
  FreshReads = TRUE
  MaxTime = 0
  MaxVersions = 0
  External = {"delete"}
  MaxPhoneRequests = 3
  MaxActivations = 2
  MaxSignups = 2
  MaxInFlight = 1
  DailyLimit = 2
  AttemptsAllowed = 1
  Window = 1
  CodeExpires = 1
  MaxTries = 2
  LookupMode = "disabled"
  LookupExempt = {}
  Scores = {}
  Counters = {}
  LowScoreReactivation = FALSE
  VerifierMode = "disabled"
  VerificationEnabled = TRUE
  CaptchaEnabled = FALSE
  ExcludedUsers = {}
  CrtAdmins = {}
  VerifyingEvents = {e2}
  NoEvent = NoEvent
  Capacity <- SameCapacity
  Opens <- SameOpening
  Closes <- SameClosing
  Seats = 1
  OpensAt = 0
  ClosesAt = 1
  WriteErrors = FALSE
  SmsErrors = FALSE
  Crashes = FALSE
SYMMETRY Symmetry
INVARIANTS TooManyWereMade
