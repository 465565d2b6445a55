SPECIFICATION Spec
CONSTANTS
  Users = {u1}
  Replicas = {p1}
  Phones = {ph1, ph2}
  Codes = {c1, c2}
  Events = {}
  Claims = {}
  Absent = Absent
  FreshReads = FALSE
  MaxTime = 1
  External = {}
  None = None
  MaxVersions = 0
  MaxRequests = 3
  MaxInFlight = 2
  DailyLimit = 1
  AttemptsAllowed = 1
  Window = 0
  CodeExpires = 0
  MaxTries = 2
  LookupMode = "enabled"
  LookupExempt = {}
  Scores = {None}
  Counters = {None}
  LowScoreReactivation = FALSE
  WriteErrors = FALSE
  SmsErrors = TRUE
  Crashes = FALSE
SYMMETRY Symmetry
INVARIANTS LimitsHold StoredCodeWasSent CodeComplete MessageNeedsLookup
PROPERTIES VerifiedByOwnCode
