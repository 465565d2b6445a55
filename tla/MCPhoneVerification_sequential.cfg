SPECIFICATION Spec
CONSTANTS
  Users = {u1, u2}
  Replicas = {p1}
  Phones = {ph1}
  Codes = {c1, c2}
  Events = {}
  Claims = {}
  Absent = Absent
  FreshReads = TRUE
  MaxTime = 2
  External = {"ban", "approve", "deactivate"}
  None = None
  MaxVersions = 0
  MaxRequests = 4
  MaxInFlight = 1
  DailyLimit = 1
  AttemptsAllowed = 1
  Window = 1
  CodeExpires = 1
  MaxTries = 2
  LookupMode = "disabled"
  LookupExempt = {}
  Scores = {"low"}
  Counters = {1, 2}
  LowScoreReactivation = TRUE
  WriteErrors = FALSE
  SmsErrors = TRUE
  Crashes = FALSE
SYMMETRY Symmetry
INVARIANTS CounterCountsMessages AttemptsPerCode RefusedPhoneWasTaken
PROPERTIES VerifiedIsSettled
