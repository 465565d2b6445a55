SPECIFICATION Spec
CONSTANTS
  Users = {u1}
  Replicas = {p1}
  Phones = {ph1}
  Codes = {c1, c2}
  Events = {}
  Claims = {}
  Absent = Absent
  FreshReads = FALSE
  MaxTime = 0
  External = {"admin", "delete"}
  None = None
  MaxVersions = 0
  MaxRequests = 2
  MaxInFlight = 2
  DailyLimit = 2
  AttemptsAllowed = 1
  Window = 1
  CodeExpires = 1
  MaxTries = 2
  LookupMode = "enabled"
  LookupExempt = {}
  Scores = {None}
  Counters = {None}
  LowScoreReactivation = FALSE
  WriteErrors = TRUE
  SmsErrors = FALSE
  Crashes = TRUE
INVARIANTS TypeOK OkMeansWritten
PROPERTIES ImplementsGate ClearedStaysCleared EveryRequestAnswered
