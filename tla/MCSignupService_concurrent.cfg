SPECIFICATION Spec
CONSTANTS
  Users = {u1}
  Replicas = {p1}
  Phones = {}
  Codes = {}
  Events = {}
  Claims = {t1, t2}
  Absent = Absent
  FreshReads = FALSE
  MaxTime = 0
  External = {"approve", "deactivate", "report", "banUser"}
  None = None
  MaxVersions = 5
  NoEvent = NoEvent
  MaxRequests = 2
  MaxInFlight = 2
  MaxTries = 2
  VerifierMode = "enabled"
  VerificationEnabled = TRUE
  CaptchaEnabled = FALSE
  ExcludedUsers = {}
  CrtAdmins = {}
  WriteErrors = TRUE
  VerifyingEvents = {}
INVARIANTS TypeOK AnswerMeansWritten AuditTakesEffect
PROPERTIES OthersLeftAlone VerifierNotAskedAgain EveryRequestAnswered
