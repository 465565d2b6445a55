-------------------------- MODULE PhoneVerification --------------------------
(***************************************************************************)
(* InitVerification and VerifyPhoneCode of                                 *)
(* pkg/verification/service/verification_service.go, as request handlers   *)
(* that run concurrently on the replicas of the service.                   *)
(*                                                                         *)
(* A handler takes a snapshot of the UserSignup from the cache of its      *)
(* replica, decides on it (and calls the phone lookup and SMS services),   *)
(* and then performs one update through PollUpdateSignup                   *)
(* (pkg/signup/signup.go): read the resource again, apply the assignments  *)
(* decided before, write, and start over when the write fails.             *)
(***************************************************************************)
EXTENDS HostStore, FiniteSets

CONSTANTS
  MaxRequests,           \* bound: requests that arrive
  MaxInFlight,           \* bound: requests handled at the same time
  DailyLimit,            \* Verification().DailyLimit()
  AttemptsAllowed,       \* Verification().AttemptsAllowed()
  Window,                \* 24 hours, in ticks
  CodeExpires,           \* Verification().CodeExpiresInMin(), in ticks
  MaxTries,              \* the tries of PollUpdateSignup (5 in the code)
  LookupMode,            \* Verification().PhoneLookupMode()
  LookupExempt,          \* phones of the excluded countries
  Scores,                \* captcha scores the UserSignups come with
  Counters,              \* activation counters the UserSignups come with
  LowScoreReactivation,  \* Verification().CaptchaAllowLowScoreReactivation()
  WriteErrors,           \* TRUE: an API write may fail, or succeed and its answer be lost
  SmsErrors,             \* TRUE: the SMS service may fail
  Crashes                \* TRUE: a replica may stop and start again

ASSUME PhoneVerificationAssumption ==
  /\ DailyLimit \in Nat /\ AttemptsAllowed \in Nat
  /\ MaxRequests \in Nat /\ MaxInFlight \in Nat
  /\ Window \in Nat /\ CodeExpires \in Nat
  /\ MaxTries \in Nat \ {0}
  /\ LookupMode \in {"disabled", "log", "enabled"}
  /\ LookupExempt \subseteq Phones
  /\ Scores \subseteq Opt({"low", "ok"}) /\ Counters \subseteq Opt(Nat)
  /\ LowScoreReactivation \in BOOLEAN /\ WriteErrors \in BOOLEAN
  /\ SmsErrors \in BOOLEAN /\ Crashes \in BOOLEAN

VARIABLES
  req,     \* req[r]: where the handler of request r is, and its local variables
  writes,  \* writes[r]: the assignments r has decided on (annotationValues, labelValues, ...)
  sms,     \* sms[c]: the message that carried code c, and when its handler read the time;
           \* None when c was never generated
  lookups  \* the phones the lookup service was asked about, and for whom

phoneVars == <<req, writes, sms, lookups>>
vars == <<log, seen, banned, now, req, writes, sms, lookups>>

-----------------------------------------------------------------------------
(* HTTP requests, numbered in the order of their arrival.                  *)

Requests == 1 .. MaxRequests

Answers == {"ok", "notFound", "badRequest", "rejected", "phoneInUse", "limit",
            "captcha", "tooMany", "expired", "invalid", "internal", "lost"}

Request == [pc     : {"idle", "checkPhone", "lookup", "send", "decide", "get", "put", "done"},
            kind   : Opt({"init", "verify"}),
            at     : Opt(Replicas),
            user   : Opt(Users),
            phone  : Opt(Phones),   \* the number given to InitVerification
            code   : Opt(Codes),    \* the code given to VerifyPhoneCode
            base   : Nat,           \* version of the snapshot the handler decides on
            clock  : Nat,           \* when it read the time
            copy   : Nat,           \* version read again by doUpdate
            tries  : Nat,           \* failed updates
            answer : Opt(Answers)]

Idle == [pc |-> "idle", kind |-> None, at |-> None, user |-> None, phone |-> None,
         code |-> None, base |-> 0, clock |-> 0, copy |-> 0, tries |-> 0, answer |-> None]

Message == [user : Users, phone : Phones, at : Nat]

ASSUME NoneAssumption == None \notin Answers \cup {"init", "verify"} /\ None \notin Message

InFlight(r) == req[r].pc \notin {"idle", "done"}

\* The snapshot r decides on.
Base(r) == log[req[r].user][req[r].base]

Goto(r, pc) == req' = [req EXCEPT ![r].pc = pc]

\* What is left of a request once it is answered: its local variables are gone.
Done(r, a) == [req[r] EXCEPT !.pc = "done", !.answer = a, !.clock = 0, !.copy = 0, !.tries = 0]

Answer(r, a) ==
  /\ req' = [req EXCEPT ![r] = Done(r, a)]
  /\ writes' = [writes EXCEPT ![r] = NoChange]

\* r goes on to its update w and answers a once it is written.
Update(r, w, a) ==
  /\ req' = [req EXCEPT ![r].pc = "get", ![r].clock = now, ![r].answer = a]
  /\ writes' = [writes EXCEPT ![r] = w]

Start(r, kind, p, u, ph, c, pc, a) ==
  req' = [req EXCEPT ![r] = [Idle EXCEPT !.pc = pc, !.kind = kind, !.at = p, !.user = u,
                                         !.phone = ph, !.code = c, !.base = seen[p][u],
                                         !.answer = a]]

MayStart(r) ==
  /\ req[r].pc = "idle"
  /\ \A q \in Requests : q < r => req[q].pc # "idle"
  /\ Cardinality({q \in Requests : InFlight(q)}) < MaxInFlight

\* Mutated: the user's own signup counts too.
InUseByAnyone(p, u, ph) ==
  \/ ph \in banned
  \/ \E v \in Users : LET s == Cached(p, v) IN s # Absent /\ s.approval = "approved" /\ s.phone = ph

\* PhoneNumberAlreadyInUse: ph is banned, or is the phone of another approved
\* and active UserSignup in the cache of replica p.
InUse(p, u, ph) ==
  \/ ph \in banned
  \/ \E v \in Users \ {u} :
       LET s == Cached(p, v) IN
         /\ s # Absent
         /\ s.approval = "approved"
         /\ s.phone = ph /\ ph # None
         /\ "deactivated" \notin s.states

-----------------------------------------------------------------------------
(* InitVerification                                                        *)

\* Mutated: verified users may ask for a code.
AnyState(s) == TRUE

MayVerify(s) == "verification-required" \in s.states

\* The request arrives and the handler reads the UserSignup.
InitStart(r, p, u, ph) ==
  LET s == Cached(p, u)
      Begin(pc, a) == Start(r, "init", p, u, ph, None, pc, a) IN
    /\ MayStart(r)
    /\ \/ s = Absent /\ Begin("done", "notFound")
       \/ s # Absent /\ ~MayVerify(s) /\ Begin("done", "badRequest")
       \/ /\ s # Absent
          /\ MayVerify(s)
          /\ IF "rejected" \in s.states THEN Begin("done", "rejected")
                                        ELSE Begin("checkPhone", None)
    /\ UNCHANGED <<storeVars, writes, sms, lookups>>

WindowOver(s) == s.initAt = None \/ now > s.initAt + Window

\* The counter an InitVerification goes by.
Counter(s) == IF WindowOver(s) \/ s.counter = None THEN 0 ELSE s.counter

\* Mutated: the new window keeps the old counter.
ResetTimestamp(s) == IF WindowOver(s) THEN [initAt |-> now] ELSE NoFields

Reset(s) == IF WindowOver(s) THEN [initAt |-> now, counter |-> 0] ELSE NoFields

\* Mutated: one message too many.
LimitExceeded(s) == Counter(s) > DailyLimit

LimitReached(s) == Counter(s) >= DailyLimit

\* Mutated: only the first phone is looked up.
LookupFirst(r) == LookupMode # "disabled" /\ Base(r).phone = None

\* performPhoneLookup calls the lookup service for a phone it has not seen.
LookupApplies(r) ==
  /\ LookupMode # "disabled"
  /\ req[r].phone \notin LookupExempt
  /\ Base(r).phone # req[r].phone

\* The phone must be free and the daily limit not reached.
InitCheckPhone(r) ==
  LET s == Base(r)
      w == [NoChange EXCEPT !.set = With([phone |-> req[r].phone], Reset(s))] IN
    /\ req[r].pc = "checkPhone"
    /\ IF InUse(req[r].at, req[r].user, req[r].phone)
       THEN Answer(r, "phoneInUse")
       ELSE IF LimitReached(s)
       THEN Update(r, w, "limit")
       ELSE /\ req' = [req EXCEPT ![r].pc = IF LookupApplies(r) THEN "lookup" ELSE "send",
                                  ![r].clock = now]
            /\ writes' = [writes EXCEPT ![r] = w]
    /\ UNCHANGED <<storeVars, sms, lookups>>

\* A high risk phone rejects the UserSignup when the mode says so; a failed lookup
\* is ignored.
InitLookup(r) ==
  /\ req[r].pc = "lookup"
  /\ lookups' = lookups \cup {<<req[r].user, req[r].phone>>}
  /\ \/ Goto(r, "send") /\ UNCHANGED writes
     \/ \E risk \in {"low", "high"} :
          LET w == [writes[r] EXCEPT !.set = With(@, [risk |-> risk])] IN
            IF risk = "high" /\ LookupMode = "enabled"
            THEN /\ req' = [req EXCEPT ![r].pc = "get", ![r].answer = "rejected"]
                 /\ writes' = [writes EXCEPT ![r] = [w EXCEPT !.add = {"rejected"}]]
            ELSE /\ Goto(r, "send")
                 /\ writes' = [writes EXCEPT ![r] = w]
  /\ UNCHANGED <<storeVars, sms>>

\* The counter InitVerification writes with a new code: one more than it went by.
NextCounter(r) == 1 + IF "counter" \in DOMAIN writes[r].set THEN 0
                      ELSE IF Base(r).counter = None THEN 0 ELSE Base(r).counter

\* Mutated: the code is replaced under the old expiry.
CodeWithoutExpiry(r, c) == [attempts |-> 0, counter |-> NextCounter(r), code |-> c]

\* Mutated: the attempts made with the last code count for the new one.
CodeFieldsOnly(r, c) == [counter |-> NextCounter(r), code |-> c, expiry |-> req[r].clock + CodeExpires]

CodeFields(r, c) == [attempts |-> 0, counter |-> NextCounter(r), code |-> c,
                     expiry |-> req[r].clock + CodeExpires]

\* A new code is generated and sent; only then it is among the values to write.
InitSend(r) ==
  /\ req[r].pc = "send"
  /\ \/ \E c \in Codes :
          /\ sms[c] = None
          /\ sms' = [sms EXCEPT ![c] = [user |-> req[r].user, phone |-> req[r].phone, at |-> req[r].clock]]
          /\ writes' = [writes EXCEPT ![r].set = With(@, CodeFields(r, c))]
          /\ req' = [req EXCEPT ![r].pc = "get", ![r].answer = "ok"]
     \/ /\ SmsErrors
        /\ req' = [req EXCEPT ![r].pc = "get", ![r].answer = "internal"]
        /\ UNCHANGED <<writes, sms>>
  /\ UNCHANGED <<storeVars, lookups>>

-----------------------------------------------------------------------------
(* VerifyPhoneCode                                                         *)

\* checkRequiredManualApproval applies, and the captcha score is too low.
Suspicious(s) ==
  /\ s.activated = None \/ ~LowScoreReactivation \/ s.activated = 1
  /\ s.score = "low"

\* The request arrives and the handler reads the UserSignup.
VerifyStart(r, p, u, c) ==
  LET s == Cached(p, u)
      Begin(pc, a) == Start(r, "verify", p, u, None, c, pc, a) IN
    /\ MayStart(r)
    /\ IF s = Absent THEN Begin("done", "notFound")
       ELSE IF Suspicious(s) THEN Begin("done", "captcha")
       ELSE Begin("decide", None)
    /\ UNCHANGED <<storeVars, writes, sms, lookups>>

\* No attempts annotation counts as all attempts made.
Attempts(s) == IF s.attempts = None THEN AttemptsAllowed ELSE s.attempts

\* Mutated: one attempt too many.
AttemptsExceeded(s) == Attempts(s) > AttemptsAllowed

AttemptsUsedUp(s) == Attempts(s) >= AttemptsAllowed

\* Mutated: the code is not compared.
VerdictWithoutCode(s, c) ==
  IF AttemptsUsedUp(s) THEN "tooMany"
  ELSE IF s.expiry = None THEN "internal"
  ELSE IF now > s.expiry THEN "expired"
  ELSE "ok"

\* What VerifyPhoneCode answers once the phone is known to be free.
Verdict(s, c) ==
  IF AttemptsUsedUp(s) THEN "tooMany"
  ELSE IF s.expiry = None THEN "internal"
  ELSE IF now > s.expiry THEN "expired"
  ELSE IF c # s.code THEN "invalid"
  ELSE "ok"

\* Mutated: the expiry outlives its code.
ClearedButExpiry == [code |-> None, attempts |-> None, counter |-> None, initAt |-> None]

Cleared == [code |-> None, attempts |-> None, counter |-> None, initAt |-> None, expiry |-> None]

\* What it writes with that answer.
VerifyWrites(s, verdict) ==
  IF verdict = "ok"
  THEN [set |-> Cleared, add |-> {}, del |-> {"verification-required"}]
  ELSE IF verdict = "invalid"
  THEN [NoChange EXCEPT !.set = [attempts |-> s.attempts + 1]]
  ELSE IF s.attempts = None
  THEN [NoChange EXCEPT !.set = [attempts |-> AttemptsAllowed]]
  ELSE NoChange

\* The phone of the label must be free; then the code is judged.
VerifyDecide(r) ==
  LET s == Base(r)
      verdict == Verdict(s, req[r].code) IN
    /\ req[r].pc = "decide"
    /\ IF InUse(req[r].at, req[r].user, s.phone)
       THEN Answer(r, "phoneInUse")
       ELSE Update(r, VerifyWrites(s, verdict), verdict)
    /\ UNCHANGED <<storeVars, sms, lookups>>

-----------------------------------------------------------------------------
(* The update of both handlers: doUpdate under PollUpdateSignup.           *)

\* Mutated: the handler gives up without an error.
RetryThenIgnore(r) ==
  IF req[r].tries + 1 < MaxTries
  THEN /\ req' = [req EXCEPT ![r].pc = "get", ![r].tries = @ + 1]
       /\ UNCHANGED writes
  ELSE Answer(r, req[r].answer)

\* Mutated: the handler never gives up.
RetryForever(r) == Goto(r, "get") /\ UNCHANGED writes

\* A try failed: the next one, or the handler gives up.
Retry(r) ==
  IF req[r].tries + 1 < MaxTries
  THEN /\ req' = [req EXCEPT ![r].pc = "get", ![r].tries = @ + 1]
       /\ UNCHANGED writes
  ELSE Answer(r, "internal")

\* Mutated: that the UserSignup is not found goes unnoticed.
GetAnyway(r) ==
  /\ req[r].pc = "get"
  /\ req' = [req EXCEPT ![r].pc = "put", ![r].copy = seen[req[r].at][req[r].user]]
  /\ UNCHANGED <<storeVars, writes, sms, lookups>>

\* A try reads the UserSignup.
Get(r) ==
  LET p == req[r].at
      u == req[r].user IN
    /\ req[r].pc = "get"
    /\ IF Cached(p, u) = Absent
       THEN Retry(r)
       ELSE /\ req' = [req EXCEPT ![r].pc = "put", ![r].copy = seen[p][u]]
            /\ UNCHANGED writes
    /\ UNCHANGED <<storeVars, sms, lookups>>

\* Mutated: the assignments are applied to the snapshot.
WrittenFromSnapshot(r) == Apply(Base(r), writes[r])

\* The new version that r writes: its assignments applied to what it read again.
Written(r) == Apply(log[req[r].user][req[r].copy], writes[r])

Put(r) ==
  /\ req[r].pc = "put"
  /\ IsCurrent(req[r].user, req[r].copy)
  /\ NewVersion(req[r].user, Written(r))
  /\ Answer(r, req[r].answer)
  /\ UNCHANGED <<banned, now, sms, lookups>>

\* The resource has a newer version, or is gone.
PutConflict(r) ==
  /\ req[r].pc = "put"
  /\ ~IsCurrent(req[r].user, req[r].copy)
  /\ Retry(r)
  /\ UNCHANGED <<storeVars, sms, lookups>>

\* The API server fails, or writes and its answer is lost.
PutError(r) ==
  /\ WriteErrors
  /\ req[r].pc = "put"
  /\ \/ UNCHANGED <<log, seen>>
     \/ /\ IsCurrent(req[r].user, req[r].copy)
        /\ NewVersion(req[r].user, Written(r))
  /\ Retry(r)
  /\ UNCHANGED <<banned, now, sms, lookups>>

-----------------------------------------------------------------------------
(* A replica stops and starts again: the requests it was handling are lost *)
(* and its cache is filled from the API server.                            *)

Crash(p) ==
  /\ Crashes
  /\ \E r \in Requests : InFlight(r) /\ req[r].at = p
  /\ LET lost(r) == InFlight(r) /\ req[r].at = p IN
       /\ req' = [r \in Requests |-> IF lost(r) THEN Done(r, "lost") ELSE req[r]]
       /\ writes' = [r \in Requests |-> IF lost(r) THEN NoChange ELSE writes[r]]
  /\ seen' = [seen EXCEPT ![p] = [u \in Users |-> Len(log[u])]]
  /\ UNCHANGED <<log, banned, now, sms, lookups>>

-----------------------------------------------------------------------------

\* Versions from before the first phone verification: Signup has just created
\* or reactivated the UserSignup.
Fresh(score, activated) ==
  [states |-> {"verification-required"}, approval |-> "pending", status |-> "none",
   claims |-> None, emailHash |-> None, phone |-> None,
   initAt |-> None, counter |-> 0, attempts |-> None, code |-> None, expiry |-> None,
   risk |-> None, event |-> None, score |-> score, activated |-> activated]

Init ==
  /\ log \in [Users -> {<<Fresh(score, activated)>> : score \in Scores, activated \in Counters}]
  /\ seen = [p \in Replicas |-> [u \in Users |-> 1]]
  /\ banned = {}
  /\ now = 0
  /\ req = [r \in Requests |-> Idle]
  /\ writes = [r \in Requests |-> NoChange]
  /\ sms = [c \in Codes |-> None]
  /\ lookups = {}

Handle(r) ==
  \/ InitCheckPhone(r)
  \/ InitLookup(r)
  \/ InitSend(r)
  \/ VerifyDecide(r)
  \/ Get(r)
  \/ Put(r)
  \/ PutConflict(r)
  \/ PutError(r)

Arrive(r) ==
  \E p \in Replicas, u \in Users :
    \/ \E ph \in Phones : InitStart(r, p, u, ph)
    \/ \E c \in Codes : VerifyStart(r, p, u, c)

Finished ==
  /\ \A r \in Requests : req[r].pc = "done"
  /\ UNCHANGED vars

Next ==
  \/ \E r \in Requests : Arrive(r) \/ Handle(r)
  \/ \E p \in Replicas : Crash(p)
  \/ StoreNext /\ UNCHANGED phoneVars
  \/ Finished

\* The goroutine of a request keeps running; nothing else is promised: no
\* request has to arrive, and no cache to catch up.
Fairness == \A r \in Requests : WF_vars(Handle(r))

Spec == Init /\ [][Next]_vars /\ Fairness

-----------------------------------------------------------------------------
(* Invariants                                                              *)

\* The local variables of a handler: the versions it holds exist, and are not those
\* of a deleted UserSignup.
HandlerTypeOK(r) ==
  LET q == req[r] IN
    /\ q.at \in Replicas /\ q.user \in Users
    /\ q.base \in 1 .. Len(log[q.user]) /\ Base(r) # Absent
    /\ q.pc \in {"checkPhone", "lookup", "send"} => q.kind = "init"
    /\ q.pc = "decide" => q.kind = "verify"
    /\ \/ q.kind = "init" /\ q.phone \in Phones
       \/ q.kind = "verify" /\ q.code \in Codes
    /\ q.pc \in {"get", "put"} => q.answer # None
    /\ q.pc = "put" => q.copy \in 1 .. Len(log[q.user]) /\ log[q.user][q.copy] # Absent

\* Every variable has its type: the versions of a UserSignup are UserSignups, updates
\* are updates of one.
TypeOK ==
  /\ StoreTypeOK
  /\ req \in [Requests -> Request]
  /\ \A r \in Requests : InFlight(r) => HandlerTypeOK(r)
  /\ writes = [r \in Requests |-> writes[r]]
  /\ \A r \in Requests : IsUpdate(writes[r])
  /\ sms \in [Codes -> Opt(Message)]
  /\ lookups \subseteq Users \X Phones

Versions(u) == {log[u][i] : i \in DOMAIN log[u]} \ {Absent}

\* The counters stay within the configured limits, whatever the handlers that
\* write them decided on (verification_service.go:158, 367).
LimitsHold ==
  \A u \in Users : \A s \in Versions(u) :
    /\ s.counter # None => s.counter <= DailyLimit
    /\ s.attempts # None => s.attempts <= AttemptsAllowed

\* A stored code is one that was sent to that very user, and its expiry is that of
\* its own message, never of another one (verification_service.go:178-186).
StoredCodeWasSent ==
  \A u \in Users : \A s \in Versions(u) :
    s.code # None => /\ sms[s.code] # None
                     /\ sms[s.code].user = u
                     /\ s.expiry = sms[s.code].at + CodeExpires

\* Code and expiry come and go together, and a stored code has its counters:
\* concurrent handlers, whose assignments may be interleaved version by version,
\* never leave half of them (verification_service.go:181-185, 392-400).
CodeComplete ==
  \A u \in Users : \A s \in Versions(u) :
    /\ s.code = None <=> s.expiry = None
    /\ s.code # None => s.attempts # None /\ s.counter # None

\* What a handler is about to write keeps all this true of any version it is applied
\* to, not only of the one it was decided on: code and expiry are assigned together,
\* within the limits, and only the right code clears verification-required.
UpdateOK(r) ==
  LET set == writes[r].set
      keys == DOMAIN set IN
    /\ "code" \in keys <=> "expiry" \in keys
    /\ "code" \in keys => (set.code = None <=> set.expiry = None)
    /\ "code" \in keys /\ set.code # None =>
         /\ sms[set.code] # None
         /\ sms[set.code].user = req[r].user
         /\ set.expiry = sms[set.code].at + CodeExpires
         /\ {"attempts", "counter"} \subseteq keys
    /\ "code" \in keys /\ set.code = None => {"attempts", "counter"} \subseteq keys
    /\ "attempts" \in keys =>
         \/ set.attempts = None /\ "code" \in keys /\ set.code = None
         \/ set.attempts # None /\ set.attempts <= AttemptsAllowed
    /\ "counter" \in keys =>
         \/ set.counter = None /\ "code" \in keys /\ set.code = None
         \/ set.counter # None /\ set.counter <= DailyLimit
    /\ req[r].pc \in {"lookup", "send"} => NextCounter(r) <= DailyLimit /\ "code" \notin keys
    /\ writes[r].add \subseteq {"rejected"}
    /\ writes[r].del # {} => /\ writes[r].del = {"verification-required"}
                            /\ req[r].kind = "verify"
                            /\ sms[req[r].code] # None
                            /\ sms[req[r].code].user = req[r].user

UpdatesHold ==
  \A r \in Requests : IF InFlight(r) THEN UpdateOK(r) ELSE writes[r] = NoChange

IInv == TypeOK /\ LimitsHold /\ StoredCodeWasSent /\ CodeComplete /\ UpdatesHold

\* A request that is answered ok has taken effect in a version newer than the one
\* it decided on, whatever the conflicts on the way (verification_service.go:220, 435).
OkMeansWritten ==
  \A r \in Requests : req[r].pc = "done" /\ req[r].answer = "ok" =>
    \E i \in req[r].base + 1 .. Len(log[req[r].user]) :
      LET s == log[req[r].user][i] IN
        /\ s # Absent
        /\ IF req[r].kind = "verify"
           THEN "verification-required" \notin s.states
           ELSE /\ s.phone = req[r].phone
                /\ s.code # None
                /\ sms[s.code].phone = req[r].phone

\* The phone a request was about.
PhoneOf(r) == IF req[r].kind = "init" THEN req[r].phone ELSE Base(r).phone

\* A phone is refused only when it is banned or another user has been approved with
\* it: never for the user's own signup or one still waiting (verification_service.go:530-563).
RefusedPhoneWasTaken ==
  \A r \in Requests : req[r].answer = "phoneInUse" =>
    \/ PhoneOf(r) \in banned
    \/ \E v \in Users \ {req[r].user} : \E s \in Versions(v) :
         s.approval = "approved" /\ s.phone = PhoneOf(r)

\* u had no message left for the day when a request of u gave the phone ph: it is refused,
\* and the phone written all the same.
AskedAtLimit(u, ph) ==
  \E r \in Requests : /\ req[r].kind = "init" /\ req[r].user = u /\ req[r].phone = ph
                      /\ Base(r).counter = DailyLimit
                      /\ req[r].answer \in {"limit", "internal", "lost"}

\* A message goes to a phone the lookup service was asked about for that user. The one way
\* around it: the label of a request refused for the daily limit is taken for a lookup once
\* the counter has been reset (verification_service.go:108, 160, 246-249).
MessageNeedsLookup ==
  LookupMode # "disabled" =>
    \A c \in Codes : sms[c] # None /\ sms[c].phone \notin LookupExempt =>
      \/ <<sms[c].user, sms[c].phone>> \in lookups
      \/ AskedAtLimit(sms[c].user, sms[c].phone)

-----------------------------------------------------------------------------
(* What holds of requests handled one at a time on caches that do not lag. *)

Quiet(u) == \A r \in Requests : InFlight(r) => req[r].user # u

\* The counter is the number of messages sent since the timestamp, in what the
\* comment at verification_service.go:122 calls the last 24 hours.
CounterCountsMessages ==
  \A u \in Users : LET s == Latest(u) IN
    Quiet(u) /\ s # Absent /\ s.counter # None =>
      s.counter = Cardinality({c \in Codes : /\ sms[c] # None
                                            /\ sms[c].user = u
                                            /\ sms[c].at >= s.initAt})

\* No code is compared with more wrong ones than AttemptsAllowed
\* (verification_service.go:366: "more attempts than is allowed per generated
\* verification code").
AttemptsPerCode ==
  \A c \in Codes :
    Cardinality({r \in Requests : req[r].answer = "invalid" /\ Base(r).code = c}) <= AttemptsAllowed

-----------------------------------------------------------------------------
(* Action properties                                                       *)

\* A new version of u's UserSignup.
Writes(u) == Len(log'[u]) > Len(log[u]) /\ Latest(u) # Absent /\ Latest(u)' # Absent

Passes(u) ==
  /\ Writes(u)
  /\ "verification-required" \in Latest(u).states
  /\ "verification-required" \notin Latest(u)'.states
  /\ "approved" \notin Latest(u)'.states

\* A user gets through the phone verification only by entering a code that was sent
\* to that user (verification_service.go:383-400).
VerifiedByOwnCode ==
  [][\A u \in Users : Passes(u) =>
       \E r \in Requests : /\ req[r].pc = "put" /\ req[r].kind = "verify" /\ req[r].user = u
                           /\ sms[req[r].code] # None
                           /\ sms[req[r].code].user = u]_vars

\* Nothing here makes a verified user unverified again or takes a rejection back:
\* a handler that decided on an old version does not restore its states
\* (verification_service.go:191-218, 404-433).
ClearedStaysCleared ==
  [][\A u \in Users : Writes(u) =>
       /\ "verification-required" \in Latest(u)'.states => "verification-required" \in Latest(u).states
       /\ "rejected" \in Latest(u).states => "rejected" \in Latest(u)'.states]_vars

\* Once verified, a UserSignup keeps its phone and gets no new code: InitVerification
\* refuses to start (verification_service.go:92-96).
VerifiedIsSettled ==
  [][\A u \in Users : Writes(u) /\ "verification-required" \notin Latest(u).states =>
       Latest(u)'.phone = Latest(u).phone /\ Latest(u)'.code = Latest(u).code]_vars

-----------------------------------------------------------------------------
(* The abstract specification.                                             *)

Stage(s) ==
  IF s = Absent THEN "gone"
  ELSE IF "verification-required" \in s.states THEN "waiting"
  ELSE IF "approved" \in s.states THEN "approved"
  ELSE "passed"

Rejected(s) == s # Absent /\ "rejected" \in s.states

CurrentCode(s) == IF s = Absent THEN None ELSE s.code

SentTo(u) == {c \in Codes : sms[c] # None /\ sms[c].user = u}

StoredFor(u) == {c \in Codes : \E s \in Versions(u) : s.code = c}

EnteredBy(u) == {req[r].code : r \in {q \in Requests : req[q].kind = "verify" /\ req[q].user = u}}

\* What has become of u, and by what.
GateOf(u) ==
  [stage |-> Stage(Latest(u)), rejected |-> Rejected(Latest(u)), sent |-> SentTo(u),
   stored |-> StoredFor(u), current |-> CurrentCode(Latest(u)), entered |-> EnteredBy(u)]

Gate == INSTANCE PhoneGate WITH gate <- [u \in Users |-> GateOf(u)]

\* The handlers, whatever they overlap with, how often they retry and how old what they
\* decide on is, amount to the gate of PhoneGate: a user passes it by entering a code that
\* was sent to that user and stored in the UserSignup (verification_service.go:75-221, 304-435).
ImplementsGate == Gate!Spec

-----------------------------------------------------------------------------
(* Liveness                                                                *)

\* Every request is answered, though a cache that lags makes each try fail: the
\* retries are bounded (pkg/signup/signup.go:75-100).
EveryRequestAnswered ==
  \A r \in Requests : req[r].pc # "idle" ~> req[r].pc = "done"

=============================================================================
