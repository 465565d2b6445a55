---------------------------- MODULE SignupService ----------------------------
(***************************************************************************)
(* Signup and GetSignup of pkg/signup/service/signup_service.go, as        *)
(* request handlers that run concurrently on the replicas of the service.  *)
(*                                                                         *)
(* Signup reads the UserSignup from the cache of its replica, asks the     *)
(* account verifier, builds a new UserSignup and creates it, or puts it in *)
(* the place of the deactivated one, with a single write.  GetSignup reads *)
(* the UserSignup, brings its claims in line with the token under          *)
(* PollUpdateSignup, and answers by the conditions of what it holds.       *)
(***************************************************************************)
EXTENDS HostStore, FiniteSets

CONSTANTS
  MaxRequests,          \* bound: requests that arrive
  MaxInFlight,          \* bound: requests handled at the same time
  MaxTries,             \* the tries of PollUpdateSignup (5 in the code)
  VerifierMode,         \* AccountVerifierMode()
  VerificationEnabled,  \* Verification().Enabled()
  CaptchaEnabled,       \* Verification().CaptchaEnabled()
  ExcludedUsers,        \* users whose e-mail is of an excluded domain
  CrtAdmins,            \* users whose names end in crtadmin
  VerifyingEvents,      \* events whose attendees have to verify their phones
  NoEvent,              \* an activation code that names no event
  WriteErrors           \* TRUE: an API write may fail, or succeed and its answer be lost

ASSUME SignupServiceAssumption ==
  /\ MaxRequests \in Nat /\ MaxInFlight \in Nat
  /\ MaxTries \in Nat \ {0}
  /\ VerifierMode \in {"disabled", "log", "enabled"}
  /\ VerificationEnabled \in BOOLEAN /\ CaptchaEnabled \in BOOLEAN
  /\ ExcludedUsers \subseteq Users /\ CrtAdmins \subseteq Users
  /\ VerifyingEvents \subseteq Events
  /\ NoEvent \notin Opt(Events)
  /\ WriteErrors \in BOOLEAN

VARIABLES
  req,   \* req[r]: where the handler of request r is, and its local variables
  draft  \* draft[r]: the UserSignup it is about to write or has read and audited

signupVars == <<req, draft>>
vars == <<log, seen, banned, now, req, draft>>

-----------------------------------------------------------------------------
(* HTTP requests, numbered in the order of their arrival.                  *)

\* What users enter for an activation code.
EventCodes == Events \cup {NoEvent}

Requests == 1 .. MaxRequests

SignupAnswers == {"accepted", "rejected", "banned", "forbidden", "badEvent", "conflict", "internal"}

GetAnswers == {"none", "pending", "incomplete", "active", "banned", "rejected", "internal"}

Request == [pc      : {"idle", "verify", "build", "write", "read", "put", "done"},
            kind    : Opt({"signup", "get"}),
            at      : Opt(Replicas),
            user    : Opt(Users),
            token   : Opt(Claims),   \* the claims of the token; None when there is no context
            event   : Opt(EventCodes),  \* the activation code it came with
            base    : Nat,           \* version of the UserSignup the handler decides on
            verdict : Opt({"accepted", "phone", "rejected"}),  \* of the account verifier
            tries   : Nat,           \* failed updates
            answer  : Opt(SignupAnswers \cup GetAnswers)]

Idle == [pc |-> "idle", kind |-> None, at |-> None, user |-> None, token |-> None,
         event |-> None, base |-> 0, verdict |-> None, tries |-> 0, answer |-> None]

ASSUME NoneAssumption ==
  None \notin Signup \cup Claims \cup {"signup", "get"} \cup SignupAnswers \cup GetAnswers

InFlight(r) == req[r].pc \notin {"idle", "done"}

\* The version r decides on.
Base(r) == log[req[r].user][req[r].base]

Goto(r, pc) == req' = [req EXCEPT ![r].pc = pc]

Answer(r, a) == req' = [req EXCEPT ![r].pc = "done", ![r].answer = a]

Start(r, kind, p, u, t, e, pc, a) ==
  req' = [req EXCEPT ![r] = [Idle EXCEPT !.pc = pc, !.kind = kind, !.at = p, !.user = u,
                                         !.token = t, !.event = e, !.base = seen[p][u],
                                         !.answer = a]]

MayStart(r) ==
  /\ req[r].pc = "idle"
  /\ \A q \in Requests : q < r => req[q].pc # "idle"
  /\ Cardinality({q \in Requests : InFlight(q)}) < MaxInFlight

-----------------------------------------------------------------------------
(* Signup                                                                  *)

\* Mutated: the conditions are looked at before the rejection.
ByConditions(s) == s = Absent \/ s.status = "deactivated"

\* Signup creates the UserSignup, or reactivates it when its conditions say that it
\* is deactivated.
MaySignUp(s) ==
  \/ s = Absent
  \/ "rejected" \notin s.states /\ s.status = "deactivated"

\* The request arrives and the handler reads the UserSignup.
SignupStart(r, p, u, t, e) ==
  LET s == Cached(p, u)
      Begin(pc, a) == Start(r, "signup", p, u, t, e, pc, a) IN
    /\ MayStart(r)
    /\ IF MaySignUp(s) THEN Begin("verify", None)
       ELSE IF "rejected" \in s.states THEN Begin("done", "rejected")
       ELSE Begin("done", "conflict")
    /\ UNCHANGED <<storeVars, draft>>

\* verifyAccount: a failed call counts as no verdict, and so does any answer in log mode.
Verdicts == IF VerifierMode = "enabled" THEN {None, "accepted", "phone", "rejected"} ELSE {None}

SignupVerify(r) ==
  /\ req[r].pc = "verify"
  /\ \E v \in Verdicts : req' = [req EXCEPT ![r].pc = "build", ![r].verdict = v]
  /\ UNCHANGED <<storeVars, draft>>

\* IsPhoneVerificationRequired: whether it is required, and the captcha score if there
\* is one.  A score that suffices here may still be below the required one.
Assessments(u) ==
  IF ~VerificationEnabled \/ u \in ExcludedUsers THEN {<<FALSE, None>>}
  ELSE IF ~CaptchaEnabled THEN {<<TRUE, None>>}
  ELSE {<<TRUE, None>>} \cup BOOLEAN \X {"low", "ok"}

\* The states of a new UserSignup.
NewStates(verdict, required) ==
  (IF required \/ verdict = "phone" THEN {"verification-required"} ELSE {})
    \cup (IF verdict = "rejected" THEN {"rejected"} ELSE {})

NewSignup(t, verdict, assessment) ==
  [states |-> NewStates(verdict, assessment[1]), approval |-> "pending", status |-> "none",
   claims |-> t, emailHash |-> t, phone |-> None, initAt |-> None, counter |-> 0,
   attempts |-> None, code |-> None, expiry |-> None, risk |-> None, event |-> None,
   score |-> assessment[2], activated |-> None]

\* UpdateUserSignupWithSocialEvent
WithEvent(s, e) ==
  LET approve == IF e \in VerifyingEvents THEN [add |-> {}, del |-> {}] ELSE SetApprovedManually IN
    [s EXCEPT !.states = ((@ \cup approve.add) \ approve.del) \ {"deactivated"}, !.event = e]

\* Mutated: who was verified once stays verified.
ReactivatedAsVerified(old, new) ==
  [new EXCEPT !.status = old.status, !.activated = old.activated,
              !.states = (@ \ {"verification-required"}) \cup (old.states \cap @)]

\* The status and the retained annotations of the existing UserSignup, and all the rest
\* from the new one.
Reactivated(old, new) == [new EXCEPT !.status = old.status, !.activated = old.activated]

\* newUserSignup, when the events in valid may be attended, and what createUserSignup or
\* reactivateUserSignup makes of it.
SignupBuild(r, valid) ==
  LET u == req[r].user
      e == req[r].event IN
    /\ req[r].pc = "build"
    /\ IF u \in CrtAdmins THEN Answer(r, "forbidden") /\ UNCHANGED draft
       ELSE IF u \in banned THEN Answer(r, "banned") /\ UNCHANGED draft
       ELSE IF e # None /\ e \notin valid THEN Answer(r, "badEvent") /\ UNCHANGED draft
       ELSE \E a \in Assessments(u) :
              LET fresh == NewSignup(req[r].token, req[r].verdict, a)
                  new == IF e = None THEN fresh ELSE WithEvent(fresh, e) IN
                /\ Goto(r, "write")
                /\ draft' = [draft EXCEPT ![r] = IF Base(r) = Absent THEN new
                                                 ELSE Reactivated(Base(r), new)]
    /\ UNCHANGED storeVars

\* Mutated: an update without a version.
WritableAnyway(r) ==
  IF Base(r) = Absent THEN Latest(req[r].user) = Absent ELSE Latest(req[r].user) # Absent

\* Create needs the resource to be absent, Update the version that was read.
Writable(r) ==
  IF Base(r) = Absent THEN Latest(req[r].user) = Absent ELSE IsCurrent(req[r].user, req[r].base)

\* Mutated: an error of the write is only logged.
OutcomeAnyway(r) == IF req[r].verdict = "rejected" THEN "rejected" ELSE "accepted"

\* What Signup answers to its write.
Outcome(r) ==
  IF ~Writable(r) THEN "conflict"
  ELSE IF req[r].verdict = "rejected" THEN "rejected"
  ELSE "accepted"

SignupWrite(r) ==
  /\ req[r].pc = "write"
  /\ IF Writable(r) THEN NewVersion(req[r].user, draft[r]) ELSE UNCHANGED <<log, seen>>
  /\ Answer(r, Outcome(r))
  /\ UNCHANGED <<banned, now, draft>>

\* The API server fails, or writes and its answer is lost.
SignupWriteError(r) ==
  /\ WriteErrors
  /\ req[r].pc = "write"
  /\ \/ UNCHANGED <<log, seen>>
     \/ Writable(r) /\ NewVersion(req[r].user, draft[r])
  /\ Answer(r, "internal")
  /\ UNCHANGED <<banned, now, draft>>

-----------------------------------------------------------------------------
(* GetSignup                                                               *)

\* Mutated: a caller without a context is taken for one whose token has no claims.
AuditedAnyway(s, t) == [s EXCEPT !.claims = t, !.emailHash = t]

\* auditUserSignupAgainstClaims
Audited(s, t) == IF t = None THEN s ELSE [s EXCEPT !.claims = t, !.emailHash = t]

\* What the conditions of s have GetSignup answer.  It looks at completeness only for
\* callers with a context, and an active user's MasterUserRecord may be missing.
Status(s, t) ==
  IF s.status \in {"none", "pending"} THEN {"pending"}
  ELSE IF s.status = "incomplete" /\ t # None THEN {"incomplete"}
  ELSE IF s.status = "deactivated" THEN {"none"}
  ELSE IF s.status \in {"banned", "rejected"} THEN {s.status}
  ELSE {"active", "internal"}

\* The answer by the UserSignup that is held, if any.
Report(r, s) ==
  \E a \in IF s = None THEN {"none"} ELSE Status(s, req[r].token) : Answer(r, a)

GetStart(r, p, u, t) ==
  /\ MayStart(r)
  /\ Start(r, "get", p, u, t, None, "read", None)
  /\ UNCHANGED <<storeVars, draft>>

\* Mutated: what was audited before is not read again.
FetchedOnce(r) == IF draft[r] # None THEN draft[r] ELSE Cached(req[r].at, req[r].user)

\* The UserSignup a try works on.
Fetched(r) == Cached(req[r].at, req[r].user)

\* One try reads the UserSignup and audits it.  If it is not found, the one that an
\* earlier try has read is still held.
GetRead(r) ==
  LET s == Fetched(r)
      audited == Audited(s, req[r].token) IN
    /\ req[r].pc = "read"
    /\ \/ s = Absent /\ Report(r, draft[r]) /\ UNCHANGED draft
       \/ /\ s # Absent
          /\ draft' = [draft EXCEPT ![r] = audited]
          /\ IF audited = s
             THEN Report(r, s)
             ELSE req' = [req EXCEPT ![r].pc = "put", ![r].base = seen[req[r].at][req[r].user]]
    /\ UNCHANGED storeVars

\* Mutated: a failed update is tried again without end.
RetryForever(r) == Goto(r, "read")

\* PollUpdateSignup after a failed try.
Retry(r) ==
  IF req[r].tries + 1 < MaxTries
  THEN req' = [req EXCEPT ![r].pc = "read", ![r].tries = @ + 1]
  ELSE Answer(r, "internal")

GetPut(r) ==
  /\ req[r].pc = "put"
  /\ IsCurrent(req[r].user, req[r].base)
  /\ NewVersion(req[r].user, draft[r])
  /\ Report(r, draft[r])
  /\ UNCHANGED <<banned, now, draft>>

\* The resource has a newer version, or is gone.
GetConflict(r) ==
  /\ req[r].pc = "put"
  /\ ~IsCurrent(req[r].user, req[r].base)
  /\ Retry(r)
  /\ UNCHANGED <<storeVars, draft>>

\* The API server fails, or writes and its answer is lost.
GetPutError(r) ==
  /\ WriteErrors
  /\ req[r].pc = "put"
  /\ \/ UNCHANGED <<log, seen>>
     \/ IsCurrent(req[r].user, req[r].base) /\ NewVersion(req[r].user, draft[r])
  /\ Retry(r)
  /\ UNCHANGED <<banned, now, draft>>

-----------------------------------------------------------------------------

\* A UserSignup that was active once: the operator has reported that it is not any more.
Inactive(t) == [Deactivated([NewSignup(t, None, <<FALSE, None>>) EXCEPT !.activated = 1])
                  EXCEPT !.status = "deactivated"]

Init ==
  /\ log \in [Users -> {<<Absent>>} \cup {<<Inactive(t)>> : t \in Claims}]
  /\ seen = [p \in Replicas |-> [u \in Users |-> 1]]
  /\ banned = {}
  /\ now = 0
  /\ req = [r \in Requests |-> Idle]
  /\ draft = [r \in Requests |-> None]

SignupHandle(r, valid) ==
  \/ SignupVerify(r)
  \/ SignupBuild(r, valid)
  \/ SignupWrite(r)
  \/ SignupWriteError(r)

Handle(r) ==
  \/ SignupHandle(r, {})
  \/ GetRead(r)
  \/ GetPut(r)
  \/ GetConflict(r)
  \/ GetPutError(r)

Arrive(r) ==
  \E p \in Replicas, u \in Users :
    \/ \E t \in Claims : SignupStart(r, p, u, t, None)
    \/ \E t \in Opt(Claims) : GetStart(r, p, u, t)

Finished ==
  /\ \A r \in Requests : req[r].pc = "done"
  /\ UNCHANGED vars

Next ==
  \/ \E r \in Requests : Arrive(r) \/ Handle(r)
  \/ StoreNext /\ UNCHANGED signupVars
  \/ Finished

\* The goroutine of a request keeps running; nothing else is promised.
Fairness == \A r \in Requests : WF_vars(Handle(r))

Spec == Init /\ [][Next]_vars /\ Fairness

-----------------------------------------------------------------------------
(* Invariants                                                              *)

HandlerTypeOK(r) ==
  LET q == req[r] IN
    /\ q.at \in Replicas /\ q.user \in Users
    /\ q.base \in 1 .. Len(log[q.user])
    /\ q.pc # "done" => q.answer = None
    /\ q.pc \in {"verify", "build", "write"} => q.kind = "signup" /\ q.token \in Claims
    /\ q.pc \in {"read", "put"} => q.kind = "get"
    /\ q.pc = "put" => q.token \in Claims /\ Base(r) # Absent
    /\ q.pc \in {"write", "put"} => draft[r] # None

\* Every variable has its type: what handlers hold and write are UserSignups.
TypeOK ==
  /\ StoreTypeOK
  /\ req \in [Requests -> Request]
  /\ draft \in [Requests -> Opt(Signup)]
  /\ \A r \in Requests : IF req[r].pc = "idle" THEN req[r] = Idle ELSE HandlerTypeOK(r)

Versions(u) == {log[u][i] : i \in DOMAIN log[u]} \ {Absent}

\* A sign-up that was answered accepted or rejected is on record as such, however many
\* requests raced for it: a rejection in particular is never only told to the user
\* (signup_service.go:349-361).
AnswerMeansWritten ==
  \A r \in Requests : LET q == req[r] IN
    /\ q.kind = "signup" /\ q.answer = "accepted" =>
         \E i \in q.base + 1 .. Len(log[q.user]) :
           log[q.user][i] = draft[r] /\ "rejected" \notin draft[r].states
    /\ q.kind = "signup" /\ q.answer = "rejected" =>
         \E s \in Versions(q.user) : "rejected" \in s.states

\* What the handlers of sign-ups have decided on and are about to write: they write over
\* a version that may be signed up again, or none, and a rejection is in their UserSignup.
DecisionsHold ==
  \A r \in Requests :
    /\ req[r].pc \in {"verify", "build", "write"} => MaySignUp(Base(r))
    /\ req[r].pc = "write" =>
         /\ "rejected" \in draft[r].states <=> req[r].verdict = "rejected"
         /\ Base(r) # Absent => draft[r].activated = Base(r).activated

IInv == TypeOK /\ DecisionsHold /\ AnswerMeansWritten

\* A UserSignup that GetSignup tells of was stored just like that, with the claims of the
\* token: an audit that lost its write to someone else's is done again on what is there
\* (signup_service.go:439-466).
AuditTakesEffect ==
  \A r \in Requests : LET q == req[r] IN
    q.kind = "get" /\ q.answer \in {"pending", "incomplete", "active", "banned", "rejected"} =>
      /\ draft[r] \in Versions(q.user)
      /\ q.token # None => draft[r].claims = q.token /\ draft[r].emailHash = q.token

-----------------------------------------------------------------------------
(* Action properties                                                       *)

\* Request r writes its new UserSignup over the one that was there.
Overwrites(r) ==
  LET u == req[r].user IN
    /\ req[r].pc = "write" /\ req'[r].pc = "done"
    /\ log'[u] # log[u]
    /\ Latest(u) # Absent

\* Signup overwrites only what is not rejected and what the operator last reported to be
\* deactivated, though it decided on an older version, and keeps the count of the
\* activations (signup_service.go:365-385, 413-424).
OthersLeftAlone ==
  [][\A r \in Requests : Overwrites(r) =>
       LET u == req[r].user IN
         /\ "rejected" \notin Latest(u).states
         /\ Latest(u).status = "deactivated"
         /\ Latest(u)'.activated = Latest(u).activated]_vars

\* The account verifier is not called again for a user who was told of the rejection, by a
\* replica whose cache has caught up with the UserSignup
\* ("prevents repeated verifier calls on retries", signup_service.go:350 and 366).
VerifierNotAskedAgain ==
  [][\A r \in Requests : req[r].pc = "idle" /\ req'[r].pc = "verify" =>
       LET u == req'[r].user IN
         seen[req'[r].at][u] = Len(log[u]) =>
           \A q \in Requests : req[q].kind = "signup" /\ req[q].user = u =>
             req[q].answer # "rejected"]_vars

-----------------------------------------------------------------------------
(* Liveness                                                                *)

\* Every request is answered, though a cache that lags makes each try of an audit fail.
EveryRequestAnswered ==
  \A r \in Requests : req[r].pc # "idle" ~> req[r].pc = "done"

=============================================================================
